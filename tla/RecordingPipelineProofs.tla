---------------------- MODULE RecordingPipelineProofs ----------------------
(***************************************************************************)
(* Theorems about RecordingPipeline, for any limits, sizes and number of   *)
(* reconnects, recordings, payloads and failures.                          *)
(***************************************************************************)
EXTENDS RecordingPipeline, SequenceTheorems, TLAPS

-----------------------------------------------------------------------------
(* Types, as long as the writer runs.                                      *)

Status == [health : Health \cup {"none"}, file : Nat]

Cmd ==
    [op : {"payload"}, id : Ids, size : Nat, n : Nat]
    \cup [op : {"start"}, id : Ids, auto : BOOLEAN, file : Files]
    \cup [op : {"report", "stop", "disconnect", "rekey", "cleanup", "shutdown"}, id : Ids]

Event ==
    [event : {"status"}, id : Ids, health : Health]
    \cup [event : {"removed"}, id : Ids]
    \cup [event : {"reply"}, kind : {"start", "stop"}, id : Ids, ok : BOOLEAN]

State == {NoState} \cup [file : Nat, health : Health, early : Seq(Nat)]

Publisher ==
    [sent : [Ids -> Status], mailbox : [Ids \X Health -> Status], events : Seq(Event)]

DesktopState ==
    [cur : Ids, stage : {"registering", "live", "closed", "quit"}, disconnected : BOOLEAN,
     busy : [Ids -> BOOLEAN], shown : [Ids -> Status], job : 0..MaxIds]

Working ==
    [stage : {"payload", "start", "stop", "report", "rekey"}, cmd : Cmd, id : Ids, ok : BOOLEAN]

Counters == [starts : 0..MaxStarts, offered : Nat, accepted : Nat, faults : Nat]

Recordings == [Files -> [from : Nat, content : Seq(Nat)]]

Typed ==
    /\ ui \in DesktopState /\ ui.job <= ui.cur
    /\ channel \in Seq(Cmd)
    /\ producer \in {Idle} \cup [stage : {"enqueue", "report"}, id : 1..ui.cur, size : Nat]
    /\ dropped \in [Ids -> [bytes : Nat, pending : BOOLEAN]]
    /\ writer \in {Idle} \cup Working
    /\ writer # Idle => writer.cmd.op = writer.stage
    /\ writer.stage = "rekey" => writer.cmd.id < ui.cur
    /\ rekeyed \in [Ids -> {"no", "moved", "gone"}]
    /\ manager \in [Ids -> State]
    /\ out \in Publisher
    /\ lost \in SUBSET Files

-----------------------------------------------------------------------------
(* The commands in a channel ch.                                           *)

Places(ch, op) == {a \in 1..Len(ch) : ch[a].op = op}

\* The session has the id w for the writer and cur for the desktop; the rekeys
\* in between are on their way, each before the commands of later ids.
Ordered(ch, w, cur) ==
    /\ \A a \in 1..Len(ch) : ch[a].id <= cur
    /\ \A a \in Places(ch, "rekey") : w <= ch[a].id /\ ch[a].id < cur
    /\ \A a \in 1..Len(ch) : \A r \in w..ch[a].id - 1 :
          \E b \in Places(ch, "rekey") : b < a /\ ch[b].id = r
    /\ \A a, b \in Places(ch, "rekey") : a < b => ch[a].id < ch[b].id
    /\ \A r \in w..cur - 1 : \E b \in Places(ch, "rekey") : ch[b].id = r

\* The payloads on their way are those from number n to the last one accepted.
Numbered(ch, n, accepted) ==
    /\ n <= accepted + 1
    /\ \A a \in Places(ch, "payload") : n <= ch[a].n /\ ch[a].n <= accepted
    /\ \A a, b \in Places(ch, "payload") : a < b => ch[a].n < ch[b].n
    /\ \A k \in n..accepted : \E a \in Places(ch, "payload") : ch[a].n = k

\* A request to start is between the payloads accepted before and after it, and
\* its file is empty.
Requested(ch, n, accepted, fs) ==
    /\ \A a \in Places(ch, "start") :
          LET f == fs[ch[a].file]
          IN  /\ n <= f.from /\ f.from <= accepted + 1 /\ f.content = <<>>
              /\ \A b \in Places(ch, "payload") :
                    IF b < a THEN ch[b].n < f.from ELSE f.from <= ch[b].n
    /\ \A a, b \in Places(ch, "start") : a < b => ch[a].file < ch[b].file

\* The files of the requests in a channel are later than those in fs.
After(ch, f) == \A a \in Places(ch, "start") : f < ch[a].file

-----------------------------------------------------------------------------
(* The inductive invariant.                                                *)

\* The writer's id w: earlier ids lead to it, later ones are unknown, and what is
\* recorded is recorded under it.
AtId(w) ==
    /\ w <= ui.cur
    /\ \A i \in Ids : /\ i < w => rekeyed[i] = "moved"
                      /\ w <= i => rekeyed[i] # "moved"
                      /\ w < i => rekeyed[i] = "no" /\ manager[i] = NoState
                      /\ IsRecording(manager, i) => i = w /\ rekeyed[i] = "no"
    /\ Ordered(channel, w, ui.cur)

\* The next payload to write is n.
AtPayload(n) ==
    /\ Numbered(channel, n, used.accepted)
    /\ Requested(channel, n, used.accepted, files)
    /\ \A i \in Ids : Accepts(manager[i]) =>
          files[manager[i].file].from + Len(files[manager[i].file].content) = n

FreshFiles ==
    /\ \A a \in Places(channel, "start") : channel[a].file <= used.starts
    /\ \A i \in Ids : manager[i].file <= used.starts /\ After(channel, manager[i].file)
    /\ \A f \in lost : f <= used.starts /\ After(channel, f)

\* report_dropped_payload coalesces with a report on its way only.
PendingReported ==
    \A i \in Ids : dropped[i].pending => \E a \in Places(channel, "report") : channel[a].id = i

\* The writer is about to take back the status of id.
Leaving(id) ==
    \/ writer.stage = "stop" /\ writer.id = id
    \/ writer.stage = "rekey" /\ writer.cmd.id = id

Recorded(id) == StatusOf(manager, id).file

\* A status that waits is of the file being recorded.
StatusesFresh ==
    \A id \in Ids : \/ \A h \in Health : out.mailbox[<<id, h>>].file \in {0, Recorded(id)}
                    \/ Leaving(id)

RemovalComes(events, id) ==
    \E a \in 1..Len(events) : events[a].event = "removed" /\ events[a].id = id

\* A status shown is of the file being recorded, or about to be removed.
ShownFresh ==
    \A id \in Ids : \/ ui.shown[id].file \in {0, Recorded(id)}
                    \/ Leaving(id) \/ RemovalComes(out.events, id)

\* What holds after the writer has ended, too.
Base ==
    /\ used \in Counters /\ files \in Recordings
    /\ \A f \in Files : used.starts < f => files[f].content = <<>>
    /\ RecordedWithoutHole
    /\ Alive \/ \A i \in Ids : ~IsRecording(manager, i)

Running ==
    /\ Typed
    /\ \E w \in Ids : AtId(w)
    /\ \E n \in 1..used.accepted + 1 : AtPayload(n)
    /\ FreshFiles
    /\ PendingReported
    /\ StatusesFresh /\ ShownFresh
    /\ RunningGapsShown

Inv == Base /\ (Alive => Running)

-----------------------------------------------------------------------------
(* A command is sent, or taken.                                            *)

LEMMA Sent ==
    ASSUME NEW ch \in Seq(Cmd), NEW c \in Cmd
    PROVE  /\ Append(ch, c) \in Seq(Cmd) /\ Len(ch) \in Nat
           /\ Len(Append(ch, c)) = Len(ch) + 1
           /\ Append(ch, c)[Len(ch) + 1] = c
           /\ \A a \in 1..Len(ch) : Append(ch, c)[a] = ch[a]
           /\ \A op : \A a : a \in Places(Append(ch, c), op) <=>
                 a \in Places(ch, op) \/ (a = Len(ch) + 1 /\ c.op = op)
  <1> DEFINE d == Append(ch, c)
             n == Len(ch)
  <1>1. /\ d \in Seq(Cmd) /\ n \in Nat /\ Len(d) = n + 1 /\ d[n + 1] = c
        /\ \A a \in 1..n : d[a] = ch[a]
    BY AppendProperties, LenProperties
  <1> HIDE DEF d, n
  <1>2. ASSUME NEW op, NEW a
        PROVE  a \in Places(d, op) <=> a \in Places(ch, op) \/ (a = n + 1 /\ c.op = op)
    <2>1. a \in 1..n + 1 <=> a \in 1..n \/ a = n + 1
      BY <1>1
    <2>2. n + 1 \notin 1..n
      BY <1>1
    <2>3. a \in Places(d, op) <=> a \in 1..n + 1 /\ d[a].op = op
      BY <1>1 DEF Places
    <2>4. a \in Places(ch, op) <=> a \in 1..n /\ ch[a].op = op
      BY DEF Places, n
    <2> QED BY <1>1, <2>1, <2>2, <2>3, <2>4
  <1> QED BY <1>1, <1>2 DEF d, n

LEMMA Taken1 ==
    ASSUME NEW ch \in Seq(Cmd), ch # <<>>
    PROVE  /\ Tail(ch) \in Seq(Cmd) /\ Head(ch) \in Cmd /\ Head(ch) = ch[1]
           /\ Len(ch) \in Nat /\ Len(ch) >= 1 /\ Len(Tail(ch)) = Len(ch) - 1
           /\ \A a \in 1..Len(ch) - 1 : a + 1 \in 2..Len(ch) /\ Tail(ch)[a] = ch[a + 1]
           /\ \A op : \A a \in Places(Tail(ch), op) :
                 a + 1 \in Places(ch, op) /\ Tail(ch)[a] = ch[a + 1] /\ a \in 1..Len(ch) - 1
           /\ \A op : \A a \in Places(ch, op) :
                 a # 1 => a - 1 \in Places(Tail(ch), op) /\ Tail(ch)[a - 1] = ch[a]
           /\ \A op : 1 \in Places(ch, op) <=> ch[1].op = op
  <1> DEFINE t == Tail(ch)
             n == Len(ch)
  <1>1. /\ t \in Seq(Cmd) /\ Head(ch) \in Cmd /\ Head(ch) = ch[1] /\ n \in Nat /\ n >= 1
        /\ Len(t) = n - 1 /\ \A a \in 1..n - 1 : t[a] = ch[a + 1]
    BY HeadTailProperties, LenProperties, EmptySeq
  <1> HIDE DEF t, n
  <1>2. \A a \in 1..n - 1 : a + 1 \in 2..n
    BY <1>1
  <1>3. \A a \in 2..n : a - 1 \in 1..n - 1 /\ (a - 1) + 1 = a
    BY <1>1
  <1>4. ASSUME NEW op, NEW a \in Places(t, op)
        PROVE  a + 1 \in Places(ch, op) /\ t[a] = ch[a + 1] /\ a \in 1..n - 1
    <2>1. a \in 1..n - 1 /\ t[a].op = op
      BY <1>1 DEF Places
    <2>2. t[a] = ch[a + 1] /\ a + 1 \in 1..n
      BY <1>1, <2>1
    <2> QED BY <2>1, <2>2 DEF Places, n
  <1>5. ASSUME NEW op, NEW a \in Places(ch, op), a # 1
        PROVE  a - 1 \in Places(t, op) /\ t[a - 1] = ch[a]
    <2>1. a \in 1..n /\ ch[a].op = op
      BY DEF Places, n
    <2>2. a \in 2..n
      BY <1>1, <1>5, <2>1
    <2>3. t[a - 1] = ch[a] /\ a - 1 \in 1..Len(t)
      BY <1>1, <1>3, <2>2
    <2> QED BY <2>1, <2>3 DEF Places
  <1>6. \A op : 1 \in Places(ch, op) <=> ch[1].op = op
    BY <1>1 DEF Places, n
  <1> QED BY <1>1, <1>2, <1>4, <1>5, <1>6 DEF t, n

LEMMA CmdId == ASSUME NEW c \in Cmd PROVE c.id \in Ids
  BY DEF Cmd

LEMMA IdNat == Ids \subseteq Nat \ {0} /\ Files \subseteq Nat \ {0}
  BY PipelineConstants DEF Ids, Files

LEMMA OrderedSent ==
    ASSUME NEW ch \in Seq(Cmd), NEW c \in Cmd, c.op # "rekey", NEW w \in Nat, NEW cur \in Nat,
           c.id <= cur, Ordered(ch, w, cur)
    PROVE  Ordered(Append(ch, c), w, cur)
  <1> DEFINE d == Append(ch, c)
             n == Len(ch)
  <1>1. /\ n \in Nat /\ Len(d) = n + 1 /\ d[n + 1] = c /\ \A a \in 1..n : d[a] = ch[a]
    BY Sent
  <1>2. \A a : a \in Places(d, "rekey") <=> a \in Places(ch, "rekey")
    BY Sent
  <1>3. \A a \in Places(ch, "rekey") : a \in 1..n /\ ch[a].op = "rekey"
    BY DEF Places
  <1>4. c.id \in Nat
    BY CmdId, IdNat
  <1> HIDE DEF d, n
  <1>5. \A a \in 1..n + 1 : d[a].id <= cur
    <2>1. \A a \in 1..n : ch[a].id <= cur
      BY DEF Ordered, n
    <2> QED BY <1>1, <2>1
  <1>6. \A a \in Places(d, "rekey") : d[a] = ch[a] /\ w <= ch[a].id /\ ch[a].id < cur
    BY <1>1, <1>2, <1>3 DEF Ordered
  <1>7. ASSUME NEW a \in 1..n + 1, NEW r \in w..d[a].id - 1
        PROVE  \E b \in Places(d, "rekey") : b < a /\ d[b].id = r
    <2>1. CASE a \in 1..n
      <3>1. PICK b \in Places(ch, "rekey") : b < a /\ ch[b].id = r
        BY <1>1, <2>1 DEF Ordered, n
      <3> QED BY <1>1, <1>2, <1>3, <3>1
    <2>2. CASE a = n + 1
      <3>1. r \in w..cur - 1
        BY <1>1, <1>4, <2>2
      <3>2. PICK b \in Places(ch, "rekey") : ch[b].id = r
        BY <3>1 DEF Ordered
      <3> QED BY <1>1, <1>2, <1>3, <2>2, <3>2
    <2> QED BY <1>1, <2>1, <2>2
  <1>8. \A a, b \in Places(d, "rekey") : a < b => d[a].id < d[b].id
    BY <1>2, <1>6 DEF Ordered
  <1>9. \A r \in w..cur - 1 : \E b \in Places(d, "rekey") : d[b].id = r
    BY <1>2, <1>6 DEF Ordered
  <1>10. Ordered(d, w, cur)
    BY <1>1, <1>5, <1>6, <1>7, <1>8, <1>9 DEF Ordered
  <1> QED BY <1>10 DEF d

LEMMA OrderedRekey ==
    ASSUME NEW ch \in Seq(Cmd), NEW c \in Cmd, c.op = "rekey", NEW w \in Nat, NEW cur \in Nat,
           c.id = cur, w <= cur, Ordered(ch, w, cur)
    PROVE  Ordered(Append(ch, c), w, cur + 1)
  <1> DEFINE d == Append(ch, c)
             n == Len(ch)
  <1>1. /\ n \in Nat /\ Len(d) = n + 1 /\ d[n + 1] = c /\ \A a \in 1..n : d[a] = ch[a]
    BY Sent
  <1>2. \A a : a \in Places(d, "rekey") <=> a \in Places(ch, "rekey") \/ a = n + 1
    BY Sent
  <1>3. \A a \in Places(ch, "rekey") : a \in 1..n /\ ch[a].op = "rekey" /\ a < n + 1
    BY <1>1 DEF Places
  <1>4. ch \in [1..n -> Cmd]
    BY LenProperties
  <1>5. \A a \in 1..n : ch[a].id \in Nat /\ ch[a].id <= cur
    BY <1>4, CmdId, IdNat DEF Ordered
  <1> HIDE DEF d, n
  <1>6. \A a \in 1..n + 1 : d[a].id <= cur + 1
    BY <1>1, <1>5
  <1>7. \A a \in Places(ch, "rekey") : d[a] = ch[a] /\ w <= ch[a].id /\ ch[a].id < cur
    BY <1>1, <1>3 DEF Ordered
  <1>8. \A a \in Places(d, "rekey") : w <= d[a].id /\ d[a].id < cur + 1
    BY <1>1, <1>2, <1>3, <1>5, <1>7
  <1>9. ASSUME NEW a \in 1..n + 1, NEW r \in w..d[a].id - 1
        PROVE  \E b \in Places(d, "rekey") : b < a /\ d[b].id = r
    <2>1. CASE a \in 1..n
      <3>1. PICK b \in Places(ch, "rekey") : b < a /\ ch[b].id = r
        BY <1>1, <2>1 DEF Ordered, n
      <3> QED BY <1>2, <1>7, <3>1
    <2>2. CASE a = n + 1
      <3>1. r \in w..cur - 1
        BY <1>1, <2>2
      <3>2. PICK b \in Places(ch, "rekey") : ch[b].id = r
        BY <3>1 DEF Ordered
      <3> QED BY <1>2, <1>3, <1>7, <2>2, <3>2
    <2> QED BY <1>1, <2>1, <2>2
  <1>10. ASSUME NEW a \in Places(d, "rekey"), NEW b \in Places(d, "rekey"), a < b
         PROVE  d[a].id < d[b].id
    <2>1. CASE b = n + 1
      <3>1. a \in Places(ch, "rekey")
        BY <1>1, <1>2, <1>10, <2>1
      <3> QED BY <1>1, <1>7, <2>1, <3>1
    <2>2. CASE b # n + 1
      <3>1. a \in Places(ch, "rekey") /\ b \in Places(ch, "rekey")
        BY <1>1, <1>2, <1>3, <1>10, <2>2
      <3>2. ch[a].id < ch[b].id
        BY <1>10, <3>1 DEF Ordered
      <3> QED BY <1>7, <3>1, <3>2
    <2> QED BY <2>1, <2>2
  <1>11. ASSUME NEW r \in w..(cur + 1) - 1
         PROVE  \E b \in Places(d, "rekey") : d[b].id = r
    <2>1. CASE r = cur
      BY <1>1, <1>2, <2>1
    <2>2. CASE r \in w..cur - 1
      <3>1. PICK b \in Places(ch, "rekey") : ch[b].id = r
        BY <2>2 DEF Ordered
      <3> QED BY <1>2, <1>7, <3>1
    <2> QED BY <2>1, <2>2
  <1>12. Ordered(d, w, cur + 1)
    BY <1>1, <1>6, <1>8, <1>9, <1>10, <1>11 DEF Ordered
  <1> QED BY <1>12 DEF d

\* A command that is taken is of the writer's id or an earlier one; a rekey is of
\* the writer's id, and the next id follows.
LEMMA OrderedTaken ==
    ASSUME NEW ch \in Seq(Cmd), ch # <<>>, NEW w \in Nat, NEW cur \in Nat, Ordered(ch, w, cur)
    PROVE  /\ Head(ch).id <= w /\ Head(ch).id <= cur
           /\ Head(ch).op # "rekey" => Ordered(Tail(ch), w, cur)
           /\ Head(ch).op = "rekey" =>
                 Head(ch).id = w /\ w < cur /\ Ordered(Tail(ch), w + 1, cur)
  <1> DEFINE t == Tail(ch)
             n == Len(ch)
             h == Head(ch)
             v == IF h.op = "rekey" THEN w + 1 ELSE w
  <1>1. /\ t \in Seq(Cmd) /\ h \in Cmd /\ h = ch[1] /\ n \in Nat /\ n >= 1 /\ Len(t) = n - 1
        /\ \A a \in 1..n - 1 : a + 1 \in 2..n /\ t[a] = ch[a + 1]
    BY Taken1
  <1>2. \A a \in Places(t, "rekey") :
            a + 1 \in Places(ch, "rekey") /\ t[a] = ch[a + 1] /\ a \in 1..n - 1
    BY Taken1
  <1>3. \A a \in Places(ch, "rekey") : a # 1 => a - 1 \in Places(t, "rekey") /\ t[a - 1] = ch[a]
    BY Taken1
  <1>4. 1 \in Places(ch, "rekey") <=> h.op = "rekey"
    BY <1>1, Taken1
  <1>5. \A a \in Places(ch, "rekey") : a \in 1..n
    BY DEF Places
  <1>6. h.id \in Nat /\ \A a \in 1..n : ch[a].id \in Nat
    BY <1>1, LenProperties, CmdId, IdNat, ZenonT(30)
  <1> HIDE DEF t, n, h
  <1>7. h.id <= w
    <2> SUFFICES ASSUME ~(h.id <= w) PROVE FALSE
      OBVIOUS
    <2>1. w \in w..ch[1].id - 1 /\ 1 \in 1..n
      BY <1>1, <1>6
    <2>2. PICK b \in Places(ch, "rekey") : b < 1
      BY <2>1 DEF Ordered, n
    <2> QED BY <1>1, <1>5, <2>2
  <1>8. h.id <= cur
    BY <1>1 DEF Ordered, n
  <1>9. h.op = "rekey" => h.id = w /\ w < cur
    <2>1. h.op = "rekey" => w <= h.id /\ h.id < cur
      BY <1>1, <1>4 DEF Ordered
    <2> QED BY <1>6, <1>7, <2>1
  <1>10. \A a \in Places(t, "rekey") : v <= t[a].id /\ t[a].id < cur
    <2> TAKE a \in Places(t, "rekey")
    <2>1. a + 1 \in Places(ch, "rekey") /\ t[a] = ch[a + 1] /\ a \in 1..n - 1 /\ a + 1 \in 1..n
      BY <1>1, <1>2
    <2>2. w <= ch[a + 1].id /\ ch[a + 1].id < cur /\ ch[a + 1].id \in Nat
      BY <1>6, <2>1 DEF Ordered
    <2>3. h.op = "rekey" => ch[1].id < ch[a + 1].id
      <3>1. 1 < a + 1
        BY <1>1, <2>1
      <3> QED BY <1>4, <2>1, <3>1 DEF Ordered
    <2> QED BY <1>1, <1>9, <2>1, <2>2, <2>3, SMTT(30)
  <1>11. \A a \in 1..n - 1 : t[a].id <= cur
    <2>1. \A a \in 1..n : ch[a].id <= cur
      BY DEF Ordered, n
    <2> QED BY <1>1, <2>1
  <1>12. ASSUME NEW a \in 1..n - 1, NEW r \in v..t[a].id - 1
         PROVE  \E b \in Places(t, "rekey") : b < a /\ t[b].id = r
    <2>1. a + 1 \in 1..n /\ t[a] = ch[a + 1]
      BY <1>1
    <2>2. r \in w..ch[a + 1].id - 1
      BY <1>6, <2>1
    <2>3. PICK b \in Places(ch, "rekey") : b < a + 1 /\ ch[b].id = r
      BY <2>1, <2>2 DEF Ordered, n
    <2>4. b # 1
      <3> SUFFICES ASSUME b = 1 PROVE FALSE
        OBVIOUS
      <3>1. h.op = "rekey" /\ r = w
        BY <1>1, <1>4, <1>9, <2>3
      <3> QED BY <3>1
    <2>5. b - 1 \in Places(t, "rekey") /\ t[b - 1] = ch[b] /\ b - 1 < a
      BY <1>1, <1>3, <1>5, <2>3, <2>4
    <2> QED BY <2>3, <2>5
  <1>13. ASSUME NEW a \in Places(t, "rekey"), NEW b \in Places(t, "rekey"), a < b
         PROVE  t[a].id < t[b].id
    <2>1. /\ a + 1 \in Places(ch, "rekey") /\ t[a] = ch[a + 1] /\ a \in 1..n - 1
          /\ b + 1 \in Places(ch, "rekey") /\ t[b] = ch[b + 1] /\ b \in 1..n - 1
      BY <1>2
    <2>2. a + 1 < b + 1
      BY <1>1, <1>13, <2>1
    <2> QED BY <2>1, <2>2 DEF Ordered
  <1>14. ASSUME NEW r \in v..cur - 1
         PROVE  \E b \in Places(t, "rekey") : t[b].id = r
    <2>1. r \in w..cur - 1
      OBVIOUS
    <2>2. PICK b \in Places(ch, "rekey") : ch[b].id = r
      BY <2>1 DEF Ordered
    <2>3. b # 1
      <3> SUFFICES ASSUME b = 1 PROVE FALSE
        OBVIOUS
      <3>1. h.op = "rekey" /\ r = w
        BY <1>1, <1>4, <1>9, <2>2
      <3> QED BY <3>1
    <2> QED BY <1>3, <2>2, <2>3
  <1> HIDE DEF v
  <1>15. Ordered(t, v, cur)
    BY <1>1, <1>10, <1>11, <1>12, <1>13, <1>14 DEF Ordered
  <1> QED BY <1>7, <1>8, <1>9, <1>15 DEF t, h, v

\* A payload number is a natural number, a place a position.
LEMMA PlaceTyped ==
    ASSUME NEW ch \in Seq(Cmd)
    PROVE  /\ \A op : \A a \in Places(ch, op) : a \in 1..Len(ch) /\ ch[a].op = op
           /\ \A a \in Places(ch, "payload") : ch[a].n \in Nat
           /\ \A a \in Places(ch, "start") : ch[a].file \in Files
           /\ Len(ch) \in Nat
  <1>1. ch \in [1..Len(ch) -> Cmd] /\ Len(ch) \in Nat
    BY LenProperties
  <1>2. \A op : \A a \in Places(ch, op) : a \in 1..Len(ch) /\ ch[a].op = op /\ ch[a] \in Cmd
    BY <1>1 DEF Places
  <1>3. \A a \in Places(ch, "payload") : ch[a].n \in Nat
    BY <1>2 DEF Cmd
  <1>4. \A a \in Places(ch, "start") : ch[a].file \in Files
    BY <1>2 DEF Cmd
  <1> QED BY <1>1, <1>2, <1>3, <1>4

LEMMA NumberedSent ==
    ASSUME NEW ch \in Seq(Cmd), NEW c \in Cmd, c.op # "payload", NEW n \in Nat, NEW k \in Nat,
           Numbered(ch, n, k)
    PROVE  Numbered(Append(ch, c), n, k)
  <1> DEFINE d == Append(ch, c)
  <1>1. \A a : a \in Places(d, "payload") <=> a \in Places(ch, "payload")
    BY Sent
  <1>2. \A a \in Places(ch, "payload") : d[a] = ch[a]
    BY Sent, PlaceTyped
  <1> HIDE DEF d
  <1>3. Numbered(d, n, k)
    BY <1>1, <1>2 DEF Numbered
  <1> QED BY <1>3 DEF d

LEMMA NumberedPayload ==
    ASSUME NEW ch \in Seq(Cmd), NEW c \in Cmd, c.op = "payload", NEW n \in Nat, NEW k \in Nat,
           c.n = k + 1, Numbered(ch, n, k)
    PROVE  Numbered(Append(ch, c), n, k + 1)
  <1> DEFINE d == Append(ch, c)
             l == Len(ch) + 1
  <1>1. \A a : a \in Places(d, "payload") <=> a \in Places(ch, "payload") \/ a = l
    BY Sent
  <1>2. \A a \in Places(ch, "payload") :
            d[a] = ch[a] /\ ch[a].n \in Nat /\ a \in Nat /\ a < l /\ l \in Nat
    BY Sent, PlaceTyped
  <1>3. d[l] = c /\ l \in Nat
    BY Sent
  <1> HIDE DEF d, l
  <1>4. n <= k + 1 /\ \A a \in Places(ch, "payload") : n <= ch[a].n /\ ch[a].n <= k
    BY DEF Numbered
  <1>5. \A a \in Places(d, "payload") : n <= d[a].n /\ d[a].n <= k + 1
    BY <1>1, <1>2, <1>3, <1>4
  <1>6. ASSUME NEW a \in Places(d, "payload"), NEW b \in Places(d, "payload"), a < b
        PROVE  d[a].n < d[b].n
    <2>1. CASE b = l
      <3>1. a \in Places(ch, "payload")
        BY <1>1, <1>3, <1>6, <2>1
      <3>2. d[a] = ch[a] /\ ch[a].n \in Nat /\ ch[a].n <= k
        BY <1>2, <1>4, <3>1
      <3>3. d[b].n = k + 1
        BY <1>3, <2>1
      <3> QED BY <3>2, <3>3
    <2>2. CASE b # l
      <3>1. b \in Places(ch, "payload") /\ a \in Places(ch, "payload")
        BY <1>1, <1>2, <1>6, <2>2
      <3> QED BY <1>2, <1>6, <3>1 DEF Numbered
    <2> QED BY <2>1, <2>2
  <1>7. ASSUME NEW i \in n..k + 1 PROVE \E a \in Places(d, "payload") : d[a].n = i
    <2>1. CASE i = k + 1
      BY <1>1, <1>3, <2>1
    <2>2. CASE i \in n..k
      <3>1. PICK a \in Places(ch, "payload") : ch[a].n = i
        BY <2>2 DEF Numbered
      <3> QED BY <1>1, <1>2, <3>1
    <2> QED BY <2>1, <2>2
  <1>8. Numbered(d, n, k + 1)
    BY <1>4, <1>5, <1>6, <1>7 DEF Numbered
  <1> QED BY <1>8 DEF d

\* The payload taken is the next one.
LEMMA NumberedTaken ==
    ASSUME NEW ch \in Seq(Cmd), ch # <<>>, NEW n \in Nat, NEW k \in Nat, Numbered(ch, n, k)
    PROVE  /\ Head(ch).op # "payload" => Numbered(Tail(ch), n, k)
           /\ Head(ch).op = "payload" =>
                 Head(ch).n = n /\ n <= k /\ Numbered(Tail(ch), n + 1, k)
  <1> DEFINE t == Tail(ch)
             h == Head(ch)
             v == IF h.op = "payload" THEN n + 1 ELSE n
  <1>1. h = ch[1] /\ (1 \in Places(ch, "payload") <=> h.op = "payload")
    BY Taken1
  <1>2. \A a \in Places(t, "payload") :
            a + 1 \in Places(ch, "payload") /\ t[a] = ch[a + 1] /\ a \in 1..Len(ch) - 1
    BY Taken1
  <1>3. \A a \in Places(ch, "payload") :
            /\ a # 1 => a - 1 \in Places(t, "payload") /\ t[a - 1] = ch[a]
            /\ a \in Nat /\ a >= 1 /\ ch[a].n \in Nat
    BY Taken1, PlaceTyped
  <1>4. n <= k + 1 /\ \A a \in Places(ch, "payload") : n <= ch[a].n /\ ch[a].n <= k
    BY DEF Numbered
  <1>5. h.op = "payload" => h.n = n /\ n <= k
    <2> SUFFICES ASSUME h.op = "payload" PROVE h.n = n /\ n <= k
      OBVIOUS
    <2>1. n <= h.n /\ h.n <= k /\ h.n \in Nat
      BY <1>1, <1>3, <1>4
    <2>2. n \in n..k
      BY <2>1
    <2>3. PICK a \in Places(ch, "payload") : ch[a].n = n
      BY <2>2 DEF Numbered
    <2>4. CASE a = 1
      BY <1>1, <2>1, <2>3, <2>4
    <2>5. CASE a # 1
      <3>1. 1 < a
        BY <1>3, <2>3, <2>5
      <3>2. ch[1].n < ch[a].n
        BY <1>1, <2>3, <3>1 DEF Numbered
      <3> QED BY <1>1, <2>1, <2>3, <3>2
    <2> QED BY <2>4, <2>5
  <1> HIDE DEF t, h
  <1>6. v <= k + 1 /\ v \in Nat
    BY <1>4, <1>5
  <1>7. \A a \in Places(t, "payload") : v <= t[a].n /\ t[a].n <= k
    <2> TAKE a \in Places(t, "payload")
    <2>1. a + 1 \in Places(ch, "payload") /\ t[a] = ch[a + 1] /\ a \in 1..Len(ch) - 1
      BY <1>2
    <2>2. n <= ch[a + 1].n /\ ch[a + 1].n <= k /\ ch[a + 1].n \in Nat
      BY <1>3, <1>4, <2>1
    <2>3. h.op = "payload" => ch[1].n < ch[a + 1].n
      <3>1. 1 < a + 1
        BY <2>1
      <3> QED BY <1>1, <2>1, <3>1 DEF Numbered
    <2> QED BY <1>1, <1>5, <2>1, <2>2, <2>3
  <1>8. ASSUME NEW a \in Places(t, "payload"), NEW b \in Places(t, "payload"), a < b
        PROVE  t[a].n < t[b].n
    <2>1. /\ a + 1 \in Places(ch, "payload") /\ t[a] = ch[a + 1] /\ a \in 1..Len(ch) - 1
          /\ b + 1 \in Places(ch, "payload") /\ t[b] = ch[b + 1] /\ b \in 1..Len(ch) - 1
      BY <1>2
    <2>2. a + 1 < b + 1
      BY <1>8, <2>1
    <2> QED BY <2>1, <2>2 DEF Numbered
  <1>9. ASSUME NEW i \in v..k PROVE \E a \in Places(t, "payload") : t[a].n = i
    <2>1. i \in n..k
      BY <1>6
    <2>2. PICK a \in Places(ch, "payload") : ch[a].n = i
      BY <2>1 DEF Numbered
    <2>3. a # 1
      <3> SUFFICES ASSUME a = 1 PROVE FALSE
        OBVIOUS
      <3>1. h.op = "payload" /\ i = n
        BY <1>1, <1>5, <2>2
      <3> QED BY <3>1
    <2> QED BY <1>3, <2>2, <2>3
  <1> HIDE DEF v
  <1>10. Numbered(t, v, k)
    BY <1>6, <1>7, <1>8, <1>9 DEF Numbered
  <1> QED BY <1>5, <1>10 DEF t, h, v

LEMMA RequestedSent ==
    ASSUME NEW ch \in Seq(Cmd), NEW c \in Cmd, c.op \notin {"payload", "start"}, NEW n \in Nat,
           NEW k \in Nat, NEW fs, Requested(ch, n, k, fs)
    PROVE  Requested(Append(ch, c), n, k, fs)
  <1> DEFINE d == Append(ch, c)
  <1>1. /\ \A a : a \in Places(d, "payload") <=> a \in Places(ch, "payload")
        /\ \A a : a \in Places(d, "start") <=> a \in Places(ch, "start")
    BY Sent
  <1>2. /\ \A a \in Places(ch, "payload") : d[a] = ch[a]
        /\ \A a \in Places(ch, "start") : d[a] = ch[a]
    BY Sent, PlaceTyped
  <1> HIDE DEF d
  <1>3. Requested(d, n, k, fs)
    BY <1>1, <1>2 DEF Requested
  <1> QED BY <1>3 DEF d

LEMMA RequestedPayload ==
    ASSUME NEW ch \in Seq(Cmd), NEW c \in Cmd, c.op = "payload", NEW n \in Nat,
           NEW k \in Nat, c.n = k + 1, NEW fs \in Recordings, Requested(ch, n, k, fs)
    PROVE  Requested(Append(ch, c), n, k + 1, fs)
  <1> DEFINE d == Append(ch, c)
             l == Len(ch) + 1
  <1>1. /\ \A a : a \in Places(d, "payload") <=> a \in Places(ch, "payload") \/ a = l
        /\ \A a : a \in Places(d, "start") <=> a \in Places(ch, "start")
    BY Sent
  <1>2. /\ \A a \in Places(ch, "payload") : d[a] = ch[a]
        /\ \A a \in Places(ch, "start") : d[a] = ch[a] /\ ch[a].file \in Files /\ a \in Nat /\ a < l
        /\ d[l] = c /\ l \in Nat
    BY Sent, PlaceTyped
  <1> HIDE DEF d, l
  <1>3. ASSUME NEW a \in Places(d, "start")
        PROVE  LET f == fs[d[a].file]
               IN  /\ n <= f.from /\ f.from <= k + 1 + 1 /\ f.content = <<>>
                   /\ \A b \in Places(d, "payload") :
                         IF b < a THEN d[b].n < f.from ELSE f.from <= d[b].n
    <2> DEFINE f == fs[d[a].file]
    <2>1. a \in Places(ch, "start") /\ d[a] = ch[a] /\ f.from \in Nat /\ a \in Nat /\ a < l
      BY <1>1, <1>2 DEF Recordings
    <2>2. /\ n <= f.from /\ f.from <= k + 1 /\ f.content = <<>>
          /\ \A b \in Places(ch, "payload") :
                IF b < a THEN ch[b].n < f.from ELSE f.from <= ch[b].n
      BY <2>1 DEF Requested
    <2> HIDE DEF f
    <2>3. \A b \in Places(d, "payload") : IF b < a THEN d[b].n < f.from ELSE f.from <= d[b].n
      <3> TAKE b \in Places(d, "payload")
      <3>1. CASE b = l
        BY <1>2, <2>1, <2>2, <3>1
      <3>2. CASE b # l
        BY <1>1, <1>2, <2>2, <3>2
      <3> QED BY <3>1, <3>2
    <2>4. f.from <= k + 1 + 1
      BY <2>1, <2>2
    <2> QED BY <2>2, <2>3, <2>4 DEF f
  <1>4. \A a, b \in Places(d, "start") : a < b => d[a].file < d[b].file
    BY <1>1, <1>2 DEF Requested
  <1>5. Requested(d, n, k + 1, fs)
    BY <1>3, <1>4 DEF Requested
  <1> QED BY <1>5 DEF d

\* A new request: its file begins after the payloads accepted so far.
LEMMA RequestedStart ==
    ASSUME NEW ch \in Seq(Cmd), NEW c \in Cmd, c.op = "start", NEW n \in Nat,
           NEW k \in Nat, Numbered(ch, n, k), NEW fs \in Recordings, Requested(ch, n, k, fs),
           \A a \in Places(ch, "start") : ch[a].file < c.file,
           fs[c.file].content = <<>>
    PROVE  Requested(Append(ch, c), n, k, [fs EXCEPT ![c.file].from = k + 1])
  <1> DEFINE d == Append(ch, c)
             l == Len(ch) + 1
             g == [fs EXCEPT ![c.file].from = k + 1]
  <1>1. /\ \A a : a \in Places(d, "payload") <=> a \in Places(ch, "payload")
        /\ \A a : a \in Places(d, "start") <=> a \in Places(ch, "start") \/ a = l
    BY Sent
  <1>2. /\ \A a \in Places(ch, "payload") :
              d[a] = ch[a] /\ a \in Nat /\ a < l /\ ch[a].n \in Nat /\ ch[a].n <= k
        /\ \A a \in Places(ch, "start") :
              d[a] = ch[a] /\ a \in Nat /\ a < l /\ ch[a].file \in Files
        /\ d[l] = c /\ l \in Nat
    BY Sent, PlaceTyped DEF Numbered
  <1>3. c.file \in Files /\ c.file \in Nat
    BY IdNat DEF Cmd
  <1>4. /\ g[c.file].from = k + 1 /\ g[c.file].content = <<>>
        /\ \A f \in Files : f # c.file => g[f] = fs[f]
    BY <1>3 DEF Recordings
  <1> HIDE DEF d, l, g
  <1>5. ASSUME NEW a \in Places(d, "start")
        PROVE  LET f == g[d[a].file]
               IN  /\ n <= f.from /\ f.from <= k + 1 /\ f.content = <<>>
                   /\ \A b \in Places(d, "payload") :
                         IF b < a THEN d[b].n < f.from ELSE f.from <= d[b].n
    <2>1. CASE a = l
      <3>1. g[d[a].file] = g[c.file]
        BY <1>2, <2>1
      <3>2. n <= k + 1
        BY DEF Numbered
      <3>3. \A b \in Places(d, "payload") : b < a /\ d[b].n < k + 1
        BY <1>1, <1>2, <2>1
      <3> QED BY <1>4, <3>1, <3>2, <3>3
    <2>2. CASE a # l
      <3>1. a \in Places(ch, "start") /\ d[a] = ch[a] /\ ch[a].file \in Files
        BY <1>1, <1>2, <2>2
      <3>2. ch[a].file # c.file
        BY <1>3, <3>1
      <3>3. g[d[a].file] = fs[ch[a].file]
        BY <1>4, <3>1, <3>2
      <3> QED BY <1>1, <1>2, <3>1, <3>3 DEF Requested
    <2> QED BY <2>1, <2>2
  <1>6. ASSUME NEW a \in Places(d, "start"), NEW b \in Places(d, "start"), a < b
        PROVE  d[a].file < d[b].file
    <2>1. a \in Places(ch, "start")
      BY <1>1, <1>2, <1>6
    <2>2. CASE b = l
      BY <1>2, <2>1, <2>2
    <2>3. CASE b \in Places(ch, "start")
      BY <1>2, <1>6, <2>1, <2>3 DEF Requested
    <2> QED BY <1>1, <2>2, <2>3
  <1>7. Requested(d, n, k, g)
    BY <1>5, <1>6 DEF Requested
  <1> QED BY <1>7 DEF d, g

LEMMA RequestedTaken ==
    ASSUME NEW ch \in Seq(Cmd), ch # <<>>, NEW n \in Nat, NEW k \in Nat, NEW fs \in Recordings,
           Numbered(ch, n, k), Requested(ch, n, k, fs)
    PROVE  /\ Head(ch).op # "payload" => Requested(Tail(ch), n, k, fs)
           /\ Head(ch).op = "payload" => Requested(Tail(ch), n + 1, k, fs)
           /\ Head(ch).op = "start" =>
                 fs[Head(ch).file].from = n /\ fs[Head(ch).file].content = <<>>
                 /\ \A a \in Places(Tail(ch), "start") : Head(ch).file < Tail(ch)[a].file
  <1> DEFINE t == Tail(ch)
             h == Head(ch)
             v == IF h.op = "payload" THEN n + 1 ELSE n
  <1>1. h = ch[1] /\ (\A op : 1 \in Places(ch, op) <=> h.op = op) /\ h \in Cmd
    BY Taken1
  <1>2. \A op : \A a \in Places(t, op) :
            a + 1 \in Places(ch, op) /\ t[a] = ch[a + 1] /\ a \in 1..Len(ch) - 1
    BY Taken1
  <1>3. h.op = "payload" => h.n = n
    BY NumberedTaken
  <1> HIDE DEF t, h
  <1>4. ASSUME NEW a \in Places(t, "start")
        PROVE  LET f == fs[t[a].file]
               IN  /\ v <= f.from /\ f.from <= k + 1 /\ f.content = <<>>
                   /\ \A b \in Places(t, "payload") :
                         IF b < a THEN t[b].n < f.from ELSE f.from <= t[b].n
    <2> DEFINE f == fs[t[a].file]
    <2>1. a + 1 \in Places(ch, "start") /\ t[a] = ch[a + 1] /\ a \in 1..Len(ch) - 1
      BY <1>2
    <2>2. f.from \in Nat
      BY <2>1, PlaceTyped DEF Recordings
    <2>3. /\ n <= f.from /\ f.from <= k + 1 /\ f.content = <<>>
          /\ \A b \in Places(ch, "payload") :
                IF b < a + 1 THEN ch[b].n < f.from ELSE f.from <= ch[b].n
      BY <2>1 DEF Requested
    <2> HIDE DEF f
    <2>4. h.op = "payload" => n < f.from
      <3>1. 1 < a + 1
        BY <2>1
      <3> QED BY <1>1, <1>3, <2>3, <3>1
    <2>5. v <= f.from
      BY <2>2, <2>3, <2>4
    <2>6. \A b \in Places(t, "payload") : IF b < a THEN t[b].n < f.from ELSE f.from <= t[b].n
      <3> TAKE b \in Places(t, "payload")
      <3>1. b + 1 \in Places(ch, "payload") /\ t[b] = ch[b + 1] /\ b \in 1..Len(ch) - 1
        BY <1>2
      <3>2. b < a <=> b + 1 < a + 1
        BY <2>1, <3>1
      <3> QED BY <2>3, <3>1, <3>2
    <2> QED BY <2>3, <2>5, <2>6 DEF f
  <1>5. ASSUME NEW a \in Places(t, "start"), NEW b \in Places(t, "start"), a < b
        PROVE  t[a].file < t[b].file
    <2>1. /\ a + 1 \in Places(ch, "start") /\ t[a] = ch[a + 1] /\ a \in 1..Len(ch) - 1
          /\ b + 1 \in Places(ch, "start") /\ t[b] = ch[b + 1] /\ b \in 1..Len(ch) - 1
      BY <1>2
    <2>2. a + 1 < b + 1
      BY <1>5, <2>1
    <2> QED BY <2>1, <2>2 DEF Requested
  <1>6. Requested(t, v, k, fs)
    <2> HIDE DEF v
    <2> QED BY <1>4, <1>5 DEF Requested
  <1>7. ASSUME h.op = "start"
        PROVE  /\ fs[h.file].from = n /\ fs[h.file].content = <<>>
               /\ \A a \in Places(t, "start") : h.file < t[a].file
    <2> DEFINE f == fs[h.file]
    <2>1. 1 \in Places(ch, "start") /\ f.from \in Nat
      BY <1>1, <1>7, PlaceTyped DEF Recordings
    <2>2. /\ n <= f.from /\ f.from <= k + 1 /\ f.content = <<>>
          /\ \A b \in Places(ch, "payload") :
                IF b < 1 THEN ch[b].n < f.from ELSE f.from <= ch[b].n
      BY <1>1, <2>1 DEF Requested
    <2> HIDE DEF f
    <2>3. f.from = n
      <3> SUFFICES ASSUME f.from # n PROVE FALSE
        OBVIOUS
      <3>1. n \in n..k
        BY <2>1, <2>2
      <3>2. PICK b \in Places(ch, "payload") : ch[b].n = n
        BY <3>1 DEF Numbered
      <3>3. b \in Nat /\ b >= 1
        BY <3>2, PlaceTyped
      <3> QED BY <2>1, <2>2, <3>2, <3>3
    <2>4. \A a \in Places(t, "start") : h.file < t[a].file
      <3> TAKE a \in Places(t, "start")
      <3>1. a + 1 \in Places(ch, "start") /\ t[a] = ch[a + 1] /\ 1 < a + 1
        BY <1>2
      <3> QED BY <1>1, <2>1, <3>1 DEF Requested
    <2> QED BY <2>2, <2>3, <2>4 DEF f
  <1> QED BY <1>6, <1>7 DEF t, h, v

LEMMA AfterSent ==
    ASSUME NEW ch \in Seq(Cmd), NEW c \in Cmd, NEW f, c.op = "start" => f < c.file, After(ch, f)
    PROVE  After(Append(ch, c), f)
  <1> DEFINE d == Append(ch, c)
             l == Len(ch) + 1
  <1>1. \A a : a \in Places(d, "start") <=> a \in Places(ch, "start") \/ (a = l /\ c.op = "start")
    BY Sent
  <1>2. d[l] = c /\ \A a \in Places(ch, "start") : d[a] = ch[a]
    BY Sent, PlaceTyped
  <1> HIDE DEF d, l
  <1>3. After(d, f)
    BY <1>1, <1>2 DEF After
  <1> QED BY <1>3 DEF d

LEMMA AfterTaken ==
    ASSUME NEW ch \in Seq(Cmd), ch # <<>>, NEW f, After(ch, f)
    PROVE  After(Tail(ch), f)
  BY Taken1 DEF After

-----------------------------------------------------------------------------
(* The publisher.                                                          *)

\* An event more leaves the events before it.
LEMMA AnnounceKeeps ==
    ASSUME NEW o \in Publisher, NEW e \in Event
    PROVE  /\ Announce(o, e) \in Publisher
           /\ Announce(o, e).mailbox = o.mailbox
           /\ \A i : RemovalComes(o.events, i) => RemovalComes(Announce(o, e).events, i)
           /\ e.event = "removed" => RemovalComes(Announce(o, e).events, e.id)
  <1> DEFINE es == Append(o.events, e)
             n == Len(o.events)
  <1>1. o.events \in Seq(Event)
    BY DEF Publisher
  <1>2. /\ es \in Seq(Event) /\ n \in Nat /\ Len(es) = n + 1 /\ es[n + 1] = e
        /\ \A a \in 1..n : es[a] = o.events[a]
    BY <1>1, AppendProperties, LenProperties
  <1>3. Announce(o, e) = [o EXCEPT !.events = es]
    BY DEF Announce
  <1> HIDE DEF es
  <1>4. /\ Announce(o, e) \in Publisher /\ Announce(o, e).events = es
        /\ Announce(o, e).mailbox = o.mailbox
    BY <1>2, <1>3 DEF Publisher
  <1>5. \A i : RemovalComes(o.events, i) => RemovalComes(es, i)
    BY <1>2 DEF RemovalComes
  <1>6. e.event = "removed" => RemovalComes(es, e.id)
    BY <1>2 DEF RemovalComes
  <1> QED BY <1>4, <1>5, <1>6

LEMMA RemovedKeeps ==
    ASSUME NEW o \in Publisher, NEW id \in Ids
    PROVE  /\ Removed(o, id) \in Publisher
           /\ \A i \in Ids, h \in Health :
                 Removed(o, id).mailbox[<<i, h>>] =
                    IF i = id THEN NoStatus ELSE o.mailbox[<<i, h>>]
           /\ \A i : RemovalComes(o.events, i) => RemovalComes(Removed(o, id).events, i)
           /\ RemovalComes(Removed(o, id).events, id)
  <1> DEFINE mb == [k \in DOMAIN o.mailbox |-> IF k[1] = id THEN NoStatus ELSE o.mailbox[k]]
             se == [o.sent EXCEPT ![id] = NoStatus]
             q == [o EXCEPT !.sent = se, !.mailbox = mb]
             e == [event |-> "removed", id |-> id]
  <1>1. NoStatus \in Status
    BY DEF NoStatus, Status
  <1>2. o.mailbox \in [Ids \X Health -> Status] /\ o.sent \in [Ids -> Status]
    BY DEF Publisher
  <1>3. mb \in [Ids \X Health -> Status] /\ se \in [Ids -> Status]
    BY <1>1, <1>2
  <1>4. \A i \in Ids, h \in Health :
            mb[<<i, h>>] = IF i = id THEN NoStatus ELSE o.mailbox[<<i, h>>]
    BY <1>2
  <1>5. Removed(o, id) = Announce(q, e)
    BY DEF Removed
  <1> HIDE DEF mb, se
  <1>6. q \in Publisher /\ q.mailbox = mb /\ q.events = o.events
    BY <1>3 DEF Publisher
  <1>7. e \in Event /\ e.event = "removed" /\ e.id = id
    BY DEF Event
  <1> HIDE DEF q, e
  <1>8. /\ Announce(q, e) \in Publisher /\ Announce(q, e).mailbox = q.mailbox
        /\ \A i : RemovalComes(q.events, i) => RemovalComes(Announce(q, e).events, i)
        /\ RemovalComes(Announce(q, e).events, e.id)
    BY <1>6, <1>7, AnnounceKeeps
  <1>9. Removed(o, id).mailbox = mb
    BY <1>5, <1>6, <1>8
  <1> QED BY <1>4, <1>5, <1>6, <1>7, <1>8, <1>9

LEMMA ReplyKeeps ==
    ASSUME NEW o \in Publisher, NEW id \in Ids, NEW kind \in {"start", "stop"}, NEW ok \in BOOLEAN
    PROVE  /\ Reply(o, kind, id, ok) \in Publisher
           /\ Reply(o, kind, id, ok).mailbox = o.mailbox
           /\ \A i : RemovalComes(o.events, i) => RemovalComes(Reply(o, kind, id, ok).events, i)
  <1> DEFINE e == [event |-> "reply", kind |-> kind, id |-> id, ok |-> ok]
  <1>1. e \in Event
    BY DEF Event
  <1> HIDE DEF e
  <1>2. Reply(o, kind, id, ok) = Announce(o, e)
    BY DEF Reply, e
  <1> QED BY <1>1, <1>2, AnnounceKeeps

\* A status that is stored is of the file that is recorded.
LEMMA PublishKeeps ==
    ASSUME NEW o \in Publisher, NEW m \in [Ids -> State], NEW id \in Ids, NEW again
    PROVE  /\ Publish(o, m, id, again) \in Publisher
           /\ \A i \in Ids, h \in Health :
                 \/ Publish(o, m, id, again).mailbox[<<i, h>>] = o.mailbox[<<i, h>>]
                 \/ /\ i = id
                    /\ Publish(o, m, id, again).mailbox[<<i, h>>].file = StatusOf(m, id).file
           /\ \A i : RemovalComes(o.events, i) =>
                    RemovalComes(Publish(o, m, id, again).events, i)
  <1> DEFINE st == StatusOf(m, id)
             key == <<id, st.health>>
             e == [event |-> "status", id |-> id, health |-> st.health]
             se == [o.sent EXCEPT ![id] = st]
             mb == [o.mailbox EXCEPT ![key] = st]
             q == [o EXCEPT !.sent = se, !.mailbox = mb]
  <1>1. CASE Publish(o, m, id, again) = o
    BY <1>1
  <1>2. CASE Publish(o, m, id, again) # o
    <2>1. st # NoStatus
      BY <1>2 DEF Publish
    <2>2. IsRecording(m, id) /\ st = [health |-> m[id].health, file |-> m[id].file]
      BY <2>1 DEF StatusOf
    <2>3. m[id].health \in Health /\ m[id].file \in Nat
      BY <2>2 DEF IsRecording, State, NoState
    <2>4. st \in Status /\ st.health \in Health /\ e \in Event
      BY <2>2, <2>3 DEF Status, Event
    <2>5. o.mailbox \in [Ids \X Health -> Status] /\ o.sent \in [Ids -> Status]
      BY DEF Publisher
    <2> HIDE DEF st
    <2>6. key \in Ids \X Health
      BY <2>4
    <2>7. mb \in [Ids \X Health -> Status] /\ se \in [Ids -> Status]
      <3> HIDE DEF key
      <3> QED BY <2>4, <2>5, <2>6
    <2>8. \A i \in Ids, h \in Health :
              mb[<<i, h>>] = o.mailbox[<<i, h>>] \/ (i = id /\ mb[<<i, h>>] = st)
      <3> TAKE i \in Ids, h \in Health
      <3>1. <<i, h>> \in Ids \X Health
        OBVIOUS
      <3>2. CASE <<i, h>> = key
        BY <2>5, <2>6, <3>1, <3>2
      <3>3. CASE <<i, h>> # key
        BY <2>5, <2>6, <3>1, <3>3
      <3> QED BY <3>2, <3>3
    <2>9. Publish(o, m, id, again) \in {q, Announce(q, e)}
      BY <1>2 DEF Publish, st
    <2> HIDE DEF mb, se, e
    <2>10. q \in Publisher /\ q.mailbox = mb /\ q.events = o.events
      BY <2>7 DEF Publisher
    <2> HIDE DEF q
    <2>11. CASE Publish(o, m, id, again) = q
      BY <2>8, <2>10, <2>11 DEF st
    <2>12. CASE Publish(o, m, id, again) = Announce(q, e)
      BY <2>4, <2>8, <2>10, <2>12, AnnounceKeeps, ZenonT(30) DEF st
    <2> QED BY <2>9, <2>11, <2>12
  <1> QED BY <1>1, <1>2

\* The events after the first.
LEMMA ConsumedKeeps ==
    ASSUME NEW o \in Publisher, o.events # <<>>
    PROVE  /\ [o EXCEPT !.events = Tail(o.events)] \in Publisher
           /\ Head(o.events) \in Event
           /\ \A i : RemovalComes(o.events, i) =>
                 \/ RemovalComes(Tail(o.events), i)
                 \/ Head(o.events).event = "removed" /\ Head(o.events).id = i
  <1> DEFINE es == o.events
             n == Len(o.events)
  <1>1. es \in Seq(Event)
    BY DEF Publisher
  <1>2. /\ Head(es) \in Event /\ Tail(es) \in Seq(Event) /\ n \in Nat /\ n >= 1
        /\ Head(es) = es[1] /\ Len(Tail(es)) = n - 1 /\ \A a \in 1..n - 1 : Tail(es)[a] = es[a + 1]
    BY <1>1, HeadTailProperties, LenProperties, EmptySeq
  <1>3. [o EXCEPT !.events = Tail(es)] \in Publisher
    BY <1>2 DEF Publisher
  <1>4. ASSUME NEW i, RemovalComes(es, i)
        PROVE  RemovalComes(Tail(es), i) \/ (Head(es).event = "removed" /\ Head(es).id = i)
    <2>1. PICK a \in 1..n : es[a].event = "removed" /\ es[a].id = i
      BY <1>4 DEF RemovalComes
    <2>2. CASE a = 1
      BY <1>2, <2>1, <2>2
    <2>3. CASE a # 1
      <3>1. a - 1 \in 1..n - 1 /\ (a - 1) + 1 = a
        BY <1>2, <2>3
      <3>2. Tail(es)[a - 1] = es[a]
        BY <1>2, <3>1
      <3> QED BY <1>2, <2>1, <3>1, <3>2 DEF RemovalComes
    <2> QED BY <2>2, <2>3
  <1> QED BY <1>2, <1>3, <1>4

-----------------------------------------------------------------------------
(* The id that a command leads to.                                         *)

LEMMA CurrentIs ==
    ASSUME NEW w \in Ids, AtId(w), NEW id \in Ids, id <= w
    PROVE  /\ rekeyed[w] = "gone" => Current(id) = 0 /\ CurrentOr(id) = id
           /\ rekeyed[w] # "gone" => Current(id) = w /\ CurrentOr(id) = w
           /\ CurrentOr(id) \in Ids
  <1> DEFINE P(i) == rekeyed[i] # "moved" /\ \A h \in id .. i - 1 : rekeyed[h] = "moved"
             last == CHOOSE i \in id .. MaxIds : P(i)
  <1>1. w \in Nat /\ id \in Nat /\ MaxIds \in Nat /\ w # 0 /\ w <= MaxIds /\ id >= 1
    BY PipelineConstants DEF Ids
  <1>2. \A i \in Ids : /\ i < w => rekeyed[i] = "moved"
                       /\ w <= i => rekeyed[i] # "moved"
    BY DEF AtId
  <1>3. w \in id .. MaxIds /\ P(w)
    <2>1. w \in id .. MaxIds
      BY <1>1
    <2>2. rekeyed[w] # "moved"
      BY <1>1, <1>2
    <2>3. \A h \in id .. w - 1 : h \in Ids /\ h < w
      BY <1>1 DEF Ids
    <2> QED BY <1>2, <2>1, <2>2, <2>3
  <1>4. ASSUME NEW i \in id .. MaxIds, P(i) PROVE i = w
    <2>1. i \in Ids
      BY <1>1 DEF Ids
    <2>2. ~(i < w)
      BY <1>2, <1>4, <2>1
    <2>3. w < i => w \in id .. i - 1
      BY <1>1, <2>1
    <2>4. ~(w < i)
      BY <1>3, <1>4, <2>3
    <2> QED BY <1>1, <2>2, <2>4
  <1>5. \E i \in id .. MaxIds : P(i)
    BY <1>3
  <1> HIDE DEF P
  <1>6. last \in id .. MaxIds /\ P(last)
    BY <1>5
  <1>7. last = w
    BY <1>4, <1>6
  <1>8. Current(id) = IF rekeyed[w] = "gone" THEN 0 ELSE w
    <2>1. Current(id) = IF rekeyed[last] = "gone" THEN 0 ELSE last
      BY DEF Current, last, P
    <2> QED BY <1>7, <2>1
  <1> QED BY <1>1, <1>8 DEF CurrentOr

-----------------------------------------------------------------------------
(* Steps that start no recording and move none.                            *)

Benign == {"report", "stop", "disconnect", "cleanup", "shutdown"}

\* Nothing happens to the channel, or a command is sent or taken that neither
\* carries a payload nor starts or moves a recording.
Moves ==
    \/ channel' = channel
    \/ \E c \in Cmd : c.op \in Benign /\ c.id <= ui.cur /\ channel' = Append(channel, c)
    \/ channel # <<>> /\ Head(channel).op \in Benign /\ channel' = Tail(channel)

\* What is recorded was recorded before, and no better.
Calmer(w) ==
    \A i \in Ids :
        /\ manager'[i].file \in {-1, 0, manager[i].file}
        /\ manager[i] = NoState => manager'[i] = NoState \/ i <= w
        /\ manager[i].health # "recording" /\ IsRecording(manager', i) =>
              manager'[i].health # "recording"
        /\ Accepts(manager'[i]) => Accepts(manager[i])

\* No id changes but the writer's, whose session is cleaned up.
Cleaned(w) ==
    \A i \in Ids : \/ rekeyed'[i] = rekeyed[i]
                   \/ i = w /\ rekeyed'[i] = "gone" /\ ~IsRecording(manager', i)

LEMMA MovesKeep ==
    ASSUME Typed, used \in Counters, files \in Recordings, NEW w \in Ids, AtId(w), NEW n \in Nat,
           AtPayload(n), FreshFiles, Moves
    PROVE  /\ channel' \in Seq(Cmd)
           /\ Ordered(channel', w, ui.cur)
           /\ Numbered(channel', n, used.accepted)
           /\ Requested(channel', n, used.accepted, files)
           /\ \A a \in Places(channel', "start") : channel'[a].file <= used.starts
           /\ \A f : After(channel, f) => After(channel', f)
  <1> DEFINE ch == channel
             k == used.accepted
  <1>1. /\ ch \in Seq(Cmd) /\ k \in Nat /\ w \in Nat /\ ui.cur \in Nat
        /\ Ordered(ch, w, ui.cur) /\ Numbered(ch, n, k) /\ Requested(ch, n, k, files)
        /\ \A a \in Places(ch, "start") : ch[a].file <= used.starts
    BY IdNat DEF Typed, Counters, AtId, AtPayload, FreshFiles, DesktopState
  <1> HIDE DEF k
  <1>2. CASE channel' = channel
    BY <1>1, <1>2 DEF k
  <1>3. CASE \E c \in Cmd : c.op \in Benign /\ c.id <= ui.cur /\ channel' = Append(channel, c)
    <2> PICK c \in Cmd : c.op \in Benign /\ c.id <= ui.cur /\ channel' = Append(ch, c)
      BY <1>3
    <2>1. c.op \notin {"payload", "start"} /\ c.op # "rekey" /\ c.op # "payload" /\ c.op # "start"
      BY DEF Benign
    <2>2. channel' \in Seq(Cmd)
      BY <1>1, Sent
    <2>3. Ordered(channel', w, ui.cur)
      BY <1>1, <2>1, OrderedSent
    <2>4. Numbered(channel', n, k)
      BY <1>1, <2>1, NumberedSent
    <2>5. Requested(channel', n, k, files)
      BY <1>1, <2>1, RequestedSent
    <2>6. \A a \in Places(channel', "start") : a \in Places(ch, "start")
      BY <1>1, <2>1, Sent
    <2>7. \A a \in Places(ch, "start") : channel'[a] = ch[a]
      BY <1>1, Sent, PlaceTyped
    <2> QED BY <1>1, <2>2, <2>3, <2>4, <2>5, <2>6, <2>7 DEF After, k
  <1>4. CASE channel # <<>> /\ Head(channel).op \in Benign /\ channel' = Tail(channel)
    <2>1. Head(ch).op # "payload" /\ Head(ch).op # "rekey"
      BY <1>4 DEF Benign
    <2>2. channel' \in Seq(Cmd)
      BY <1>1, <1>4, Taken1
    <2>3. Ordered(channel', w, ui.cur)
      BY <1>1, <1>4, <2>1, OrderedTaken
    <2>4. Numbered(channel', n, k)
      BY <1>1, <1>4, <2>1, NumberedTaken
    <2>5. Requested(channel', n, k, files)
      BY <1>1, <1>4, <2>1, RequestedTaken
    <2>6. \A a \in Places(channel', "start") : a + 1 \in Places(ch, "start") /\ channel'[a] = ch[a + 1]
      BY <1>1, <1>4, Taken1
    <2> QED BY <1>1, <2>2, <2>3, <2>4, <2>5, <2>6 DEF After, k
  <1> QED BY <1>2, <1>3, <1>4 DEF Moves

LEMMA CalmStep ==
    ASSUME Typed, used \in Counters, files \in Recordings, NEW w \in Ids, AtId(w), NEW n \in Nat,
           AtPayload(n), FreshFiles, Moves, Calmer(w), manager' \in [Ids -> State],
           ui'.cur = ui.cur, Cleaned(w), files' = files,
           used'.accepted = used.accepted, used'.starts = used.starts, lost' = lost
    PROVE  AtId(w)' /\ AtPayload(n)' /\ FreshFiles'
  <1>1. /\ Ordered(channel', w, ui.cur)
        /\ Numbered(channel', n, used.accepted)
        /\ Requested(channel', n, used.accepted, files)
        /\ \A a \in Places(channel', "start") : channel'[a].file <= used.starts
        /\ \A f : After(channel, f) => After(channel', f)
        /\ channel' \in Seq(Cmd)
    BY MovesKeep
  <1>2. \A i \in Ids : IsRecording(manager', i) =>
            IsRecording(manager, i) /\ manager'[i].file = manager[i].file
    BY DEF Calmer, IsRecording
  <1>3. AtId(w)'
    <2>1. \A i \in Ids : w < i => rekeyed[i] = "no" /\ manager'[i] = NoState
      BY IdNat DEF AtId, Calmer
    <2>2. \A i \in Ids : IsRecording(manager', i) => i = w /\ rekeyed'[i] = "no"
      BY <1>2 DEF AtId, Cleaned
    <2>3. \A i \in Ids : ~(i < w) \/ i # w
      BY IdNat
    <2>4. \A i \in Ids : ~(w < i) \/ i # w
      BY IdNat
    <2>5. \A i \in Ids : /\ i < w => rekeyed'[i] = "moved"
                         /\ w <= i => rekeyed'[i] # "moved"
                         /\ w < i => rekeyed'[i] = "no"
      BY <2>1, <2>3, <2>4 DEF AtId, Cleaned
    <2> QED BY <1>1, <2>1, <2>2, <2>5 DEF AtId
  <1>4. AtPayload(n)'
    <2>1. ASSUME NEW i \in Ids, Accepts(manager'[i])
          PROVE  files[manager'[i].file].from + Len(files[manager'[i].file].content) = n
      <3>1. Accepts(manager[i]) /\ IsRecording(manager', i)
        BY <2>1 DEF Calmer, Accepts, IsRecording
      <3>2. manager'[i].file = manager[i].file
        BY <1>2, <3>1
      <3> QED BY <3>1, <3>2 DEF AtPayload
    <2> QED BY <1>1, <2>1 DEF AtPayload
  <1>5. FreshFiles'
    <2>1. \A f : f \in {-1, 0} => f <= used.starts /\ After(channel', f)
      <3>1. used.starts \in Nat
        BY DEF Counters
      <3>2. \A a \in Places(channel', "start") : channel'[a].file \in Nat \ {0}
        BY <1>1, PlaceTyped, IdNat
      <3> QED BY <3>1, <3>2 DEF After
    <2>2. \A i \in Ids : manager'[i].file <= used.starts /\ After(channel', manager'[i].file)
      BY <1>1, <2>1 DEF FreshFiles, Calmer
    <2> QED BY <1>1, <2>2 DEF FreshFiles
  <1> QED BY <1>3, <1>4, <1>5

\* The reports on their way stay there.
Stays ==
    \/ channel' = channel
    \/ \E c \in Cmd : channel' = Append(channel, c)
    \/ channel # <<>> /\ Head(channel).op # "report" /\ channel' = Tail(channel)

LEMMA ReportsStay ==
    ASSUME channel \in Seq(Cmd), Stays
    PROVE  /\ channel' \in Seq(Cmd)
           /\ \A i : (\E a \in Places(channel, "report") : channel[a].id = i) =>
                     \E a \in Places(channel', "report") : channel'[a].id = i
           /\ (\E a : a \in Places(channel, "report")) => \E a : a \in Places(channel', "report")
  <1>1. CASE channel' = channel
    BY <1>1
  <1>2. CASE \E c \in Cmd : channel' = Append(channel, c)
    <2> PICK c \in Cmd : channel' = Append(channel, c)
      BY <1>2
    <2>1. channel' \in Seq(Cmd)
      BY Sent
    <2>2. \A a \in Places(channel, "report") :
              a \in Places(channel', "report") /\ channel'[a] = channel[a]
      BY Sent, PlaceTyped
    <2> QED BY <2>1, <2>2
  <1>3. CASE channel # <<>> /\ Head(channel).op # "report" /\ channel' = Tail(channel)
    <2>1. channel' \in Seq(Cmd)
      BY <1>3, Taken1
    <2>2. \A a \in Places(channel, "report") :
              a - 1 \in Places(channel', "report") /\ channel'[a - 1] = channel[a]
      BY <1>3, Taken1
    <2> QED BY <2>1, <2>2
  <1> QED BY <1>1, <1>2, <1>3 DEF Stays

LEMMA ReportingIs ==
    ASSUME NEW ch \in Seq(Cmd)
    PROVE  (\E c \in Range(ch) : c.op = "report") <=> \E a : a \in Places(ch, "report")
  <1>1. ch \in [1..Len(ch) -> Cmd] /\ DOMAIN ch = 1..Len(ch)
    BY LenProperties
  <1> QED BY <1>1 DEF Range, Places

LEMMA ReportsKept ==
    ASSUME channel \in Seq(Cmd), Stays, PendingReported,
           producer.stage = "report" => producer'.stage = "report",
           \A i \in Ids : dropped'[i].pending => dropped[i].pending
    PROVE  PendingReported' /\ (Reporting => Reporting')
  <1>1. channel' \in Seq(Cmd)
    BY ReportsStay
  <1>2. PendingReported'
    <2> SUFFICES ASSUME NEW i \in Ids, dropped'[i].pending
                 PROVE  \E a \in Places(channel', "report") : channel'[a].id = i
      BY DEF PendingReported
    <2>1. \E a \in Places(channel, "report") : channel[a].id = i
      BY DEF PendingReported
    <2> QED BY <2>1, ReportsStay
  <1>3. ASSUME Reporting PROVE Reporting'
    <2>1. CASE producer.stage = "report"
      BY <2>1 DEF Reporting
    <2>2. CASE \E c \in Range(channel) : c.op = "report"
      <3>1. \E a : a \in Places(channel', "report")
        BY <2>2, ReportingIs, ReportsStay
      <3>2. \E c \in Range(channel') : c.op = "report"
        BY <1>1, <3>1, ReportingIs
      <3> QED BY <3>2 DEF Reporting
    <2> QED BY <1>3, <2>1, <2>2 DEF Reporting
  <1> QED BY <1>2, <1>3

-----------------------------------------------------------------------------
(* The statuses.                                                           *)

\* The recording of id goes on, or begins.
Steady(id) ==
    /\ Recorded(id) \in {0, Recorded(id)'}
    /\ Leaving(id) => Leaving(id)'
    /\ \A h \in Health : \/ out'.mailbox[<<id, h>>].file = out.mailbox[<<id, h>>].file
                         \/ out'.mailbox[<<id, h>>].file \in {0, Recorded(id)'}
    /\ \/ ui'.shown[id].file \in {0, Recorded(id)'}
       \/ /\ ui'.shown[id] = ui.shown[id]
          /\ RemovalComes(out.events, id) => RemovalComes(out'.events, id)

\* The status of id is taken back.
Removing(id) ==
    /\ \A h \in Health : out'.mailbox[<<id, h>>].file = 0
    /\ RemovalComes(out'.events, id)

Reported(id) == Steady(id) \/ Removing(id) \/ Leaving(id)'

LEMMA StatusStep ==
    ASSUME StatusesFresh, ShownFresh, \A id \in Ids : Reported(id)
    PROVE  StatusesFresh' /\ ShownFresh'
  <1> SUFFICES ASSUME NEW id \in Ids, ~Leaving(id)'
               PROVE  /\ \A h \in Health : out'.mailbox[<<id, h>>].file \in {0, Recorded(id)'}
                      /\ \/ ui'.shown[id].file \in {0, Recorded(id)'}
                         \/ RemovalComes(out'.events, id)
    BY DEF StatusesFresh, ShownFresh
  <1>1. CASE Steady(id)
    <2>1. ~Leaving(id)
      BY <1>1 DEF Steady
    <2>2. /\ \A h \in Health : out.mailbox[<<id, h>>].file \in {0, Recorded(id)}
          /\ ui.shown[id].file \in {0, Recorded(id)} \/ RemovalComes(out.events, id)
      BY <2>1 DEF StatusesFresh, ShownFresh
    <2> QED BY <1>1, <2>2 DEF Steady
  <1>2. CASE Removing(id)
    BY <1>2 DEF Removing
  <1> QED BY <1>1, <1>2 DEF Reported

-----------------------------------------------------------------------------
(* A step that starts no recording and moves none keeps the invariant.     *)

Calm == \A w \in Ids : Calmer(w)

LEMMA GapsKept ==
    ASSUME RunningGapsShown, Calm, lost' = lost, Reporting => Reporting'
    PROVE  RunningGapsShown'
  <1> SUFFICES ASSUME NEW i \in Ids, IsRecording(manager', i), manager'[i].file \in lost,
                      manager'[i].health = "recording"
               PROVE  Reporting'
    BY DEF RunningGapsShown
  <1>1. Calmer(i)
    BY DEF Calm
  <1>2. IsRecording(manager, i) /\ manager'[i].file = manager[i].file
    BY <1>1 DEF Calmer, IsRecording
  <1>3. manager[i].health = "recording"
    BY <1>1 DEF Calmer
  <1> QED BY <1>2, <1>3 DEF RunningGapsShown

LEMMA TypedAlive ==
    ASSUME Typed PROVE Alive
  <1>1. Idle.stage # "ended" /\ \A x \in Working : x.stage # "ended"
    BY DEF Idle, Working
  <1> QED BY <1>1 DEF Typed, Alive

LEMMA RunningFacts ==
    ASSUME Inv, Alive
    PROVE  /\ Running /\ Base /\ Typed /\ used \in Counters /\ files \in Recordings
           /\ channel \in Seq(Cmd) /\ manager \in [Ids -> State] /\ out \in Publisher
           /\ ui \in DesktopState /\ ui.cur \in Ids /\ ui.cur \in Nat /\ used.accepted \in Nat
           /\ used.starts \in Nat /\ FreshFiles /\ PendingReported
  <1>1. used.accepted \in Nat /\ used.starts \in Nat
    BY DEF Inv, Base, Counters
  <1>2. Running /\ Base /\ Typed
    BY DEF Inv, Running
  <1>3. ui.cur \in Ids /\ ui \in DesktopState
    BY <1>2 DEF Typed, DesktopState
  <1>4. ui.cur \in Nat
    BY <1>3, IdNat
  <1> QED BY <1>1, <1>2, <1>3, <1>4 DEF Running, Base, Typed

LEMMA CalmKeeps ==
    ASSUME Inv, Alive, Typed', used' \in Counters, Moves, Calm, ui'.cur = ui.cur,
           rekeyed' = rekeyed \/ (\A w \in Ids : AtId(w) => Cleaned(w)), files' = files, used'.accepted = used.accepted,
           used'.starts = used.starts, lost' = lost, PendingReported', RunningGapsShown',
           \A id \in Ids : Reported(id)
    PROVE  Inv'
  <1>1. Running /\ Base /\ Typed /\ used \in Counters /\ files \in Recordings /\ FreshFiles
    BY RunningFacts
  <1>2. PICK w \in Ids : AtId(w)
    BY <1>1 DEF Running
  <1>3. PICK n \in 1..used.accepted + 1 : AtPayload(n)
    BY <1>1 DEF Running
  <1>4. n \in Nat
    BY <1>1 DEF Counters
  <1>5. Calmer(w) /\ manager' \in [Ids -> State]
    BY DEF Calm, Typed
  <1>6. AtId(w)' /\ AtPayload(n)' /\ FreshFiles'
    <2>1. Cleaned(w)
      BY <1>2 DEF Cleaned
    <2> QED BY <1>1, <1>2, <1>3, <1>4, <1>5, <2>1, CalmStep
  <1>7. StatusesFresh' /\ ShownFresh'
    BY <1>1, StatusStep DEF Running
  <1>8. n \in 1..used'.accepted + 1
    BY <1>3
  <1>9. Running'
    BY <1>6, <1>7, <1>8 DEF Running
  <1>10. Alive'
    BY TypedAlive, PTL
  <1>11. RecordedWithoutHole'
    BY <1>1 DEF Base, RecordedWithoutHole
  <1>12. Base'
    BY <1>1, <1>10, <1>11 DEF Base
  <1> QED BY <1>9, <1>12 DEF Inv

LEMMA CalmSame ==
    ASSUME manager' = manager
    PROVE  Calm
  <1>1. \A i \in Ids : IsRecording(manager, i) => IsRecording(manager', i)
    BY DEF IsRecording
  <1> QED BY <1>1 DEF Calm, Calmer

\* The health of a recording gets worse.
LEMMA CalmMarked ==
    ASSUME manager \in [Ids -> State], NEW id \in Ids, manager[id] # NoState,
           NEW h \in {"degraded", "failed"}, manager[id].health = "failed" => h = "failed",
           manager' = [manager EXCEPT ![id].health = h]
    PROVE  Calm /\ manager' \in [Ids -> State]
           /\ \A i \in Ids : manager'[i].file = manager[i].file
           /\ manager'[id].health # "recording"
  <1> DEFINE s == [manager[id] EXCEPT !.health = h]
  <1>1. manager[id] \in [file : Nat, health : Health, early : Seq(Nat)]
    BY DEF State
  <1>2. s \in State /\ s.file = manager[id].file /\ s.health = h /\ s # NoState
    BY <1>1 DEF State, Health, NoState
  <1>3. manager' = [manager EXCEPT ![id] = s]
    OBVIOUS
  <1> HIDE DEF s
  <1>4. manager' \in [Ids -> State] /\ manager'[id] = s /\ \A i \in Ids : i # id => manager'[i] = manager[i]
    BY <1>2, <1>3
  <1>5. ASSUME NEW w \in Ids PROVE Calmer(w)
    <2> SUFFICES ASSUME NEW i \in Ids
                 PROVE  /\ manager'[i].file \in {-1, 0, manager[i].file}
                        /\ manager[i] = NoState => manager'[i] = NoState \/ i <= w
                        /\ manager[i].health # "recording" /\ IsRecording(manager', i) =>
                              manager'[i].health # "recording"
                        /\ Accepts(manager'[i]) => Accepts(manager[i])
      BY DEF Calmer
    <2>1. CASE i # id
      BY <1>4, <2>1
    <2>2. CASE i = id
      BY <1>2, <1>4, <2>2 DEF Accepts
    <2> QED BY <2>1, <2>2
  <1> QED BY <1>2, <1>4, <1>5 DEF Calm

LEMMA SendOne ==
    ASSUME Alive, channel \in Seq(Cmd), NEW c \in Cmd, Send(<<c>>)
    PROVE  channel' = Append(channel, c)
  BY AppendIsConcat DEF Send

LEMMA SendNone ==
    ASSUME Alive, channel \in Seq(Cmd), Send(<<>>)
    PROVE  channel' = channel
  BY ConcatEmptySeq DEF Send

\* A step that leaves the writer and the statuses alone.
LEMMA Unreporting ==
    ASSUME out' = out, ui'.shown = ui.shown, manager' = manager, writer' = writer
    PROVE  \A id \in Ids : Reported(id)
  <1> SUFFICES ASSUME NEW id \in Ids PROVE Steady(id)
    BY DEF Reported
  <1>1. Recorded(id)' = Recorded(id) /\ (Leaving(id)' <=> Leaving(id))
    BY DEF Recorded, StatusOf, IsRecording, Leaving
  <1> QED BY <1>1 DEF Steady

-----------------------------------------------------------------------------
(* The steps of a producer and of the desktop that send no start.          *)

LEMMA CaptureKeeps ==
    ASSUME Inv, Alive, NEW id \in Ids, NEW size \in Sizes, Capture(id, size)
    PROVE  Inv'
  <1> USE DEF Capture
  <1>1. Typed /\ used \in Counters /\ channel \in Seq(Cmd) /\ ui.cur \in Nat /\ PendingReported
    BY RunningFacts
  <1>2. id \in 1..ui.cur /\ size \in Nat
    <2>1. id \in Nat \ {0} /\ id <= ui.cur
      BY <1>1, IdNat DEF Speaks
    <2> QED BY <1>1, <2>1, PipelineConstants
  <1>3. producer' \in [stage : {"enqueue", "report"}, id : 1..ui.cur, size : Nat]
    BY <1>2
  <1>4. Typed'
    BY <1>1, <1>3 DEF Typed
  <1>5. /\ used' \in Counters /\ used'.accepted = used.accepted /\ used'.starts = used.starts
    BY <1>1 DEF Counters
  <1>6. Moves /\ Stays
    BY DEF Moves, Stays
  <1>7. Calm /\ \A i \in Ids : Reported(i)
    BY CalmSame, Unreporting
  <1>8. producer.stage # "report"
    BY DEF Idle
  <1>9. PendingReported' /\ (Reporting => Reporting')
    BY <1>1, <1>6, <1>8, ReportsKept
  <1>10. RunningGapsShown'
    BY <1>7, <1>9, GapsKept, RunningFacts DEF Running
  <1> QED BY <1>4, <1>5, <1>6, <1>7, <1>9, <1>10, CalmKeeps

\* A step of the desktop that sends nothing, or a command other than a start or a
\* rekey, leaves the recordings and their statuses alone.
LEMMA DesktopCalm ==
    ASSUME Inv, Alive, ui' \in DesktopState, ui'.cur = ui.cur, ui'.job <= ui.cur,
           \/ channel' = channel
           \/ \E c \in Cmd : c.op \in Benign /\ c.id <= ui.cur /\ channel' = Append(channel, c),
           out' \in Publisher,
           UNCHANGED <<producer, dropped, writer, rekeyed, manager, files, used, lost>>,
           \A id \in Ids : Reported(id)
    PROVE  Inv'
  <1>1. Typed /\ used \in Counters /\ channel \in Seq(Cmd) /\ PendingReported /\ RunningGapsShown
    BY RunningFacts DEF Running
  <1>2. Moves /\ Stays
    BY DEF Moves, Stays
  <1>3. channel' \in Seq(Cmd)
    BY <1>1, <1>2, ReportsStay
  <1>4. Typed'
    BY <1>1, <1>3 DEF Typed
  <1>5. Calm
    BY CalmSame
  <1>6. PendingReported' /\ (Reporting => Reporting')
    BY <1>1, <1>2, ReportsKept
  <1>7. RunningGapsShown'
    BY <1>1, <1>5, <1>6, GapsKept
  <1> QED BY <1>1, <1>2, <1>4, <1>5, <1>6, <1>7, CalmKeeps

LEMMA StopRecordingKeeps ==
    ASSUME Inv, Alive, StopRecording
    PROVE  Inv'
  <1> USE DEF StopRecording
  <1>1. ui \in DesktopState /\ ui.cur \in Ids /\ ui.cur \in Nat /\ out \in Publisher
    BY RunningFacts
  <1>2. ui.cur \in 0..MaxIds
    BY <1>1 DEF Ids
  <1>3. /\ ui' \in DesktopState /\ ui'.cur = ui.cur /\ ui'.job = ui.cur
        /\ ui'.shown = ui.shown
    BY <1>1, <1>2 DEF DesktopState
  <1> QED BY <1>1, <1>3, Unreporting, DesktopCalm

LEMMA StopCompleteKeeps ==
    ASSUME Inv, Alive, StopComplete
    PROVE  Inv'
  <1> USE DEF StopComplete
  <1> DEFINE c == [op |-> "stop", id |-> ui.job]
  <1>1. /\ ui \in DesktopState /\ ui.cur \in Ids /\ ui.cur \in Nat /\ out \in Publisher
        /\ channel \in Seq(Cmd) /\ ui.job <= ui.cur
    BY RunningFacts DEF Typed
  <1>2. ui.job \in 0..MaxIds
    BY <1>1 DEF DesktopState
  <1>3. ui.job \in Ids /\ 0 <= ui.cur
    BY <1>1, <1>2 DEF Ids
  <1>4. c \in Cmd /\ c.op \in Benign /\ c.id <= ui.cur
    BY <1>1, <1>3 DEF Cmd, Benign
  <1>5. Send(<<c>>)
    OBVIOUS
  <1> HIDE DEF c
  <1>6. channel' = Append(channel, c)
    BY <1>1, <1>4, <1>5, SendOne
  <1>7. /\ ui' \in DesktopState /\ ui'.cur = ui.cur /\ ui'.job = 0
        /\ ui'.shown = ui.shown
    BY <1>1, <1>2, PipelineConstants, SMTT(30) DEF DesktopState
  <1> QED BY <1>1, <1>3, <1>4, <1>6, <1>7, Unreporting, DesktopCalm

LEMMA DisconnectKeeps ==
    ASSUME Inv, Alive, Disconnect
    PROVE  Inv'
  <1> USE DEF Disconnect
  <1> DEFINE c == [op |-> "disconnect", id |-> ui.cur]
  <1>1. /\ ui \in DesktopState /\ ui.cur \in Ids /\ ui.cur \in Nat /\ out \in Publisher
        /\ channel \in Seq(Cmd) /\ ui.job <= ui.cur
    BY RunningFacts DEF Typed
  <1>2. c \in Cmd /\ c.op \in Benign /\ c.id <= ui.cur
    BY <1>1 DEF Cmd, Benign
  <1>3. Send(<<c>>)
    OBVIOUS
  <1> HIDE DEF c
  <1>4. channel' = Append(channel, c)
    BY <1>1, <1>2, <1>3, SendOne
  <1>5. /\ ui' \in DesktopState /\ ui'.cur = ui.cur /\ ui'.job = ui.job
        /\ ui'.shown = ui.shown
    BY <1>1 DEF DesktopState
  <1> QED BY <1>1, <1>2, <1>4, <1>5, Unreporting, DesktopCalm

LEMMA ShutdownKeeps ==
    ASSUME Inv, Alive, Shutdown
    PROVE  Inv'
  <1> USE DEF Shutdown
  <1> DEFINE c == [op |-> "shutdown", id |-> ui.cur]
  <1>1. /\ ui \in DesktopState /\ ui.cur \in Ids /\ ui.cur \in Nat /\ out \in Publisher
        /\ channel \in Seq(Cmd) /\ ui.job <= ui.cur
    BY RunningFacts DEF Typed
  <1>2. c \in Cmd /\ c.op \in Benign /\ c.id <= ui.cur
    BY <1>1 DEF Cmd, Benign
  <1>3. Send(<<c>>)
    OBVIOUS
  <1> HIDE DEF c
  <1>4. channel' = Append(channel, c)
    BY <1>1, <1>2, <1>3, SendOne
  <1>5. /\ ui' \in DesktopState /\ ui'.cur = ui.cur /\ ui'.job = ui.job
        /\ ui'.shown = ui.shown
    BY <1>1 DEF DesktopState
  <1> QED BY <1>1, <1>2, <1>4, <1>5, Unreporting, DesktopCalm

\* What is shown of one id changes, and the events only lose their first.
LEMMA ShownChanges ==
    ASSUME manager' = manager, writer' = writer, NEW k \in Ids,
           \A i \in Ids \ {k} : /\ ui'.shown[i] = ui.shown[i]
                                /\ RemovalComes(out.events, i) => RemovalComes(out'.events, i),
           Leaving(k) \/ ui'.shown[k].file \in {0, Recorded(k)}
                \/ (ui'.shown[k] = ui.shown[k]
                    /\ (RemovalComes(out.events, k) => RemovalComes(out'.events, k))),
           \A i \in Ids : \A h \in Health : out'.mailbox[<<i, h>>].file \in {0, out.mailbox[<<i, h>>].file}
    PROVE  \A id \in Ids : Reported(id)
  <1> SUFFICES ASSUME NEW id \in Ids PROVE Reported(id)
    OBVIOUS
  <1>1. Recorded(id)' = Recorded(id) /\ (Leaving(id)' <=> Leaving(id))
    BY DEF Recorded, StatusOf, IsRecording, Leaving
  <1>2. \A h \in Health : \/ out'.mailbox[<<id, h>>].file = out.mailbox[<<id, h>>].file
                          \/ out'.mailbox[<<id, h>>].file \in {0, Recorded(id)'}
    OBVIOUS
  <1>3. CASE id # k
    <2>1. Steady(id)
      BY <1>1, <1>2, <1>3 DEF Steady
    <2> QED BY <2>1 DEF Reported
  <1>4. CASE id = k
    <2>1. CASE Leaving(k)
      BY <1>1, <1>4, <2>1 DEF Reported
    <2>2. CASE ~Leaving(k)
      <3>1. \/ ui'.shown[id].file \in {0, Recorded(id)'}
            \/ ui'.shown[id] = ui.shown[id]
               /\ (RemovalComes(out.events, id) => RemovalComes(out'.events, id))
        BY <1>1, <1>4, <2>2
      <3>2. Steady(id)
        BY <1>1, <1>2, <3>1 DEF Steady
      <3> QED BY <3>2 DEF Reported
    <2> QED BY <2>1, <2>2
  <1> QED BY <1>3, <1>4

LEMMA ShownTyped ==
    ASSUME ui \in DesktopState, NEW k \in Ids, NEW s \in Status
    PROVE  /\ [ui EXCEPT !.shown[k] = s] \in DesktopState
           /\ [ui EXCEPT !.shown[k] = s].cur = ui.cur
           /\ [ui EXCEPT !.shown[k] = s].job = ui.job
           /\ [ui EXCEPT !.shown[k] = s].shown[k] = s
           /\ \A i \in Ids \ {k} : [ui EXCEPT !.shown[k] = s].shown[i] = ui.shown[i]
  <1> DEFINE sh == [ui.shown EXCEPT ![k] = s]
  <1>1. ui.shown \in [Ids -> Status]
    BY DEF DesktopState
  <1>2. sh \in [Ids -> Status] /\ sh[k] = s /\ \A i \in Ids \ {k} : sh[i] = ui.shown[i]
    BY <1>1
  <1>3. [ui EXCEPT !.shown[k] = s] = [ui EXCEPT !.shown = sh]
    OBVIOUS
  <1> HIDE DEF sh
  <1>4. /\ [ui EXCEPT !.shown = sh] \in DesktopState /\ [ui EXCEPT !.shown = sh].cur = ui.cur
        /\ [ui EXCEPT !.shown = sh].job = ui.job /\ [ui EXCEPT !.shown = sh].shown = sh
    BY <1>2 DEF DesktopState
  <1> QED BY <1>2, <1>3, <1>4

LEMMA NoStatusIs == NoStatus \in Status /\ NoStatus.file = 0
  BY DEF NoStatus, Status

LEMMA CloseKeeps ==
    ASSUME Inv, Alive, Close
    PROVE  Inv'
  <1> USE DEF Close
  <1> DEFINE c == [op |-> "cleanup", id |-> ui.cur]
             u == [ui EXCEPT !.shown[ui.cur] = NoStatus]
  <1>1. /\ ui \in DesktopState /\ ui.cur \in Ids /\ ui.cur \in Nat /\ out \in Publisher
        /\ channel \in Seq(Cmd) /\ ui.job <= ui.cur
    BY RunningFacts DEF Typed
  <1>2. c \in Cmd /\ c.op \in Benign /\ c.id <= ui.cur
    BY <1>1 DEF Cmd, Benign
  <1>3. Send(<<c>>)
    OBVIOUS
  <1> HIDE DEF c
  <1>4. channel' = Append(channel, c)
    BY <1>1, <1>2, <1>3, SendOne
  <1>5. /\ u \in DesktopState /\ u.cur = ui.cur /\ u.job = ui.job /\ u.shown[ui.cur] = NoStatus
        /\ \A i \in Ids \ {ui.cur} : u.shown[i] = ui.shown[i]
    BY <1>1, NoStatusIs, ShownTyped
  <1>6. ui' = [u EXCEPT !.stage = "closed", !.busy[ui.cur] = FALSE]
    BY <1>1 DEF DesktopState
  <1> HIDE DEF u
  <1>7. /\ ui' \in DesktopState /\ ui'.cur = ui.cur /\ ui'.job = ui.job /\ ui'.shown = u.shown
    <2> DEFINE b == [u.busy EXCEPT ![ui.cur] = FALSE]
    <2>1. ui' = [u EXCEPT !.stage = "closed", !.busy = b]
      BY <1>6
    <2>2. b \in [Ids -> BOOLEAN]
      BY <1>1, <1>5 DEF DesktopState
    <2> HIDE DEF Close, b
    <2> QED BY <1>5, <2>1, <2>2 DEF DesktopState
  <1>8. \A id \in Ids : Reported(id)
    <2>1. ui'.shown[ui.cur].file = 0
      BY <1>5, <1>7, NoStatusIs
    <2>2. \A i \in Ids \ {ui.cur} : ui'.shown[i] = ui.shown[i]
      BY <1>5, <1>7
    <2>3. out' = out /\ manager' = manager /\ writer' = writer
      OBVIOUS
    <2> HIDE DEF Close
    <2> QED BY <1>1, <2>1, <2>2, <2>3, ShownChanges
  <1> QED BY <1>1, <1>2, <1>4, <1>7, <1>8, DesktopCalm

LEMMA ReceivedIs ==
    ASSUME Inv, Alive, NEW kind, Received(kind)
    PROVE  /\ Head(out.events) \in Event /\ Head(out.events).event = kind
           /\ Head(out.events).id \in Ids
           /\ kind = "status" => Head(out.events).health \in Health
           /\ Consumed \in Publisher /\ Consumed.mailbox = out.mailbox
           /\ \A i : RemovalComes(out.events, i) =>
                 \/ RemovalComes(Consumed.events, i)
                 \/ kind = "removed" /\ Head(out.events).id = i
  <1>1. out \in Publisher /\ out.events # <<>> /\ Head(out.events).event = kind
    BY RunningFacts DEF Received
  <1> DEFINE t == Tail(out.events)
  <1>2. /\ [out EXCEPT !.events = t] \in Publisher /\ Head(out.events) \in Event
        /\ \A i : RemovalComes(out.events, i) =>
              \/ RemovalComes(t, i)
              \/ Head(out.events).event = "removed" /\ Head(out.events).id = i
    BY <1>1, ConsumedKeeps
  <1>3. Consumed = [out EXCEPT !.events = t]
    BY DEF Consumed
  <1> HIDE DEF t
  <1>4. Consumed.events = t /\ Consumed.mailbox = out.mailbox
    BY <1>1, <1>3 DEF Publisher
  <1>5. \A e \in Event : e.id \in Ids /\ (e.event = "status" => e.health \in Health)
    BY DEF Event
  <1> QED BY <1>1, <1>2, <1>3, <1>4, <1>5

LEMMA RemoveStatusKeeps ==
    ASSUME Inv, Alive, RemoveStatus
    PROVE  Inv'
  <1> USE DEF RemoveStatus
  <1> DEFINE k == Head(out.events).id
  <1>1. /\ ui \in DesktopState /\ ui.cur \in Nat /\ out \in Publisher /\ ui.job <= ui.cur
    BY RunningFacts DEF Typed
  <1>2. /\ k \in Ids /\ out' \in Publisher /\ out'.mailbox = out.mailbox
        /\ \A i : RemovalComes(out.events, i) => RemovalComes(out'.events, i) \/ k = i
    BY ReceivedIs
  <1> HIDE DEF k
  <1>3. ui' = [ui EXCEPT !.shown[k] = NoStatus]
    BY DEF k
  <1>4. /\ ui' \in DesktopState /\ ui'.cur = ui.cur /\ ui'.job = ui.job /\ ui'.shown[k] = NoStatus
        /\ \A i \in Ids \ {k} : ui'.shown[i] = ui.shown[i]
    <2> HIDE DEF RemoveStatus
    <2> QED BY <1>1, <1>2, <1>3, NoStatusIs, ShownTyped
  <1>5. manager' = manager /\ writer' = writer
    OBVIOUS
  <1>6. \A id \in Ids : Reported(id)
    <2> HIDE DEF RemoveStatus
    <2> QED BY <1>2, <1>4, <1>5, NoStatusIs, ShownChanges
  <1> QED BY <1>1, <1>2, <1>4, <1>6, DesktopCalm

LEMMA MailboxIs ==
    ASSUME out \in Publisher, NEW i \in Ids, NEW h \in Health
    PROVE  out.mailbox[<<i, h>>] \in Status
  <1>1. out.mailbox \in [Ids \X Health -> Status]
    BY DEF Publisher
  <1>2. <<i, h>> \in Ids \X Health
    OBVIOUS
  <1> QED BY <1>1, <1>2

LEMMA ApplyStatusKeeps ==
    ASSUME Inv, Alive, ApplyStatus
    PROVE  Inv'
  <1> DEFINE k == Head(out.events).id
             h == Head(out.events).health
             s == out.mailbox[<<k, h>>]
             co == Consumed
             mb == [co.mailbox EXCEPT ![<<k, h>>] = NoStatus]
  <1>1. /\ ui \in DesktopState /\ ui.cur \in Nat /\ out \in Publisher /\ ui.job <= ui.cur
        /\ channel' = channel
        /\ UNCHANGED <<producer, dropped, writer, rekeyed, manager, files, used, lost>>
    BY RunningFacts DEF Typed, ApplyStatus
  <1>2. /\ k \in Ids /\ h \in Health /\ co \in Publisher /\ co.mailbox = out.mailbox
        /\ \A i : RemovalComes(out.events, i) => RemovalComes(co.events, i)
    BY ReceivedIs DEF ApplyStatus
  <1>3. s \in Status
    BY <1>1, <1>2, MailboxIs
  <1>4. out' = [co EXCEPT !.mailbox = mb]
    BY DEF ApplyStatus
  <1>5. ui' = IF s = NoStatus THEN ui ELSE [ui EXCEPT !.shown[k] = s]
    BY DEF ApplyStatus
  <1>6. <<k, h>> \in Ids \X Health
    BY <1>2
  <1>7. /\ mb \in [Ids \X Health -> Status]
        /\ \A x \in Ids \X Health : mb[x] \in {NoStatus, out.mailbox[x]}
    <2>1. co.mailbox \in [Ids \X Health -> Status]
      BY <1>2 DEF Publisher
    <2> QED BY <1>2, <1>6, <2>1, NoStatusIs
  <1> HIDE DEF mb, co
  <1>8. out' \in Publisher /\ out'.mailbox = mb /\ out'.events = co.events
    BY <1>2, <1>4, <1>7 DEF Publisher
  <1>9. \A i \in Ids : \A g \in Health :
            out'.mailbox[<<i, g>>].file \in {0, out.mailbox[<<i, g>>].file}
    <2> TAKE i \in Ids
    <2> TAKE g \in Health
    <2>1. <<i, g>> \in Ids \X Health
      OBVIOUS
    <2>2. out'.mailbox[<<i, g>>] \in {NoStatus, out.mailbox[<<i, g>>]}
      BY <1>7, <1>8, <2>1
    <2> QED BY <2>2, NoStatusIs
  <1>10. Leaving(k) \/ s.file \in {0, Recorded(k)}
    BY <1>2, RunningFacts DEF Running, StatusesFresh
  <1> HIDE DEF k, h, s
  <1>11. /\ ui' \in DesktopState /\ ui'.cur = ui.cur /\ ui'.job = ui.job
         /\ ui'.shown[k] \in {s, ui.shown[k]}
         /\ \A i \in Ids \ {k} : ui'.shown[i] = ui.shown[i]
    <2>1. CASE s = NoStatus
      BY <1>1, <1>5, <2>1
    <2>2. CASE s # NoStatus
      <3>1. ui' = [ui EXCEPT !.shown[k] = s]
        BY <1>5, <2>2
      <3> QED BY <1>1, <1>2, <1>3, <3>1, ShownTyped
    <2> QED BY <2>1, <2>2
  <1>12. \A id \in Ids : Reported(id)
    BY <1>1, <1>2, <1>8, <1>9, <1>10, <1>11, ShownChanges
  <1> QED BY <1>1, <1>8, <1>11, <1>12, DesktopCalm

LEMMA ApplyReplyKeeps ==
    ASSUME Inv, Alive, ApplyReply
    PROVE  Inv'
  <1> DEFINE c == [op |-> "cleanup", id |-> ui.cur]
  <1>1. /\ ui \in DesktopState /\ ui.cur \in Nat /\ ui.cur \in Ids /\ out \in Publisher
        /\ ui.job <= ui.cur /\ channel \in Seq(Cmd)
        /\ UNCHANGED <<producer, dropped, writer, rekeyed, manager, files, used, lost>>
    BY RunningFacts DEF Typed, ApplyReply
  <1>2. /\ out' \in Publisher /\ out'.mailbox = out.mailbox
        /\ \A i : RemovalComes(out.events, i) => RemovalComes(out'.events, i)
    BY ReceivedIs DEF ApplyReply
  <1>3. /\ ui' \in DesktopState /\ ui'.cur = ui.cur /\ ui'.job = ui.job /\ ui'.shown = ui.shown
    <2> DEFINE b == [ui.busy EXCEPT ![ui.cur] = FALSE]
    <2>1. ui' = [ui EXCEPT !.busy = b]
      BY DEF ApplyReply, FinishAction
    <2>2. b \in [Ids -> BOOLEAN]
      BY <1>1 DEF DesktopState
    <2> HIDE DEF b
    <2> QED BY <1>1, <2>1, <2>2 DEF DesktopState
  <1>4. c \in Cmd /\ c.op \in Benign /\ c.id <= ui.cur
    BY <1>1 DEF Cmd, Benign
  <1>5. Send(<<c>>) \/ Send(<<>>)
    BY DEF ApplyReply
  <1> HIDE DEF c
  <1>6. channel' = channel \/ channel' = Append(channel, c)
    BY <1>1, <1>4, <1>5, SendOne, SendNone
  <1>7. \A id \in Ids : Reported(id)
    <2>1. \A i \in Ids : \A h \in Health :
              out'.mailbox[<<i, h>>].file \in {0, out.mailbox[<<i, h>>].file}
      BY <1>2
    <2> QED BY <1>1, <1>2, <1>3, <2>1, ShownChanges
  <1> QED BY <1>1, <1>2, <1>3, <1>4, <1>6, <1>7, DesktopCalm

LEMMA ProducerIs ==
    ASSUME Inv, Alive, NEW stage \in {"enqueue", "report"}, producer.stage = stage
    PROVE  producer.id \in Ids /\ producer.id <= ui.cur /\ producer.size \in Nat
           /\ producer = [stage |-> stage, id |-> producer.id, size |-> producer.size]
  <1>1. /\ producer \in {Idle} \cup [stage : {"enqueue", "report"}, id : 1..ui.cur, size : Nat]
        /\ ui.cur \in Ids
    BY RunningFacts DEF Typed
  <1>2. producer \in [stage : {"enqueue", "report"}, id : 1..ui.cur, size : Nat]
    BY <1>1 DEF Idle
  <1>3. 1..ui.cur \subseteq Ids /\ \A i \in 1..ui.cur : i <= ui.cur
    BY <1>1, PipelineConstants DEF Ids
  <1> QED BY <1>2, <1>3

\* A report that is coalesced is with one on its way.
LEMMA ReportKeeps ==
    ASSUME Inv, Alive, Report
    PROVE  Inv'
  <1> DEFINE id == producer.id
             c == [op |-> "report", id |-> id]
             e == [bytes |-> dropped[id].bytes + producer.size, pending |-> TRUE]
  <1>1. /\ Typed /\ used \in Counters /\ channel \in Seq(Cmd) /\ PendingReported
        /\ dropped \in [Ids -> [bytes : Nat, pending : BOOLEAN]]
    BY RunningFacts DEF Typed
  <1>2. id \in Ids /\ id <= ui.cur /\ producer.size \in Nat
    BY ProducerIs DEF Report
  <1>3. /\ producer' = Idle /\ UNCHANGED <<ui, writer, rekeyed, manager, files, out, used, lost>>
        /\ dropped' = [dropped EXCEPT ![id] = e]
        /\ IF dropped[id].pending THEN Send(<<>>) ELSE Send(<<c>>)
    BY DEF Report
  <1>4. c \in Cmd /\ c.op \in Benign /\ c.id <= ui.cur /\ c.op = "report" /\ c.id = id
    BY <1>2 DEF Cmd, Benign
  <1>5. e \in [bytes : Nat, pending : BOOLEAN]
    BY <1>1, <1>2
  <1> HIDE DEF c, e, id
  <1>6. channel' = IF dropped[id].pending THEN channel ELSE Append(channel, c)
    BY <1>1, <1>3, <1>4, SendOne, SendNone
  <1>7. Moves /\ Stays
    BY <1>4, <1>6 DEF Moves, Stays
  <1>8. channel' \in Seq(Cmd)
    BY <1>1, <1>7, ReportsStay
  <1>9. /\ dropped' \in [Ids -> [bytes : Nat, pending : BOOLEAN]]
        /\ \A i \in Ids : i # id => dropped'[i] = dropped[i]
    BY <1>1, <1>2, <1>3, <1>5
  <1>10. Typed'
    BY <1>1, <1>3, <1>8, <1>9 DEF Typed
  <1>11. \E a \in Places(channel', "report") : channel'[a].id = id
    <2>1. CASE dropped[id].pending
      BY <1>1, <1>2, <1>6, <2>1 DEF PendingReported
    <2>2. CASE ~dropped[id].pending
      BY <1>1, <1>4, <1>6, <2>2, Sent
    <2> QED BY <2>1, <2>2
  <1>12. PendingReported'
    <2> SUFFICES ASSUME NEW i \in Ids, dropped'[i].pending
                 PROVE  \E a \in Places(channel', "report") : channel'[a].id = i
      BY DEF PendingReported
    <2>1. CASE i = id
      BY <1>11, <2>1
    <2>2. CASE i # id
      <3>1. \E a \in Places(channel, "report") : channel[a].id = i
        BY <1>1, <1>9, <2>2 DEF PendingReported
      <3> QED BY <1>1, <1>7, <3>1, ReportsStay
    <2> QED BY <2>1, <2>2
  <1>13. Reporting'
    <2>1. \E x \in Range(channel') : x.op = "report"
      BY <1>8, <1>11, ReportingIs
    <2> QED BY <2>1 DEF Reporting
  <1>14. RunningGapsShown'
    BY <1>13 DEF RunningGapsShown
  <1>15. Calm /\ \A i \in Ids : Reported(i)
    BY <1>3, CalmSame, Unreporting
  <1> QED BY <1>1, <1>3, <1>7, <1>10, <1>12, <1>14, <1>15, CalmKeeps

-----------------------------------------------------------------------------
(* The steps of the writer that start no recording and move none.          *)

LEMMA WriterIs ==
    ASSUME Inv, Alive, NEW stage \in {"payload", "start", "stop", "report", "rekey"},
           writer.stage = stage
    PROVE  /\ writer.cmd \in Cmd /\ writer.cmd.op = stage /\ writer.cmd.id \in Ids
           /\ writer.id \in Ids /\ writer.ok \in BOOLEAN
           /\ stage = "rekey" => writer.cmd.id < ui.cur
  <1>1. /\ writer \in {Idle} \cup Working /\ (writer # Idle => writer.cmd.op = writer.stage)
        /\ writer.stage = "rekey" => writer.cmd.id < ui.cur
    BY RunningFacts DEF Typed
  <1>2. writer # Idle
    BY DEF Idle
  <1>3. writer \in Working
    BY <1>1, <1>2
  <1> QED BY <1>1, <1>2, <1>3, CmdId DEF Working

LEMMA TakesIs ==
    ASSUME Inv, Alive, NEW op, Takes(op)
    PROVE  /\ channel # <<>> /\ Head(channel) \in Cmd /\ Head(channel).op = op
           /\ Head(channel).id \in Ids /\ Command = Head(channel) /\ writer = Idle
           /\ Tail(channel) \in Seq(Cmd)
           /\ \A id : ~Leaving(id)
  <1>1. channel # <<>> /\ Head(channel).op = op /\ writer = Idle
    BY DEF Takes
  <1>2. Head(channel) \in Cmd /\ Tail(channel) \in Seq(Cmd)
    BY <1>1, RunningFacts, Taken1
  <1>3. \A id : ~Leaving(id)
    BY <1>1 DEF Leaving, Idle
  <1> QED BY <1>1, <1>2, <1>3, CmdId DEF Command

LEMMA ContinueIs ==
    ASSUME Inv, Alive, NEW op \in {"payload", "start", "stop", "report"}, Takes(op),
           NEW id \in Ids, NEW ok \in BOOLEAN, Continue(id, ok)
    PROVE  /\ writer' \in Working /\ writer' # Idle /\ writer'.cmd.op = op /\ writer'.stage = op
           /\ writer'.cmd = Head(channel) /\ writer'.id = id
           /\ op # "stop" => \A i : ~Leaving(i)'
           /\ op = "stop" => \A i : Leaving(i)' <=> i = id
  <1> DEFINE c == Command
  <1>1. c \in Cmd /\ c.op = op /\ c = Head(channel)
    BY TakesIs
  <1>2. writer' = [stage |-> c.op, cmd |-> c, id |-> id, ok |-> ok]
    BY DEF Continue
  <1> HIDE DEF c
  <1>3. writer' \in Working /\ writer'.cmd = c /\ writer'.stage = op /\ writer'.id = id
    BY <1>1, <1>2 DEF Working
  <1>4. writer' # Idle
    BY <1>3 DEF Idle
  <1> QED BY <1>1, <1>3, <1>4 DEF Leaving

LEMMA WriterCalm ==
    ASSUME Inv, Alive, UNCHANGED <<ui, producer, rekeyed, files, lost>>,
           \/ channel' = channel
           \/ /\ channel # <<>> /\ channel' = Tail(channel)
              /\ Head(channel).op \in Benign \ {"report"},
           writer' \in {Idle} \cup Working,
           writer' # Idle => writer'.cmd.op = writer'.stage /\ writer'.stage # "rekey",
           dropped' \in [Ids -> [bytes : Nat, pending : BOOLEAN]],
           \A i \in Ids : dropped'[i].pending => dropped[i].pending,
           manager' \in [Ids -> State], out' \in Publisher, Calm, used' \in Counters,
           used'.accepted = used.accepted, used'.starts = used.starts,
           \A id \in Ids : Reported(id)
    PROVE  Inv'
  <1>1. Typed /\ channel \in Seq(Cmd) /\ PendingReported /\ RunningGapsShown
    BY RunningFacts DEF Running
  <1>2. Moves /\ Stays
    BY DEF Moves, Stays, Benign
  <1>3. channel' \in Seq(Cmd)
    BY <1>1, <1>2, ReportsStay
  <1>4. writer'.stage # "rekey"
    BY DEF Idle
  <1>5. Typed'
    BY <1>1, <1>3, <1>4 DEF Typed
  <1>6. PendingReported' /\ (Reporting => Reporting')
    BY <1>1, <1>2, ReportsKept
  <1>7. RunningGapsShown'
    BY <1>1, <1>6, GapsKept
  <1> QED BY <1>1, <1>2, <1>5, <1>6, <1>7, CalmKeeps

LEMMA RecordedIs ==
    ASSUME NEW id \in Ids
    PROVE  /\ Recorded(id) = IF manager[id].file > 0 THEN manager[id].file ELSE 0
           /\ Recorded(id)' = IF manager'[id].file > 0 THEN manager'[id].file ELSE 0
  BY DEF Recorded, StatusOf, IsRecording, NoStatus

\* The recordings stay, and a status may be sent.
LEMMA StatusSent ==
    ASSUME ui' = ui,
           \A i \in Ids : \/ manager'[i].file = manager[i].file
                          \/ manager[i] = NoState /\ manager'[i].file = 0,
           \A i \in Ids : Leaving(i) => Leaving(i)',
           \A i \in Ids, h \in Health :
              \/ out'.mailbox[<<i, h>>] = out.mailbox[<<i, h>>]
              \/ out'.mailbox[<<i, h>>].file = StatusOf(manager', i).file,
           \A i : RemovalComes(out.events, i) => RemovalComes(out'.events, i)
    PROVE  \A id \in Ids : Reported(id)
  <1> SUFFICES ASSUME NEW id \in Ids PROVE Steady(id)
    BY DEF Reported
  <1>1. Recorded(id)' = Recorded(id)
    BY RecordedIs DEF NoState
  <1>2. \A h \in Health : \/ out'.mailbox[<<id, h>>].file = out.mailbox[<<id, h>>].file
                          \/ out'.mailbox[<<id, h>>].file = Recorded(id)'
    BY DEF Recorded
  <1> QED BY <1>1, <1>2 DEF Steady

LEMMA DroppedReset ==
    ASSUME dropped \in [Ids -> [bytes : Nat, pending : BOOLEAN]], NEW id \in Ids
    PROVE  /\ [dropped EXCEPT ![id] = Unreported] \in [Ids -> [bytes : Nat, pending : BOOLEAN]]
           /\ \A i \in Ids : [dropped EXCEPT ![id] = Unreported][i].pending => dropped[i].pending
           /\ Taken(dropped, id) \in [Ids -> [bytes : Nat, pending : BOOLEAN]]
           /\ \A i \in Ids : Taken(dropped, id)[i].pending => i # id /\ dropped[i].pending
  <1>1. Unreported \in [bytes : Nat, pending : BOOLEAN] /\ ~Unreported.pending
    BY DEF Unreported
  <1>2. /\ Taken(dropped, id) \in [Ids -> [bytes : Nat, pending : BOOLEAN]]
        /\ \A i \in Ids : Taken(dropped, id)[i].pending => i # id /\ dropped[i].pending
    <2> DEFINE x == [dropped EXCEPT ![id].bytes = 0]
               y == [x EXCEPT ![id].pending = FALSE]
    <2>1. Taken(dropped, id) = y
      BY DEF Taken
    <2>2. /\ DOMAIN x = Ids /\ \A i \in Ids : i # id => x[i] = dropped[i]
          /\ x[id] \in [bytes : {0}, pending : BOOLEAN]
      OBVIOUS
    <2>3. x \in [Ids -> [bytes : Nat, pending : BOOLEAN]]
      OBVIOUS
    <2> HIDE DEF x
    <2>4. y \in [Ids -> [bytes : Nat, pending : BOOLEAN]]
      BY <2>3
    <2>5. /\ \A i \in Ids : i # id => y[i] = dropped[i]
          /\ ~y[id].pending
      BY <2>2, <2>3
    <2> HIDE DEF y
    <2> QED BY <2>1, <2>4, <2>5
  <1>3. [dropped EXCEPT ![id] = Unreported] \in [Ids -> [bytes : Nat, pending : BOOLEAN]]
    BY <1>1
  <1>4. \A i \in Ids : [dropped EXCEPT ![id] = Unreported][i].pending => i # id /\ dropped[i].pending
    BY <1>1
  <1> QED BY <1>2, <1>3, <1>4

LEMMA ReleasePayloadKeeps ==
    ASSUME Inv, Alive, ReleasePayload
    PROVE  Inv'
  <1>1. /\ dropped \in [Ids -> [bytes : Nat, pending : BOOLEAN]] /\ manager \in [Ids -> State]
        /\ out \in Publisher /\ used \in Counters
    BY RunningFacts DEF Typed
  <1>2. /\ UNCHANGED <<ui, channel, producer, dropped, rekeyed, manager, files, out, used, lost>>
        /\ writer.stage = "payload" /\ writer' = Idle
    BY DEF ReleasePayload, Done
  <1>3. \A i : ~Leaving(i)
    BY <1>2 DEF Leaving
  <1>4. Calm /\ \A id \in Ids : Reported(id)
    BY <1>2, <1>3, CalmSame, StatusSent
  <1> QED BY <1>1, <1>2, <1>4, WriterCalm

LEMMA TickKeeps ==
    ASSUME Inv, Alive, NEW id \in Ids, Tick(id)
    PROVE  Inv'
  <1>1. /\ dropped \in [Ids -> [bytes : Nat, pending : BOOLEAN]] /\ manager \in [Ids -> State]
        /\ out \in Publisher /\ used \in Counters /\ writer \in {Idle} \cup Working
        /\ writer = Idle
        /\ UNCHANGED <<ui, channel, producer, dropped, writer, rekeyed, manager, files, used, lost>>
    BY RunningFacts DEF Typed, Tick
  <1>2. out' = Publish(out, manager, id, FALSE)
    BY DEF Tick
  <1>3. /\ out' \in Publisher
        /\ \A i \in Ids, h \in Health :
              \/ out'.mailbox[<<i, h>>] = out.mailbox[<<i, h>>]
              \/ i = id /\ out'.mailbox[<<i, h>>].file = StatusOf(manager, id).file
        /\ \A i : RemovalComes(out.events, i) => RemovalComes(out'.events, i)
    <2> DEFINE again == FALSE
    <2>1. out' = Publish(out, manager, id, again)
      BY <1>2
    <2> HIDE DEF again
    <2> QED BY <1>1, <2>1, PublishKeeps
  <1>4. \A i \in Ids : Leaving(i) => Leaving(i)'
    BY <1>1 DEF Leaving
  <1>5. Calm /\ \A i \in Ids : Reported(i)
    BY <1>1, <1>3, <1>4, CalmSame, StatusSent
  <1> QED BY <1>1, <1>3, <1>5, WriterCalm

LEMMA FaultsIs ==
    ASSUME used \in Counters, NEW n \in Nat, Faults(n)
    PROVE  used' \in Counters /\ used'.accepted = used.accepted /\ used'.starts = used.starts
  BY DEF Faults, Counters

LEMMA FlushFailsKeeps ==
    ASSUME Inv, Alive, NEW id \in Ids, FlushFails(id)
    PROVE  Inv'
  <1>1. /\ dropped \in [Ids -> [bytes : Nat, pending : BOOLEAN]] /\ manager \in [Ids -> State]
        /\ out \in Publisher /\ used \in Counters /\ writer = Idle
        /\ UNCHANGED <<ui, channel, producer, dropped, writer, rekeyed, out, files, lost>>
        /\ IsRecording(manager, id) /\ Faults(1)
        /\ manager' = [manager EXCEPT ![id].health = "failed"]
    BY RunningFacts DEF Typed, FlushFails
  <1>2. manager[id] # NoState
    BY <1>1 DEF IsRecording, NoState
  <1>3. Calm /\ manager' \in [Ids -> State] /\ \A i \in Ids : manager'[i].file = manager[i].file
    BY <1>1, <1>2, CalmMarked
  <1>4. used' \in Counters /\ used'.accepted = used.accepted /\ used'.starts = used.starts
    BY <1>1, FaultsIs
  <1>5. \A i \in Ids : Leaving(i) => Leaving(i)'
    BY <1>1 DEF Leaving
  <1>6. \A i \in Ids : Reported(i)
    BY <1>1, <1>3, <1>5, StatusSent
  <1> QED BY <1>1, <1>3, <1>4, <1>6, WriterCalm

LEMMA EndReportKeeps ==
    ASSUME Inv, Alive, EndReport
    PROVE  Inv'
  <1>1. /\ dropped \in [Ids -> [bytes : Nat, pending : BOOLEAN]] /\ manager \in [Ids -> State]
        /\ out \in Publisher /\ used \in Counters
    BY RunningFacts DEF Typed
  <1>2. /\ UNCHANGED <<ui, channel, producer, rekeyed, manager, files, out, used, lost>>
        /\ writer.stage = "report" /\ writer' = Idle
        /\ dropped' \in {dropped, [dropped EXCEPT ![writer.cmd.id] = Unreported]}
    BY DEF EndReport, Done
  <1>3. writer.cmd.id \in Ids
    BY <1>2, WriterIs
  <1>4. /\ dropped' \in [Ids -> [bytes : Nat, pending : BOOLEAN]]
        /\ \A i \in Ids : dropped'[i].pending => dropped[i].pending
    <2>1. CASE dropped' = dropped
      BY <1>1, <2>1
    <2>2. CASE dropped' = [dropped EXCEPT ![writer.cmd.id] = Unreported]
      <3> DEFINE k == writer.cmd.id
      <3>1. k \in Ids /\ dropped' = [dropped EXCEPT ![k] = Unreported]
        BY <1>3, <2>2
      <3> HIDE DEF k
      <3> QED BY <1>1, <3>1, DroppedReset
    <2> QED BY <1>2, <2>1, <2>2
  <1>5. \A i : ~Leaving(i)
    BY <1>2 DEF Leaving
  <1>6. Calm /\ \A id \in Ids : Reported(id)
    BY <1>2, <1>5, CalmSame, StatusSent
  <1> QED BY <1>1, <1>2, <1>4, <1>6, WriterCalm

\* A command that is taken is of the writer's id, or of an earlier one that leads to it.
LEMMA TakenAt ==
    ASSUME Inv, Alive, NEW op, Takes(op), NEW w \in Ids, AtId(w)
    PROVE  /\ Head(channel).id <= w
           /\ rekeyed[w] = "gone" => /\ Current(Head(channel).id) = 0
                                     /\ CurrentOr(Head(channel).id) = Head(channel).id
           /\ rekeyed[w] # "gone" => /\ Current(Head(channel).id) = w
                                     /\ CurrentOr(Head(channel).id) = w
           /\ CurrentOr(Head(channel).id) \in Ids
           /\ op # "rekey" => Ordered(Tail(channel), w, ui.cur)
           /\ op = "rekey" => /\ Head(channel).id = w /\ w < ui.cur
                              /\ Ordered(Tail(channel), w + 1, ui.cur)
  <1>1. channel # <<>> /\ Head(channel).op = op /\ Head(channel).id \in Ids
    BY TakesIs
  <1>2. channel \in Seq(Cmd) /\ ui.cur \in Nat /\ w \in Nat /\ Ordered(channel, w, ui.cur)
    BY RunningFacts, IdNat DEF AtId
  <1>3. /\ Head(channel).id <= w
        /\ Head(channel).op # "rekey" => Ordered(Tail(channel), w, ui.cur)
        /\ Head(channel).op = "rekey" =>
              Head(channel).id = w /\ w < ui.cur /\ Ordered(Tail(channel), w + 1, ui.cur)
    BY <1>1, <1>2, OrderedTaken
  <1> DEFINE id == Head(channel).id
  <1> HIDE DEF id
  <1>4. id \in Ids /\ id <= w
    BY <1>1, <1>3 DEF id
  <1>5. /\ rekeyed[w] = "gone" => Current(id) = 0 /\ CurrentOr(id) = id
        /\ rekeyed[w] # "gone" => Current(id) = w /\ CurrentOr(id) = w
        /\ CurrentOr(id) \in Ids
    BY <1>4, CurrentIs
  <1> QED BY <1>1, <1>3, <1>5 DEF id

LEMMA SomeId ==
    ASSUME Inv, Alive
    PROVE  \E w \in Ids : AtId(w)
  BY RunningFacts DEF Running

LEMMA MarkDroppedIs ==
    ASSUME manager \in [Ids -> State], NEW id \in Ids, manager' = MarkDropped(manager, id)
    PROVE  /\ Calm /\ manager' \in [Ids -> State]
           /\ \A i \in Ids : manager'[i].file = manager[i].file
           /\ IsRecording(manager', id) => manager'[id].health # "recording"
  <1>1. CASE manager[id] = NoState \/ manager[id].health = "failed"
    <2>1. manager' = manager
      BY <1>1 DEF MarkDropped
    <2>2. IsRecording(manager, id) => manager[id].health = "failed"
      BY <1>1 DEF IsRecording, NoState
    <2> QED BY <2>1, <2>2, CalmSame
  <1>2. CASE ~(manager[id] = NoState \/ manager[id].health = "failed")
    <2>1. manager' = [manager EXCEPT ![id].health = "degraded"]
      BY <1>2 DEF MarkDropped
    <2> QED BY <1>2, <2>1, CalmMarked
  <1> QED BY <1>1, <1>2

LEMMA Published ==
    ASSUME Inv, Alive, manager' \in [Ids -> State], NEW id \in Ids, NEW again,
           out' = Publish(out, manager', id, again)
    PROVE  /\ out' \in Publisher
           /\ \A i \in Ids, h \in Health :
                 \/ out'.mailbox[<<i, h>>] = out.mailbox[<<i, h>>]
                 \/ out'.mailbox[<<i, h>>].file = StatusOf(manager', i).file
           /\ \A i : RemovalComes(out.events, i) => RemovalComes(out'.events, i)
  <1> DEFINE m == manager'
             o == out'
  <1>1. out \in Publisher /\ m \in [Ids -> State] /\ o = Publish(out, m, id, again)
    BY RunningFacts
  <1> HIDE DEF m, o
  <1>2. /\ o \in Publisher
        /\ \A i \in Ids, h \in Health :
              \/ o.mailbox[<<i, h>>] = out.mailbox[<<i, h>>]
              \/ i = id /\ o.mailbox[<<i, h>>].file = StatusOf(m, id).file
        /\ \A i : RemovalComes(out.events, i) => RemovalComes(o.events, i)
    BY <1>1, PublishKeeps
  <1>3. \A i \in Ids, h \in Health :
            \/ o.mailbox[<<i, h>>] = out.mailbox[<<i, h>>]
            \/ o.mailbox[<<i, h>>].file = StatusOf(m, i).file
    BY <1>2
  <1> QED BY <1>2, <1>3 DEF m, o

LEMMA DisconnectSessionKeeps ==
    ASSUME Inv, Alive, DisconnectSession
    PROVE  Inv'
  <1> DEFINE id == Current(Command.id)
  <1>1. PICK w \in Ids : AtId(w)
    BY SomeId
  <1>2. Takes("disconnect") /\ channel' = Tail(channel)
    BY DEF DisconnectSession
  <1>3. id \in {0, w} /\ channel # <<>> /\ Head(channel).op = "disconnect" /\ writer = Idle
    BY <1>1, <1>2, TakenAt, TakesIs
  <1>4. /\ dropped \in [Ids -> [bytes : Nat, pending : BOOLEAN]] /\ manager \in [Ids -> State]
        /\ out \in Publisher /\ used \in Counters
        /\ UNCHANGED <<ui, producer, dropped, writer, rekeyed, files, lost>>
    BY RunningFacts DEF Typed, DisconnectSession
  <1>5. PICK fault \in {0, 1} :
            /\ Faults(fault)
            /\ fault = 1 => id # 0 /\ IsRecording(manager, id)
            /\ manager' = IF fault = 1 THEN [manager EXCEPT ![id].health = "failed"] ELSE manager
            /\ out' = IF id = 0 THEN out ELSE Publish(out, manager', id, FALSE)
    BY DEF DisconnectSession
  <1> HIDE DEF id
  <1>6. Calm /\ manager' \in [Ids -> State] /\ \A i \in Ids : manager'[i].file = manager[i].file
    <2>1. CASE fault = 0
      BY <1>4, <1>5, <2>1, CalmSame
    <2>2. CASE fault = 1
      <3>1. manager' = [manager EXCEPT ![id].health = "failed"] /\ id \in Ids
        BY <1>3, <1>5, <2>2
      <3>2. manager[id] # NoState
        BY <1>5, <2>2 DEF IsRecording, NoState
      <3> QED BY <1>4, <3>1, <3>2, CalmMarked
    <2> QED BY <2>1, <2>2
  <1>7. used' \in Counters /\ used'.accepted = used.accepted /\ used'.starts = used.starts
    BY <1>4, <1>5, FaultsIs
  <1>8. /\ out' \in Publisher
        /\ \A i \in Ids, h \in Health :
              \/ out'.mailbox[<<i, h>>] = out.mailbox[<<i, h>>]
              \/ out'.mailbox[<<i, h>>].file = StatusOf(manager', i).file
        /\ \A i : RemovalComes(out.events, i) => RemovalComes(out'.events, i)
    <2>1. CASE id = 0
      BY <1>4, <1>5, <2>1
    <2>2. CASE id # 0
      <3> DEFINE again == FALSE
      <3>1. out' = Publish(out, manager', id, again) /\ id \in Ids
        BY <1>3, <1>5, <2>2
      <3> HIDE DEF again
      <3> QED BY <1>6, <3>1, Published
    <2> QED BY <2>1, <2>2
  <1>9. \A i \in Ids : Leaving(i) => Leaving(i)'
    BY <1>4 DEF Leaving
  <1>10. \A i \in Ids : Reported(i)
    BY <1>4, <1>6, <1>8, <1>9, StatusSent
  <1>11. "disconnect" \in Benign \ {"report"}
    BY DEF Benign
  <1> QED BY <1>2, <1>3, <1>4, <1>6, <1>7, <1>8, <1>10, <1>11, WriterCalm

LEMMA BeginReportKeeps ==
    ASSUME Inv, Alive, BeginReport
    PROVE  Inv'
  <1> DEFINE k == Head(channel).id
             id == CurrentOr(k)
  <1>1. PICK w \in Ids : AtId(w)
    BY SomeId
  <1>2. Takes("report") /\ channel' = Tail(channel) /\ Command = Head(channel)
    BY TakesIs DEF BeginReport
  <1>3. /\ k \in Ids /\ id \in Ids /\ channel # <<>> /\ Head(channel).op = "report"
        /\ writer = Idle /\ channel' \in Seq(Cmd) /\ (rekeyed[w] # "gone" => id = w)
        /\ \A i : ~Leaving(i)
    BY <1>1, <1>2, TakenAt, TakesIs
  <1>4. /\ dropped \in [Ids -> [bytes : Nat, pending : BOOLEAN]] /\ manager \in [Ids -> State]
        /\ out \in Publisher /\ used \in Counters /\ Typed /\ PendingReported
        /\ channel \in Seq(Cmd)
        /\ UNCHANGED <<ui, producer, rekeyed, files, used, lost>>
    BY RunningFacts DEF Typed, BeginReport
  <1>5. /\ dropped' = Taken(dropped, k) /\ manager' = MarkDropped(manager, id)
        /\ out' = Publish(out, manager', id, FALSE) /\ Continue(id, TRUE)
    BY <1>2 DEF BeginReport
  <1> HIDE DEF id, k
  <1>6. /\ dropped' \in [Ids -> [bytes : Nat, pending : BOOLEAN]]
        /\ \A i \in Ids : dropped'[i].pending => i # k /\ dropped[i].pending
    BY <1>3, <1>4, <1>5, DroppedReset
  <1>7. /\ Calm /\ manager' \in [Ids -> State]
        /\ \A i \in Ids : manager'[i].file = manager[i].file
        /\ IsRecording(manager', id) => manager'[id].health # "recording"
    BY <1>3, <1>4, <1>5, MarkDroppedIs
  <1>8. /\ writer' \in Working /\ writer' # Idle /\ writer'.cmd.op = writer'.stage
        /\ writer'.stage = "report"
    <2> DEFINE ok == TRUE
    <2>1. Continue(id, ok) /\ ok \in BOOLEAN
      BY <1>5
    <2> HIDE DEF ok
    <2> QED BY <1>2, <1>3, <2>1, ContinueIs
  <1>9. /\ out' \in Publisher
        /\ \A i \in Ids, h \in Health :
              \/ out'.mailbox[<<i, h>>] = out.mailbox[<<i, h>>]
              \/ out'.mailbox[<<i, h>>].file = StatusOf(manager', i).file
        /\ \A i : RemovalComes(out.events, i) => RemovalComes(out'.events, i)
    <2> DEFINE again == FALSE
    <2>1. out' = Publish(out, manager', id, again)
      BY <1>5
    <2> HIDE DEF again
    <2> QED BY <1>3, <1>7, <2>1, Published
  <1>10. Typed'
    BY <1>3, <1>4, <1>6, <1>7, <1>8, <1>9 DEF Typed
  <1>11. \A i \in Ids : Reported(i)
    BY <1>3, <1>4, <1>7, <1>9, StatusSent
  <1>12. Moves
    BY <1>2, <1>3 DEF Moves, Benign
  <1>13. PendingReported'
    <2> SUFFICES ASSUME NEW i \in Ids, dropped'[i].pending
                 PROVE  \E a \in Places(channel', "report") : channel'[a].id = i
      BY DEF PendingReported
    <2>1. i # k /\ dropped[i].pending
      BY <1>6
    <2>2. PICK a \in Places(channel, "report") : channel[a].id = i
      BY <1>4, <2>1 DEF PendingReported
    <2>3. channel[1].id = k
      BY <1>3, <1>4, Taken1 DEF k
    <2>4. a # 1
      BY <2>1, <2>2, <2>3
    <2>5. a - 1 \in Places(channel', "report") /\ channel'[a - 1] = channel[a]
      BY <1>2, <1>3, <1>4, <2>4, Taken1
    <2> QED BY <2>2, <2>5
  <1>14. RunningGapsShown'
    <2> SUFFICES ASSUME NEW i \in Ids, IsRecording(manager', i)
                 PROVE  manager'[i].health # "recording"
      BY DEF RunningGapsShown
    <2>1. IsRecording(manager, i)
      BY <1>7 DEF IsRecording
    <2>2. i = w /\ rekeyed[w] = "no"
      BY <1>1, <2>1 DEF AtId
    <2>3. i = id
      BY <1>3, <2>2
    <2> QED BY <1>7, <2>3
  <1> QED BY <1>4, <1>7, <1>10, <1>11, <1>12, <1>13, <1>14, CalmKeeps

\* The status of one id is taken back, and another may be sent.
LEMMA StatusTakenBack ==
    ASSUME ui' = ui, NEW k \in Ids, \A i \in Ids \ {k} : manager'[i].file = manager[i].file,
           \A i \in Ids \ {k} : Leaving(i) => Leaving(i)',
           \A h \in Health : out'.mailbox[<<k, h>>].file = 0,
           RemovalComes(out'.events, k),
           \A i \in Ids \ {k}, h \in Health :
              \/ out'.mailbox[<<i, h>>] = out.mailbox[<<i, h>>]
              \/ out'.mailbox[<<i, h>>].file = StatusOf(manager', i).file,
           \A i : RemovalComes(out.events, i) => RemovalComes(out'.events, i)
    PROVE  \A id \in Ids : Reported(id)
  <1> SUFFICES ASSUME NEW id \in Ids PROVE Reported(id)
    OBVIOUS
  <1>1. CASE id = k
    <2>1. Removing(id)
      BY <1>1 DEF Removing
    <2> QED BY <2>1 DEF Reported
  <1>2. CASE id # k
    <2>1. Recorded(id)' = Recorded(id)
      BY <1>2, RecordedIs
    <2>2. \A h \in Health : \/ out'.mailbox[<<id, h>>].file = out.mailbox[<<id, h>>].file
                            \/ out'.mailbox[<<id, h>>].file = Recorded(id)'
      BY <1>2 DEF Recorded
    <2>3. Steady(id)
      BY <1>2, <2>1, <2>2 DEF Steady
    <2> QED BY <2>3 DEF Reported
  <1> QED BY <1>1, <1>2

LEMMA EndStopKeeps ==
    ASSUME Inv, Alive, EndStop
    PROVE  Inv'
  <1> DEFINE k == writer.id
             o == Removed(out, k)
  <1>1. /\ dropped \in [Ids -> [bytes : Nat, pending : BOOLEAN]] /\ manager \in [Ids -> State]
        /\ out \in Publisher /\ used \in Counters
        /\ UNCHANGED <<ui, channel, producer, dropped, rekeyed, manager, files, used, lost>>
        /\ writer.stage = "stop" /\ writer' = Idle
    BY RunningFacts DEF Typed, EndStop, Done
  <1>2. k \in Ids /\ writer.cmd.id \in Ids /\ writer.ok \in BOOLEAN
    BY <1>1, WriterIs
  <1>3. out' = Reply(o, "stop", writer.cmd.id, writer.ok)
    BY DEF EndStop
  <1>4. \A i \in Ids \ {k} : ~Leaving(i)
    BY <1>1 DEF Leaving
  <1> HIDE DEF k
  <1>5. /\ o \in Publisher
        /\ \A i \in Ids, h \in Health :
              o.mailbox[<<i, h>>] = IF i = k THEN NoStatus ELSE out.mailbox[<<i, h>>]
        /\ \A i : RemovalComes(out.events, i) => RemovalComes(o.events, i)
        /\ RemovalComes(o.events, k)
    BY <1>1, <1>2, RemovedKeeps
  <1> HIDE DEF o
  <1>6. /\ out' \in Publisher /\ out'.mailbox = o.mailbox
        /\ \A i : RemovalComes(o.events, i) => RemovalComes(out'.events, i)
    BY <1>2, <1>3, <1>5, ReplyKeeps
  <1>7. /\ \A h \in Health : out'.mailbox[<<k, h>>].file = 0
        /\ RemovalComes(out'.events, k)
        /\ \A i \in Ids \ {k}, h \in Health : out'.mailbox[<<i, h>>] = out.mailbox[<<i, h>>]
        /\ \A i : RemovalComes(out.events, i) => RemovalComes(out'.events, i)
    BY <1>2, <1>5, <1>6, NoStatusIs
  <1>8. \A i \in Ids : Reported(i)
    BY <1>1, <1>2, <1>4, <1>7, StatusTakenBack
  <1> QED BY <1>1, <1>6, <1>8, CalmSame, WriterCalm

LEMMA EndStartKeeps ==
    ASSUME Inv, Alive, EndStart
    PROVE  Inv'
  <1> DEFINE k == writer.id
             again == TRUE
             o == IF IsRecording(manager, k) THEN Publish(out, manager, k, again)
                  ELSE Removed(out, k)
  <1>1. /\ dropped \in [Ids -> [bytes : Nat, pending : BOOLEAN]] /\ manager \in [Ids -> State]
        /\ out \in Publisher /\ used \in Counters
        /\ UNCHANGED <<ui, channel, producer, dropped, rekeyed, manager, files, used, lost>>
        /\ writer.stage = "start" /\ writer' = Idle
    BY RunningFacts DEF Typed, EndStart, Done
  <1>2. k \in Ids /\ writer.cmd.id \in Ids /\ writer.ok \in BOOLEAN
    BY <1>1, WriterIs
  <1>3. out' \in {o, Reply(o, "start", writer.cmd.id, writer.ok)}
    BY DEF EndStart
  <1>4. \A i \in Ids : ~Leaving(i)
    BY <1>1 DEF Leaving
  <1> HIDE DEF k, again
  <1>5. CASE IsRecording(manager, k)
    <2>1. o = Publish(out, manager, k, again)
      BY <1>5
    <2> HIDE DEF o
    <2>2. /\ o \in Publisher
          /\ \A i \in Ids, h \in Health :
                \/ o.mailbox[<<i, h>>] = out.mailbox[<<i, h>>]
                \/ i = k /\ o.mailbox[<<i, h>>].file = StatusOf(manager, k).file
          /\ \A i : RemovalComes(out.events, i) => RemovalComes(o.events, i)
      BY <1>1, <1>2, <2>1, PublishKeeps, SMTT(30)
    <2>3. /\ out' \in Publisher /\ out'.mailbox = o.mailbox
          /\ \A i : RemovalComes(o.events, i) => RemovalComes(out'.events, i)
      <3>1. CASE out' = o
        BY <2>2, <3>1
      <3>2. CASE out' = Reply(o, "start", writer.cmd.id, writer.ok)
        BY <1>2, <2>2, <3>2, ReplyKeeps
      <3> QED BY <1>3, <3>1, <3>2 DEF o
    <2>4. \A i \in Ids, h \in Health :
              \/ out'.mailbox[<<i, h>>] = out.mailbox[<<i, h>>]
              \/ out'.mailbox[<<i, h>>].file = StatusOf(manager', i).file
      <3>1. manager' = manager
        BY <1>1
      <3>2. \A i \in Ids, h \in Health :
                \/ out'.mailbox[<<i, h>>] = out.mailbox[<<i, h>>]
                \/ out'.mailbox[<<i, h>>].file = StatusOf(manager, i).file
        BY <2>2, <2>3
      <3> QED BY <3>1, <3>2
    <2>5. \A i \in Ids : Reported(i)
      BY <1>1, <1>4, <2>2, <2>3, <2>4, StatusSent
    <2> QED BY <1>1, <2>3, <2>5, CalmSame, WriterCalm
  <1>6. CASE ~IsRecording(manager, k)
    <2>1. o = Removed(out, k)
      BY <1>6
    <2> HIDE DEF o
    <2>2. /\ o \in Publisher
          /\ \A i \in Ids, h \in Health :
                o.mailbox[<<i, h>>] = IF i = k THEN NoStatus ELSE out.mailbox[<<i, h>>]
          /\ \A i : RemovalComes(out.events, i) => RemovalComes(o.events, i)
          /\ RemovalComes(o.events, k)
      <3>1. out \in Publisher /\ k \in Ids
        BY <1>1, <1>2
      <3> DEFINE p == Removed(out, k)
      <3>2. /\ p \in Publisher
            /\ \A i \in Ids, h \in Health :
                  p.mailbox[<<i, h>>] = IF i = k THEN NoStatus ELSE out.mailbox[<<i, h>>]
            /\ \A i : RemovalComes(out.events, i) => RemovalComes(p.events, i)
            /\ RemovalComes(p.events, k)
        BY <3>1, RemovedKeeps
      <3> HIDE DEF p
      <3> QED BY <2>1, <3>2 DEF p
    <2>3. /\ out' \in Publisher /\ out'.mailbox = o.mailbox
          /\ \A i : RemovalComes(o.events, i) => RemovalComes(out'.events, i)
      <3>1. CASE out' = o
        BY <2>2, <3>1
      <3>2. CASE out' = Reply(o, "start", writer.cmd.id, writer.ok)
        BY <1>2, <2>2, <3>2, ReplyKeeps
      <3> QED BY <1>3, <3>1, <3>2 DEF o
    <2>4. /\ \A h \in Health : out'.mailbox[<<k, h>>].file = 0
          /\ RemovalComes(out'.events, k)
          /\ \A i \in Ids \ {k}, h \in Health : out'.mailbox[<<i, h>>] = out.mailbox[<<i, h>>]
          /\ \A i : RemovalComes(out.events, i) => RemovalComes(out'.events, i)
      BY <1>2, <2>2, <2>3, NoStatusIs
    <2>5. \A i \in Ids : Reported(i)
      BY <1>1, <1>2, <1>4, <2>4, StatusTakenBack
    <2> QED BY <1>1, <2>3, <2>5, CalmSame, WriterCalm
  <1> QED BY <1>5, <1>6

LEMMA NextId ==
    ASSUME Inv, Alive, NEW id \in Ids, id < ui.cur
    PROVE  id + 1 \in Ids /\ id + 1 # id
  <1>1. ui.cur \in Ids
    BY RunningFacts
  <1> QED BY <1>1, PipelineConstants DEF Ids

LEMMA EndRekeyKeeps ==
    ASSUME Inv, Alive, EndRekey
    PROVE  Inv'
  <1> DEFINE k == writer.cmd.id
             o == Removed(out, k)
             again == TRUE
             next == k + 1
  <1>1. /\ dropped \in [Ids -> [bytes : Nat, pending : BOOLEAN]] /\ manager \in [Ids -> State]
        /\ out \in Publisher /\ used \in Counters
        /\ UNCHANGED <<ui, channel, producer, rekeyed, manager, files, used, lost>>
        /\ writer.stage = "rekey" /\ writer' = Idle
        /\ dropped' = [dropped EXCEPT ![k] = Unreported]
    BY RunningFacts DEF Typed, EndRekey, Done
  <1>2. k \in Ids /\ k < ui.cur
    BY <1>1, WriterIs
  <1>3. out' = Publish(o, manager, next, again)
    BY DEF EndRekey, MovedStatus
  <1>4. \A i \in Ids \ {k} : ~Leaving(i)
    BY <1>1 DEF Leaving
  <1> HIDE DEF k
  <1>5. next \in Ids /\ next # k
    BY <1>2, NextId
  <1> HIDE DEF next, again
  <1>6. /\ o \in Publisher
        /\ \A i \in Ids, h \in Health :
              o.mailbox[<<i, h>>] = IF i = k THEN NoStatus ELSE out.mailbox[<<i, h>>]
        /\ \A i : RemovalComes(out.events, i) => RemovalComes(o.events, i)
        /\ RemovalComes(o.events, k)
    BY <1>1, <1>2, RemovedKeeps
  <1> HIDE DEF o
  <1>7. /\ out' \in Publisher
        /\ \A i \in Ids, h \in Health :
              \/ out'.mailbox[<<i, h>>] = o.mailbox[<<i, h>>]
              \/ i = next /\ out'.mailbox[<<i, h>>].file = StatusOf(manager, next).file
        /\ \A i : RemovalComes(o.events, i) => RemovalComes(out'.events, i)
    <2>1. manager \in [Ids -> State] /\ o \in Publisher /\ next \in Ids
      BY <1>1, <1>5, <1>6
    <2> DEFINE p == Publish(o, manager, next, again)
    <2>2. /\ p \in Publisher
          /\ \A i \in Ids, h \in Health :
                \/ p.mailbox[<<i, h>>] = o.mailbox[<<i, h>>]
                \/ i = next /\ p.mailbox[<<i, h>>].file = StatusOf(manager, next).file
          /\ \A i : RemovalComes(o.events, i) => RemovalComes(p.events, i)
      BY <2>1, PublishKeeps
    <2> HIDE DEF p
    <2> QED BY <1>3, <2>2 DEF p
  <1>8. \A h \in Health : out'.mailbox[<<k, h>>].file = 0
    BY <1>2, <1>5, <1>6, <1>7, NoStatusIs
  <1>9. \A i \in Ids \ {k}, h \in Health :
            \/ out'.mailbox[<<i, h>>] = out.mailbox[<<i, h>>]
            \/ out'.mailbox[<<i, h>>].file = StatusOf(manager', i).file
    <2>1. manager' = manager
      BY <1>1
    <2>2. \A i \in Ids \ {k}, h \in Health :
              \/ out'.mailbox[<<i, h>>] = out.mailbox[<<i, h>>]
              \/ out'.mailbox[<<i, h>>].file = StatusOf(manager, i).file
      BY <1>6, <1>7
    <2> QED BY <2>1, <2>2
  <1>10. RemovalComes(out'.events, k)
         /\ \A i : RemovalComes(out.events, i) => RemovalComes(out'.events, i)
    BY <1>6, <1>7
  <1>11. \A i \in Ids : Reported(i)
    BY <1>1, <1>2, <1>4, <1>8, <1>9, <1>10, StatusTakenBack
  <1>12. /\ dropped' \in [Ids -> [bytes : Nat, pending : BOOLEAN]]
         /\ \A i \in Ids : dropped'[i].pending => dropped[i].pending
    BY <1>1, <1>2, DroppedReset
  <1> QED BY <1>1, <1>7, <1>11, <1>12, CalmSame, WriterCalm

\* A recording ends, or its state is forgotten.
LEMMA CalmEnded ==
    ASSUME manager \in [Ids -> State], NEW id \in Ids,
           \/ manager' = Stopped(manager, id)
           \/ manager' = [manager EXCEPT ![id] = NoState]
    PROVE  /\ Calm /\ manager' \in [Ids -> State] /\ ~IsRecording(manager', id)
           /\ \A i \in Ids \ {id} : manager'[i] = manager[i]
  <1> DEFINE s == manager'[id]
  <1>1. /\ manager' \in [Ids -> State] /\ s.file \in {-1, 0} /\ ~IsRecording(manager', id)
        /\ manager[id] = NoState => s = NoState
        /\ \A i \in Ids \ {id} : manager'[i] = manager[i]
    <2>1. CASE manager' = [manager EXCEPT ![id] = NoState]
      <3>1. NoState \in State /\ NoState.file = -1
        BY DEF NoState, State
      <3>2. manager' \in [Ids -> State] /\ s = NoState /\ \A i \in Ids \ {id} : manager'[i] = manager[i]
        BY <2>1, <3>1
      <3> QED BY <3>1, <3>2 DEF IsRecording
    <2>2. CASE manager' = Stopped(manager, id) /\ ~IsRecording(manager, id)
      <3>1. manager' = manager
        BY <2>2 DEF Stopped
      <3>2. manager[id].file \in Nat \/ manager[id].file = -1
        BY DEF State, NoState
      <3>3. manager[id].file \in {-1, 0}
        BY <2>2, <3>2 DEF IsRecording
      <3> QED BY <2>2, <3>1, <3>3
    <2>3. CASE manager' = Stopped(manager, id) /\ IsRecording(manager, id)
      <3> DEFINE x == [manager[id] EXCEPT !.file = 0]
      <3>1. manager[id] # NoState
        BY <2>3 DEF IsRecording, NoState
      <3>2. manager[id] \in [file : Nat, health : Health, early : Seq(Nat)]
        BY <3>1 DEF State
      <3>3. x \in State /\ x.file = 0
        BY <3>2 DEF State
      <3>4. manager' = [manager EXCEPT ![id] = x]
        BY <2>3 DEF Stopped
      <3> HIDE DEF x
      <3>5. manager' \in [Ids -> State] /\ s = x /\ \A i \in Ids \ {id} : manager'[i] = manager[i]
        BY <3>3, <3>4
      <3> QED BY <3>1, <3>3, <3>5 DEF IsRecording
    <2> QED BY <2>1, <2>2, <2>3
  <1>2. ASSUME NEW w \in Ids PROVE Calmer(w)
    <2> SUFFICES ASSUME NEW i \in Ids
                 PROVE  /\ manager'[i].file \in {-1, 0, manager[i].file}
                        /\ manager[i] = NoState => manager'[i] = NoState \/ i <= w
                        /\ manager[i].health # "recording" /\ IsRecording(manager', i) =>
                              manager'[i].health # "recording"
                        /\ Accepts(manager'[i]) => Accepts(manager[i])
      BY DEF Calmer
    <2>1. CASE i # id
      BY <1>1, <2>1
    <2>2. CASE i = id
      BY <1>1, <2>2 DEF Accepts
    <2> QED BY <2>1, <2>2
  <1> QED BY <1>1, <1>2 DEF Calm

LEMMA BeginStopKeeps ==
    ASSUME Inv, Alive, BeginStop
    PROVE  Inv'
  <1> DEFINE k == Head(channel).id
             id == CurrentOr(k)
             ok == IsRecording(manager, id)
  <1>1. PICK w \in Ids : AtId(w)
    BY SomeId
  <1>2. Takes("stop") /\ channel' = Tail(channel) /\ Command = Head(channel)
    BY TakesIs DEF BeginStop
  <1>3. /\ k \in Ids /\ id \in Ids /\ channel # <<>> /\ Head(channel).op = "stop"
        /\ writer = Idle /\ \A i : ~Leaving(i)
    BY <1>1, <1>2, TakenAt, TakesIs
  <1>4. /\ dropped \in [Ids -> [bytes : Nat, pending : BOOLEAN]] /\ manager \in [Ids -> State]
        /\ out \in Publisher /\ used \in Counters
        /\ UNCHANGED <<ui, producer, dropped, rekeyed, files, out, used, lost>>
    BY RunningFacts DEF Typed, BeginStop
  <1>5. manager' = Stopped(manager, id) /\ Continue(id, ok) /\ ok \in BOOLEAN
    BY <1>2 DEF BeginStop, IsRecording
  <1> HIDE DEF id, k, ok
  <1>6. /\ writer' \in Working /\ writer' # Idle /\ writer'.cmd.op = writer'.stage
        /\ writer'.stage = "stop" /\ \A i : Leaving(i)' <=> i = id
    BY <1>2, <1>3, <1>5, ContinueIs
  <1>7. /\ Calm /\ manager' \in [Ids -> State]
        /\ \A i \in Ids \ {id} : manager'[i] = manager[i]
    BY <1>3, <1>4, <1>5, CalmEnded
  <1>8. ASSUME NEW i \in Ids PROVE Reported(i)
    <2>1. CASE i = id
      BY <1>6, <2>1 DEF Reported
    <2>2. CASE i # id
      <3>1. Recorded(i)' = Recorded(i)
        BY <1>7, <2>2, RecordedIs
      <3>2. Steady(i)
        BY <1>3, <1>4, <3>1 DEF Steady
      <3> QED BY <3>2 DEF Reported
    <2> QED BY <2>1, <2>2
  <1>9. "stop" \in Benign \ {"report"}
    BY DEF Benign
  <1> QED BY <1>2, <1>3, <1>4, <1>6, <1>7, <1>8, <1>9, WriterCalm

LEMMA CleanupSessionKeeps ==
    ASSUME Inv, Alive, CleanupSession
    PROVE  Inv'
  <1> DEFINE k == Head(channel).id
  <1>1. Takes("cleanup") /\ channel' = Tail(channel) /\ Command = Head(channel)
    BY TakesIs DEF CleanupSession
  <1>2. /\ k \in Ids /\ channel # <<>> /\ Head(channel).op = "cleanup"
        /\ writer = Idle /\ channel' \in Seq(Cmd) /\ \A i : ~Leaving(i)
    BY <1>1, TakesIs
  <1>3. /\ dropped \in [Ids -> [bytes : Nat, pending : BOOLEAN]] /\ manager \in [Ids -> State]
        /\ out \in Publisher /\ used \in Counters /\ channel \in Seq(Cmd) /\ Typed
        /\ PendingReported /\ RunningGapsShown
        /\ rekeyed \in [Ids -> {"no", "moved", "gone"}]
        /\ UNCHANGED <<ui, producer, writer, files, used, lost>>
    BY RunningFacts DEF Typed, CleanupSession, Running
  <1>4. /\ manager' = [manager EXCEPT ![k] = NoState] /\ rekeyed' = Gone(k)
        /\ dropped' = [dropped EXCEPT ![k] = Unreported] /\ out' = Removed(out, k)
    BY <1>1 DEF CleanupSession
  <1>5. ASSUME NEW w \in Ids, AtId(w) PROVE k <= w
    BY <1>1, <1>5, TakenAt
  <1> HIDE DEF k
  <1>6. /\ Calm /\ manager' \in [Ids -> State] /\ ~IsRecording(manager', k)
        /\ \A i \in Ids \ {k} : manager'[i] = manager[i]
    BY <1>2, <1>3, <1>4, CalmEnded
  <1>7. /\ dropped' \in [Ids -> [bytes : Nat, pending : BOOLEAN]]
        /\ \A i \in Ids : dropped'[i].pending => dropped[i].pending
    BY <1>2, <1>3, <1>4, DroppedReset
  <1>8. /\ out' \in Publisher
        /\ \A i \in Ids, h \in Health :
              out'.mailbox[<<i, h>>] = IF i = k THEN NoStatus ELSE out.mailbox[<<i, h>>]
        /\ \A i : RemovalComes(out.events, i) => RemovalComes(out'.events, i)
        /\ RemovalComes(out'.events, k)
    <2>1. out \in Publisher
      BY <1>3
    <2> DEFINE p == Removed(out, k)
    <2>2. /\ p \in Publisher
          /\ \A i \in Ids, h \in Health :
                p.mailbox[<<i, h>>] = IF i = k THEN NoStatus ELSE out.mailbox[<<i, h>>]
          /\ \A i : RemovalComes(out.events, i) => RemovalComes(p.events, i)
          /\ RemovalComes(p.events, k)
      BY <1>2, <2>1, RemovedKeeps
    <2> HIDE DEF p
    <2> QED BY <1>4, <2>2 DEF p
  <1>9. /\ rekeyed' \in [Ids -> {"no", "moved", "gone"}]
        /\ \A i \in Ids : rekeyed'[i] = rekeyed[i]
                          \/ (i = k /\ rekeyed'[i] = "gone" /\ rekeyed[i] # "moved")
    <2>1. CASE rekeyed[k] = "moved"
      BY <1>3, <1>4, <2>1 DEF Gone
    <2>2. CASE rekeyed[k] # "moved"
      <3>1. rekeyed' = [rekeyed EXCEPT ![k] = "gone"]
        BY <1>4, <2>2 DEF Gone
      <3> QED BY <1>2, <1>3, <2>2, <3>1
    <2> QED BY <2>1, <2>2
  <1>10. Moves /\ Stays
    BY <1>1, <1>2 DEF Moves, Stays, Benign
  <1>11. Typed'
    BY <1>2, <1>3, <1>6, <1>7, <1>8, <1>9 DEF Typed
  <1>12. PendingReported' /\ (Reporting => Reporting')
    BY <1>3, <1>7, <1>10, ReportsKept
  <1>13. RunningGapsShown'
    BY <1>3, <1>6, <1>12, GapsKept
  <1>14. ASSUME NEW w \in Ids, AtId(w) PROVE Cleaned(w)
    <2> SUFFICES ASSUME NEW i \in Ids, rekeyed'[i] # rekeyed[i]
                 PROVE  i = w /\ rekeyed'[i] = "gone" /\ ~IsRecording(manager', i)
      BY DEF Cleaned
    <2>1. i = k /\ rekeyed'[i] = "gone" /\ rekeyed[i] # "moved"
      BY <1>9
    <2>2. k <= w /\ ~(k < w)
      BY <1>5, <1>14, <2>1 DEF AtId
    <2>3. k = w
      BY <1>2, <2>2, IdNat
    <2> QED BY <1>6, <2>1, <2>3
  <1>15. \A i \in Ids : Reported(i)
    <2>1. \A h \in Health : out'.mailbox[<<k, h>>].file = 0
      BY <1>2, <1>8, NoStatusIs
    <2>2. \A i \in Ids \ {k}, h \in Health : out'.mailbox[<<i, h>>] = out.mailbox[<<i, h>>]
      BY <1>8
    <2> QED BY <1>2, <1>3, <1>6, <1>8, <2>1, <2>2, StatusTakenBack
  <1> QED BY <1>3, <1>6, <1>10, <1>11, <1>12, <1>13, <1>14, <1>15, CalmKeeps

-----------------------------------------------------------------------------
(* The steps that accept or refuse a payload, ask for a recording or move  *)
(* the session.                                                            *)

LEMMA InvNext ==
    ASSUME Inv, Alive, Typed', used' \in Counters, files' \in Recordings,
           \A f \in Files : used'.starts < f => files'[f].content = <<>>,
           RecordedWithoutHole', NEW w \in Ids, AtId(w)',
           NEW n \in 1..used'.accepted + 1, AtPayload(n)', FreshFiles', PendingReported',
           RunningGapsShown', \A id \in Ids : Reported(id)
    PROVE  Inv'
  <1>1. StatusesFresh' /\ ShownFresh'
    BY RunningFacts, StatusStep DEF Running
  <1>2. Running'
    BY <1>1 DEF Running
  <1>3. Alive'
    BY TypedAlive, PTL
  <1>4. Base'
    BY <1>3 DEF Base
  <1> QED BY <1>2, <1>4 DEF Inv

LEMMA SomePayload ==
    ASSUME Inv, Alive
    PROVE  \E n \in 1..used.accepted + 1 : AtPayload(n) /\ n \in Nat
  <1>1. PICK n \in 1..used.accepted + 1 : AtPayload(n)
    BY RunningFacts DEF Running
  <1>2. n \in Nat
    BY RunningFacts
  <1> QED BY <1>1, <1>2

LEMMA EnqueueKeeps ==
    ASSUME Inv, Alive, Enqueue
    PROVE  Inv'
  <1> DEFINE k == used.accepted
             c == [op |-> "payload", id |-> producer.id, size |-> producer.size, n |-> k + 1]
  <1>1. PICK w \in Ids : AtId(w)
    BY SomeId
  <1>2. PICK n \in 1..k + 1 : AtPayload(n) /\ n \in Nat
    BY SomePayload
  <1>3. /\ Typed /\ Base /\ used \in Counters /\ files \in Recordings /\ channel \in Seq(Cmd)
        /\ k \in Nat /\ ui.cur \in Nat /\ w \in Nat /\ PendingReported /\ RunningGapsShown
        /\ FreshFiles
    BY RunningFacts, IdNat DEF Running
  <1>4. /\ UNCHANGED <<ui, dropped, writer, rekeyed, manager, files, out, lost>>
        /\ producer' = Idle /\ producer.stage = "enqueue" /\ Send(<<c>>)
    BY DEF Enqueue
  <1>5. producer.id \in Ids /\ producer.id <= ui.cur /\ producer.size \in Nat
    BY <1>4, ProducerIs
  <1>6. c \in Cmd /\ c.op = "payload" /\ c.id <= ui.cur /\ c.n = k + 1
    BY <1>3, <1>5 DEF Cmd
  <1>7. used' \in Counters /\ used'.accepted = k + 1 /\ used'.starts = used.starts
    <2>1. used' = [used EXCEPT !.accepted = k + 1]
      BY DEF Enqueue
    <2> QED BY <1>3, <2>1 DEF Counters
  <1> HIDE DEF c, k
  <1>8. channel' = Append(channel, c)
    BY <1>3, <1>4, <1>6, SendOne
  <1>9. Stays
    BY <1>6, <1>8 DEF Stays
  <1>10. channel' \in Seq(Cmd) /\ PendingReported' /\ (Reporting => Reporting')
    BY <1>3, <1>4, <1>9, ReportsStay, ReportsKept
  <1>11. Typed'
    BY <1>3, <1>4, <1>10 DEF Typed
  <1>12. AtId(w)'
    <2>1. Ordered(channel', w, ui.cur)
      BY <1>1, <1>3, <1>6, <1>8, OrderedSent DEF AtId
    <2> QED BY <1>1, <1>4, <2>1 DEF AtId
  <1>13. AtPayload(n)'
    <2>1. Numbered(channel', n, k + 1)
      BY <1>2, <1>3, <1>6, <1>8, NumberedPayload DEF AtPayload, k
    <2>2. Requested(channel', n, k + 1, files)
      BY <1>2, <1>3, <1>6, <1>8, RequestedPayload DEF AtPayload, k
    <2> QED BY <1>2, <1>4, <1>7, <2>1, <2>2 DEF AtPayload
  <1>14. FreshFiles'
    <2>1. \A a \in Places(channel', "start") :
              a \in Places(channel, "start") /\ channel'[a] = channel[a]
      BY <1>3, <1>6, <1>8, Sent, PlaceTyped
    <2>2. \A f : After(channel, f) => After(channel', f)
      BY <2>1 DEF After
    <2> QED BY <1>3, <1>4, <1>7, <2>1, <2>2 DEF FreshFiles
  <1>15. RunningGapsShown'
    BY <1>3, <1>4, <1>10, CalmSame, GapsKept
  <1>16. \A id \in Ids : Reported(id)
    BY <1>4, Unreporting
  <1>17. /\ \A f \in Files : used'.starts < f => files'[f].content = <<>>
         /\ RecordedWithoutHole' /\ files' \in Recordings
    BY <1>3, <1>4, <1>7 DEF Base, RecordedWithoutHole
  <1>18. n \in 1..used'.accepted + 1
    BY <1>2, <1>3, <1>7
  <1> QED BY <1>7, <1>10, <1>11, <1>12, <1>13, <1>14, <1>15, <1>16, <1>17, <1>18, InvNext

\* A payload is refused: its report comes.
LEMMA RefuseKeeps ==
    ASSUME Inv, Alive, Refuse
    PROVE  Inv'
  <1>1. PICK w \in Ids : AtId(w)
    BY SomeId
  <1>2. PICK n \in 1..used.accepted + 1 : AtPayload(n) /\ n \in Nat
    BY SomePayload
  <1>3. /\ Typed /\ Base /\ used \in Counters /\ files \in Recordings
        /\ PendingReported /\ FreshFiles /\ manager \in [Ids -> State]
        /\ used.starts \in 0..MaxStarts
    BY RunningFacts DEF Counters
  <1>4. /\ UNCHANGED <<ui, channel, dropped, writer, rekeyed, manager, files, out, used>>
        /\ producer.stage = "enqueue" /\ producer' = [producer EXCEPT !.stage = "report"]
        /\ lost' = lost \cup Missing(producer.id)
    BY DEF Refuse
  <1>5. producer \in [stage : {"enqueue", "report"}, id : 1..ui.cur, size : Nat]
    BY <1>3, <1>4 DEF Typed, Idle
  <1>6. /\ producer' \in [stage : {"enqueue", "report"}, id : 1..ui.cur, size : Nat]
        /\ producer'.stage = "report"
    BY <1>4, <1>5
  <1>7. ASSUME NEW f \in Missing(producer.id)
        PROVE  f \in Files /\ f <= used.starts /\ After(channel, f)
    <2>1. PICK i \in Ids : f = manager[i].file /\ IsRecording(manager, i)
      BY DEF Missing
    <2>2. f <= used.starts /\ After(channel, f) /\ f > 0
      BY <1>3, <2>1 DEF FreshFiles, IsRecording
    <2>3. f \in Nat
      BY <1>3, <2>1 DEF IsRecording, State, NoState
    <2> QED BY <1>3, <2>2, <2>3, PipelineConstants DEF Files
  <1>8. Typed'
    BY <1>3, <1>4, <1>6, <1>7 DEF Typed
  <1>9. FreshFiles'
    BY <1>3, <1>4, <1>7 DEF FreshFiles
  <1>10. AtId(w)' /\ AtPayload(n)' /\ PendingReported'
    BY <1>1, <1>2, <1>3, <1>4 DEF AtId, AtPayload, PendingReported, IsRecording, Accepts
  <1>11. Reporting'
    BY <1>6 DEF Reporting
  <1>12. RunningGapsShown'
    BY <1>11 DEF RunningGapsShown
  <1>13. \A id \in Ids : Reported(id)
    BY <1>4, Unreporting
  <1>14. /\ \A f \in Files : used'.starts < f => files'[f].content = <<>>
         /\ RecordedWithoutHole' /\ files' \in Recordings /\ used' \in Counters
    BY <1>3, <1>4 DEF Base, RecordedWithoutHole
  <1>15. n \in 1..used'.accepted + 1
    BY <1>2, <1>4
  <1> QED BY <1>8, <1>9, <1>10, <1>12, <1>13, <1>14, <1>15, InvNext

\* The numbers of the payloads in a recording.
WithoutHole(r) == \A i \in 1..Len(r.content) : r.content[i] = r.from + i - 1

Kept == files \in Recordings
NoHole == \A f \in Files : WithoutHole(files[f])

LEMMA HoleIs ==
    ASSUME Kept
    PROVE  RecordedWithoutHole <=> NoHole
  <1> USE DEF Kept, NoHole
  <1> SUFFICES ASSUME NEW f \in Files
               PROVE  files[f].content = [i \in 1 .. Len(files[f].content) |-> files[f].from + i - 1]
                      <=> WithoutHole(files[f])
    BY DEF RecordedWithoutHole
  <1> DEFINE c == files[f].content
             k == files[f].from
  <1>1. c \in Seq(Nat) /\ k \in Nat
    BY DEF Recordings
  <1>2. c \in [1..Len(c) -> Nat] /\ Len(c) \in Nat
    BY <1>1, LenProperties
  <1>3. WithoutHole(files[f]) <=> \A i \in 1..Len(c) : c[i] = k + i - 1
    BY DEF WithoutHole
  <1> HIDE DEF c, k
  <1>4. c = [i \in 1 .. Len(c) |-> k + i - 1] <=> \A i \in 1..Len(c) : c[i] = k + i - 1
    BY <1>2
  <1> QED BY <1>3, <1>4 DEF c, k

\* A recording is asked for, under a new file.
LEMMA StartSent ==
    ASSUME Inv, Alive, NEW auto \in BOOLEAN, SendStart(auto), ui' \in DesktopState,
           ui'.cur = ui.cur, ui'.job <= ui.cur, ui'.shown = ui.shown,
           UNCHANGED <<producer, dropped, writer, rekeyed, manager, out, lost>>
    PROVE  Inv'
  <1> DEFINE k == used.accepted
             f == used.starts + 1
             c == [op |-> "start", id |-> ui.cur, auto |-> auto, file |-> f]
  <1>1. PICK w \in Ids : AtId(w)
    BY SomeId
  <1>2. PICK n \in 1..k + 1 : AtPayload(n) /\ n \in Nat
    BY SomePayload
  <1>3. /\ Typed /\ Base /\ used \in Counters /\ files \in Recordings /\ channel \in Seq(Cmd)
        /\ k \in Nat /\ ui.cur \in Nat /\ ui.cur \in Ids /\ w \in Nat /\ PendingReported
        /\ RunningGapsShown /\ FreshFiles /\ manager \in [Ids -> State]
    BY RunningFacts, IdNat DEF Running
  <1>4. /\ used' = [used EXCEPT !.starts = f] /\ Send(<<c>>)
        /\ files' = [files EXCEPT ![f].from = k + 1] /\ used.starts < MaxStarts
    BY DEF SendStart
  <1>5. f \in Files /\ f \in Nat /\ used.starts < f /\ used.starts \in Nat
    BY <1>3, <1>4, PipelineConstants, SMTT(30) DEF Counters, Files
  <1>6. c \in Cmd /\ c.op = "start" /\ c.id <= ui.cur /\ c.file = f
    BY <1>3, <1>5 DEF Cmd
  <1>7. used' \in Counters /\ used'.accepted = k /\ used'.starts = f
    <2>1. f \in 0..MaxStarts
      BY <1>5, PipelineConstants DEF Files
    <2> HIDE DEF f
    <2> QED BY <1>3, <1>4, <2>1 DEF Counters
  <1>8. files[f].content = <<>>
    BY <1>3, <1>5 DEF Base
  <1> HIDE DEF c, k, f
  <1>9. /\ files' \in Recordings /\ RecordedWithoutHole'
        /\ \A g \in Files : files'[g].content = files[g].content /\ (g # f => files'[g] = files[g])
    <2>1. \A g \in Files : WithoutHole(files[g])
      BY <1>3, HoleIs DEF Base, Kept, NoHole
    <2>2. k + 1 \in Nat
      BY <1>3
    <2> DEFINE x == [files[f] EXCEPT !.from = k + 1]
    <2>3. files \in [Files -> [from : Nat, content : Seq(Nat)]]
      BY <1>3 DEF Recordings
    <2>4. x \in [from : Nat, content : Seq(Nat)] /\ x.content = files[f].content
      BY <1>5, <2>2, <2>3
    <2>5. files' = [files EXCEPT ![f] = x]
      BY <1>4
    <2>6. WithoutHole(x)
      BY <1>8, <2>4, EmptySeq DEF WithoutHole
    <2> HIDE DEF x
    <2>7. /\ files' \in Recordings /\ files'[f] = x
          /\ \A g \in Files : g # f => files'[g] = files[g]
      BY <1>5, <2>3, <2>4, <2>5 DEF Recordings
    <2>8. Kept' /\ NoHole'
      BY <2>1, <2>6, <2>7 DEF Kept, NoHole
    <2>9. RecordedWithoutHole'
      BY <2>7, <2>8, HoleIs, PTL
    <2> QED BY <2>4, <2>7, <2>9
  <1>10. channel' = Append(channel, c)
    BY <1>3, <1>4, <1>6, SendOne
  <1>11. Stays
    BY <1>6, <1>10 DEF Stays
  <1>12. channel' \in Seq(Cmd) /\ PendingReported' /\ (Reporting => Reporting')
    BY <1>3, <1>11, ReportsStay, ReportsKept
  <1>13. Typed'
    BY <1>3, <1>12 DEF Typed
  <1>14. AtId(w)'
    <2>1. Ordered(channel', w, ui.cur)
      BY <1>1, <1>3, <1>6, <1>10, OrderedSent DEF AtId
    <2> QED BY <1>1, <2>1 DEF AtId
  <1>15. \A a \in Places(channel, "start") : channel[a].file <= used.starts /\ channel[a].file < f
    <2>1. \A a \in Places(channel, "start") : channel[a].file <= used.starts
      BY <1>3 DEF FreshFiles
    <2>2. \A a \in Places(channel, "start") : channel[a].file \in Nat
      BY <1>3, PlaceTyped, IdNat
    <2> QED BY <1>5, <2>1, <2>2
  <1>16. \A i \in Ids : manager[i].file <= used.starts /\ manager[i].file < f
                        /\ manager[i].file \in Int
    <2> TAKE i \in Ids
    <2>1. manager[i].file <= used.starts
      BY <1>3 DEF FreshFiles
    <2>2. manager[i].file \in Int
      BY <1>3 DEF State, NoState
    <2> QED BY <1>5, <2>1, <2>2
  <1>17. AtPayload(n)'
    <2>1. Numbered(channel', n, k)
      BY <1>2, <1>3, <1>6, <1>10, NumberedSent DEF AtPayload, k
    <2>2. Requested(channel', n, k, files')
      <3>1. Numbered(channel, n, k) /\ Requested(channel, n, k, files)
        BY <1>2 DEF AtPayload, k
      <3>2. Requested(Append(channel, c), n, k, [files EXCEPT ![c.file].from = k + 1])
        BY <1>2, <1>3, <1>6, <1>8, <1>15, <3>1, RequestedStart
      <3> QED BY <1>4, <1>6, <1>10, <3>2
    <2>3. ASSUME NEW i \in Ids, Accepts(manager[i])
          PROVE  files'[manager[i].file].from + Len(files'[manager[i].file].content) = n
      <3>1. manager[i].file \in Files /\ manager[i].file # f
        <4>1. used.starts \in 0..MaxStarts
          BY <1>3 DEF Counters
        <4>2. manager[i].file > 0
          BY <2>3 DEF Accepts
        <4>3. manager[i].file <= used.starts /\ manager[i].file < f /\ manager[i].file \in Int
          BY <1>16
        <4> QED BY <1>5, <4>1, <4>2, <4>3, PipelineConstants DEF Files
      <3>2. files'[manager[i].file] = files[manager[i].file]
        BY <1>9, <3>1
      <3> QED BY <1>2, <2>3, <3>2 DEF AtPayload
    <2> QED BY <1>7, <2>1, <2>2, <2>3 DEF AtPayload
  <1>18. FreshFiles'
    <2>1. \A a \in Places(channel', "start") : channel'[a].file <= f
      <3>1. \A a \in Places(channel', "start") :
                (a \in Places(channel, "start") /\ channel'[a] = channel[a]) \/ channel'[a] = c
        BY <1>3, <1>6, <1>10, Sent, PlaceTyped
      <3>2. \A a \in Places(channel, "start") : channel[a].file <= f
        <4>1. \A a \in Places(channel, "start") : channel[a].file \in Nat
          BY <1>3, PlaceTyped, IdNat
        <4> QED BY <1>5, <1>15, <4>1
      <3> QED BY <1>5, <1>6, <3>1, <3>2
    <2>2. \A g : g < f /\ After(channel, g) => After(channel', g)
      BY <1>3, <1>6, <1>10, AfterSent
    <2>3. \A i \in Ids : manager[i].file <= f /\ After(channel', manager[i].file)
      BY <1>3, <1>5, <1>16, <2>2 DEF FreshFiles
    <2>4. \A g \in lost : g <= f /\ After(channel', g)
      <3>1. \A g \in lost : g \in Nat
        BY <1>3, IdNat DEF Typed
      <3>2. \A g \in lost : g <= used.starts /\ After(channel, g)
        BY <1>3 DEF FreshFiles
      <3> QED BY <1>5, <2>2, <3>1, <3>2
    <2> QED BY <1>7, <2>1, <2>3, <2>4 DEF FreshFiles
  <1>19. RunningGapsShown'
    BY <1>3, <1>12, CalmSame, GapsKept
  <1>20. \A id \in Ids : Reported(id)
    BY Unreporting
  <1>21. \A g \in Files : used'.starts < g => files'[g].content = <<>>
    <2>1. \A g \in Files : f < g => used.starts < g
      <3> TAKE g \in Files
      <3>1. g \in Nat
        BY IdNat
      <3> QED BY <1>5, <3>1
    <2> QED BY <1>3, <1>7, <1>9, <2>1 DEF Base
  <1>22. n \in 1..used'.accepted + 1
    BY <1>2, <1>7
  <1> QED BY <1>7, <1>9, <1>12, <1>13, <1>14, <1>17, <1>18, <1>19, <1>20, <1>21, <1>22, InvNext

LEMMA RegisterKeeps ==
    ASSUME Inv, Alive, Register
    PROVE  Inv'
  <1>1. /\ ui \in DesktopState /\ ui.cur \in Nat /\ out \in Publisher /\ ui.job <= ui.cur
        /\ UNCHANGED <<producer, dropped, writer, rekeyed, manager, out, lost>>
        /\ ui' = [ui EXCEPT !.stage = "live"]
    BY RunningFacts DEF Typed, Register
  <1>2. ui' \in DesktopState /\ ui'.cur = ui.cur /\ ui'.job = ui.job /\ ui'.shown = ui.shown
    BY <1>1 DEF DesktopState
  <1>3. CASE SendStart(TRUE)
    <2> DEFINE auto == TRUE
    <2>1. SendStart(auto) /\ auto \in BOOLEAN
      BY <1>3
    <2> HIDE DEF auto
    <2> QED BY <1>1, <1>2, <2>1, StartSent
  <1>4. CASE UNCHANGED <<used, files, channel, policies>>
    BY <1>1, <1>2, <1>4, Unreporting, DesktopCalm
  <1> QED BY <1>3, <1>4 DEF Register

LEMMA StartRecordingKeeps ==
    ASSUME Inv, Alive, StartRecording
    PROVE  Inv'
  <1> DEFINE b == [ui.busy EXCEPT ![ui.cur] = TRUE]
             auto == FALSE
  <1>1. /\ ui \in DesktopState /\ ui.cur \in Ids /\ ui.cur \in Nat /\ out \in Publisher
        /\ ui.job <= ui.cur
        /\ UNCHANGED <<producer, dropped, writer, rekeyed, manager, out, lost>>
        /\ ui' = [ui EXCEPT !.busy = b] /\ SendStart(auto) /\ auto \in BOOLEAN
    BY RunningFacts DEF Typed, StartRecording
  <1>2. b \in [Ids -> BOOLEAN]
    BY <1>1 DEF DesktopState
  <1> HIDE DEF b, auto
  <1>3. ui' \in DesktopState /\ ui'.cur = ui.cur /\ ui'.job = ui.job /\ ui'.shown = ui.shown
    BY <1>1, <1>2 DEF DesktopState
  <1> QED BY <1>1, <1>3, StartSent

LEMMA ReconnectKeeps ==
    ASSUME Inv, Alive, Reconnect
    PROVE  Inv'
  <1> DEFINE c == [op |-> "rekey", id |-> ui.cur]
             next == ui.cur + 1
             b == [ui.busy EXCEPT ![next] = ui.busy[ui.cur], ![ui.cur] = FALSE]
  <1>1. PICK w \in Ids : AtId(w)
    BY SomeId
  <1>2. PICK n \in 1..used.accepted + 1 : AtPayload(n) /\ n \in Nat
    BY SomePayload
  <1>3. /\ Typed /\ Base /\ used \in Counters /\ files \in Recordings /\ channel \in Seq(Cmd)
        /\ ui \in DesktopState /\ ui.cur \in Nat /\ ui.cur \in Ids /\ w \in Nat
        /\ PendingReported /\ RunningGapsShown /\ FreshFiles /\ used.accepted \in Nat
    BY RunningFacts, IdNat DEF Running
  <1>4. /\ UNCHANGED <<producer, dropped, writer, rekeyed, manager, files, out, used, lost>>
        /\ ui' = [ui EXCEPT !.cur = next, !.stage = "registering", !.disconnected = FALSE,
                            !.busy = b]
        /\ Send(<<c>>) /\ ui.cur < MaxIds
    BY DEF Reconnect
  <1>5. next \in Ids /\ next \in Nat
    BY <1>3, <1>4, PipelineConstants, SMTT(30) DEF Ids
  <1>6. b \in [Ids -> BOOLEAN]
    BY <1>3 DEF DesktopState
  <1>7. c \in Cmd /\ c.op = "rekey" /\ c.id = ui.cur
    BY <1>3 DEF Cmd
  <1> HIDE DEF c, b
  <1>8. ui' \in DesktopState /\ ui'.cur = ui.cur + 1 /\ ui'.job = ui.job /\ ui'.shown = ui.shown
    <2>1. next = ui.cur + 1
      OBVIOUS
    <2> HIDE DEF next
    <2> QED BY <1>3, <1>4, <1>5, <1>6, <2>1 DEF DesktopState
  <1>9. channel' = Append(channel, c)
    BY <1>3, <1>4, <1>7, SendOne
  <1>10. Stays
    BY <1>7, <1>9 DEF Stays
  <1>11. channel' \in Seq(Cmd) /\ PendingReported' /\ (Reporting => Reporting')
    BY <1>3, <1>4, <1>10, ReportsStay, ReportsKept
  <1>12. Typed'
    <2>1. ui'.job <= ui'.cur
      <3>1. ui.job \in Nat /\ ui.job <= ui.cur
        BY <1>3 DEF Typed, DesktopState
      <3> QED BY <1>3, <1>8, <3>1
    <2>2. producer' \in {Idle} \cup [stage : {"enqueue", "report"}, id : 1..ui'.cur, size : Nat]
      <3>1. 1..ui.cur \subseteq 1..ui'.cur
        BY <1>3, <1>8
      <3> QED BY <1>3, <1>4, <3>1 DEF Typed
    <2>3. writer'.stage = "rekey" => writer'.cmd.id < ui'.cur
      <3> SUFFICES ASSUME writer.stage = "rekey" PROVE writer.cmd.id < ui'.cur
        BY <1>4
      <3>1. writer.cmd.id \in Nat /\ writer.cmd.id < ui.cur
        BY WriterIs, IdNat
      <3> QED BY <1>3, <1>8, <3>1
    <2> QED BY <1>3, <1>4, <1>8, <1>11, <2>1, <2>2, <2>3 DEF Typed
  <1>13. AtId(w)'
    <2>1. w <= ui.cur /\ Ordered(channel, w, ui.cur)
      BY <1>1 DEF AtId
    <2>2. Ordered(channel', w, ui.cur + 1)
      BY <1>3, <1>7, <1>9, <2>1, OrderedRekey
    <2>3. w <= ui'.cur
      BY <1>3, <1>8, <2>1
    <2> QED BY <1>1, <1>4, <1>8, <2>2, <2>3 DEF AtId
  <1>14. AtPayload(n)'
    <2>1. c.op # "payload" /\ c.op \notin {"payload", "start"}
      BY <1>7
    <2>2. Numbered(channel', n, used.accepted)
      BY <1>2, <1>3, <1>7, <1>9, <2>1, NumberedSent DEF AtPayload
    <2>3. Requested(channel', n, used.accepted, files)
      BY <1>2, <1>3, <1>7, <1>9, <2>1, RequestedSent DEF AtPayload
    <2> QED BY <1>2, <1>4, <2>2, <2>3 DEF AtPayload
  <1>15. FreshFiles'
    <2>1. \A a \in Places(channel', "start") :
              a \in Places(channel, "start") /\ channel'[a] = channel[a]
      BY <1>3, <1>7, <1>9, Sent, PlaceTyped
    <2>2. \A f : After(channel, f) => After(channel', f)
      BY <2>1 DEF After
    <2> QED BY <1>3, <1>4, <2>1, <2>2 DEF FreshFiles
  <1>16. RunningGapsShown'
    BY <1>3, <1>4, <1>11, CalmSame, GapsKept
  <1>17. \A id \in Ids : Reported(id)
    BY <1>4, <1>8, Unreporting
  <1>18. /\ \A f \in Files : used'.starts < f => files'[f].content = <<>>
         /\ RecordedWithoutHole' /\ files' \in Recordings /\ used' \in Counters
    BY <1>3, <1>4 DEF Base, RecordedWithoutHole
  <1>19. n \in 1..used'.accepted + 1
    BY <1>2, <1>4
  <1> QED BY <1>11, <1>12, <1>13, <1>14, <1>15, <1>16, <1>17, <1>18, <1>19, InvNext

-----------------------------------------------------------------------------
(* The writer starts a recording, writes a payload, moves a recording.     *)

LEMMA BeginStartKeeps ==
    ASSUME Inv, Alive, BeginStart
    PROVE  Inv'
  <1> DEFINE c == Head(channel)
             id == Current(c.id)
             target == CurrentOr(c.id)
             s == [Fresh EXCEPT !.file = c.file]
  <1>1. PICK w \in Ids : AtId(w)
    BY SomeId
  <1>2. PICK n \in 1..used.accepted + 1 : AtPayload(n) /\ n \in Nat
    BY SomePayload
  <1>3. /\ Typed /\ Base /\ used \in Counters /\ files \in Recordings /\ channel \in Seq(Cmd)
        /\ ui.cur \in Nat /\ w \in Nat /\ manager \in [Ids -> State]
        /\ PendingReported /\ RunningGapsShown /\ FreshFiles /\ used.accepted \in Nat
    BY RunningFacts, IdNat DEF Running
  <1>4. Takes("start") /\ channel' = Tail(channel) /\ Command = c
    BY TakesIs DEF BeginStart
  <1>5. /\ c \in Cmd /\ c.op = "start" /\ c.id \in Ids /\ channel # <<>> /\ channel' \in Seq(Cmd)
        /\ \A i : ~Leaving(i)
    BY <1>4, TakesIs
  <1>6. /\ target \in Ids /\ Ordered(channel', w, ui.cur)
        /\ id # 0 => id = w /\ target = w /\ rekeyed[w] # "gone"
    BY <1>1, <1>4, TakenAt
  <1>7. UNCHANGED <<ui, producer, dropped, rekeyed, files, out, lost>>
    BY DEF BeginStart
  <1>8. PICK fault \in {0, 1} :
            /\ Faults(fault)
            /\ manager' = IF id = 0 \/ IsRecording(manager, target) \/ fault = 1 THEN manager
                          ELSE [manager EXCEPT ![id] = s]
            /\ Continue(target, id # 0 /\ fault = 0 /\ (IsRecording(manager, target) => c.auto))
    BY <1>4 DEF BeginStart
  <1>9. used' \in Counters /\ used'.accepted = used.accepted /\ used'.starts = used.starts
    BY <1>3, <1>8, FaultsIs
  <1>10. c.file \in Files /\ c.file \in Nat /\ c.file > 0 /\ c.auto \in BOOLEAN
    <2>1. c.file \in Files /\ c.auto \in BOOLEAN
      BY <1>5 DEF Cmd
    <2>2. c.file \in Nat \ {0}
      BY <2>1, IdNat
    <2>3. c.file \in Nat /\ c.file > 0
      <3> HIDE DEF c
      <3> QED BY <2>2
    <2> QED BY <2>1, <2>3
  <1>11. /\ s \in State /\ s.file = c.file /\ s.health = "recording"
    <2>1. <<>> \in Seq(Nat)
      BY EmptySeq
    <2> QED BY <1>10, <2>1 DEF Fresh, State, Health
  <1>12. /\ writer' \in Working /\ writer' # Idle /\ writer'.cmd.op = "start"
         /\ writer'.stage = "start" /\ \A i : ~Leaving(i)'
    <2> DEFINE ok == id # 0 /\ fault = 0 /\ (IsRecording(manager, target) => c.auto)
    <2>1. Continue(target, ok) /\ ok \in BOOLEAN
      BY <1>8
    <2> HIDE DEF ok, target
    <2> QED BY <1>4, <1>6, <2>1, ContinueIs
  <1>13. /\ 1 \in Places(channel, "start") /\ channel[1] = c
         /\ c.file <= used.starts /\ \A g : After(channel, g) => g < c.file
    <2>1. 1 \in Places(channel, "start") /\ channel[1] = c
      BY <1>3, <1>5, Taken1
    <2> QED BY <1>3, <2>1 DEF FreshFiles, After
  <1>14. /\ Numbered(channel', n, used.accepted) /\ Requested(channel', n, used.accepted, files)
         /\ files[c.file].from = n /\ files[c.file].content = <<>> /\ After(channel', c.file)
    <2>1. Numbered(channel, n, used.accepted) /\ Requested(channel, n, used.accepted, files)
      BY <1>2 DEF AtPayload
    <2>2. Numbered(channel', n, used.accepted)
      BY <1>2, <1>3, <1>4, <1>5, <2>1, NumberedTaken
    <2>3. /\ Requested(channel', n, used.accepted, files)
          /\ files[c.file].from = n /\ files[c.file].content = <<>>
          /\ \A a \in Places(channel', "start") : c.file < channel'[a].file
      <3> DEFINE k == used.accepted
                 t == Tail(channel)
      <3>1. k \in Nat /\ n \in Nat /\ Numbered(channel, n, k) /\ Requested(channel, n, k, files)
        BY <1>2, <1>3, <2>1
      <3> HIDE DEF k
      <3>2. /\ Requested(t, n, k, files)
            /\ files[c.file].from = n /\ files[c.file].content = <<>>
            /\ \A a \in Places(t, "start") : c.file < t[a].file
        <4>1. channel \in Seq(Cmd) /\ channel # <<>> /\ files \in Recordings
          BY <1>3, <1>5
        <4>2. Head(channel).op = "start" /\ Head(channel).op # "payload"
          BY <1>5
        <4>3. Requested(t, n, k, files)
          BY <3>1, <4>1, <4>2, RequestedTaken
        <4>4. files[c.file].from = n /\ files[c.file].content = <<>>
          BY <3>1, <4>1, <4>2, RequestedTaken
        <4>5. \A a \in Places(t, "start") : c.file < t[a].file
          BY <3>1, <4>1, <4>2, RequestedTaken
        <4> QED BY <4>3, <4>4, <4>5
      <3> HIDE DEF t, c
      <3> QED BY <1>4, <3>2 DEF k, t
    <2> QED BY <2>2, <2>3 DEF After
  <1>15. \A g : After(channel, g) => After(channel', g)
    BY <1>3, <1>4, <1>5, AfterTaken
  <1>16. Stays
    BY <1>4, <1>5 DEF Stays
  <1>17. PendingReported' /\ (Reporting => Reporting')
    BY <1>3, <1>7, <1>16, ReportsKept
  <1>18. /\ manager' \in [Ids -> State]
         /\ \A i \in Ids : \/ manager'[i] = manager[i]
                           \/ i = w /\ rekeyed[w] # "gone" /\ ~IsRecording(manager, i) /\ manager'[i] = s
    <2> HIDE DEF s, id, target
    <2>1. CASE manager' = manager
      BY <1>3, <2>1
    <2>2. CASE manager' # manager
      <3>1. id # 0 /\ ~IsRecording(manager, target) /\ manager' = [manager EXCEPT ![id] = s]
        BY <1>8, <2>2
      <3>2. id = w /\ target = w /\ rekeyed[w] # "gone"
        BY <1>6, <3>1
      <3> QED BY <1>1, <1>3, <1>11, <3>1, <3>2
    <2> QED BY <2>1, <2>2
  <1> HIDE DEF s, id, target, c
  <1>19. Typed'
    BY <1>3, <1>5, <1>7, <1>12, <1>18 DEF Typed
  <1>20. AtId(w)'
    <2>1. rekeyed[w] # "moved"
      BY <1>1, <1>3 DEF AtId
    <2>2. rekeyed[w] \in {"no", "moved", "gone"}
      BY <1>3 DEF Typed
    <2>3. \A i \in Ids : w < i => i # w
      BY IdNat
    <2>4. \A i \in Ids : w < i => manager'[i] = NoState
      BY <1>1, <1>18, <2>3 DEF AtId
    <2>5. \A i \in Ids : IsRecording(manager', i) => i = w /\ rekeyed[i] = "no"
      BY <1>1, <1>18, <2>1, <2>2 DEF AtId, IsRecording
    <2> QED BY <1>1, <1>6, <1>7, <2>4, <2>5 DEF AtId
  <1>21. AtPayload(n)'
    <2>1. ASSUME NEW i \in Ids, Accepts(manager'[i])
          PROVE  files[manager'[i].file].from + Len(files[manager'[i].file].content) = n
      <3>1. CASE manager'[i] = manager[i]
        BY <1>2, <2>1, <3>1 DEF AtPayload
      <3>2. CASE manager'[i] = s
        BY <1>2, <1>11, <1>14, <3>2, EmptySeq
      <3> QED BY <1>18, <3>1, <3>2
    <2> QED BY <1>7, <1>9, <1>14, <2>1 DEF AtPayload
  <1>22. FreshFiles'
    <2>1. \A a \in Places(channel', "start") : channel'[a].file <= used.starts
      <3>1. \A a \in Places(channel', "start") :
                a + 1 \in Places(channel, "start") /\ channel'[a] = channel[a + 1]
        BY <1>3, <1>4, <1>5, Taken1
      <3> QED BY <1>3, <3>1 DEF FreshFiles
    <2>2. \A i \in Ids : manager'[i].file <= used.starts /\ After(channel', manager'[i].file)
      BY <1>3, <1>11, <1>13, <1>14, <1>15, <1>18 DEF FreshFiles
    <2> QED BY <1>3, <1>7, <1>9, <1>15, <2>1, <2>2 DEF FreshFiles
  <1>23. RunningGapsShown'
    <2> SUFFICES ASSUME NEW i \in Ids, IsRecording(manager', i), manager'[i].file \in lost,
                        manager'[i].health = "recording"
                 PROVE  Reporting'
      BY <1>7 DEF RunningGapsShown
    <2>1. \A g \in lost : g < c.file /\ g \in Nat
      BY <1>3, <1>13, IdNat DEF FreshFiles, Typed
    <2>2. manager'[i] # s
      BY <1>10, <1>11, <2>1
    <2>3. manager'[i] = manager[i]
      BY <1>18, <2>2
    <2> QED BY <1>3, <1>17, <2>3 DEF RunningGapsShown, IsRecording
  <1>24. ASSUME NEW i \in Ids PROVE Reported(i)
    <2>1. Recorded(i) \in {0, Recorded(i)'}
      BY <1>18, RecordedIs DEF IsRecording
    <2>2. Steady(i)
      BY <1>5, <1>7, <2>1 DEF Steady
    <2> QED BY <2>2 DEF Reported
  <1>25. /\ \A f \in Files : used'.starts < f => files'[f].content = <<>>
         /\ RecordedWithoutHole' /\ files' \in Recordings
    BY <1>3, <1>7, <1>9 DEF Base, RecordedWithoutHole
  <1>26. n \in 1..used'.accepted + 1
    BY <1>2, <1>9
  <1> QED BY <1>9, <1>17, <1>19, <1>20, <1>21, <1>22, <1>23, <1>24, <1>25, <1>26, InvNext

LEMMA Appended ==
    ASSUME Kept, NoHole, NEW f \in Files, NEW n \in Nat,
           files[f].from + Len(files[f].content) = n,
           files' = [files EXCEPT ![f].content = Append(files[f].content, n)]
    PROVE  /\ files' \in Recordings /\ RecordedWithoutHole'
           /\ files'[f].from + Len(files'[f].content) = n + 1
           /\ \A g \in Files : g # f => files'[g] = files[g]
  <1> DEFINE r == files[f]
             d == Append(r.content, n)
             x == [r EXCEPT !.content = d]
  <1>1. files \in [Files -> [from : Nat, content : Seq(Nat)]]
    BY DEF Kept, Recordings
  <1>2. r \in [from : Nat, content : Seq(Nat)] /\ WithoutHole(r) /\ r.content \in Seq(Nat)
    BY <1>1 DEF NoHole
  <1>3. /\ d \in Seq(Nat) /\ Len(d) = Len(r.content) + 1 /\ d[Len(r.content) + 1] = n
        /\ \A i \in 1..Len(r.content) : d[i] = r.content[i]
    BY <1>2, AppendProperties
  <1>4. Len(r.content) \in Nat
    BY <1>2, LenProperties
  <1>5. files' = [files EXCEPT ![f] = x]
    OBVIOUS
  <1>6. r.from + Len(r.content) = n
    OBVIOUS
  <1> HIDE DEF r, d
  <1>7. x \in [from : Nat, content : Seq(Nat)] /\ x.content = d /\ x.from = r.from
    BY <1>2, <1>3
  <1> HIDE DEF x
  <1>8. WithoutHole(x)
    <2> SUFFICES ASSUME NEW i \in 1..Len(d) PROVE d[i] = r.from + i - 1
      BY <1>7 DEF WithoutHole
    <2>1. CASE i \in 1..Len(r.content)
      BY <1>2, <1>3, <2>1 DEF WithoutHole
    <2>2. CASE i = Len(r.content) + 1
      <3>1. r.from \in Nat
        BY <1>2
      <3>2. r.from + i - 1 = n
        BY <1>4, <1>6, <2>2, <3>1
      <3> QED BY <1>3, <2>2, <3>2
    <2> QED BY <1>3, <1>4, <2>1, <2>2
  <1>9. /\ files' \in [Files -> [from : Nat, content : Seq(Nat)]] /\ files'[f] = x
        /\ \A g \in Files : g # f => files'[g] = files[g]
    BY <1>1, <1>5, <1>7
  <1>10. Kept' /\ NoHole'
    BY <1>8, <1>9 DEF Kept, NoHole, Recordings
  <1>11. RecordedWithoutHole'
    BY <1>10, HoleIs, PTL
  <1>12. x.from + Len(x.content) = n + 1
    <2>1. r.from \in Nat
      BY <1>2
    <2> DEFINE y == r.from
               l == Len(r.content)
    <2>2. x.from = y /\ Len(x.content) = l + 1
      BY <1>3, <1>7
    <2>3. y \in Nat /\ l \in Nat /\ y + l = n
      BY <1>4, <1>6, <2>1
    <2> HIDE DEF y, l
    <2>4. y + (l + 1) = n + 1
      BY <2>3
    <2> QED BY <2>2, <2>4
  <1>13. files' \in Recordings
    BY <1>9 DEF Recordings
  <1>14. files'[f].from + Len(files'[f].content) = n + 1
    BY <1>9, <1>12
  <1> QED BY <1>9, <1>11, <1>13, <1>14

\* What writing the payload n does to the recording under w.
LEMMA Written ==
    ASSUME Inv, Alive, WritePayload, NEW w \in Ids, AtId(w), NEW n \in Nat, Head(channel).n = n
    PROVE  /\ manager' \in [Ids -> State] /\ out' \in Publisher
           /\ \A i \in Ids : \/ manager'[i] = manager[i]
                             \/ i = w /\ ~IsRecording(manager, i) /\ manager'[i].file = 0
                             \/ i = w /\ manager'[i].file = manager[i].file
                                  /\ manager'[i].health = "failed"
           /\ \/ files' = files /\ \A i \in Ids : ~Accepts(manager'[i])
              \/ /\ Accepts(manager[w]) /\ manager' = manager
                 /\ files' = [files EXCEPT ![manager[w].file].content =
                                Append(files[manager[w].file].content, n)]
           /\ \A i \in Ids, h \in Health :
                 \/ out'.mailbox[<<i, h>>] = out.mailbox[<<i, h>>]
                 \/ out'.mailbox[<<i, h>>].file = StatusOf(manager', i).file
           /\ \A i : RemovalComes(out.events, i) => RemovalComes(out'.events, i)
  <1> DEFINE id == Current(Head(channel).id)
             e == Entry(id)
             x(fault) == IF e.file = 0 THEN [e EXCEPT !.early = Append(e.early, n)]
                         ELSE IF fault = 1 THEN [e EXCEPT !.health = "failed"] ELSE e
             m(fault) == [manager EXCEPT ![id] = x(fault)]
  <1>1. manager \in [Ids -> State] /\ out \in Publisher
    BY RunningFacts
  <1>2. Takes("payload") /\ Command = Head(channel)
    BY TakesIs DEF WritePayload
  <1>3. (rekeyed[w] = "gone" => id = 0) /\ (rekeyed[w] # "gone" => id = w)
    BY <1>2, TakenAt
  <1>4. PICK again \in BOOLEAN, fault \in {0, 1} :
            /\ fault = 1 => id # 0 /\ IsRecording(manager, id)
            /\ IF id = 0 THEN UNCHANGED <<manager, files, out>>
               ELSE /\ manager' = m(fault)
                    /\ files' = IF fault = 0 /\ Accepts(e)
                                THEN [files EXCEPT ![e.file].content =
                                        Append(files[e.file].content, n)]
                                ELSE files
                    /\ out' = Publish(out, m(fault), id, again)
    BY <1>2 DEF WritePayload
  <1>5. \A i \in Ids : i # w => ~IsRecording(manager, i)
    BY DEF AtId
  <1>6. \A i \in Ids : Accepts(manager[i]) => IsRecording(manager, i)
    BY DEF Accepts, IsRecording
  <1>7. CASE id = 0
    <2>1. UNCHANGED <<manager, files, out>>
      BY <1>4, <1>7
    <2>2. rekeyed[w] = "gone"
      BY <1>3, <1>7, IdNat
    <2>3. \A i \in Ids : ~Accepts(manager[i])
      BY <1>6, <2>2 DEF AtId
    <2> QED BY <1>1, <2>1, <2>3
  <1>8. CASE id # 0
    <2> DEFINE y == x(fault)
    <2>1. id = w
      BY <1>3, <1>8
    <2>2. /\ manager' = [manager EXCEPT ![w] = y] /\ out' = Publish(out, manager', w, again)
          /\ files' = IF fault = 0 /\ Accepts(e)
                      THEN [files EXCEPT ![e.file].content = Append(files[e.file].content, n)]
                      ELSE files
          /\ fault = 1 => IsRecording(manager, w)
      BY <1>4, <1>8, <2>1
    <2>3. e \in [file : Nat, health : Health, early : Seq(Nat)]
      <3>1. Fresh \in [file : Nat, health : Health, early : Seq(Nat)]
        BY EmptySeq DEF Fresh, Health
      <3> QED BY <1>1, <2>1, <3>1 DEF Entry, State
    <2>4. /\ e.file = 0 => ~IsRecording(manager, w)
          /\ e.file # 0 => manager[w] = e
      BY <2>1 DEF Entry, IsRecording, NoState, Fresh
    <2> HIDE DEF e, id
    <2>5. /\ y \in State
          /\ e.file = 0 => y.file = 0
          /\ e.file # 0 /\ fault = 1 => y.file = e.file /\ y.health = "failed"
          /\ e.file # 0 /\ fault = 0 => y = e
      <3>1. CASE e.file = 0
        <4> DEFINE s == Append(e.early, n)
        <4>1. s \in Seq(Nat)
          BY <2>3, AppendProperties
        <4>2. y = [e EXCEPT !.early = s]
          BY <3>1
        <4> HIDE DEF s, y
        <4> QED BY <2>3, <3>1, <4>1, <4>2 DEF State
      <3>2. CASE e.file # 0 /\ fault = 1
        <4>1. y = [e EXCEPT !.health = "failed"]
          BY <3>2
        <4> HIDE DEF y
        <4> QED BY <2>3, <3>2, <4>1, SMTT(30) DEF State, Health
      <3>3. CASE e.file # 0 /\ fault = 0
        BY <2>3, <3>3 DEF State
      <3> QED BY <3>1, <3>2, <3>3
    <2> HIDE DEF y, x, m
    <2>6. /\ manager' \in [Ids -> State] /\ manager'[w] = y
          /\ \A i \in Ids : i # w => manager'[i] = manager[i]
      BY <1>1, <2>2, <2>5
    <2>7. /\ out' \in Publisher
          /\ \A i \in Ids, h \in Health :
                \/ out'.mailbox[<<i, h>>] = out.mailbox[<<i, h>>]
                \/ out'.mailbox[<<i, h>>].file = StatusOf(manager', i).file
          /\ \A i : RemovalComes(out.events, i) => RemovalComes(out'.events, i)
      BY <2>2, <2>6, Published
    <2>8. \A i \in Ids : \/ manager'[i] = manager[i]
                         \/ i = w /\ ~IsRecording(manager, i) /\ manager'[i].file = 0
                         \/ i = w /\ manager'[i].file = manager[i].file
                              /\ manager'[i].health = "failed"
      BY <2>4, <2>5, <2>6
    <2>9. \A i \in Ids : Accepts(manager'[i]) => i = w /\ Accepts(y)
      BY <1>5, <1>6, <2>6
    <2>10. CASE e.file = 0
      <3>1. ~Accepts(e) /\ ~Accepts(y)
        BY <2>5, <2>10 DEF Accepts
      <3> QED BY <2>2, <2>6, <2>7, <2>8, <2>9, <3>1
    <2>11. CASE e.file # 0 /\ (fault = 1 \/ ~Accepts(e))
      <3>1. ~Accepts(y)
        BY <2>5, <2>11 DEF Accepts
      <3>2. files' = files
        BY <2>2, <2>11
      <3> QED BY <2>6, <2>7, <2>8, <2>9, <3>1, <3>2
    <2>12. CASE e.file # 0 /\ fault = 0 /\ Accepts(e)
      <3>1. y = manager[w] /\ manager[w] = e
        BY <2>4, <2>5, <2>12
      <3>2. manager' = manager
        BY <1>1, <2>6, <3>1
      <3>3. files' = [files EXCEPT ![manager[w].file].content =
                        Append(files[manager[w].file].content, n)]
        BY <2>2, <2>12, <3>1
      <3> QED BY <2>6, <2>7, <2>8, <2>12, <3>1, <3>2, <3>3
    <2> QED BY <2>10, <2>11, <2>12
  <1> QED BY <1>7, <1>8

LEMMA WritePayloadKeeps ==
    ASSUME Inv, Alive, WritePayload
    PROVE  Inv'
  <1> DEFINE c == Head(channel)
             k == used.accepted
  <1>1. PICK w \in Ids : AtId(w)
    BY SomeId
  <1>2. PICK n \in 1..k + 1 : AtPayload(n) /\ n \in Nat
    BY SomePayload
  <1>3. /\ Typed /\ Base /\ used \in Counters /\ files \in Recordings /\ channel \in Seq(Cmd)
        /\ ui.cur \in Nat /\ w \in Nat /\ manager \in [Ids -> State]
        /\ PendingReported /\ RunningGapsShown /\ FreshFiles /\ k \in Nat
    BY RunningFacts, IdNat DEF Running
  <1>4. Takes("payload") /\ channel' = Tail(channel) /\ Command = c
    BY TakesIs DEF WritePayload
  <1>5. /\ c \in Cmd /\ c.op = "payload" /\ c.id \in Ids /\ channel # <<>> /\ channel' \in Seq(Cmd)
        /\ \A i : ~Leaving(i)
    BY <1>4, TakesIs
  <1>6. Ordered(channel', w, ui.cur)
    BY <1>1, <1>4, TakenAt
  <1>7. UNCHANGED <<ui, producer, dropped, rekeyed, lost>>
    BY DEF WritePayload
  <1>8. /\ writer' \in Working /\ writer' # Idle /\ writer'.cmd.op = "payload"
        /\ writer'.stage = "payload" /\ \A i : ~Leaving(i)'
    <2> DEFINE ok == TRUE
               id == c.id
    <2>1. Continue(id, ok) /\ ok \in BOOLEAN /\ id \in Ids
      BY <1>4, <1>5 DEF WritePayload
    <2> HIDE DEF ok, id
    <2> QED BY <1>4, <2>1, ContinueIs
  <1>9. used' \in Counters /\ used'.accepted = k /\ used'.starts = used.starts
    <2>1. PICK fault \in {0, 1} : Faults(fault)
      BY DEF WritePayload
    <2> QED BY <1>3, <2>1, FaultsIs
  <1> HIDE DEF k
  <1>10. /\ c.n = n /\ n <= k /\ Numbered(channel', n + 1, k)
         /\ Requested(channel', n + 1, k, files)
    <2> DEFINE t == Tail(channel)
    <2>1. channel \in Seq(Cmd) /\ channel # <<>> /\ files \in Recordings /\ k \in Nat /\ n \in Nat
      BY <1>2, <1>3, <1>5
    <2>2. Head(channel).op = "payload"
      BY <1>5
    <2>3. Numbered(channel, n, k) /\ Requested(channel, n, k, files)
      BY <1>2 DEF AtPayload, k
    <2>4. Head(channel).n = n /\ n <= k /\ Numbered(t, n + 1, k)
      BY <2>1, <2>2, <2>3, NumberedTaken
    <2>5. Requested(t, n + 1, k, files)
      BY <2>1, <2>2, <2>3, RequestedTaken
    <2> QED BY <1>4, <2>4, <2>5
  <1>11. /\ manager' \in [Ids -> State] /\ out' \in Publisher
         /\ \A i \in Ids : \/ manager'[i] = manager[i]
                           \/ i = w /\ ~IsRecording(manager, i) /\ manager'[i].file = 0
                           \/ i = w /\ manager'[i].file = manager[i].file
                                /\ manager'[i].health = "failed"
         /\ \/ files' = files /\ \A i \in Ids : ~Accepts(manager'[i])
            \/ /\ Accepts(manager[w]) /\ manager' = manager
               /\ files' = [files EXCEPT ![manager[w].file].content =
                              Append(files[manager[w].file].content, n)]
         /\ \A i \in Ids, h \in Health :
               \/ out'.mailbox[<<i, h>>] = out.mailbox[<<i, h>>]
               \/ out'.mailbox[<<i, h>>].file = StatusOf(manager', i).file
         /\ \A i : RemovalComes(out.events, i) => RemovalComes(out'.events, i)
    BY <1>1, <1>2, <1>10, Written
  <1>12. \A i \in Ids : /\ IsRecording(manager', i) => manager'[i].file = manager[i].file
                        /\ IsRecording(manager', i) /\ manager'[i].health = "recording" =>
                              manager[i].health = "recording"
                        /\ manager'[i].file \in {0, manager[i].file}
    BY <1>11 DEF IsRecording
  <1>13. Stays
    BY <1>4, <1>5 DEF Stays
  <1>14. PendingReported' /\ (Reporting => Reporting')
    BY <1>3, <1>7, <1>13, ReportsKept
  <1> HIDE DEF c
  <1>15. Typed'
    BY <1>3, <1>5, <1>7, <1>8, <1>11 DEF Typed
  <1>16. AtId(w)'
    <2>1. \A i \in Ids : w < i => i # w
      BY IdNat
    <2>2. \A i \in Ids : w < i => manager'[i] = NoState
      BY <1>1, <1>11, <2>1 DEF AtId
    <2>3. \A i \in Ids : IsRecording(manager', i) => i = w /\ rekeyed[i] = "no"
      BY <1>1, <1>12 DEF AtId, IsRecording
    <2> QED BY <1>1, <1>6, <1>7, <2>2, <2>3 DEF AtId
  <1>17. \A a \in Places(channel', "start") :
            /\ channel'[a].file <= used.starts /\ channel'[a].file \in Files
            /\ \A i \in Ids : manager[i].file < channel'[a].file
    <2>1. \A a \in Places(channel', "start") :
              a + 1 \in Places(channel, "start") /\ channel'[a] = channel[a + 1]
      BY <1>3, <1>4, <1>5, Taken1
    <2>2. \A a \in Places(channel, "start") : channel[a].file \in Files
      BY <1>3, PlaceTyped
    <2> QED BY <1>3, <2>1, <2>2 DEF FreshFiles, After
  <1>18. FreshFiles'
    <2>1. \A g : After(channel, g) => After(channel', g)
      BY <1>3, <1>4, <1>5, AfterTaken
    <2>2. 0 <= used.starts /\ After(channel', 0)
      <3>1. \A a \in Places(channel', "start") : 0 < channel'[a].file
        <4> TAKE a \in Places(channel', "start")
        <4> DEFINE g == channel'[a].file
        <4>1. g \in Nat \ {0}
          BY <1>17, IdNat
        <4> HIDE DEF g
        <4>2. 0 < g
          BY <4>1
        <4> QED BY <4>2 DEF g
      <3> QED BY <3>1, RunningFacts DEF After
    <2>3. \A i \in Ids : manager'[i].file <= used.starts /\ After(channel', manager'[i].file)
      BY <1>3, <1>12, <2>1, <2>2 DEF FreshFiles
    <2> QED BY <1>3, <1>7, <1>9, <1>17, <2>1, <2>3 DEF FreshFiles
  <1>19. RunningGapsShown'
    <2> SUFFICES ASSUME NEW i \in Ids, IsRecording(manager', i), manager'[i].file \in lost,
                        manager'[i].health = "recording"
                 PROVE  Reporting'
      BY <1>7 DEF RunningGapsShown
    <2>1. manager'[i].file = manager[i].file /\ manager[i].health = "recording"
      BY <1>12
    <2> QED BY <1>3, <1>14, <2>1 DEF RunningGapsShown, IsRecording
  <1>20. \A i \in Ids : Reported(i)
    <2>1. \A i \in Ids : \/ manager'[i].file = manager[i].file
                         \/ manager[i] = NoState /\ manager'[i].file = 0
      <3> TAKE i \in Ids
      <3>1. manager[i] = NoState \/ manager[i].file \in Nat
        BY <1>3 DEF State
      <3> QED BY <1>11, <3>1 DEF IsRecording
    <2> QED BY <1>5, <1>7, <1>11, <2>1, StatusSent
  <1>21. /\ files' \in Recordings /\ RecordedWithoutHole' /\ AtPayload(n + 1)'
         /\ \A f \in Files : used'.starts < f => files'[f].content = <<>>
    <2>1. CASE files' = files /\ \A i \in Ids : ~Accepts(manager'[i])
      <3>1. AtPayload(n + 1)'
        BY <1>9, <1>10, <2>1 DEF AtPayload
      <3> QED BY <1>3, <1>9, <2>1, <3>1 DEF Base, RecordedWithoutHole
    <2>2. CASE /\ Accepts(manager[w]) /\ manager' = manager
               /\ files' = [files EXCEPT ![manager[w].file].content =
                              Append(files[manager[w].file].content, n)]
      <3> DEFINE f == manager[w].file
      <3>1. f \in Files /\ f <= used.starts
        <4>1. f > 0
          BY <2>2 DEF Accepts
        <4>2. f \in Int
          BY <1>3 DEF State, NoState
        <4>3. f <= used.starts
          BY <1>3 DEF FreshFiles
        <4>4. used.starts \in 0..MaxStarts
          BY <1>3 DEF Counters
        <4> HIDE DEF f
        <4> QED BY <4>1, <4>2, <4>3, <4>4, PipelineConstants DEF Files
      <3>2. files[f].from + Len(files[f].content) = n
        BY <1>2, <2>2 DEF AtPayload
      <3>3. Kept /\ NoHole
        BY <1>3, HoleIs DEF Kept, Base
      <3>4. files' = [files EXCEPT ![f].content = Append(files[f].content, n)]
        BY <2>2
      <3>5. \A i \in Ids : Accepts(manager'[i]) => manager'[i].file = f
        BY <1>1, <2>2 DEF AtId, IsRecording, Accepts
      <3>6. \A a \in Places(channel', "start") : channel'[a].file \in Files /\ channel'[a].file # f
        <4>1. \A a \in Places(channel', "start") : f < channel'[a].file
          BY <1>17
        <4>2. f \in Nat
          BY <3>1, IdNat
        <4> HIDE DEF f
        <4> QED BY <1>17, <4>1, <4>2, IdNat
      <3> HIDE DEF f
      <3>7. /\ files' \in Recordings /\ RecordedWithoutHole'
            /\ files'[f].from + Len(files'[f].content) = n + 1
            /\ \A g \in Files : g # f => files'[g] = files[g]
        BY <1>2, <3>1, <3>2, <3>3, <3>4, Appended
      <3>8. \A a \in Places(channel', "start") : files'[channel'[a].file] = files[channel'[a].file]
        BY <3>6, <3>7
      <3>9. Requested(channel', n + 1, k, files')
        BY <1>10, <3>8 DEF Requested
      <3>10. AtPayload(n + 1)'
        BY <1>9, <1>10, <3>5, <3>7, <3>9 DEF AtPayload
      <3>11. \A g \in Files : used.starts < g => g # f
        <4>1. f \in Nat /\ used.starts \in Nat
          BY <3>1, IdNat, RunningFacts
        <4> QED BY <3>1, <4>1, IdNat
      <3> QED BY <1>3, <1>9, <3>7, <3>10, <3>11 DEF Base
    <2> QED BY <1>11, <2>1, <2>2
  <1>22. n + 1 \in 1..used'.accepted + 1
    BY <1>2, <1>3, <1>9, <1>10
  <1> QED BY <1>9, <1>14, <1>15, <1>16, <1>18, <1>19, <1>20, <1>21, <1>22, InvNext

\* What a rekey does to the recording under w.
LEMMA MovedOn ==
    ASSUME Inv, Alive, BeginRekey, NEW w \in Ids, AtId(w)
    PROVE  /\ w + 1 \in Ids /\ manager' \in [Ids -> State] /\ files' = files
           /\ manager'[w] = NoState
           /\ manager'[w + 1].file = manager[w].file
           /\ Accepts(manager'[w + 1]) => Accepts(manager[w])
           /\ IsRecording(manager', w + 1) /\ manager'[w + 1].health = "recording" =>
                 manager[w].health = "recording"
           /\ \A i \in Ids \ {w, w + 1} : manager'[i] = manager[i]
  <1> DEFINE j == w + 1
             m == Rekeyed(manager, w)
  <1>1. manager \in [Ids -> State]
    BY RunningFacts
  <1>2. Takes("rekey") /\ Command = Head(channel)
    BY TakesIs DEF BeginRekey
  <1>3. Head(channel).id = w /\ w < ui.cur
    BY <1>2, TakenAt
  <1>4. j \in Ids /\ j # w
    BY <1>3, NextId
  <1>5. manager[j] = NoState
    BY <1>4, IdNat DEF AtId
  <1>6. files' = files
    BY <1>2, <1>3, <1>5 DEF BeginRekey, EarlyOutput
  <1>7. manager' = m \/ manager' = MarkDropped(m, j)
    BY <1>2, <1>3 DEF BeginRekey
  <1> HIDE DEF j
  <1>8. /\ m \in [Ids -> State] /\ m[w] = NoState /\ m[j] = manager[w]
        /\ \A i \in Ids \ {w, j} : m[i] = manager[i]
    <2>1. CASE manager[w] = NoState
      BY <1>1, <1>5, <2>1 DEF Rekeyed
    <2>2. CASE manager[w] # NoState
      <3>1. m = [manager EXCEPT ![w] = NoState, ![j] = manager[w]]
        BY <2>2 DEF Rekeyed, j
      <3>2. NoState \in State /\ manager[w] \in State
        BY <1>1 DEF State
      <3> HIDE DEF m
      <3> QED BY <1>1, <1>4, <3>1, <3>2
    <2> QED BY <2>1, <2>2
  <1> HIDE DEF m
  <1>9. CASE manager' = m
    BY <1>4, <1>6, <1>8, <1>9 DEF j
  <1>10. CASE manager' = MarkDropped(m, j) /\ manager' # m
    <2> DEFINE s == [m[j] EXCEPT !.health = "degraded"]
    <2>1. m[j] # NoState /\ m[j].health # "failed" /\ manager' = [m EXCEPT ![j] = s]
      BY <1>10 DEF MarkDropped
    <2>2. m[j] \in [file : Nat, health : Health, early : Seq(Nat)]
      BY <1>4, <1>8, <2>1 DEF State
    <2>3. s \in State /\ s.file = m[j].file /\ s.health = "degraded"
      BY <2>2 DEF State, Health
    <2> HIDE DEF s
    <2>4. manager' \in [Ids -> State] /\ manager'[j] = s /\ \A i \in Ids \ {j} : manager'[i] = m[i]
      BY <1>4, <1>8, <2>1, <2>3
    <2>5. manager'[w] = NoState /\ \A i \in Ids \ {w, j} : manager'[i] = manager[i]
      BY <1>4, <1>8, <2>4
    <2>6. manager'[j].file = manager[w].file /\ manager'[j].health # "recording"
      BY <1>8, <2>3, <2>4
    <2>7. Accepts(manager'[j]) => Accepts(manager[w])
      BY <1>8, <2>1, <2>6 DEF Accepts
    <2> QED BY <1>4, <1>6, <2>4, <2>5, <2>6, <2>7 DEF j
  <1> QED BY <1>7, <1>9, <1>10

LEMMA BeginRekeyKeeps ==
    ASSUME Inv, Alive, BeginRekey
    PROVE  Inv'
  <1> DEFINE c == Head(channel)
             k == used.accepted
  <1>1. PICK w \in Ids : AtId(w)
    BY SomeId
  <1> DEFINE j == w + 1
  <1>2. PICK n \in 1..k + 1 : AtPayload(n) /\ n \in Nat
    BY SomePayload
  <1>3. /\ Typed /\ Base /\ used \in Counters /\ files \in Recordings /\ channel \in Seq(Cmd)
        /\ ui.cur \in Nat /\ w \in Nat /\ manager \in [Ids -> State]
        /\ PendingReported /\ RunningGapsShown /\ FreshFiles /\ k \in Nat
        /\ dropped \in [Ids -> [bytes : Nat, pending : BOOLEAN]]
        /\ rekeyed \in [Ids -> {"no", "moved", "gone"}]
    BY RunningFacts, IdNat DEF Running, Typed
  <1>4. Takes("rekey") /\ channel' = Tail(channel) /\ Command = c
    BY TakesIs DEF BeginRekey
  <1>5. /\ c \in Cmd /\ c.op = "rekey" /\ channel # <<>> /\ channel' \in Seq(Cmd)
        /\ \A i : ~Leaving(i)
    BY <1>4, TakesIs
  <1>6. c.id = w /\ w < ui.cur /\ Ordered(channel', j, ui.cur)
    BY <1>1, <1>4, TakenAt
  <1>7. /\ UNCHANGED <<ui, producer, out, used, lost>> /\ dropped' = Taken(dropped, w)
        /\ rekeyed' = [rekeyed EXCEPT ![w] = "moved"]
        /\ writer' = [stage |-> "rekey", cmd |-> c, id |-> w, ok |-> TRUE]
    BY <1>4, <1>5, <1>6 DEF BeginRekey, Continue
  <1>8. /\ j \in Ids /\ manager' \in [Ids -> State] /\ files' = files
        /\ manager'[w] = NoState
        /\ manager'[j].file = manager[w].file
        /\ Accepts(manager'[j]) => Accepts(manager[w])
        /\ IsRecording(manager', j) /\ manager'[j].health = "recording" =>
              manager[w].health = "recording"
        /\ \A i \in Ids \ {w, j} : manager'[i] = manager[i]
    BY <1>1, MovedOn
  <1> HIDE DEF c, k
  <1>9. /\ writer' \in Working /\ writer' # Idle /\ writer'.cmd.op = writer'.stage
        /\ writer'.cmd.id < ui.cur /\ Leaving(w)'
    BY <1>5, <1>6, <1>7 DEF Working, Idle, Leaving
  <1>10. /\ j \in Nat /\ w < j /\ j # w /\ j <= ui.cur
         /\ \A i \in Ids : (i < j <=> i <= w) /\ (j <= i <=> w < i)
    <2>1. \A i \in Nat : (i < j <=> i <= w) /\ (j <= i <=> w < i)
      BY <1>3
    <2> QED BY <1>3, <1>6, <2>1, IdNat
  <1> HIDE DEF j
  <1>11. /\ rekeyed' \in [Ids -> {"no", "moved", "gone"}] /\ rekeyed'[w] = "moved"
         /\ \A i \in Ids \ {w} : rekeyed'[i] = rekeyed[i]
    BY <1>3, <1>7
  <1>12. /\ dropped' \in [Ids -> [bytes : Nat, pending : BOOLEAN]]
         /\ \A i \in Ids : dropped'[i].pending => dropped[i].pending
    BY <1>3, <1>7, DroppedReset
  <1>13. Stays
    BY <1>4, <1>5 DEF Stays, c
  <1>14. PendingReported' /\ (Reporting => Reporting')
    BY <1>3, <1>7, <1>12, <1>13, ReportsKept
  <1>15. Typed'
    BY <1>3, <1>5, <1>7, <1>8, <1>9, <1>11, <1>12 DEF Typed
  <1>16. \A i \in Ids : i # w => ~IsRecording(manager, i)
    BY <1>1 DEF AtId
  <1>17. \A i \in Ids : IsRecording(manager', i) => i = j /\ IsRecording(manager, w)
    BY <1>8, <1>16 DEF IsRecording, NoState
  <1>18. AtId(j)'
    <2>1. \A i \in Ids : i <= w => i < w \/ i = w
      BY <1>3, IdNat
    <2>2. \A i \in Ids : i < j => rekeyed'[i] = "moved"
      BY <1>1, <1>10, <1>11, <2>1 DEF AtId
    <2>3. \A i \in Ids : w < i => i # w
      BY <1>3, IdNat
    <2>4. \A i \in Ids : w < i => rekeyed'[i] = "no"
      BY <1>1, <1>11, <2>3 DEF AtId
    <2>5. \A i \in Ids : j < i => w < i /\ i # w /\ i # j
      BY <1>3, <1>10, IdNat
    <2>6. \A i \in Ids : j < i => manager'[i] = NoState
      BY <1>1, <1>8, <2>5 DEF AtId
    <2>7. \A i \in Ids : IsRecording(manager', i) => i = j /\ rekeyed'[i] = "no"
      BY <1>8, <1>10, <1>17, <2>4
    <2> QED BY <1>6, <1>7, <1>10, <2>2, <2>4, <2>5, <2>6, <2>7 DEF AtId, j
  <1>19. AtPayload(n)'
    <2>1. Numbered(channel, n, k) /\ Requested(channel, n, k, files)
      BY <1>2 DEF AtPayload, k
    <2>2. c.op # "payload" /\ c = Head(channel)
      BY <1>5 DEF c
    <2>3. Numbered(channel', n, k)
      BY <1>2, <1>3, <1>4, <1>5, <2>1, <2>2, NumberedTaken
    <2>4. Requested(channel', n, k, files)
      BY <1>2, <1>3, <1>4, <1>5, <2>1, <2>2, RequestedTaken
    <2>5. ASSUME NEW i \in Ids, Accepts(manager'[i])
          PROVE  files[manager'[i].file].from + Len(files[manager'[i].file].content) = n
      <3>1. IsRecording(manager', i)
        BY <2>5 DEF Accepts, IsRecording
      <3>2. Accepts(manager[w]) /\ manager'[i].file = manager[w].file
        BY <1>8, <1>17, <2>5, <3>1
      <3> QED BY <1>2, <3>2 DEF AtPayload
    <2> QED BY <1>7, <1>8, <2>3, <2>4, <2>5 DEF AtPayload, k
  <1>20. FreshFiles'
    <2>1. \A g : After(channel, g) => After(channel', g)
      BY <1>3, <1>4, <1>5, AfterTaken
    <2>2. \A a \in Places(channel', "start") : channel'[a].file <= used.starts
      <3>1. \A a \in Places(channel', "start") :
                a + 1 \in Places(channel, "start") /\ channel'[a] = channel[a + 1]
        BY <1>3, <1>4, <1>5, Taken1
      <3> QED BY <1>3, <3>1 DEF FreshFiles
    <2>3. \A i \in Ids : manager'[i].file <= used.starts /\ After(channel', manager'[i].file)
      <3>1. manager[j] = NoState
        BY <1>1, <1>8, <1>10 DEF AtId
      <3>2. \A i \in Ids : manager'[i].file \in {manager[h].file : h \in Ids}
        BY <1>8, <3>1
      <3> QED BY <1>3, <2>1, <3>2 DEF FreshFiles
    <2> QED BY <1>3, <1>7, <2>1, <2>2, <2>3 DEF FreshFiles
  <1>21. RunningGapsShown'
    <2> SUFFICES ASSUME NEW i \in Ids, IsRecording(manager', i), manager'[i].file \in lost,
                        manager'[i].health = "recording"
                 PROVE  Reporting'
      BY <1>7 DEF RunningGapsShown
    <2>1. i = j /\ IsRecording(manager, w)
      BY <1>17
    <2>2. manager[w].file \in lost /\ manager[w].health = "recording"
      BY <1>8, <2>1
    <2> QED BY <1>3, <1>14, <2>1, <2>2 DEF RunningGapsShown
  <1>22. ASSUME NEW i \in Ids PROVE Reported(i)
    <2>1. CASE i = w
      BY <1>9, <2>1 DEF Reported
    <2>2. CASE i # w
      <3>1. Recorded(i) \in {0, Recorded(i)'}
        BY <1>8, <1>16, <2>2, RecordedIs DEF IsRecording
      <3>2. Steady(i)
        BY <1>5, <1>7, <3>1 DEF Steady
      <3> QED BY <3>2 DEF Reported
    <2> QED BY <2>1, <2>2
  <1>23. /\ \A f \in Files : used'.starts < f => files'[f].content = <<>>
         /\ RecordedWithoutHole' /\ files' \in Recordings /\ used' \in Counters
    BY <1>3, <1>7, <1>8 DEF Base, RecordedWithoutHole
  <1>24. n \in 1..used'.accepted + 1
    BY <1>2, <1>7 DEF k
  <1> QED BY <1>8, <1>14, <1>15, <1>18, <1>19, <1>20, <1>21, <1>22, <1>23, <1>24, InvNext

-----------------------------------------------------------------------------
(* The end of the writer, and what happens after it.                       *)

LEMMA FinishKeeps ==
    ASSUME Inv, Alive, Finish
    PROVE  Inv'
  <1>1. manager \in [Ids -> State] /\ Base
    BY RunningFacts
  <1>2. /\ UNCHANGED <<files, used>> /\ writer' = [stage |-> "ended"]
        /\ manager' = [i \in Ids |-> Stopped(manager, i)[i]]
    BY DEF Finish
  <1>3. ~Alive'
    BY <1>2 DEF Alive
  <1>4. ASSUME NEW i \in Ids PROVE ~IsRecording(manager', i)
    <2>1. manager'[i] = Stopped(manager, i)[i]
      BY <1>2
    <2>2. CASE IsRecording(manager, i)
      <3>1. manager[i] # NoState
        BY <2>2 DEF IsRecording, NoState
      <3>2. manager[i] \in [file : Nat, health : Health, early : Seq(Nat)]
        BY <1>1, <3>1 DEF State
      <3>3. manager'[i] = [manager[i] EXCEPT !.file = 0]
        BY <1>1, <2>1, <2>2 DEF Stopped
      <3>4. manager'[i].file = 0
        BY <3>2, <3>3
      <3> QED BY <3>4 DEF IsRecording
    <2>3. CASE ~IsRecording(manager, i)
      BY <2>1, <2>3 DEF Stopped, IsRecording
    <2> QED BY <2>2, <2>3
  <1>5. Base'
    BY <1>1, <1>2, <1>4 DEF Base, RecordedWithoutHole
  <1> QED BY <1>3, <1>5 DEF Inv

LEMMA EndedQuiet ==
    ASSUME Inv, ~Alive, writer' = writer, manager' = manager, used' \in Counters, files' \in Recordings,
           RecordedWithoutHole', \A f \in Files : used'.starts < f => files'[f].content = <<>>
    PROVE  Inv'
  <1>1. ~Alive'
    BY DEF Alive
  <1>2. \A i \in Ids : ~IsRecording(manager', i)
    BY DEF Inv, Base, IsRecording
  <1>3. Base'
    BY <1>2 DEF Base
  <1> QED BY <1>1, <1>3 DEF Inv

LEMMA EndedStart ==
    ASSUME Inv, ~Alive, writer' = writer, manager' = manager, NEW auto, SendStart(auto)
    PROVE  Inv'
  <1> DEFINE k == used.accepted
             f == used.starts + 1
             x == [files[f] EXCEPT !.from = k + 1]
  <1>1. Base /\ used \in Counters /\ files \in [Files -> [from : Nat, content : Seq(Nat)]]
    BY DEF Inv, Base, Recordings
  <1>2. /\ used' = [used EXCEPT !.starts = f]
        /\ files' = [files EXCEPT ![f].from = k + 1] /\ used.starts < MaxStarts
    BY DEF SendStart
  <1>3. f \in Files /\ f \in Nat /\ used.starts < f /\ used.starts \in Nat /\ k \in Nat
    BY <1>1, <1>2, PipelineConstants DEF Counters, Files
  <1>4. used' \in Counters /\ used'.starts = f
    <2>1. f \in 0..MaxStarts
      BY <1>3, PipelineConstants DEF Files
    <2> HIDE DEF f
    <2> QED BY <1>1, <1>2, <2>1 DEF Counters
  <1>5. files[f].content = <<>>
    BY <1>1, <1>3 DEF Base
  <1> HIDE DEF k, f
  <1>6. x \in [from : Nat, content : Seq(Nat)] /\ x.content = files[f].content
    BY <1>1, <1>3, SMTT(30)
  <1>7. files' = [files EXCEPT ![f] = x]
    BY <1>2
  <1>8. WithoutHole(x)
    BY <1>5, <1>6, EmptySeq DEF WithoutHole
  <1> HIDE DEF x
  <1>9. /\ files' \in Recordings /\ files'[f] = x
        /\ \A g \in Files : g # f => files'[g] = files[g]
    BY <1>1, <1>3, <1>6, <1>7 DEF Recordings
  <1>10. NoHole
    BY <1>1, HoleIs DEF Base, Kept, Recordings
  <1>11. Kept' /\ NoHole'
    BY <1>8, <1>9, <1>10 DEF Kept, NoHole
  <1>12. RecordedWithoutHole'
    BY <1>11, HoleIs, PTL
  <1>13. \A g \in Files : used'.starts < g => files'[g].content = <<>>
    <2> SUFFICES ASSUME NEW g \in Files, f < g PROVE files'[g].content = <<>>
      BY <1>4
    <2>1. g \in Nat
      BY IdNat
    <2>2. g # f /\ used.starts < g
      BY <1>3, <2>1
    <2> QED BY <1>1, <1>9, <2>2 DEF Base
  <1> QED BY <1>4, <1>9, <1>12, <1>13, EndedQuiet

LEMMA EndedKeeps ==
    ASSUME Inv, ~Alive, Next
    PROVE  Inv'
  <1>1. Base /\ used \in Counters /\ files \in Recordings /\ used.starts \in Nat
    BY DEF Inv, Base, Counters
  <1>2. writer.stage = "ended" /\ writer # Idle
    BY DEF Alive, Idle
  <1>3. ASSUME writer' = writer, manager' = manager, files' = files, used' \in Counters,
               used'.starts = used.starts
        PROVE  Inv'
    <2>1. RecordedWithoutHole' /\ \A f \in Files : used'.starts < f => files'[f].content = <<>>
      BY <1>1, <1>3 DEF Base, RecordedWithoutHole
    <2> QED BY <1>1, <1>3, <2>1, EndedQuiet
  <1>4. \A op : ~Takes(op)
    BY <1>2 DEF Takes
  <1>5. CASE Produce
    <2>1. ASSUME NEW id \in Ids, NEW size \in Sizes, Capture(id, size) PROVE Inv'
      <3>1. used' \in Counters /\ used'.starts = used.starts
        BY <1>1, <2>1 DEF Capture, Counters
      <3> QED BY <1>3, <2>1, <3>1 DEF Capture
    <2>2. CASE Enqueue
      <3>1. used' \in Counters /\ used'.starts = used.starts
        <4>1. used' = [used EXCEPT !.accepted = used.accepted + 0]
          BY <2>2 DEF Enqueue
        <4> QED BY <1>1, <4>1 DEF Counters
      <3> QED BY <1>3, <2>2, <3>1 DEF Enqueue
    <2>3. CASE Refuse
      BY <1>1, <1>3, <2>3 DEF Refuse
    <2>4. CASE Report
      BY <1>1, <1>3, <2>4 DEF Report
    <2> QED BY <1>5, <2>1, <2>2, <2>3, <2>4 DEF Produce
  <1>6. CASE Desktop
    <2>1. CASE Register
      <3>1. writer' = writer /\ manager' = manager
        BY <2>1 DEF Register
      <3>2. CASE SendStart(TRUE)
        BY <3>1, <3>2, EndedStart
      <3>3. CASE UNCHANGED <<used, files, channel, policies>>
        BY <1>1, <1>3, <3>1, <3>3
      <3> QED BY <2>1, <3>2, <3>3 DEF Register
    <2>2. CASE StartRecording
      BY <2>2, EndedStart DEF StartRecording
    <2>3. CASE StopRecording
      BY <1>1, <1>3, <2>3 DEF StopRecording
    <2>4. CASE Disconnect
      BY <1>1, <1>3, <2>4 DEF Disconnect
    <2>5. CASE Reconnect
      BY <1>1, <1>3, <2>5 DEF Reconnect
    <2>6. CASE Close
      BY <1>1, <1>3, <2>6 DEF Close
    <2>7. CASE Shutdown
      BY <1>1, <1>3, <2>7 DEF Shutdown
    <2> QED BY <1>6, <2>1, <2>2, <2>3, <2>4, <2>5, <2>6, <2>7 DEF Desktop
  <1>7. CASE StopComplete
    BY <1>1, <1>3, <1>7 DEF StopComplete
  <1>8. CASE ApplyEvent
    BY <1>1, <1>3, <1>8 DEF ApplyEvent, ApplyStatus, RemoveStatus, ApplyReply
  <1>9. ~Write
    BY <1>2, <1>4 DEF Write, WritePayload, ReleasePayload, BeginStart, EndStart, BeginStop,
        EndStop, BeginReport, EndReport, CleanupSession, DisconnectSession, BeginRekey,
        EndRekey, Finish
  <1>10. \A id \in Ids : ~Tick(id) /\ ~FlushFails(id)
    BY <1>2 DEF Tick, FlushFails
  <1> QED BY <1>5, <1>6, <1>7, <1>8, <1>9, <1>10 DEF Next

-----------------------------------------------------------------------------
(* The invariant.                                                          *)

LEMMA InitInv == Init => Inv
  <1> SUFFICES ASSUME Init PROVE Inv
    OBVIOUS
  <1>1. /\ ui = [cur |-> 1, stage |-> "registering", disconnected |-> FALSE,
                 busy |-> [i \in Ids |-> FALSE], shown |-> [i \in Ids |-> NoStatus], job |-> 0]
        /\ channel = <<>> /\ producer = Idle /\ dropped = [i \in Ids |-> Unreported]
        /\ writer = Idle /\ rekeyed = [i \in Ids |-> "no"] /\ manager = [i \in Ids |-> NoState]
        /\ files = [f \in Files |-> [from |-> 0, content |-> <<>>]]
        /\ out = [sent |-> [i \in Ids |-> NoStatus],
                  mailbox |-> [k \in Ids \X Health |-> NoStatus], events |-> <<>>]
        /\ used = [starts |-> 0, offered |-> 0, accepted |-> 0, faults |-> 0] /\ lost = {}
    BY DEF Init
  <1>2. <<>> \in Seq(Cmd) /\ <<>> \in Seq(Nat) /\ <<>> \in Seq(Event) /\ Len(<<>>) = 0
    BY EmptySeq
  <1>3. 1 \in Ids /\ 0 \in 0..MaxIds /\ 0 \in 0..MaxStarts
    BY PipelineConstants DEF Ids
  <1>4. \A op : Places(channel, op) = {}
    BY <1>1, <1>2 DEF Places
  <1>5. ui \in DesktopState /\ ui.cur = 1 /\ ui.job = 0
    <2> DEFINE b == [i \in Ids |-> FALSE]
               s == [i \in Ids |-> NoStatus]
    <2>1. b \in [Ids -> BOOLEAN] /\ s \in [Ids -> Status]
      BY NoStatusIs
    <2>2. ui = [cur |-> 1, stage |-> "registering", disconnected |-> FALSE, busy |-> b,
                shown |-> s, job |-> 0]
      BY <1>1
    <2> HIDE DEF b, s
    <2> QED BY <1>3, <2>1, <2>2 DEF DesktopState
  <1>6. out \in Publisher /\ out.events = <<>>
    <2> DEFINE b == [k \in Ids \X Health |-> NoStatus]
               s == [i \in Ids |-> NoStatus]
    <2>1. b \in [Ids \X Health -> Status] /\ s \in [Ids -> Status]
      BY NoStatusIs
    <2>2. out = [sent |-> s, mailbox |-> b, events |-> <<>>]
      BY <1>1
    <2> HIDE DEF b, s
    <2> QED BY <1>2, <2>1, <2>2 DEF Publisher
  <1>7. manager \in [Ids -> State] /\ \A i \in Ids : manager[i] = NoState /\ manager[i].file = -1
    BY <1>1 DEF State, NoState
  <1>8. Typed
    <2>1. dropped \in [Ids -> [bytes : Nat, pending : BOOLEAN]]
      BY <1>1 DEF Unreported
    <2>2. rekeyed \in [Ids -> {"no", "moved", "gone"}]
      BY <1>1
    <2>3. writer.stage # "rekey"
      BY <1>1 DEF Idle
    <2>4. ui.job <= ui.cur
      BY <1>5
    <2> QED BY <1>1, <1>2, <1>5, <1>6, <1>7, <2>1, <2>2, <2>3, <2>4 DEF Typed
  <1>9. used \in Counters /\ used.starts = 0 /\ used.accepted = 0
    BY <1>1, <1>3 DEF Counters
  <1>10. files \in Recordings /\ \A f \in Files : files[f].content = <<>>
    BY <1>1, <1>2 DEF Recordings
  <1>11. AtId(1)
    <2>1. Ordered(channel, 1, ui.cur)
      <3>1. Len(channel) = 0
        BY <1>1, <1>2
      <3>2. 1..Len(channel) = {} /\ 1..ui.cur - 1 = {}
        BY <1>5, <3>1
      <3> QED BY <1>4, <3>2 DEF Ordered
    <2>2. \A i \in Ids : ~(i < 1) /\ ~IsRecording(manager, i) /\ rekeyed[i] = "no"
      BY <1>1, <1>7, IdNat DEF IsRecording
    <2>3. 1 <= ui.cur
      BY <1>5
    <2> QED BY <1>7, <2>1, <2>2, <2>3 DEF AtId
  <1>12. AtPayload(1)
    <2>1. Numbered(channel, 1, used.accepted)
      <3>1. 1 <= used.accepted + 1 /\ 1..used.accepted = {}
        BY <1>9
      <3> QED BY <1>4, <3>1 DEF Numbered
    <2>2. Requested(channel, 1, used.accepted, files)
      BY <1>4 DEF Requested
    <2>3. \A i \in Ids : ~Accepts(manager[i])
      BY <1>7 DEF Accepts
    <2> QED BY <2>1, <2>2, <2>3 DEF AtPayload
  <1>13. 1 \in 1..used.accepted + 1
    BY <1>9
  <1>14. FreshFiles
    BY <1>1, <1>4, <1>7, <1>9 DEF FreshFiles, After
  <1>15. PendingReported /\ RunningGapsShown
    BY <1>1, <1>7 DEF PendingReported, RunningGapsShown, Unreported
  <1>16. StatusesFresh /\ ShownFresh
    <2>1. \A i \in Ids, h \in Health : out.mailbox[<<i, h>>] = NoStatus
      BY <1>1
    <2>2. \A i \in Ids : ui.shown[i] = NoStatus
      BY <1>1
    <2> QED BY <2>1, <2>2, NoStatusIs DEF StatusesFresh, ShownFresh
  <1>17. RecordedWithoutHole
    <2>1. NoHole
      BY <1>2, <1>10 DEF NoHole, WithoutHole
    <2> QED BY <1>10, <2>1, HoleIs DEF Kept
  <1>18. Alive
    BY <1>8, TypedAlive
  <1>19. Base
    BY <1>9, <1>10, <1>17, <1>18 DEF Base
  <1>20. Running
    BY <1>3, <1>8, <1>11, <1>12, <1>13, <1>14, <1>15, <1>16 DEF Running
  <1> QED BY <1>19, <1>20 DEF Inv

LEMMA StutterKeeps ==
    ASSUME Inv, UNCHANGED vars
    PROVE  Inv'
  <1> USE DEF vars
  <1>1. Alive' = Alive
    BY DEF Alive
  <1>2. Base'
    BY <1>1 DEF Inv, Base, RecordedWithoutHole
  <1>3. ASSUME Alive PROVE Running'
    <2>1. Running
      BY <1>3 DEF Inv
    <2>2. Typed'
      BY <2>1 DEF Running, Typed
    <2>3. \E w \in Ids : AtId(w)'
      BY <2>1 DEF Running, AtId
    <2>4. \E n \in 1..used'.accepted + 1 : AtPayload(n)'
      BY <2>1 DEF Running, AtPayload
    <2>5. FreshFiles' /\ PendingReported'
      BY <2>1 DEF Running, FreshFiles, PendingReported
    <2>6. StatusesFresh' /\ ShownFresh'
      BY <2>1, Unreporting, StatusStep DEF Running
    <2>7. Reporting' = Reporting
      BY DEF Reporting
    <2>8. RunningGapsShown'
      BY <2>1, <2>7 DEF Running, RunningGapsShown
    <2> QED BY <2>2, <2>3, <2>4, <2>5, <2>6, <2>8 DEF Running
  <1> QED BY <1>1, <1>2, <1>3 DEF Inv

LEMMA NextKeeps ==
    ASSUME Inv, [Next]_vars
    PROVE  Inv'
  <1>1. CASE UNCHANGED vars
    BY <1>1, StutterKeeps
  <1>2. CASE Next /\ ~Alive
    BY <1>2, EndedKeeps
  <1>3. CASE Next /\ Alive
    <2>1. CASE Produce
      BY <1>3, <2>1, CaptureKeeps, EnqueueKeeps, RefuseKeeps, ReportKeeps DEF Produce
    <2>2. CASE Desktop
      BY <1>3, <2>2, RegisterKeeps, StartRecordingKeeps, StopRecordingKeeps, DisconnectKeeps,
         ReconnectKeeps, CloseKeeps, ShutdownKeeps DEF Desktop
    <2>3. CASE StopComplete
      BY <1>3, <2>3, StopCompleteKeeps
    <2>4. CASE ApplyEvent
      BY <1>3, <2>4, ApplyStatusKeeps, RemoveStatusKeeps, ApplyReplyKeeps DEF ApplyEvent
    <2>5. CASE Write
      BY <1>3, <2>5, WritePayloadKeeps, ReleasePayloadKeeps, BeginStartKeeps, EndStartKeeps,
         BeginStopKeeps, EndStopKeeps, BeginReportKeeps, EndReportKeeps, CleanupSessionKeeps,
         DisconnectSessionKeeps, BeginRekeyKeeps, EndRekeyKeeps, FinishKeeps DEF Write
    <2>6. CASE \E id \in Ids : Tick(id) \/ FlushFails(id)
      BY <1>3, <2>6, TickKeeps, FlushFailsKeeps
    <2> QED BY <1>3, <2>1, <2>2, <2>3, <2>4, <2>5, <2>6 DEF Next
  <1> QED BY <1>1, <1>2, <1>3

LEMMA Invariant == Spec => []Inv
  BY InitInv, NextKeeps, PTL DEF Spec

-----------------------------------------------------------------------------
\* The state of the pipeline while its writer runs: every command in its channel,
\* every status waiting and every recording is one that the code builds.
RunningTyped == Alive => Typed

\* While the writer thread runs the pipeline's state has its type, for any number
\* of ids, recordings and payloads.
THEOREM PipelineTypes == Spec => []RunningTyped
  <1>1. Inv => RunningTyped
    BY DEF Inv, Running, RunningTyped
  <1> QED BY <1>1, Invariant, PTL

\* What the writer puts into a file are the accepted payloads of its session in
\* the order in which enqueue_payload accepted them, from the start request on and
\* without a hole, however the reconnects that rekey it fall (enqueue_payload,
\* run_recording_writer).
THEOREM RecordingHoleFree == Spec => []RecordedWithoutHole
  <1>1. Inv => RecordedWithoutHole
    BY DEF Inv, Base
  <1> QED BY <1>1, Invariant, PTL

\* A recording that ran when a payload was refused is not recording as if nothing
\* had happened, unless the report is still on its way: the mark it is coalesced
\* under is set only while a report is queued, which follows the rekeys that move the
\* recording (report_dropped_payload, take_dropped_payloads).
THEOREM GapsShown == Spec => []RunningGapsShown
  <1>1. ASSUME Inv PROVE RunningGapsShown
    <2>1. CASE Alive
      BY <1>1, <2>1 DEF Inv, Running
    <2>2. CASE ~Alive
      BY <1>1, <2>2 DEF Inv, Base, RunningGapsShown
    <2> QED BY <2>1, <2>2
  <1> QED BY <1>1, Invariant, PTL

\* Once the desktop has applied every event, the file it shows for an id is the one
\* being recorded under it: the coalescing mailbox never holds back a status past
\* the removal of its recording (StatusPublisher, resolve).
THEOREM ShownFollows == Spec => []ShownIsRunning
  <1>1. ASSUME Inv, Settled, NEW id \in Ids
        PROVE  ui.shown[id].file \in {0, StatusOf(manager, id).file}
    <2>1. writer = Idle /\ out.events = <<>>
      BY <1>1 DEF Settled
    <2>2. writer.stage = "idle"
      BY <2>1 DEF Idle
    <2>3. Alive
      BY <2>2 DEF Alive
    <2>4. ~Leaving(id)
      BY <2>2 DEF Leaving
    <2>5. ~RemovalComes(out.events, id)
      BY <2>1 DEF RemovalComes
    <2> QED BY <1>1, <2>3, <2>4, <2>5 DEF Inv, Running, ShownFresh, Recorded
  <1>2. Inv => ShownIsRunning
    BY <1>1 DEF ShownIsRunning
  <1> QED BY <1>2, Invariant, PTL
=============================================================================
