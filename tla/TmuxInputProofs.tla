-------------------------- MODULE TmuxInputProofs --------------------------
(***************************************************************************)
(* Theorems about TmuxInput, for any panes, limits, inputs and number of   *)
(* attachments.                                                            *)
(***************************************************************************)
EXTENDS TmuxInput, NaturalsInduction, WellFoundedInduction, TLAPS

\* What the proofs need of the types; the sums of the budget are left to TLC.
Shape ==
    /\ mailbox.gen \in Nat
    /\ DOMAIN mailbox = {"bytes", "items", "gen", "suspended", "stopped", "detach", "closes"}
    /\ hand \in Command \cup {Nobody}
    /\ channel \in Seq(Command)
    /\ mode \in Modes
    /\ panes \in SUBSET Panes
    /\ buf \in [Panes -> Seq(Byte)] /\ guards \in [Panes -> SUBSET Permit]
    /\ outgoing \in Seq(Line) /\ sending \in Line \cup {Nobody}

Gone == {"discarding", "stopping", "shell", "handshake", "ended"}

\* A pane that is not mapped holds no permit, and no pane is mapped and no send
\* is under way when the session has been torn down.
Emptied ==
    /\ \A p \in Panes \ panes : guards[p] = {}
    /\ mode \in Gone => panes = {}
    /\ mode \in Gone \cup {"toShell", "toEnd"} => sending = Nobody

Current(S) == \A m \in S : m.gen = mailbox.gen

\* Outside discard_pending all permits of the worker are of the epoch.
Epochs ==
    mode \notin {"discarding", "stopping"} =>
        /\ \A i \in DOMAIN channel : channel[i].permit.gen = mailbox.gen
        /\ \A p \in Panes : Current(guards[p])
        /\ \A i \in DOMAIN outgoing : Current(outgoing[i].guards)
        /\ sending # Nobody => Current(sending.guards)

EpochInv == Shape /\ Emptied /\ Epochs

-----------------------------------------------------------------------------
(* The queue of lines.                                                     *)

\* Bytes and lines are what they should be.
LEMMA BytesTyped == ASSUME NEW m \in Permit PROVE Bytes(m) \in Seq(Byte)
  BY DEF Bytes, Permit, Byte

\* A sequence is cut short by queue_batch at the limit and never reordered.
LEMMA PrefixTyped ==
    ASSUME NEW ls \in Seq(Line), NEW k \in Int, k <= Len(ls)
    PROVE  /\ SubSeq(ls, 1, k) \in Seq(Line)
           /\ \A i \in DOMAIN SubSeq(ls, 1, k) : i \in DOMAIN ls /\ SubSeq(ls, 1, k)[i] = ls[i]
  OBVIOUS

\* A line that is handed more permits is a line that holds these as well.
LEMMA GuardedLine ==
    ASSUME NEW l \in Line, NEW gs \in SUBSET Permit
    PROVE  /\ [l EXCEPT !.guards = @ \cup gs] \in Line
           /\ [l EXCEPT !.guards = @ \cup gs].guards = l.guards \cup gs
  <1> DEFINE G == l.guards \cup gs
  <1>1. G \in SUBSET Permit
    BY DEF Line
  <1> HIDE DEF G
  <1>2. [l EXCEPT !.guards = G] \in Line /\ [l EXCEPT !.guards = G].guards = G
    BY <1>1 DEF Line
  <1> QED BY <1>2 DEF G

\* queue_batch keeps the lines that wait, and their permits: a permit in the
\* queue afterwards was there, came with a new line, or is one of gs.
LEMMA QueuedPermits ==
    ASSUME outgoing \in Seq(Line), NEW ls \in Seq(Line), NEW gs \in SUBSET Permit,
           QueueLines(ls, gs)
    PROVE  /\ outgoing' \in Seq(Line)
           /\ \A i \in DOMAIN outgoing' : \A m \in outgoing'[i].guards :
                 \/ m \in gs
                 \/ \E j \in DOMAIN outgoing : m \in outgoing[j].guards
                 \/ \E j \in DOMAIN ls : m \in ls[j].guards
  <1> DEFINE k == Lesser(MaxQueued - Len(outgoing), Len(ls))
             new == SubSeq(ls, 1, k)
             q == outgoing \o new
  <1>1. k \in Int /\ k <= Len(ls)
    BY InputConstants DEF Lesser
  <1>2. /\ new \in Seq(Line)
        /\ \A i \in DOMAIN new : i \in DOMAIN ls /\ new[i] = ls[i]
    BY <1>1, PrefixTyped
  <1> HIDE DEF new
  <1>3. q \in Seq(Line)
    BY <1>2
  <1>4. \A i \in DOMAIN q : \/ i \in DOMAIN outgoing /\ q[i] = outgoing[i]
                            \/ \E j \in DOMAIN new : q[i] = new[j]
    <2> TAKE i \in DOMAIN q
    <2>1. CASE i <= Len(outgoing)
      BY <2>1, <1>2
    <2>2. CASE i > Len(outgoing)
      <3>1. i - Len(outgoing) \in DOMAIN new
        BY <2>2, <1>2
      <3>2. q[i] = new[i - Len(outgoing)]
        BY <2>2, <1>2
      <3> QED BY <3>1, <3>2
    <2> QED BY <2>1, <2>2
  <1>5. outgoing' = IF q = <<>> THEN q ELSE [q EXCEPT ![Len(q)].guards = @ \cup gs]
    BY DEF QueueLines, new
  <1> HIDE DEF q
  <1>6. CASE q = <<>>
    BY <1>3, <1>5, <1>6
  <1>7. CASE q # <<>>
    <2>1. Len(q) \in DOMAIN q
      BY <1>3, <1>7
    <2> DEFINE last == q[Len(q)]
    <2>2. last \in Line
      BY <1>3, <2>1
    <2> HIDE DEF last
    <2>6. /\ [last EXCEPT !.guards = @ \cup gs] \in Line
          /\ [last EXCEPT !.guards = @ \cup gs].guards = last.guards \cup gs
      BY <2>2, GuardedLine
    <2>3. outgoing' = [q EXCEPT ![Len(q)] = [last EXCEPT !.guards = @ \cup gs]]
      BY <1>5, <1>7 DEF last
    <2>4. outgoing' \in Seq(Line) /\ DOMAIN outgoing' = DOMAIN q
      BY <2>1, <2>6, <2>3, <1>3
    <2>5. \A i \in DOMAIN q : \A m \in outgoing'[i].guards : m \in gs \/ m \in q[i].guards
      BY <2>1, <2>3, <2>6, <1>3 DEF last
    <2> QED BY <2>4, <2>5, <1>4, <1>2
  <1> QED BY <1>6, <1>7

-----------------------------------------------------------------------------
(* Epochs.                                                                 *)

\* Giving permits back leaves the epoch alone.
LEMMA ReleaseKeepsEpoch ==
    ASSUME NEW m, NEW S, "gen" \in DOMAIN m
    PROVE  DOMAIN Release(m, S) = DOMAIN m /\ Release(m, S).gen = m.gen
  BY DEF Release

\* Keys, and lines without data, are lines.
LEMMA NewLines ==
    /\ \A p \in Panes, d \in Seq(Byte) : Keys(p, d) \in Line /\ Keys(p, d).guards = {}
    /\ \A k \in {"command", "kill", "detach", "other"}, p \in Panes \cup {Nobody} :
          Plain(k, p) \in Line /\ Plain(k, p).guards = {}
  BY DEF Keys, Plain, Line

\* The initial state satisfies the invariant.
LEMMA EpochInit == Init => EpochInv
  BY DEF Init, EpochInv, Shape, Emptied, Epochs, Current, NoInput, Modes, Gone

\* A caller's step: only an accepted permit reaches the channel.
LEMMA EpochCaller == ASSUME EpochInv, Caller PROVE EpochInv'
  <1> USE DEF EpochInv
  <1>1. ASSUME NEW k \in {"input", "command", "resize"}, NEW p \in Panes \cup {Nobody},
               NEW n \in Nat, Reserve(k, p, n)
        PROVE  EpochInv'
    <2>1. PICK i \in 1..(ItemLimit + 1) :
              hand' = [kind |-> k, pane |-> p,
                       permit |-> [id |-> i, bytes |-> n, gen |-> mailbox.gen]]
      BY <1>1 DEF Reserve
    <2>2. hand' \in Command
      BY <2>1, InputConstants DEF Command, Permit, Shape
    <2>3. mailbox' = [mailbox EXCEPT !.bytes = @ + n, !.items = @ + 1]
      BY <1>1 DEF Reserve
    <2> QED
      BY <1>1, <2>2, <2>3 DEF Reserve, Shape, Emptied, Epochs, Current, input, lines
  <1>2. CASE Enqueue
    <2>1. CASE Accepted(hand.permit)
      <3>1. hand \in Command /\ channel' = Append(channel, hand) /\ hand' = Nobody
        BY <1>2, <2>1 DEF Enqueue, Shape
      <3>2. hand.permit.gen = mailbox.gen
        BY <2>1 DEF Accepted
      <3> QED
        BY <1>2, <2>1, <3>1, <3>2 DEF Enqueue, Shape, Emptied, Epochs, Current, input, lines
    <2>2. CASE ~Accepted(hand.permit)
      BY <1>2, <2>2, ReleaseKeepsEpoch
      DEF Enqueue, Shape, Emptied, Epochs, Current, input, lines
    <2> QED BY <2>1, <2>2
  <1>3. CASE SendDetach
    BY <1>3 DEF SendDetach, Shape, Emptied, Epochs, Current, input, lines
  <1>4. ASSUME NEW p \in Panes, TmuxClosePane(p) PROVE EpochInv'
    BY <1>4 DEF TmuxClosePane, Shape, Emptied, Epochs, Current, input, lines
  <1> QED
    BY <1>1, <1>2, <1>3, <1>4, InputConstants
    DEF Caller, TmuxSendCommand, WritePane, ResizePane

\* A step that only queues lines, with permits of this epoch.
LEMMA EpochQueue ==
    ASSUME EpochInv, Running, NEW ls \in Seq(Line), NEW gs \in SUBSET Permit,
           \A i \in DOMAIN ls : ls[i].guards = {}, Current(gs), QueueLines(ls, gs)
    PROVE  /\ outgoing' \in Seq(Line) /\ sending' = sending
           /\ \A i \in DOMAIN outgoing' : Current(outgoing'[i].guards)
  <1>1. /\ outgoing' \in Seq(Line)
        /\ \A i \in DOMAIN outgoing' : \A m \in outgoing'[i].guards :
              \/ m \in gs
              \/ \E j \in DOMAIN outgoing : m \in outgoing[j].guards
    BY QueuedPermits DEF EpochInv, Shape
  <1>2. \A j \in DOMAIN outgoing : Current(outgoing[j].guards)
    BY DEF EpochInv, Epochs, Running
  <1>3. sending' = sending
    BY DEF QueueLines
  <1>4. \A i \in DOMAIN outgoing' : Current(outgoing'[i].guards)
    BY <1>1, <1>2 DEF Current
  <1> QED BY <1>1, <1>3, <1>4

\* The worker takes a command from the channel.
LEMMA EpochReceive == ASSUME EpochInv, Receive PROVE EpochInv'
  <1> USE DEF EpochInv
  <1>1. ASSUME NEW k, Recv(k)
        PROVE  /\ Idle /\ Running /\ channel # <<>> /\ channel' \in Seq(Command)
               /\ Head(channel).permit \in Permit /\ Head(channel).permit.gen = mailbox.gen
               /\ \A i \in DOMAIN channel' : channel'[i].permit.gen = mailbox.gen
    <2>1. Idle /\ Running /\ channel # <<>> /\ channel' = Tail(channel) /\ mode = "control"
      BY <1>1 DEF Recv, Idle, Running
    <2>2. Head(channel) = channel[1] /\ 1 \in DOMAIN channel
      BY <2>1 DEF Shape
    <2>3. Head(channel) \in Command
      BY <2>1 DEF Shape
    <2>4. /\ channel' \in Seq(Command)
          /\ \A i \in DOMAIN channel' : i + 1 \in DOMAIN channel /\ channel'[i] = channel[i + 1]
      BY <2>1 DEF Shape
    <2>5. \A i \in DOMAIN channel : channel[i].permit.gen = mailbox.gen
      BY <2>1 DEF Epochs
    <2>6. Head(channel).permit \in Permit
      BY <2>3 DEF Command
    <2> QED BY <2>1, <2>2, <2>4, <2>5, <2>6
  <1>2. CASE RecvInput
    <2> DEFINE m == Head(channel).permit
               p == Head(channel).pane
    <2>1. Recv("input")
      BY <1>2 DEF RecvInput
    <2>2. CASE p \in panes
      <3>1. p \in Panes
        BY <2>2 DEF Shape
      <3>2. /\ buf' = [buf EXCEPT ![p] = @ \o Bytes(m)]
            /\ guards' = [guards EXCEPT ![p] = @ \cup {m}]
            /\ UNCHANGED <<mailbox, hand, mode, panes, outgoing, sending>>
        BY <1>2, <2>2 DEF RecvInput, lines
      <3>3. m \in Permit /\ m.gen = mailbox.gen /\ Bytes(m) \in Seq(Byte)
        BY <1>1, <2>1, BytesTyped
      <3> HIDE DEF m, p
      <3> QED
        BY <3>1, <3>2, <3>3, <2>2, <1>1, <2>1 DEF Shape, Emptied, Epochs, Current, Idle
    <2>3. CASE p \notin panes
      BY <1>2, <2>3, <1>1, <2>1, ReleaseKeepsEpoch
      DEF RecvInput, Shape, Emptied, Epochs, Current, Idle, input, lines
    <2> QED BY <2>2, <2>3
  <1>3. CASE RecvCommand
    <2> DEFINE m == Head(channel).permit
               ls == <<Plain("command", Nobody)>>
    <2>1. Recv("command")
      BY <1>3 DEF RecvCommand
    <2>2. CASE QueueLines(ls, {m}) /\ UNCHANGED mailbox
      <3>1. /\ ls \in Seq(Line) /\ \A i \in DOMAIN ls : ls[i].guards = {}
            /\ {m} \in SUBSET Permit /\ Current({m}) /\ Running
        BY <1>1, <2>1, NewLines DEF Current
      <3>2. /\ outgoing' \in Seq(Line) /\ sending' = sending
            /\ \A i \in DOMAIN outgoing' : Current(outgoing'[i].guards)
        BY <2>2, <3>1, EpochQueue
      <3> QED
        BY <1>3, <2>2, <3>2, <1>1, <2>1
        DEF RecvCommand, Shape, Emptied, Epochs, Current, Idle, input
    <2>3. CASE mailbox' = Release(mailbox, {m}) /\ UNCHANGED lines
      BY <1>3, <2>3, <1>1, <2>1, ReleaseKeepsEpoch
      DEF RecvCommand, Shape, Emptied, Epochs, Current, Idle, input, lines
    <2> QED BY <1>3, <2>2, <2>3 DEF RecvCommand
  <1>4. CASE RecvResize
    <2>1. Recv("resize")
      BY <1>4 DEF RecvResize
    <2> QED
      BY <1>4, <1>1, <2>1, ReleaseKeepsEpoch
      DEF RecvResize, Shape, Emptied, Epochs, Current, Idle, input, lines
  <1> QED BY <1>2, <1>3, <1>4 DEF Receive

\* A function on 1..n is a sequence.
LEMMA IsSeq ==
    ASSUME NEW S, NEW n \in Nat, NEW f, f = [i \in 1..n |-> f[i]], \A i \in 1..n : f[i] \in S
    PROVE  f \in Seq(S)
  OBVIOUS

\* The lines of a batch are lines, with the bytes they are cut from.
LEMMA LinesOfBatch ==
    ASSUME NEW p \in Panes, buf[p] \in Seq(Byte),
           NEW e \in 1..Len(buf[p]), NEW n \in 1..Len(buf[p]), e <= n
    PROVE  /\ OneLine(p, n) \in Seq(Line) /\ Len(OneLine(p, n)) = 1
           /\ OneLine(p, n)[1] = Keys(p, SubSeq(buf[p], 1, n))
           /\ LinePerKey(p, e, n) \in Seq(Line) /\ Len(LinePerKey(p, e, n)) = e
           /\ \A i \in 1..e :
                 LinePerKey(p, e, n)[i] = Keys(p, SubSeq(buf[p], i, IF i < e THEN i ELSE n))
  <1>1. \A i, j \in 1..Len(buf[p]) : SubSeq(buf[p], i, j) \in Seq(Byte)
    OBVIOUS
  <1>2. /\ OneLine(p, n) \in Seq(Line) /\ Len(OneLine(p, n)) = 1
        /\ OneLine(p, n)[1] = Keys(p, SubSeq(buf[p], 1, n))
    <2> DEFINE l == Keys(p, SubSeq(buf[p], 1, n))
    <2>1. SubSeq(buf[p], 1, n) \in Seq(Byte)
      BY <1>1
    <2>2. l \in Line
      BY <2>1, NewLines
    <2>3. OneLine(p, n) = <<l>>
      BY DEF OneLine
    <2> HIDE DEF l
    <2>4. <<l>> \in Seq(Line) /\ Len(<<l>>) = 1 /\ <<l>>[1] = l
      BY <2>2
    <2> QED BY <2>3, <2>4 DEF l
  <1> DEFINE K(i) == Keys(p, SubSeq(buf[p], i, IF i < e THEN i ELSE n))
             ls == [i \in 1..e |-> K(i)]
  <1>3. \A i \in 1..e : K(i) \in Line
    <2> TAKE i \in 1..e
    <2>1. i \in 1..Len(buf[p]) /\ (IF i < e THEN i ELSE n) \in 1..Len(buf[p])
      OBVIOUS
    <2> QED BY <1>1, <2>1, NewLines
  <1>4. LinePerKey(p, e, n) = ls
    BY DEF LinePerKey
  <1> HIDE DEF K
  <1>5. e \in Nat /\ DOMAIN ls = 1..e /\ \A i \in 1..e : ls[i] \in Line /\ ls[i] = K(i)
    BY <1>3
  <1>6. Len(ls) = e /\ ls = [i \in 1..e |-> ls[i]]
    BY <1>5
  <1> HIDE DEF ls
  <1>7. ls \in Seq(Line)
    BY <1>5, <1>6, IsSeq
  <1> QED BY <1>2, <1>4, <1>5, <1>6, <1>7 DEF K

\* The length of a batch lies within the input, and its lines are lines.
LEMMA BatchLines ==
    ASSUME EpochInv, NEW p \in Panes, FlushInput(p)
    PROVE  \E e \in 1..Len(buf[p]), n \in 1..Len(buf[p]) :
              /\ e = Lesser(BatchBytes, Len(buf[p]))
              /\ RestOf(p, n) \in Seq(Byte)
              /\ \E ls \in Seq(Line) :
                    /\ \A i \in DOMAIN ls : ls[i].guards = {}
                    /\ Len(ls) = 1 \/ Len(ls) = e
                    /\ QueueLines(ls, ReleasedWith(p, RestOf(p, n)))
              /\ buf' = [buf EXCEPT ![p] = RestOf(p, n)]
              /\ guards' = [guards EXCEPT ![p] = @ \ ReleasedWith(p, RestOf(p, n))]
  <1>1. buf[p] \in Seq(Byte) /\ buf[p] # <<>>
    BY DEF FlushInput, EpochInv, Shape
  <1> DEFINE e == Lesser(BatchBytes, Len(buf[p]))
  <1>2. e \in 1..Len(buf[p])
    BY <1>1, InputConstants DEF Lesser
  <1>3. PICK n \in e..Lesser(e + KeyBytes - 1, Len(buf[p])) :
           /\ \/ QueueLines(OneLine(p, n), ReleasedWith(p, RestOf(p, n)))
              \/ QueueLines(LinePerKey(p, e, n), ReleasedWith(p, RestOf(p, n)))
           /\ buf' = [buf EXCEPT ![p] = RestOf(p, n)]
           /\ guards' = [guards EXCEPT ![p] = @ \ ReleasedWith(p, RestOf(p, n))]
    BY DEF FlushInput
  <1> HIDE DEF e
  <1>4. n \in 1..Len(buf[p]) /\ e <= n
    BY <1>1, <1>2, InputConstants DEF Lesser
  <1>5. \A d \in Seq(Byte) : Keys(p, d).guards = {}
    BY NewLines
  <1>6. RestOf(p, n) \in Seq(Byte)
    BY <1>1, <1>4 DEF RestOf
  <1>7. \E ls \in Seq(Line) :
           /\ \A i \in DOMAIN ls : ls[i].guards = {}
           /\ Len(ls) = 1 \/ Len(ls) = e
           /\ QueueLines(ls, ReleasedWith(p, RestOf(p, n)))
    <2> DEFINE one == OneLine(p, n)
               many == LinePerKey(p, e, n)
    <2>1. /\ one \in Seq(Line) /\ Len(one) = 1 /\ one[1] = Keys(p, SubSeq(buf[p], 1, n))
          /\ many \in Seq(Line) /\ Len(many) = e
          /\ \A i \in 1..e : many[i] = Keys(p, SubSeq(buf[p], i, IF i < e THEN i ELSE n))
      BY <1>1, <1>2, <1>4, LinesOfBatch
    <2> HIDE DEF one, many
    <2>2. \A i \in DOMAIN one : one[i].guards = {}
      <3>1. SubSeq(buf[p], 1, n) \in Seq(Byte) /\ DOMAIN one = {1}
        BY <1>1, <1>4, <2>1
      <3> QED BY <1>5, <2>1, <3>1
    <2>3. \A i \in DOMAIN many : many[i].guards = {}
      <3>1. ASSUME NEW i \in 1..e PROVE many[i].guards = {}
        <4>1. SubSeq(buf[p], i, IF i < e THEN i ELSE n) \in Seq(Byte)
          BY <1>1, <1>2, <1>4
        <4> QED BY <1>5, <2>1, <4>1
      <3>2. DOMAIN many = 1..e
        BY <1>2, <2>1
      <3> QED BY <3>1, <3>2
    <2> QED BY <1>3, <2>1, <2>2, <2>3 DEF one, many
  <1> QED BY <1>2, <1>3, <1>4, <1>6, <1>7 DEF e

\* The permits that leave with a batch are permits of the pane.
LEMMA FlushKeeps == ASSUME EpochInv, NEW p \in Panes, FlushInput(p) PROVE EpochInv'
  <1>1. PICK e \in 1..Len(buf[p]), n \in 1..Len(buf[p]) :
           /\ RestOf(p, n) \in Seq(Byte)
           /\ \E ls \in Seq(Line) : /\ \A i \in DOMAIN ls : ls[i].guards = {}
                                    /\ QueueLines(ls, ReleasedWith(p, RestOf(p, n)))
           /\ buf' = [buf EXCEPT ![p] = RestOf(p, n)]
           /\ guards' = [guards EXCEPT ![p] = @ \ ReleasedWith(p, RestOf(p, n))]
    BY BatchLines
  <1> DEFINE rest == RestOf(p, n)
             gs == ReleasedWith(p, rest)
  <1>2. Running /\ mode = "control" /\ UNCHANGED <<mailbox, hand, channel, mode, panes>>
    BY DEF FlushInput, Idle, Running
  <1>3. gs \in SUBSET Permit /\ Current(gs) /\ gs \subseteq guards[p]
    BY <1>1, <1>2 DEF ReleasedWith, EpochInv, Shape, Epochs, Current
  <1> HIDE DEF gs
  <1>4. /\ outgoing' \in Seq(Line) /\ sending' = sending
        /\ \A i \in DOMAIN outgoing' : Current(outgoing'[i].guards)
    BY <1>1, <1>2, <1>3, EpochQueue DEF gs
  <1>5. /\ buf' = [buf EXCEPT ![p] = rest] /\ rest \in Seq(Byte)
        /\ guards' = [guards EXCEPT ![p] = @ \ gs]
    BY <1>1 DEF gs
  <1> HIDE DEF rest
  <1> QED
    BY <1>2, <1>3, <1>4, <1>5 DEF EpochInv, Shape, Emptied, Epochs, Current

\* The loop ends, with whatever was being sent.
LEMMA LeaveKeeps ==
    ASSUME EpochInv, NEW next \in {"toShell", "toEnd"}, Leave(next),
           mode \in {"control", "detach", "close"}
    PROVE  EpochInv'
  <1>1. /\ mode' = next /\ sending' = Nobody
        /\ UNCHANGED <<hand, channel, panes, buf, guards, outgoing>>
    BY DEF Leave, input
  <1>2. DOMAIN mailbox' = DOMAIN mailbox /\ mailbox'.gen = mailbox.gen
    BY ReleaseKeepsEpoch DEF Leave, EpochInv, Shape
  <1>3. Shape'
    BY <1>1, <1>2 DEF EpochInv, Shape, Modes
  <1>4. Emptied'
    BY <1>1 DEF EpochInv, Emptied, Gone
  <1>5. Epochs'
    BY <1>1, <1>2 DEF EpochInv, Epochs, Current
  <1> QED BY <1>3, <1>4, <1>5 DEF EpochInv

\* request_detach gives up what is queued.
LEMMA DetachKeeps ==
    ASSUME EpochInv, Running, NEW m, NEW exitMode \in {"detach", "close"},
           DOMAIN m = DOMAIN mailbox, m.gen = mailbox.gen, RequestDetach(m, exitMode)
    PROVE  EpochInv'
  <1>1. /\ mode' = exitMode /\ outgoing' = <<Plain("detach", Nobody)>>
        /\ buf' = NoInput /\ guards' = [p \in Panes |-> {}]
        /\ UNCHANGED <<hand, channel, panes, sending>>
        /\ DOMAIN mailbox' = DOMAIN mailbox /\ mailbox'.gen = mailbox.gen
    BY ReleaseKeepsEpoch DEF RequestDetach, EpochInv, Shape
  <1>2. outgoing' \in Seq(Line) /\ \A i \in DOMAIN outgoing' : outgoing'[i].guards = {}
    BY <1>1, NewLines
  <1> QED
    BY <1>1, <1>2
    DEF EpochInv, Shape, Emptied, Epochs, Current, Modes, Gone, NoInput, Running

\* A worker's step.
LEMMA EpochWorker == ASSUME EpochInv, Worker PROVE EpochInv'
  <1> USE DEF EpochInv
  <1>1. CASE Attach
    BY <1>1 DEF Attach, Shape, Emptied, Epochs, Current, Modes, Gone, input, lines
  <1>2. CASE Receive
    BY <1>2, EpochReceive
  <1>3. CASE OtherLine
    <2> DEFINE ls == <<Plain("other", Nobody)>>
    <2>1. ls \in Seq(Line) /\ \A i \in DOMAIN ls : ls[i].guards = {}
      BY NewLines
    <2>2. Running /\ QueueLines(ls, {}) /\ Current({})
      BY <1>3 DEF OtherLine, Current
    <2> HIDE DEF ls
    <2>3. /\ outgoing' \in Seq(Line) /\ sending' = sending
          /\ \A i \in DOMAIN outgoing' : Current(outgoing'[i].guards)
      BY <2>1, <2>2, EpochQueue
    <2> QED BY <1>3, <2>2, <2>3 DEF OtherLine, Shape, Emptied, Epochs, Current, Running, input
  <1>4. CASE RecvDetach
    <2> DEFINE m == [mailbox EXCEPT !.detach = FALSE]
    <2>1. DOMAIN m = DOMAIN mailbox /\ m.gen = mailbox.gen
      BY DEF Shape
    <2>2. CASE mode = "control"
      BY <1>4, <2>1, <2>2, DetachKeeps DEF RecvDetach
    <2>3. CASE mode # "control"
      BY <1>4, <2>1, <2>3 DEF RecvDetach, Shape, Emptied, Epochs, Current, input, lines
    <2> QED BY <2>2, <2>3
  <1>5. CASE HostClosed
    BY <1>5, DetachKeeps DEF HostClosed, Idle, Running
  <1>6. CASE StartSend
    <2>1. /\ outgoing # <<>> /\ sending' = Head(outgoing) /\ outgoing' = Tail(outgoing)
          /\ UNCHANGED <<mailbox, hand, channel, mode, panes, buf, guards>> /\ Running
      BY <1>6 DEF StartSend, input
    <2>2. /\ sending' \in Line /\ sending' = outgoing[1] /\ 1 \in DOMAIN outgoing
          /\ outgoing' \in Seq(Line)
          /\ \A i \in DOMAIN outgoing' : i + 1 \in DOMAIN outgoing
                                         /\ outgoing'[i] = outgoing[i + 1]
      BY <2>1 DEF Shape
    <2> QED BY <2>1, <2>2 DEF Shape, Emptied, Epochs, Current, Running, Gone
  <1>7. CASE SendDone
    BY <1>7, ReleaseKeepsEpoch DEF SendDone, Shape, Emptied, Epochs, Current, input
  <1>8. CASE Exit
    BY <1>8, LeaveKeeps DEF Exit, Running
  <1>9. CASE Fatal
    BY <1>9, LeaveKeeps DEF Fatal
  <1>10. CASE ChannelLost
    BY <1>10, LeaveKeeps DEF ChannelLost, Running
  <1>11. CASE Suspend
    BY <1>11 DEF Suspend, Shape, Emptied, Epochs, Modes, Gone, input, lines
  <1>12. CASE Discard
    <2>1. /\ mode \in {"discarding", "stopping"} /\ mode' \in {"shell", "ended"}
          /\ channel' = <<>> /\ outgoing' = <<>>
          /\ UNCHANGED <<hand, panes, buf, guards, sending>>
      BY <1>12 DEF Discard, input
    <2>2. DOMAIN mailbox' = DOMAIN mailbox /\ mailbox'.gen = mailbox.gen
      BY <1>12, ReleaseKeepsEpoch DEF Discard, Shape
    <2>3. sending' = Nobody /\ panes' = {} /\ \A p \in Panes : guards'[p] = {}
      BY <2>1 DEF Emptied, Gone
    <2>4. Shape'
      BY <2>1, <2>2 DEF Shape, Modes
    <2>5. Emptied'
      BY <2>3 DEF Emptied
    <2>6. Epochs'
      BY <2>1, <2>3 DEF Epochs, Current
    <2> QED BY <2>4, <2>5, <2>6
  <1>13. ASSUME NEW p \in Panes, FlushInput(p) PROVE EpochInv'
    BY <1>13, FlushKeeps
  <1>14. ASSUME NEW p \in Panes, RecvClose(p) PROVE EpochInv'
    <2>1. DOMAIN mailbox' = DOMAIN mailbox /\ mailbox'.gen = mailbox.gen
      BY <1>14 DEF RecvClose, Shape
    <2>2. CASE mode = "control"
      <3> DEFINE ls == <<Plain("kill", p)>>
      <3>1. ls \in Seq(Line) /\ \A i \in DOMAIN ls : ls[i].guards = {}
        BY NewLines
      <3>2. Running /\ QueueLines(ls, {}) /\ Current({})
        BY <1>14, <2>2 DEF RecvClose, Current
      <3> HIDE DEF ls
      <3>3. /\ outgoing' \in Seq(Line) /\ sending' = sending
            /\ \A i \in DOMAIN outgoing' : Current(outgoing'[i].guards)
        BY <3>1, <3>2, EpochQueue
      <3> QED
        BY <1>14, <2>1, <2>2, <3>3 DEF RecvClose, Shape, Emptied, Epochs, Current, input
    <2>3. CASE mode # "control"
      BY <1>14, <2>1, <2>3 DEF RecvClose, Shape, Emptied, Epochs, Current, input, lines
    <2> QED BY <2>2, <2>3
  <1>15. ASSUME NEW p \in Panes, SpawnPane(p) PROVE EpochInv'
    BY <1>15 DEF SpawnPane, Running, Shape, Emptied, Epochs, Current, Gone, input, lines
  <1>16. ASSUME NEW p \in Panes, DropPane(p) PROVE EpochInv'
    BY <1>16, ReleaseKeepsEpoch DEF DropPane, Shape, Emptied, Epochs, Current, Gone, lines
  <1>17. ASSUME NEW failed \in BOOLEAN, Answered(failed) PROVE EpochInv'
    BY <1>17 DEF Answered, Shape, Emptied, Epochs, Current, input
  <1>18. CASE Detect \/ HandshakeExited
    BY <1>18 DEF Detect, HandshakeExited, Shape, Emptied, Epochs, Current, Modes, Gone, input, lines
  <1>19. CASE EndShell
    <2>1. /\ mode \in {"shell", "handshake"} /\ mode' = "ended" /\ channel' = <<>>
          /\ UNCHANGED <<hand, panes, buf, guards, outgoing, sending>>
      BY <1>19 DEF EndShell, input, lines
    <2>2. DOMAIN mailbox' = DOMAIN mailbox /\ mailbox'.gen = mailbox.gen
      BY <1>19, ReleaseKeepsEpoch DEF EndShell, Shape
    <2>3. Shape'
      BY <2>1, <2>2 DEF Shape, Modes
    <2>4. Emptied'
      BY <2>1 DEF Emptied, Gone
    <2>5. Epochs'
      BY <2>1, <2>2 DEF Epochs, Current
    <2> QED BY <2>3, <2>4, <2>5
  <1> QED
    BY <1>1, <1>2, <1>3, <1>4, <1>5, <1>6, <1>7, <1>8, <1>9, <1>10, <1>11, <1>12, <1>13,
       <1>14, <1>15, <1>16, <1>17, <1>18, <1>19 DEF Worker

\* Every step keeps the invariant.
LEMMA EpochStep == EpochInv /\ [Next]_vars => EpochInv'
  <1> SUFFICES ASSUME EpochInv, [Next]_vars PROVE EpochInv'
    OBVIOUS
  <1>1. CASE Caller
    BY <1>1, EpochCaller
  <1>2. CASE Worker
    BY <1>2, EpochWorker
  <1>3. CASE UNCHANGED vars
    BY <1>3 DEF vars, input, lines, EpochInv, Shape, Emptied, Epochs, Current
  <1> QED BY <1>1, <1>2, <1>3 DEF Next

\* The permits of the worker are of the epoch while the loop runs.
LEMMA EpochsMatch == EpochInv => NoStaleInput
  <1> SUFFICES ASSUME EpochInv, Running, NEW m \in Held PROVE m.gen = mailbox.gen
    BY DEF NoStaleInput
  <1>1. /\ \A i \in DOMAIN channel : channel[i].permit.gen = mailbox.gen
        /\ \A p \in Panes : Current(guards[p])
        /\ \A i \in DOMAIN outgoing : Current(outgoing[i].guards)
        /\ sending # Nobody => Current(sending.guards)
    BY DEF EpochInv, Epochs, Running
  <1>2. CASE m \in {c.permit : c \in Range(channel)}
    BY <1>1, <1>2 DEF Range
  <1>3. CASE m \in UNION Range(guards)
    BY <1>1, <1>3 DEF Range, Current, EpochInv, Shape
  <1>4. CASE m \in GuardsIn(outgoing)
    BY <1>1, <1>4 DEF GuardsIn, Range, Current
  <1>5. CASE sending # Nobody /\ m \in sending.guards
    BY <1>1, <1>5 DEF Current
  <1> DEFINE A == {c.permit : c \in Range(channel)}
             B == UNION Range(guards)
             C == GuardsIn(outgoing)
             D == IF sending = Nobody THEN {} ELSE sending.guards
  <1>6. Held = A \cup B \cup C \cup D
    BY DEF Held
  <1>7. m \in D => sending # Nobody /\ m \in sending.guards
    OBVIOUS
  <1> HIDE DEF A, B, C, D
  <1>8. m \in A \/ m \in B \/ m \in C \/ m \in D
    BY <1>6
  <1> QED BY <1>2, <1>3, <1>4, <1>5, <1>7, <1>8, Zenon DEF A, B, C

\* No command reserved before a detach is in the hands of the worker on a later
\* attachment, for any number of panes, callers' commands and attachments
\* (discard_pending and the generation compared by enqueue).
THEOREM DetachedEpochsNeverRun == Spec => []NoStaleInput
  <1>1. Init => EpochInv
    BY EpochInit
  <1>2. EpochInv /\ [Next]_vars => EpochInv'
    BY EpochStep
  <1>3. EpochInv => NoStaleInput
    BY EpochsMatch
  <1> QED BY <1>1, <1>2, <1>3, PTL DEF Spec

\* queue_batch of lines that fit is not fatal.
LEMMA FittingLines ==
    ASSUME NEW ls, NEW gs, QueueLines(ls, gs), Len(ls) \in Nat, Len(outgoing) \in Nat,
           Len(ls) <= MaxQueued - Len(outgoing)
    PROVE  ~fatal'
  <1>1. fatal' = (Len(ls) > MaxQueued - Len(outgoing))
    BY Zenon DEF QueueLines
  <1>2. ~(Len(ls) > MaxQueued - Len(outgoing))
    BY InputConstants
  <1> QED BY <1>1, <1>2, Zenon

\* A batch fits into the queue.
LEMMA FlushFits == ASSUME EpochInv, NEW p \in Panes, FlushInput(p) PROVE ~fatal'
  <1>1. /\ Len(buf[p]) \in Nat /\ Len(outgoing) \in Nat
        /\ Len(outgoing) < MaxQueued \div 2
    BY DEF FlushInput, QueueHasRoom, EpochInv, Shape
  <1>2. PICK e \in 1..Len(buf[p]), n \in 1..Len(buf[p]) :
           /\ e = Lesser(BatchBytes, Len(buf[p]))
           /\ RestOf(p, n) \in Seq(Byte)
           /\ \E ls \in Seq(Line) :
                 /\ \A i \in DOMAIN ls : ls[i].guards = {}
                 /\ Len(ls) = 1 \/ Len(ls) = e
                 /\ QueueLines(ls, ReleasedWith(p, RestOf(p, n)))
           /\ buf' = [buf EXCEPT ![p] = RestOf(p, n)]
           /\ guards' = [guards EXCEPT ![p] = @ \ ReleasedWith(p, RestOf(p, n))]
    BY BatchLines
  <1>3. PICK ls \in Seq(Line) : /\ Len(ls) = 1 \/ Len(ls) = e
                                /\ QueueLines(ls, ReleasedWith(p, RestOf(p, n)))
    BY <1>2
  <1>4. e \in Nat /\ e > 0 /\ e <= BatchBytes
    BY <1>1, <1>2, InputConstants DEF Lesser
  <1>5. e <= MaxQueued - Len(outgoing) /\ 1 <= MaxQueued - Len(outgoing)
    BY <1>1, <1>4, InputConstants, BatchFits
  <1>6. Len(ls) \in Nat /\ Len(ls) <= MaxQueued - Len(outgoing)
    <2>1. CASE Len(ls) = 1
      BY <1>5, <2>1
    <2>2. CASE Len(ls) = e
      BY <1>4, <1>5, <2>2
    <2> QED BY <1>3, <2>1, <2>2, Zenon
  <1> QED BY <1>1, <1>3, <1>6, FittingLines

\* Typing and commands of the tmux bar never overflow the queue of lines: the
\* half of it kept free takes a batch that is all keys (INPUT_BATCH_BYTES).
THEOREM TypingNeverEndsTheSession == Spec => InputNeverFatal
  <1>1. ASSUME EpochInv, NEW p \in Panes, FlushInput(p) PROVE ~fatal'
    BY <1>1, FlushFits
  <1>2. ASSUME EpochInv, RecvCommand PROVE ~fatal'
    <2>1. /\ Len(outgoing) \in Nat /\ Len(outgoing) < MaxQueued \div 2 /\ ~fatal
      BY <1>2 DEF RecvCommand, Recv, Idle, QueueHasRoom, EpochInv, Shape
    <2> DEFINE one == <<Plain("command", Nobody)>>
    <2>2. QueueLines(one, {Head(channel).permit}) \/ UNCHANGED fatal
      BY <1>2, Zenon DEF RecvCommand, lines
    <2>3. Len(one) \in Nat /\ Len(one) <= MaxQueued - Len(outgoing)
      BY <2>1, InputConstants
    <2> HIDE DEF one
    <2> QED BY <2>1, <2>2, <2>3, FittingLines
  <1>3. EpochInv /\ [Next]_vars
        => [(\E p \in Panes : FlushInput(p)) \/ RecvCommand => ~fatal']_vars
    BY <1>1, <1>2
  <1> QED BY <1>3, EpochInit, EpochStep, PTL DEF Spec, InputNeverFatal

-----------------------------------------------------------------------------
(* Pieces of a sequence.                                                   *)

\* The sequence d is what o holds from place a + 1 to place b.
Covers(d, o, a, b) ==
    /\ b = a + Len(d) /\ b <= Len(o)
    /\ \A k \in 1..Len(d) : o[a + k] = d[k]

\* The pieces F, one behind the other, are what o holds from a + 1 to b: piece i ends
\* where piece i + 1 begins.
Chain(F, o, a, b) ==
    \E h \in [1..(Len(F) + 1) -> 0..Len(o)] :
        /\ h[1] = a /\ h[Len(F) + 1] = b
        /\ \A i, j \in 1..(Len(F) + 1) : i <= j => h[i] <= h[j]
        /\ \A i \in 1..Len(F) : Covers(F[i], o, h[i], h[i + 1])

Pieces == Seq(Seq(Byte))

\* No pieces, or only empty ones, cover nothing.
LEMMA ChainNothing ==
    ASSUME NEW F \in Pieces, NEW o \in Seq(Byte), NEW a \in 0..Len(o),
           \A i \in 1..Len(F) : F[i] = <<>>
    PROVE  Chain(F, o, a, a)
  <1> DEFINE h == [i \in 1..(Len(F) + 1) |-> a]
  <1>1. h \in [1..(Len(F) + 1) -> 0..Len(o)]
    OBVIOUS
  <1>2. Len(F) \in Nat
    BY DEF Pieces
  <1>3. \A i \in 1..Len(F) : Covers(F[i], o, h[i], h[i + 1])
    BY <1>2 DEF Covers
  <1>4. h[1] = a /\ h[Len(F) + 1] = a
    BY <1>2
  <1>5. \A i, j \in 1..(Len(F) + 1) : h[i] <= h[j]
    OBVIOUS
  <1> HIDE DEF h
  <1> QED BY <1>1, <1>3, <1>4, <1>5 DEF Chain

\* One piece is a chain.
LEMMA ChainOne ==
    ASSUME NEW d \in Seq(Byte), NEW o \in Seq(Byte), NEW a \in Nat, NEW b \in Nat,
           Covers(d, o, a, b)
    PROVE  Chain(<<d>>, o, a, b)
  <1> DEFINE h == [i \in 1..2 |-> IF i = 1 THEN a ELSE b]
  <1>1. h[1] = a /\ h[2] = b /\ a <= b /\ b <= Len(o)
    BY DEF Covers
  <1>2. h \in [1..2 -> 0..Len(o)]
    BY <1>1
  <1>3. Len(<<d>>) = 1 /\ <<d>>[1] = d
    OBVIOUS
  <1>4. \A i, j \in 1..2 : i <= j => h[i] <= h[j]
    BY <1>1
  <1>5. \A i \in 1..1 : i = 1 /\ i + 1 = 2
    OBVIOUS
  <1> HIDE DEF h
  <1>6. \A i \in 1..1 : Covers(<<d>>[i], o, h[i], h[i + 1])
    BY <1>1, <1>3, <1>5
  <1> QED BY <1>1, <1>2, <1>3, <1>4, <1>6 DEF Chain

\* Two chains of which the second begins where the first ends are one.
LEMMA ChainConcat ==
    ASSUME NEW F \in Pieces, NEW G \in Pieces, NEW o \in Seq(Byte),
           NEW a, NEW b, NEW c, Chain(F, o, a, b), Chain(G, o, b, c)
    PROVE  Chain(F \o G, o, a, c)
  <1> DEFINE m == Len(F)
             n == Len(G)
  <1>1. m \in Nat /\ n \in Nat /\ Len(o) \in Nat
    BY DEF Pieces
  <1>2. PICK f \in [1..(m + 1) -> 0..Len(o)] :
            /\ f[1] = a /\ f[m + 1] = b
            /\ \A i, j \in 1..(m + 1) : i <= j => f[i] <= f[j]
            /\ \A i \in 1..m : Covers(F[i], o, f[i], f[i + 1])
    BY DEF Chain
  <1>3. PICK g \in [1..(n + 1) -> 0..Len(o)] :
            /\ g[1] = b /\ g[n + 1] = c
            /\ \A i, j \in 1..(n + 1) : i <= j => g[i] <= g[j]
            /\ \A i \in 1..n : Covers(G[i], o, g[i], g[i + 1])
    BY DEF Chain
  <1>4. /\ Len(F \o G) = m + n
        /\ \A i \in 1..m : (F \o G)[i] = F[i]
        /\ \A i \in (m + 1)..(m + n) : (F \o G)[i] = G[i - m]
    BY DEF Pieces
  <1> HIDE DEF m, n
  <1> DEFINE h == [i \in 1..(m + n + 1) |-> IF i <= m + 1 THEN f[i] ELSE g[i - m]]
  <1>5. /\ \A i \in 1..(m + 1) : h[i] = f[i]
        /\ \A i \in (m + 1)..(m + n + 1) : i - m \in 1..(n + 1) /\ h[i] = g[i - m]
    BY <1>1, <1>2, <1>3
  <1>6. \A i \in 1..(m + n + 1) : h[i] \in 0..Len(o)
    BY <1>1, <1>2, <1>3
  <1>7. h \in [1..(m + n + 1) -> 0..Len(o)]
    BY <1>6
  <1> HIDE DEF h
  <1>8. h[1] = a /\ h[m + n + 1] = c
    BY <1>1, <1>2, <1>3, <1>5
  <1>9. ASSUME NEW i \in 1..(m + n + 1), NEW j \in 1..(m + n + 1), i <= j
        PROVE  h[i] <= h[j]
    <2>1. CASE j <= m + 1
      <3>1. i \in 1..(m + 1) /\ j \in 1..(m + 1)
        BY <1>1, <1>9, <2>1
      <3>2. h[i] = f[i] /\ h[j] = f[j]
        BY <1>5, <3>1, Zenon
      <3>3. f[i] <= f[j]
        BY <1>2, <1>9, <3>1, Zenon
      <3> QED BY <3>2, <3>3, Zenon
    <2>2. CASE i > m
      <3>1. /\ i - m \in 1..(n + 1) /\ j - m \in 1..(n + 1) /\ i - m <= j - m
            /\ h[i] = g[i - m] /\ h[j] = g[j - m]
        BY <1>1, <1>5, <1>9, <2>2
      <3> QED BY <1>3, <3>1
    <2>3. CASE i <= m /\ j > m + 1
      <3>1. h[i] = f[i] /\ f[i] <= f[m + 1]
        BY <1>1, <1>2, <1>5, <2>3
      <3>2. j - m \in 1..(n + 1) /\ h[j] = g[j - m] /\ g[1] <= g[j - m]
        BY <1>1, <1>3, <1>5, <2>3
      <3>3. f[i] \in Nat /\ b \in Nat /\ g[j - m] \in Nat
        BY <1>1, <1>2, <1>3, <3>2, <2>3
      <3> QED BY <1>2, <1>3, <3>1, <3>2, <3>3
    <2> QED BY <1>1, <2>1, <2>2, <2>3
  <1>10. ASSUME NEW i \in 1..(m + n)
         PROVE  Covers((F \o G)[i], o, h[i], h[i + 1])
    <2>1. CASE i <= m
      <3>1. /\ i \in 1..m /\ i + 1 \in 1..(m + 1)
        BY <1>1, <2>1
      <3>2. h[i] = f[i] /\ h[i + 1] = f[i + 1] /\ (F \o G)[i] = F[i]
        <4>1. i \in 1..(m + 1)
          BY <1>1, <3>1
        <4> QED BY <1>4, <1>5, <3>1, <4>1, Zenon
      <3>3. Covers(F[i], o, f[i], f[i + 1])
        BY <1>2, <3>1
      <3> QED BY <3>2, <3>3, Zenon
    <2>2. CASE i > m
      <3>1. /\ i \in (m + 1)..(m + n) /\ i - m \in 1..n
            /\ i \in (m + 1)..(m + n + 1) /\ i + 1 \in (m + 1)..(m + n + 1)
            /\ (i + 1) - m = (i - m) + 1
        BY <1>1, <2>2
      <3>2. h[i] = g[i - m] /\ h[i + 1] = g[(i - m) + 1] /\ (F \o G)[i] = G[i - m]
        BY <1>4, <1>5, <3>1
      <3>3. Covers(G[i - m], o, g[i - m], g[(i - m) + 1])
        BY <1>3, <3>1
      <3> QED BY <3>2, <3>3, Zenon
    <2>3. i <= m \/ i > m
      BY <1>1
    <2> QED BY <2>1, <2>2, <2>3, Zenon
  <1> QED BY <1>4, <1>7, <1>8, <1>9, <1>10 DEF Chain

\* The first piece of a chain, and the rest of it.
LEMMA ChainTail ==
    ASSUME NEW F \in Pieces, NEW o \in Seq(Byte), NEW a, NEW b, Chain(F, o, a, b), F # <<>>
    PROVE  \E x \in Nat : Covers(Head(F), o, a, x) /\ Chain(Tail(F), o, x, b)
  <1> DEFINE m == Len(F) - 1
  <1>1. /\ m \in Nat /\ Len(F) = m + 1 /\ Len(Tail(F)) = m /\ Len(o) \in Nat
        /\ Head(F) = F[1] /\ \A i \in 1..m : Tail(F)[i] = F[i + 1]
    BY DEF Pieces
  <1> HIDE DEF m
  <1>2. PICK h \in [1..(m + 2) -> 0..Len(o)] :
            /\ h[1] = a /\ h[m + 2] = b
            /\ \A i, j \in 1..(m + 2) : i <= j => h[i] <= h[j]
            /\ \A i \in 1..(m + 1) : Covers(F[i], o, h[i], h[i + 1])
    <2>1. Len(F) + 1 = m + 2
      BY <1>1
    <2> QED BY <1>1, <2>1 DEF Chain
  <1> DEFINE g == [i \in 1..(m + 1) |-> h[i + 1]]
  <1>3. g \in [1..(m + 1) -> 0..Len(o)] /\ \A i \in 1..(m + 1) : g[i] = h[i + 1]
    BY <1>1, <1>2
  <1> HIDE DEF g
  <1>4. h[2] \in Nat /\ Covers(Head(F), o, a, h[2])
    BY <1>1, <1>2
  <1>5. g[1] = h[2] /\ g[m + 1] = b
    BY <1>1, <1>2, <1>3
  <1>6. \A i, j \in 1..(m + 1) : i <= j => g[i] <= g[j]
    BY <1>1, <1>2, <1>3
  <1>7. ASSUME NEW i \in 1..m PROVE Covers(Tail(F)[i], o, g[i], g[i + 1])
    <2>1. i \in 1..(m + 1) /\ i + 1 \in 1..(m + 1)
      BY <1>1
    <2> QED BY <1>1, <1>2, <1>3, <2>1
  <1>8. Chain(Tail(F), o, h[2], b)
    BY <1>1, <1>3, <1>5, <1>6, <1>7 DEF Chain
  <1> QED BY <1>4, <1>8

\* A piece is where it was, s places on, in a sequence that holds the same there.
LEMMA CoversShift ==
    ASSUME NEW d \in Seq(Byte), NEW o \in Seq(Byte), NEW u \in Seq(Byte),
           NEW a \in Nat, NEW b \in Nat, NEW s \in Int, Covers(d, o, a, b), b + s <= Len(u),
           \A k \in (a + 1)..b : u[k + s] = o[k]
    PROVE  Covers(d, u, a + s, b + s)
  <1>1. b = a + Len(d) /\ Len(d) \in Nat /\ \A k \in 1..Len(d) : o[a + k] = d[k]
    BY DEF Covers
  <1>2. ASSUME NEW k \in 1..Len(d) PROVE u[a + s + k] = d[k]
    <2>1. a + k \in (a + 1)..b /\ (a + k) + s = a + s + k
      BY <1>1
    <2> QED BY <1>1, <2>1
  <1>3. b + s = a + s + Len(d)
    BY <1>1
  <1> QED BY <1>2, <1>3 DEF Covers

\* So are the pieces of a chain.
LEMMA ChainShift ==
    ASSUME NEW F \in Pieces, NEW o \in Seq(Byte), NEW u \in Seq(Byte),
           NEW a \in Nat, NEW b \in Nat, NEW s \in Int, Chain(F, o, a, b),
           0 <= a + s, b + s <= Len(u), \A k \in (a + 1)..b : u[k + s] = o[k]
    PROVE  Chain(F, u, a + s, b + s)
  <1> DEFINE m == Len(F)
  <1>1. m \in Nat /\ Len(o) \in Nat /\ Len(u) \in Nat /\ \A i \in 1..m : F[i] \in Seq(Byte)
    BY DEF Pieces
  <1>2. PICK h \in [1..(m + 1) -> 0..Len(o)] :
            /\ h[1] = a /\ h[m + 1] = b
            /\ \A i, j \in 1..(m + 1) : i <= j => h[i] <= h[j]
            /\ \A i \in 1..m : Covers(F[i], o, h[i], h[i + 1])
    BY DEF Chain
  <1> HIDE DEF m
  <1>3. \A i \in 1..(m + 1) : h[i] \in Nat /\ a <= h[i] /\ h[i] <= b
    BY <1>1, <1>2
  <1> DEFINE g == [i \in 1..(m + 1) |-> h[i] + s]
  <1>4. \A i \in 1..(m + 1) : g[i] = h[i] + s /\ g[i] \in 0..Len(u)
    BY <1>1, <1>3
  <1>5. g \in [1..(m + 1) -> 0..Len(u)]
    BY <1>4
  <1> HIDE DEF g
  <1>6. g[1] = a + s /\ g[m + 1] = b + s
    BY <1>1, <1>2, <1>4
  <1>7. \A i, j \in 1..(m + 1) : i <= j => g[i] <= g[j]
    BY <1>2, <1>3, <1>4
  <1>8. ASSUME NEW i \in 1..m PROVE Covers(F[i], u, g[i], g[i + 1])
    <2>1. i \in 1..(m + 1) /\ i + 1 \in 1..(m + 1)
      BY <1>1
    <2>2. /\ h[i] \in Nat /\ h[i + 1] \in Nat /\ a <= h[i] /\ h[i + 1] <= b
          /\ g[i] = h[i] + s /\ g[i + 1] = h[i + 1] + s
      BY <1>3, <1>4, <2>1
    <2>3. \A k \in (h[i] + 1)..h[i + 1] : k \in (a + 1)..b
      <3> DEFINE x == h[i]
                 y == h[i + 1]
      <3>1. x \in Nat /\ y \in Nat /\ a <= x /\ y <= b
        BY <2>2
      <3> HIDE DEF x, y
      <3>2. \A k \in (x + 1)..y : k \in (a + 1)..b
        BY <3>1
      <3> QED BY <3>2 DEF x, y
    <2>4. h[i + 1] + s <= Len(u)
      <3> DEFINE y == h[i + 1]
      <3>1. y \in Nat /\ y <= b
        BY <2>2
      <3> HIDE DEF y
      <3>2. y + s <= Len(u)
        BY <1>1, <3>1
      <3> QED BY <3>2 DEF y
    <2>5. Covers(F[i], o, h[i], h[i + 1]) /\ F[i] \in Seq(Byte)
      BY <1>1, <1>2
    <2>6. Covers(F[i], u, h[i] + s, h[i + 1] + s)
      BY <2>2, <2>3, <2>4, <2>5, CoversShift
    <2> QED BY <2>2, <2>6, Zenon
  <1> QED BY <1>5, <1>6, <1>7, <1>8 DEF Chain, m

\* A piece of a sequence is a piece of a longer one.
LEMMA CoversLonger ==
    ASSUME NEW d \in Seq(Byte), NEW o \in Seq(Byte), NEW u \in Seq(Byte), Len(o) <= Len(u),
           \A k \in 1..Len(o) : u[k] = o[k], NEW a \in Nat, NEW b \in Nat, Covers(d, o, a, b)
    PROVE  Covers(d, u, a, b)
  <1>1. /\ b = a + Len(d) /\ b <= Len(o) /\ \A k \in 1..Len(d) : o[a + k] = d[k]
        /\ Len(d) \in Nat /\ Len(o) \in Nat /\ Len(u) \in Nat
    BY DEF Covers
  <1>2. \A k \in 1..Len(d) : a + k \in 1..Len(o)
    BY <1>1
  <1>3. b <= Len(u)
    BY <1>1
  <1> QED BY <1>1, <1>2, <1>3 DEF Covers

\* A chain in a sequence is a chain in a longer one.
LEMMA ChainLonger ==
    ASSUME NEW F \in Pieces, NEW o \in Seq(Byte), NEW u \in Seq(Byte), Len(o) <= Len(u),
           \A k \in 1..Len(o) : u[k] = o[k], NEW a, NEW b, Chain(F, o, a, b)
    PROVE  Chain(F, u, a, b)
  <1> DEFINE m == Len(F)
  <1>1. m \in Nat /\ Len(o) \in Nat /\ Len(u) \in Nat /\ \A i \in 1..m : F[i] \in Seq(Byte)
    BY DEF Pieces
  <1>2. PICK h \in [1..(m + 1) -> 0..Len(o)] :
            /\ h[1] = a /\ h[m + 1] = b
            /\ \A i, j \in 1..(m + 1) : i <= j => h[i] <= h[j]
            /\ \A i \in 1..m : Covers(F[i], o, h[i], h[i + 1])
    BY DEF Chain
  <1> HIDE DEF m
  <1>3. h \in [1..(m + 1) -> 0..Len(u)]
    BY <1>1
  <1>4. ASSUME NEW i \in 1..m PROVE Covers(F[i], u, h[i], h[i + 1])
    <2>1. i \in 1..(m + 1) /\ i + 1 \in 1..(m + 1)
      BY <1>1
    <2>2. h[i] \in Nat /\ h[i + 1] \in Nat
      BY <1>1, <2>1
    <2> QED BY <1>1, <1>2, <2>2, CoversLonger
  <1> QED BY <1>2, <1>3, <1>4 DEF Chain, m

\* A chain lies within the sequence.
LEMMA ChainBounds ==
    ASSUME NEW F \in Pieces, NEW o \in Seq(Byte), NEW a, NEW b, Chain(F, o, a, b)
    PROVE  a \in Nat /\ b \in Nat /\ a <= b /\ b <= Len(o)
  <1>1. Len(F) \in Nat /\ Len(o) \in Nat
    BY DEF Pieces
  <1> QED BY <1>1 DEF Chain

\* A chain of empty pieces ends where it begins: there is no first place at which
\* it has moved on.
LEMMA ChainOfNothing ==
    ASSUME NEW F \in Pieces, NEW o \in Seq(Byte), NEW a, NEW b, Chain(F, o, a, b),
           \A i \in 1..Len(F) : F[i] = <<>>
    PROVE  a = b
  <1> DEFINE m == Len(F)
  <1>1. m \in Nat /\ Len(o) \in Nat
    BY DEF Pieces
  <1>2. PICK h \in [1..(m + 1) -> 0..Len(o)] :
            /\ h[1] = a /\ h[m + 1] = b
            /\ \A i \in 1..m : Covers(F[i], o, h[i], h[i + 1])
    BY DEF Chain
  <1>3. \A i \in 1..m : h[i + 1] = h[i]
    BY <1>1, <1>2 DEF Covers
  <1> HIDE DEF m
  <1> DEFINE T == {i \in 1..(m + 1) : h[i] # a}
  <1>4. SUFFICES ASSUME T # {} PROVE FALSE
    BY <1>1, <1>2
  <1>5. T \subseteq Nat
    OBVIOUS
  <1>6. PICK i \in T : \A j \in T : <<j, i>> \notin OpToRel(<, Nat)
    <2> HIDE DEF T
    <2> QED BY <1>4, <1>5, NatLessThanWellFounded, WFMin
  <1>7. \A j \in T : ~(j < i)
    BY <1>5, <1>6 DEF OpToRel
  <1>8. i \in 1..(m + 1) /\ h[i] # a
    BY <1>6
  <1> DEFINE x == i - 1
  <1>9. x \in 1..m /\ x \in 1..(m + 1) /\ x < i /\ x + 1 = i
    BY <1>1, <1>2, <1>8
  <1> HIDE DEF x
  <1>10. h[x] = a
    BY <1>7, <1>9
  <1> QED BY <1>3, <1>8, <1>9, <1>10

-----------------------------------------------------------------------------
(* The stations of the input of a pane: the line being sent, the lines of  *)
(* the queue, the buffer and the channel.  Together they are what is owed. *)

InOrder(S, K, B, I, o) ==
    \E a, b, c \in Nat :
        /\ Covers(S, o, 0, a) /\ Chain(K, o, a, b)
        /\ Covers(B, o, b, c) /\ Chain(I, o, c, Len(o))

\* Enqueue: what is typed is owed, and last in the channel.
LEMMA TypedInOrder ==
    ASSUME NEW S \in Seq(Byte), NEW K \in Pieces, NEW B \in Seq(Byte), NEW I \in Pieces,
           NEW o \in Seq(Byte), NEW d \in Seq(Byte), InOrder(S, K, B, I, o)
    PROVE  InOrder(S, K, B, Append(I, d), o \o d)
  <1>1. PICK a, b, c \in Nat : /\ Covers(S, o, 0, a) /\ Chain(K, o, a, b)
                               /\ Covers(B, o, b, c) /\ Chain(I, o, c, Len(o))
    BY DEF InOrder
  <1> DEFINE u == o \o d
  <1>2. /\ u \in Seq(Byte) /\ Len(o) \in Nat /\ Len(d) \in Nat /\ Len(u) = Len(o) + Len(d)
        /\ \A k \in 1..Len(o) : u[k] = o[k]
        /\ \A k \in 1..Len(d) : u[Len(o) + k] = d[k]
    OBVIOUS
  <1> HIDE DEF u
  <1>4. Len(o) <= Len(u)
    BY <1>2
  <1>5. Covers(S, u, 0, a) /\ Covers(B, u, b, c)
    BY <1>1, <1>2, <1>4, CoversLonger
  <1>6. Chain(K, u, a, b) /\ Chain(I, u, c, Len(o))
    BY <1>1, <1>2, <1>4, ChainLonger
  <1>7. Covers(d, u, Len(o), Len(u))
    BY <1>2 DEF Covers
  <1>8. Chain(<<d>>, u, Len(o), Len(u)) /\ <<d>> \in Pieces
    BY <1>2, <1>7, ChainOne DEF Pieces
  <1>9. Chain(I \o <<d>>, u, c, Len(u))
    BY <1>2, <1>6, <1>8, ChainConcat
  <1>10. Append(I, d) = I \o <<d>>
    BY DEF Pieces
  <1> QED BY <1>1, <1>5, <1>6, <1>9, <1>10 DEF InOrder, u

\* buffer_pane_input: the first piece of the channel goes to the end of the buffer.
LEMMA BufferedInOrder ==
    ASSUME NEW S \in Seq(Byte), NEW K \in Pieces, NEW B \in Seq(Byte), NEW I \in Pieces,
           NEW o \in Seq(Byte), I # <<>>, InOrder(S, K, B, I, o)
    PROVE  InOrder(S, K, B \o Head(I), Tail(I), o)
  <1>1. PICK a, b, c \in Nat : /\ Covers(S, o, 0, a) /\ Chain(K, o, a, b)
                               /\ Covers(B, o, b, c) /\ Chain(I, o, c, Len(o))
    BY DEF InOrder
  <1>2. PICK x \in Nat : Covers(Head(I), o, c, x) /\ Chain(Tail(I), o, x, Len(o))
    BY <1>1, ChainTail
  <1> DEFINE d == Head(I)
  <1>3. d \in Seq(Byte)
    BY DEF Pieces
  <1> HIDE DEF d
  <1>4. Covers(B \o d, o, b, x)
    <2>1. /\ c = b + Len(B) /\ x = c + Len(d) /\ x <= Len(o)
          /\ \A k \in 1..Len(B) : o[b + k] = B[k]
          /\ \A k \in 1..Len(d) : o[c + k] = d[k]
      BY <1>1, <1>2 DEF Covers, d
    <2>2. /\ Len(B) \in Nat /\ Len(d) \in Nat /\ Len(B \o d) = Len(B) + Len(d)
          /\ \A k \in 1..Len(B) : (B \o d)[k] = B[k]
          /\ \A k \in (Len(B) + 1)..(Len(B) + Len(d)) : (B \o d)[k] = d[k - Len(B)]
      BY <1>3
    <2>3. ASSUME NEW k \in 1..(Len(B) + Len(d)) PROVE o[b + k] = (B \o d)[k]
      <3>1. CASE k <= Len(B)
        <4>1. k \in 1..Len(B)
          BY <2>2, <3>1
        <4> QED BY <2>1, <2>2, <4>1
      <3>2. CASE k > Len(B)
        <4> DEFINE j == k - Len(B)
        <4>1. /\ j \in 1..Len(d) /\ k \in (Len(B) + 1)..(Len(B) + Len(d))
              /\ c + j = b + k
          BY <2>1, <2>2, <3>2
        <4>2. (B \o d)[k] = d[j]
          BY <2>2, <4>1
        <4> HIDE DEF j
        <4> QED BY <2>1, <4>1, <4>2
      <3> QED BY <2>2, <3>1, <3>2
    <2>4. x = b + Len(B \o d)
      BY <2>1, <2>2
    <2> QED BY <2>1, <2>2, <2>3, <2>4 DEF Covers
  <1> QED BY <1>1, <1>2, <1>4 DEF InOrder, d

\* flush_input: the first n bytes of the buffer, cut into the pieces G, go to the end
\* of the queue.  With n = 0 this is a line that is not input of the pane.
LEMMA QueuedInOrder ==
    ASSUME NEW S \in Seq(Byte), NEW K \in Pieces, NEW B \in Seq(Byte), NEW I \in Pieces,
           NEW o \in Seq(Byte), NEW n \in 0..Len(B), NEW G \in Pieces,
           InOrder(S, K, B, I, o), Chain(G, B, 0, n)
    PROVE  InOrder(S, K \o G, SubSeq(B, n + 1, Len(B)), I, o)
  <1>1. PICK a, b, c \in Nat : /\ Covers(S, o, 0, a) /\ Chain(K, o, a, b)
                               /\ Covers(B, o, b, c) /\ Chain(I, o, c, Len(o))
    BY DEF InOrder
  <1>2. /\ c = b + Len(B) /\ c <= Len(o) /\ Len(B) \in Nat /\ n \in Nat /\ Len(o) \in Nat
        /\ \A k \in 1..Len(B) : o[b + k] = B[k]
    BY <1>1 DEF Covers
  <1>3. Chain(G, o, b, b + n)
    <2>1. \A k \in (0 + 1)..n : o[k + b] = B[k]
      BY <1>2
    <2>2. 0 \in Nat /\ b \in Int /\ 0 <= 0 + b /\ n + b <= Len(o)
      BY <1>2
    <2>3. Chain(G, o, 0 + b, n + b)
      BY <1>2, <2>1, <2>2, ChainShift
    <2>4. 0 + b = b /\ n + b = b + n
      BY <1>2
    <2> QED BY <2>3, <2>4
  <1>4. Chain(K \o G, o, a, b + n)
    BY <1>1, <1>3, ChainConcat
  <1> DEFINE R == SubSeq(B, n + 1, Len(B))
  <1>5. Len(R) = Len(B) - n /\ \A k \in 1..(Len(B) - n) : R[k] = B[n + k]
    BY <1>2
  <1> HIDE DEF R
  <1>6. \A k \in 1..(Len(B) - n) : n + k \in 1..Len(B) /\ b + n + k = b + (n + k)
    BY <1>2
  <1>7. Covers(R, o, b + n, c)
    <2>1. c = b + n + Len(R)
      BY <1>2, <1>5
    <2>2. \A k \in 1..Len(R) : o[b + n + k] = R[k]
      BY <1>2, <1>5, <1>6
    <2> QED BY <1>2, <2>1, <2>2 DEF Covers
  <1>8. b + n \in Nat
    BY <1>2
  <1> QED BY <1>1, <1>4, <1>7, <1>8 DEF InOrder, R

\* start_send: the first line of the queue is being sent.
LEMMA StartedInOrder ==
    ASSUME NEW K \in Pieces, NEW B, NEW I, NEW o \in Seq(Byte), K # <<>>,
           InOrder(<<>>, K, B, I, o)
    PROVE  InOrder(Head(K), Tail(K), B, I, o)
  <1>1. PICK a, b, c \in Nat : /\ Covers(<<>>, o, 0, a) /\ Chain(K, o, a, b)
                               /\ Covers(B, o, b, c) /\ Chain(I, o, c, Len(o))
    BY DEF InOrder
  <1>2. a = 0
    BY <1>1 DEF Covers
  <1>3. PICK x \in Nat : Covers(Head(K), o, a, x) /\ Chain(Tail(K), o, x, b)
    BY <1>1, ChainTail
  <1> QED BY <1>1, <1>2, <1>3 DEF InOrder

\* The send ends: what was sent is owed no longer.
LEMMA SentInOrder ==
    ASSUME NEW S \in Seq(Byte), NEW K \in Pieces, NEW B \in Seq(Byte), NEW I \in Pieces,
           NEW o \in Seq(Byte), InOrder(S, K, B, I, o)
    PROVE  InOrder(<<>>, K, B, I, SubSeq(o, Len(S) + 1, Len(o)))
  <1>1. PICK a, b, c \in Nat : /\ Covers(S, o, 0, a) /\ Chain(K, o, a, b)
                               /\ Covers(B, o, b, c) /\ Chain(I, o, c, Len(o))
    BY DEF InOrder
  <1>2. a = Len(S) /\ a <= Len(o) /\ a \in Nat /\ Len(o) \in Nat
    BY <1>1 DEF Covers
  <1> DEFINE u == SubSeq(o, a + 1, Len(o))
  <1>3. /\ u \in Seq(Byte) /\ Len(u) = Len(o) - a
        /\ \A k \in 1..(Len(o) - a) : u[k] = o[a + k]
    BY <1>2
  <1> HIDE DEF u
  <1>4. a <= b /\ b <= c /\ c <= Len(o)
    <2>1. a <= b
      BY <1>1, ChainBounds
    <2>2. c = b + Len(B) /\ c <= Len(o) /\ Len(B) \in Nat
      BY <1>1 DEF Covers
    <2> QED BY <2>1, <2>2
  <1> DEFINE s == 0 - a
  <1>5. s \in Int /\ \A x \in Nat : x + s = x - a
    BY <1>2
  <1>6. \A x, y \in Nat : a <= x /\ y <= Len(o) =>
            /\ 0 <= x + s /\ y + s <= Len(u)
            /\ \A k \in (x + 1)..y : u[k + s] = o[k]
    <2> SUFFICES ASSUME NEW x \in Nat, NEW y \in Nat, a <= x, y <= Len(o)
                 PROVE  /\ 0 <= x + s /\ y + s <= Len(u)
                        /\ \A k \in (x + 1)..y : u[k + s] = o[k]
      OBVIOUS
    <2>1. 0 <= x + s /\ y + s <= Len(u)
      BY <1>2, <1>3, <1>5
    <2>2. ASSUME NEW k \in (x + 1)..y PROVE u[k + s] = o[k]
      <3>1. k - a \in 1..(Len(o) - a) /\ a + (k - a) = k /\ k + s = k - a
        BY <1>2, <1>5
      <3>2. u[k - a] = o[a + (k - a)]
        BY <1>3, <3>1
      <3> QED BY <3>1, <3>2
    <2> QED BY <2>1, <2>2
  <1> HIDE DEF s
  <1>7. Chain(K, u, a + s, b + s)
    <2>1. a <= a /\ b <= Len(o)
      BY <1>2, <1>4
    <2>2. 0 <= a + s /\ b + s <= Len(u) /\ \A k \in (a + 1)..b : u[k + s] = o[k]
      BY <1>6, <2>1
    <2> QED BY <1>1, <1>3, <1>5, <2>2, ChainShift
  <1>8. Covers(B, u, b + s, c + s)
    <2>1. c + s <= Len(u) /\ \A k \in (b + 1)..c : u[k + s] = o[k]
      BY <1>4, <1>6
    <2> QED BY <1>1, <1>3, <1>5, <2>1, CoversShift
  <1>9. Chain(I, u, c + s, Len(o) + s)
    <2>1. a <= c /\ Len(o) \in Nat /\ Len(o) <= Len(o)
      BY <1>2, <1>4
    <2>2. 0 <= c + s /\ Len(o) + s <= Len(u) /\ \A k \in (c + 1)..Len(o) : u[k + s] = o[k]
      BY <1>6, <2>1
    <2> QED BY <1>1, <1>2, <1>3, <1>5, <2>2, ChainShift
  <1>10. a + s = 0 /\ b + s \in Nat /\ c + s \in Nat /\ Len(o) + s = Len(u)
    <2>1. a + s = a - a /\ b + s = b - a /\ c + s = c - a /\ Len(o) + s = Len(o) - a
      BY <1>2, <1>5
    <2>2. a - a = 0 /\ b - a \in Nat /\ c - a \in Nat
      BY <1>2, <1>4
    <2> QED BY <1>3, <2>1, <2>2
  <1>11. Covers(<<>>, u, 0, 0)
    BY <1>3 DEF Covers
  <1>12. 0 \in Nat /\ Chain(K, u, 0, b + s) /\ Chain(I, u, c + s, Len(u))
    BY <1>7, <1>9, <1>10, Zenon
  <1>13. InOrder(<<>>, K, B, I, u)
    BY <1>8, <1>10, <1>11, <1>12 DEF InOrder
  <1> QED BY <1>2, <1>13 DEF u

\* Nothing on its way and nothing owed are in order.
LEMMA NothingInOrder ==
    ASSUME NEW K \in Pieces, NEW I \in Pieces, \A i \in 1..Len(K) : K[i] = <<>>,
           \A i \in 1..Len(I) : I[i] = <<>>
    PROVE  InOrder(<<>>, K, <<>>, I, <<>>)
  <1>1. <<>> \in Seq(Byte) /\ Len(<<>>) = 0 /\ 0 \in 0..0
    OBVIOUS
  <1>2. Chain(K, <<>>, 0, 0) /\ Chain(I, <<>>, 0, 0)
    BY <1>1, ChainNothing
  <1>3. Covers(<<>>, <<>>, 0, 0)
    BY DEF Covers
  <1> QED BY <1>1, <1>2, <1>3 DEF InOrder

\* What is sent is owed next, and nothing is owed when nothing is on its way.
LEMMA InOrderMeans ==
    ASSUME NEW S \in Seq(Byte), NEW K \in Pieces, NEW B \in Seq(Byte), NEW I \in Pieces,
           NEW o \in Seq(Byte), InOrder(S, K, B, I, o)
    PROVE  /\ IsPrefix(S, o)
           /\ /\ S = <<>> /\ B = <<>>
              /\ \A i \in 1..Len(K) : K[i] = <<>>
              /\ \A i \in 1..Len(I) : I[i] = <<>>
              => o = <<>>
  <1>1. PICK a, b, c \in Nat : /\ Covers(S, o, 0, a) /\ Chain(K, o, a, b)
                               /\ Covers(B, o, b, c) /\ Chain(I, o, c, Len(o))
    BY DEF InOrder
  <1>2. /\ a = Len(S) /\ a <= Len(o) /\ c = b + Len(B)
        /\ Len(S) \in Nat /\ Len(B) \in Nat /\ Len(o) \in Nat
        /\ \A k \in 1..Len(S) : o[k] = S[k]
    BY <1>1 DEF Covers
  <1>3. IsPrefix(S, o)
    <2>1. SubSeq(S, 1, Len(S)) = SubSeq(o, 1, Len(S))
      BY <1>2
    <2> QED BY <1>2, <2>1 DEF IsPrefix
  <1>4. ASSUME S = <<>>, B = <<>>, \A i \in 1..Len(K) : K[i] = <<>>,
               \A i \in 1..Len(I) : I[i] = <<>>
        PROVE  o = <<>>
    <2>1. a = b /\ c = Len(o)
      BY <1>1, <1>4, ChainOfNothing
    <2>2. Len(o) = 0
      BY <1>2, <1>4, <2>1
    <2> QED BY <2>2
  <1> QED BY <1>3, <1>4

-----------------------------------------------------------------------------
(* What the stations of a pane hold.                                       *)

Data(p, l) == IF KeysFor(p, l) THEN l.data ELSE <<>>

KeysOf(p, ls) == [i \in 1..Len(ls) |-> Data(p, ls[i])]

SentTo(p, s) == IF s = Nobody THEN <<>> ELSE Data(p, s)

Typed(p, c) == IF InputFor(p, c) THEN Bytes(c.permit) ELSE <<>>

InputOf(p, cs) == [i \in 1..Len(cs) |-> Typed(p, cs[i])]

\* The keys of lines are pieces.
LEMMA KeysAre ==
    ASSUME NEW p, NEW ls \in Seq(Line)
    PROVE  /\ KeysOf(p, ls) \in Pieces /\ Len(KeysOf(p, ls)) = Len(ls)
           /\ \A i \in 1..Len(ls) : KeysOf(p, ls)[i] = Data(p, ls[i])
  <1> DEFINE F == KeysOf(p, ls)
             n == Len(ls)
  <1>1. n \in Nat /\ DOMAIN F = 1..n /\ \A i \in 1..n : F[i] = Data(p, ls[i])
    BY DEF KeysOf
  <1>2. \A l \in Line : Data(p, l) \in Seq(Byte)
    BY DEF Data, Line
  <1>3. \A i \in 1..n : ls[i] \in Line
    OBVIOUS
  <1>4. F = [i \in 1..n |-> F[i]]
    BY DEF KeysOf
  <1> HIDE DEF F, n
  <1>5. \A i \in 1..n : F[i] \in Seq(Byte)
    BY <1>1, <1>2, <1>3
  <1>6. F \in Seq(Seq(Byte))
    BY <1>1, <1>4, <1>5, IsSeq
  <1>7. Len(F) = n
    BY <1>1, <1>6
  <1> QED BY <1>1, <1>6, <1>7 DEF F, n, Pieces

\* The input in commands is pieces.
LEMMA InputIs ==
    ASSUME NEW p, NEW cs \in Seq(Command)
    PROVE  /\ InputOf(p, cs) \in Pieces /\ Len(InputOf(p, cs)) = Len(cs)
           /\ \A i \in 1..Len(cs) : InputOf(p, cs)[i] = Typed(p, cs[i])
  <1> DEFINE F == InputOf(p, cs)
             n == Len(cs)
  <1>1. n \in Nat /\ DOMAIN F = 1..n /\ \A i \in 1..n : F[i] = Typed(p, cs[i])
    BY DEF InputOf
  <1>2. \A c \in Command : Typed(p, c) \in Seq(Byte)
    BY BytesTyped DEF Typed, Command
  <1>3. \A i \in 1..n : cs[i] \in Command
    OBVIOUS
  <1>4. F = [i \in 1..n |-> F[i]]
    BY DEF InputOf
  <1> HIDE DEF F, n
  <1>5. \A i \in 1..n : F[i] \in Seq(Byte)
    BY <1>1, <1>2, <1>3
  <1>6. F \in Seq(Seq(Byte))
    BY <1>1, <1>4, <1>5, IsSeq
  <1>7. Len(F) = n
    BY <1>1, <1>6
  <1> QED BY <1>1, <1>6, <1>7 DEF F, n, Pieces

\* Pieces of the same length and elements are the same.
LEMMA SamePieces ==
    ASSUME NEW F \in Pieces, NEW G \in Pieces, Len(F) = Len(G),
           \A i \in 1..Len(F) : F[i] = G[i]
    PROVE  F = G
  <1> DEFINE S == Seq(Byte)
  <1>1. F \in Seq(S) /\ G \in Seq(S)
    BY DEF Pieces
  <1> HIDE DEF S
  <1> QED BY <1>1

\* The pieces but the first.
LEMMA TailPieces ==
    ASSUME NEW S, NEW F \in Seq(S), F # <<>>
    PROVE  /\ Tail(F) \in Seq(S) /\ Len(Tail(F)) = Len(F) - 1 /\ Head(F) = F[1]
           /\ \A i \in 1..(Len(F) - 1) : Tail(F)[i] = F[i + 1]
  OBVIOUS

\* The keys of the first line, and of the others.
LEMMA KeysTail ==
    ASSUME NEW p, NEW ls \in Seq(Line), ls # <<>>
    PROVE  /\ KeysOf(p, ls) # <<>> /\ Head(KeysOf(p, ls)) = Data(p, Head(ls))
           /\ Tail(KeysOf(p, ls)) = KeysOf(p, Tail(ls)) /\ Tail(ls) \in Seq(Line)
  <1> DEFINE F == KeysOf(p, ls)
             t == Tail(ls)
             T == KeysOf(p, t)
             n == Len(ls)
  <1>1. F \in Pieces /\ Len(F) = n /\ \A i \in 1..n : F[i] = Data(p, ls[i])
    BY KeysAre
  <1>2. /\ t \in Seq(Line) /\ Len(t) = n - 1 /\ n \in Nat /\ n > 0
        /\ Head(ls) = ls[1] /\ \A i \in 1..(n - 1) : t[i] = ls[i + 1]
    OBVIOUS
  <1> HIDE DEF t
  <1>3. T \in Pieces /\ Len(T) = n - 1 /\ \A i \in 1..(n - 1) : T[i] = Data(p, t[i])
    BY <1>2, KeysAre
  <1> HIDE DEF F, T, n
  <1>4. F # <<>> /\ Head(F) = F[1]
    BY <1>1, <1>2 DEF Pieces
  <1>5. /\ Tail(F) \in Pieces /\ Len(Tail(F)) = n - 1
        /\ \A i \in 1..(n - 1) : Tail(F)[i] = F[i + 1]
    BY <1>1, <1>4, TailPieces DEF Pieces
  <1>6. \A i \in 1..(n - 1) : i + 1 \in 1..n
    BY <1>2
  <1>7. \A i \in 1..(n - 1) : Tail(F)[i] = T[i]
    BY <1>1, <1>2, <1>3, <1>5, <1>6
  <1>8. Tail(F) = T
    BY <1>3, <1>5, <1>7, SamePieces
  <1>9. Head(F) = Data(p, Head(ls))
    BY <1>1, <1>2, <1>4
  <1> QED BY <1>2, <1>4, <1>8, <1>9 DEF F, T, t

\* The input in the first command, and in the others.
LEMMA InputTail ==
    ASSUME NEW p, NEW cs \in Seq(Command), cs # <<>>
    PROVE  /\ InputOf(p, cs) # <<>> /\ Head(InputOf(p, cs)) = Typed(p, Head(cs))
           /\ Tail(InputOf(p, cs)) = InputOf(p, Tail(cs)) /\ Tail(cs) \in Seq(Command)
  <1> DEFINE F == InputOf(p, cs)
             t == Tail(cs)
             T == InputOf(p, t)
             n == Len(cs)
  <1>1. F \in Pieces /\ Len(F) = n /\ \A i \in 1..n : F[i] = Typed(p, cs[i])
    BY InputIs
  <1>2. /\ t \in Seq(Command) /\ Len(t) = n - 1 /\ n \in Nat /\ n > 0
        /\ Head(cs) = cs[1] /\ \A i \in 1..(n - 1) : t[i] = cs[i + 1]
    OBVIOUS
  <1> HIDE DEF t
  <1>3. T \in Pieces /\ Len(T) = n - 1 /\ \A i \in 1..(n - 1) : T[i] = Typed(p, t[i])
    BY <1>2, InputIs
  <1> HIDE DEF F, T, n
  <1>4. F # <<>> /\ Head(F) = F[1]
    BY <1>1, <1>2 DEF Pieces
  <1>5. /\ Tail(F) \in Pieces /\ Len(Tail(F)) = n - 1
        /\ \A i \in 1..(n - 1) : Tail(F)[i] = F[i + 1]
    BY <1>1, <1>4, TailPieces DEF Pieces
  <1>6. \A i \in 1..(n - 1) : i + 1 \in 1..n
    BY <1>2
  <1>7. \A i \in 1..(n - 1) : Tail(F)[i] = T[i]
    BY <1>1, <1>2, <1>3, <1>5, <1>6
  <1>8. Tail(F) = T
    BY <1>3, <1>5, <1>7, SamePieces
  <1>9. Head(F) = Typed(p, Head(cs))
    BY <1>1, <1>2, <1>4
  <1> QED BY <1>2, <1>4, <1>8, <1>9 DEF F, T, t

\* A command is last in the channel.
LEMMA InputAppend ==
    ASSUME NEW p, NEW cs \in Seq(Command), NEW c \in Command
    PROVE  InputOf(p, Append(cs, c)) = Append(InputOf(p, cs), Typed(p, c))
  <1> DEFINE n == Len(cs)
             a == Append(cs, c)
             d == Typed(p, c)
             F == InputOf(p, cs)
             G == InputOf(p, a)
             H == Append(F, d)
  <1>1. /\ n \in Nat /\ a \in Seq(Command) /\ Len(a) = n + 1 /\ a[n + 1] = c
        /\ \A i \in 1..n : a[i] = cs[i]
    OBVIOUS
  <1> HIDE DEF a
  <1>2. F \in Pieces /\ Len(F) = n /\ \A i \in 1..n : F[i] = Typed(p, cs[i])
    BY InputIs
  <1>3. G \in Pieces /\ Len(G) = n + 1 /\ \A i \in 1..(n + 1) : G[i] = Typed(p, a[i])
    BY <1>1, InputIs
  <1>4. d \in Seq(Byte)
    BY BytesTyped DEF Typed, Command
  <1> HIDE DEF F, G, n, d
  <1>5. /\ H \in Pieces /\ Len(H) = n + 1 /\ H[n + 1] = d
        /\ \A i \in 1..n : H[i] = F[i]
    BY <1>1, <1>2, <1>4 DEF Pieces
  <1> HIDE DEF H
  <1>6. ASSUME NEW i \in 1..(n + 1) PROVE G[i] = H[i]
    <2>1. CASE i = n + 1
      BY <1>1, <1>3, <1>5, <2>1 DEF d
    <2>2. CASE i # n + 1
      <3>1. i \in 1..n
        BY <1>1, <2>2
      <3> QED BY <1>1, <1>2, <1>3, <1>5, <3>1
    <2> QED BY <2>1, <2>2
  <1>7. G = H
    BY <1>3, <1>5, <1>6, SamePieces
  <1> QED BY <1>7 DEF G, H, F, a, d

\* Pieces behind others.
LEMMA ConcatPieces ==
    ASSUME NEW F \in Pieces, NEW G \in Pieces
    PROVE  /\ F \o G \in Pieces /\ Len(F \o G) = Len(F) + Len(G)
           /\ \A i \in 1..Len(F) : (F \o G)[i] = F[i]
           /\ \A i \in (Len(F) + 1)..(Len(F) + Len(G)) : (F \o G)[i] = G[i - Len(F)]
  <1> DEFINE S == Seq(Byte)
  <1>1. F \in Seq(S) /\ G \in Seq(S)
    BY DEF Pieces
  <1> HIDE DEF S
  <1>2. /\ F \o G \in Seq(S) /\ Len(F \o G) = Len(F) + Len(G)
        /\ \A i \in 1..Len(F) : (F \o G)[i] = F[i]
        /\ \A i \in (Len(F) + 1)..(Len(F) + Len(G)) : (F \o G)[i] = G[i - Len(F)]
    BY <1>1
  <1> QED BY <1>2 DEF S, Pieces

\* The keys of lines behind others.
LEMMA KeysConcat ==
    ASSUME NEW p, NEW ks \in Seq(Line), NEW ls \in Seq(Line)
    PROVE  KeysOf(p, ks \o ls) = KeysOf(p, ks) \o KeysOf(p, ls)
  <1> DEFINE m == Len(ks)
             n == Len(ls)
             q == ks \o ls
             F == KeysOf(p, ks)
             G == KeysOf(p, ls)
             Q == KeysOf(p, q)
             H == F \o G
  <1>1. /\ m \in Nat /\ n \in Nat /\ q \in Seq(Line) /\ Len(q) = m + n
        /\ \A i \in 1..m : q[i] = ks[i]
        /\ \A i \in (m + 1)..(m + n) : q[i] = ls[i - m]
    OBVIOUS
  <1> HIDE DEF q
  <1>2. F \in Pieces /\ Len(F) = m /\ \A i \in 1..m : F[i] = Data(p, ks[i])
    BY KeysAre
  <1>3. G \in Pieces /\ Len(G) = n /\ \A i \in 1..n : G[i] = Data(p, ls[i])
    BY KeysAre
  <1>4. Q \in Pieces /\ Len(Q) = m + n /\ \A i \in 1..(m + n) : Q[i] = Data(p, q[i])
    BY <1>1, KeysAre
  <1> HIDE DEF F, G, Q, m, n
  <1>5. /\ H \in Pieces /\ Len(H) = m + n
        /\ \A i \in 1..m : H[i] = F[i]
        /\ \A i \in (m + 1)..(m + n) : H[i] = G[i - m]
    BY <1>2, <1>3, ConcatPieces
  <1> HIDE DEF H
  <1>6. ASSUME NEW i \in 1..(m + n) PROVE Q[i] = H[i]
    <2>1. CASE i <= m
      <3>1. i \in 1..m
        BY <1>1, <2>1
      <3> QED BY <1>1, <1>2, <1>4, <1>5, <3>1
    <2>2. CASE i > m
      <3>1. i \in (m + 1)..(m + n) /\ i - m \in 1..n
        BY <1>1, <2>2
      <3> QED BY <1>1, <1>3, <1>4, <1>5, <3>1
    <2> QED BY <1>1, <2>1, <2>2
  <1>7. Q = H
    BY <1>4, <1>5, <1>6, SamePieces
  <1> QED BY <1>7 DEF Q, H, F, G, q

\* queue_batch of lines that fit puts their keys behind those that wait.
LEMMA KeysQueued ==
    ASSUME outgoing \in Seq(Line), NEW ls \in Seq(Line), NEW gs \in SUBSET Permit,
           QueueLines(ls, gs), ~fatal', NEW p
    PROVE  KeysOf(p, outgoing') = KeysOf(p, outgoing) \o KeysOf(p, ls)
  <1> DEFINE room == MaxQueued - Len(outgoing)
             q == outgoing \o ls
  <1>1. Len(outgoing) \in Nat /\ Len(ls) \in Nat /\ room \in Int
    BY InputConstants
  <1>2. Len(ls) <= room
    <2>1. fatal' = (Len(ls) > room)
      BY Zenon DEF QueueLines
    <2>2. ~(Len(ls) > room)
      BY <2>1, Zenon
    <2> QED BY <1>1, <2>2
  <1>3. SubSeq(ls, 1, Lesser(room, Len(ls))) = ls
    <2>1. Lesser(room, Len(ls)) = Len(ls)
      BY <1>1, <1>2 DEF Lesser
    <2>2. SubSeq(ls, 1, Len(ls)) = ls
      OBVIOUS
    <2> QED BY <2>1, <2>2
  <1>4. outgoing' = IF q = <<>> THEN q ELSE [q EXCEPT ![Len(q)].guards = @ \cup gs]
    BY <1>3 DEF QueueLines
  <1>5. q \in Seq(Line)
    OBVIOUS
  <1> HIDE DEF q
  <1>6. KeysOf(p, outgoing') = KeysOf(p, q)
    <2>1. CASE q = <<>>
      BY <1>4, <2>1
    <2>2. CASE q # <<>>
      <3> DEFINE last == q[Len(q)]
                 more == [last EXCEPT !.guards = @ \cup gs]
      <3>1. Len(q) \in 1..Len(q) /\ last \in Line
        BY <1>5, <2>2
      <3>2. more \in Line
        BY <3>1, GuardedLine
      <3>3. Data(p, more) = Data(p, last)
        BY <3>1 DEF Data, KeysFor, Line
      <3>4. outgoing' = [q EXCEPT ![Len(q)] = more]
        BY <1>4, <2>2
      <3> HIDE DEF last, more
      <3>5. /\ outgoing' \in Seq(Line) /\ Len(outgoing') = Len(q)
            /\ \A i \in 1..Len(q) : outgoing'[i] = IF i = Len(q) THEN more ELSE q[i]
        BY <1>5, <3>1, <3>2, <3>4
      <3>6. \A i \in 1..Len(q) : Data(p, outgoing'[i]) = Data(p, q[i])
        BY <3>3, <3>5 DEF last
      <3>7. /\ KeysOf(p, q) \in Pieces /\ Len(KeysOf(p, q)) = Len(q)
            /\ \A i \in 1..Len(q) : KeysOf(p, q)[i] = Data(p, q[i])
        BY <1>5, KeysAre
      <3>8. /\ KeysOf(p, outgoing') \in Pieces /\ Len(KeysOf(p, outgoing')) = Len(q)
            /\ \A i \in 1..Len(q) : KeysOf(p, outgoing')[i] = Data(p, outgoing'[i])
        BY <3>5, KeysAre
      <3> QED BY <3>6, <3>7, <3>8, SamePieces
    <2> QED BY <2>1, <2>2
  <1> QED BY <1>6, KeysConcat DEF q

\* Lines that are not keys hold no input.
LEMMA PlainKeys ==
    ASSUME NEW p, NEW k \in {"command", "kill", "detach", "other"}, NEW x \in Panes \cup {Nobody}
    PROVE  /\ <<Plain(k, x)>> \in Seq(Line) /\ Len(KeysOf(p, <<Plain(k, x)>>)) = 1
           /\ \A i \in 1..1 : KeysOf(p, <<Plain(k, x)>>)[i] = <<>>
  <1> DEFINE l == Plain(k, x)
  <1>1. l \in Line
    BY NewLines
  <1>2. Data(p, l) = <<>>
    BY DEF Data, KeysFor, Plain
  <1> HIDE DEF l
  <1>3. <<l>> \in Seq(Line) /\ Len(<<l>>) = 1 /\ <<l>>[1] = l
    BY <1>1
  <1>4. Len(KeysOf(p, <<l>>)) = 1 /\ \A i \in 1..1 : KeysOf(p, <<l>>)[i] = Data(p, <<l>>[i])
    BY <1>3, KeysAre
  <1>5. \A i \in 1..1 : i = 1
    OBVIOUS
  <1> QED BY <1>2, <1>3, <1>4, <1>5 DEF l

\* The keys of a line of p are its data, and no other pane's.
LEMMA KeysData ==
    ASSUME NEW p \in Panes, NEW q, NEW d
    PROVE  Data(q, Keys(p, d)) = IF q = p THEN d ELSE <<>>
  BY DEF Data, KeysFor, Keys

\* A cut of a sequence covers the places it is cut from.
LEMMA CutCovers ==
    ASSUME NEW o \in Seq(Byte), NEW i \in 1..Len(o), NEW j \in i..Len(o)
    PROVE  SubSeq(o, i, j) \in Seq(Byte) /\ Covers(SubSeq(o, i, j), o, i - 1, j)
  <1> DEFINE d == SubSeq(o, i, j)
  <1>1. /\ d \in Seq(Byte) /\ Len(d) = j - i + 1
        /\ \A k \in 1..(j - i + 1) : d[k] = o[i + k - 1]
    OBVIOUS
  <1> HIDE DEF d
  <1>2. j = (i - 1) + Len(d) /\ j <= Len(o)
    BY <1>1
  <1>3. \A k \in 1..Len(d) : (i - 1) + k = i + k - 1
    BY <1>1
  <1>4. \A k \in 1..Len(d) : o[(i - 1) + k] = d[k]
    BY <1>1, <1>3
  <1> QED BY <1>1, <1>2, <1>4 DEF Covers, d

\* batch_len and split_input: the keys of a batch are the first n bytes of the
\* buffer, whether it is one line or a line for every key.
LEMMA BatchInOrder ==
    ASSUME NEW p \in Panes, buf[p] \in Seq(Byte),
           NEW e \in 1..Len(buf[p]), NEW n \in 1..Len(buf[p]), e <= n,
           NEW ls, ls = OneLine(p, n) \/ ls = LinePerKey(p, e, n)
    PROVE  /\ Chain(KeysOf(p, ls), buf[p], 0, n)
           /\ \A q : q # p => \A i \in 1..Len(ls) : KeysOf(q, ls)[i] = <<>>
  <1> DEFINE o == buf[p]
  <1>1. /\ OneLine(p, n) \in Seq(Line) /\ Len(OneLine(p, n)) = 1
        /\ OneLine(p, n)[1] = Keys(p, SubSeq(o, 1, n))
        /\ LinePerKey(p, e, n) \in Seq(Line) /\ Len(LinePerKey(p, e, n)) = e
        /\ \A i \in 1..e : LinePerKey(p, e, n)[i] = Keys(p, SubSeq(o, i, IF i < e THEN i ELSE n))
    BY LinesOfBatch
  <1>2. o \in Seq(Byte) /\ Len(o) \in Nat /\ e \in Nat /\ n \in Nat /\ e >= 1 /\ n <= Len(o)
    OBVIOUS
  <1> HIDE DEF o
  <1>3. CASE ls = OneLine(p, n)
    <2> DEFINE d == SubSeq(o, 1, n)
    <2>1. d \in Seq(Byte) /\ Covers(d, o, 0, n)
      <3>1. 1 \in 1..Len(o) /\ n \in 1..Len(o) /\ 1 - 1 = 0
        BY <1>2
      <3> QED BY <1>2, <3>1, CutCovers
    <2>2. ls \in Seq(Line) /\ Len(ls) = 1 /\ ls[1] = Keys(p, d)
      BY <1>1, <1>3
    <2> HIDE DEF d
    <2>3. \A q : /\ KeysOf(q, ls) \in Pieces /\ Len(KeysOf(q, ls)) = 1
                 /\ KeysOf(q, ls)[1] = IF q = p THEN d ELSE <<>>
      <3> TAKE q
      <3>1. /\ KeysOf(q, ls) \in Pieces /\ Len(KeysOf(q, ls)) = 1
            /\ KeysOf(q, ls)[1] = Data(q, ls[1])
        BY <2>2, KeysAre
      <3> QED BY <2>2, <3>1, KeysData
    <2>4. <<d>> \in Pieces /\ Len(<<d>>) = 1 /\ <<d>>[1] = d
      BY <2>1 DEF Pieces
    <2>5. \A i \in 1..1 : i = 1
      OBVIOUS
    <2>6. KeysOf(p, ls) = <<d>>
      BY <2>3, <2>4, <2>5, SamePieces
    <2>7. Chain(KeysOf(p, ls), o, 0, n)
      BY <1>2, <2>1, <2>6, ChainOne
    <2> QED BY <2>2, <2>3, <2>5, <2>7 DEF o
  <1>4. CASE ls = LinePerKey(p, e, n)
    <2> DEFINE to(i) == IF i < e THEN i ELSE n
               d(i) == SubSeq(o, i, to(i))
               F == KeysOf(p, ls)
               h == [i \in 1..(e + 1) |-> IF i <= e THEN i - 1 ELSE n]
    <2>1. ls \in Seq(Line) /\ Len(ls) = e /\ \A i \in 1..e : ls[i] = Keys(p, d(i))
      BY <1>1, <1>4
    <2>2. \A i \in 1..e : Covers(d(i), o, i - 1, to(i))
      <3> TAKE i \in 1..e
      <3>1. i \in 1..Len(o) /\ to(i) \in i..Len(o)
        BY <1>2
      <3> QED BY <1>2, <3>1, CutCovers
    <2> HIDE DEF d
    <2>3. \A q : /\ KeysOf(q, ls) \in Pieces /\ Len(KeysOf(q, ls)) = e
                 /\ \A i \in 1..e : KeysOf(q, ls)[i] = IF q = p THEN d(i) ELSE <<>>
      <3> TAKE q
      <3>1. /\ KeysOf(q, ls) \in Pieces /\ Len(KeysOf(q, ls)) = e
            /\ \A i \in 1..e : KeysOf(q, ls)[i] = Data(q, ls[i])
        BY <2>1, KeysAre
      <3> QED BY <2>1, <3>1, KeysData
    <2>4. h \in [1..(e + 1) -> 0..Len(o)]
      BY <1>2
    <2>5. h[1] = 0 /\ h[e + 1] = n
      BY <1>2
    <2>6. \A i, j \in 1..(e + 1) : i <= j => h[i] <= h[j]
      BY <1>2
    <2>7. \A i \in 1..e : h[i] = i - 1 /\ h[i + 1] = to(i)
      BY <1>2
    <2> HIDE DEF h, F, to
    <2>8. \A i \in 1..e : Covers(F[i], o, h[i], h[i + 1])
      BY <2>2, <2>3, <2>7 DEF F
    <2>9. Len(F) = e
      BY <2>3 DEF F
    <2>10. Chain(F, o, 0, n)
      BY <2>4, <2>5, <2>6, <2>8, <2>9 DEF Chain
    <2> QED BY <2>1, <2>3, <2>10 DEF o, F
  <1> QED BY <1>3, <1>4

\* The stations of the input of p, from tmux back to the channel, and what is owed.
OnTheWay(p, s, out, b, ch, o) == InOrder(SentTo(p, s), KeysOf(p, out), b, InputOf(p, ch), o)

\* The stations have the types the lemmas on order ask for.
LEMMA StationsTyped ==
    ASSUME NEW p, NEW s \in Line \cup {Nobody}, NEW out \in Seq(Line), NEW ch \in Seq(Command)
    PROVE  SentTo(p, s) \in Seq(Byte) /\ KeysOf(p, out) \in Pieces /\ InputOf(p, ch) \in Pieces
  <1>1. \A l \in Line : Data(p, l) \in Seq(Byte)
    BY DEF Data, Line
  <1>2. SentTo(p, s) \in Seq(Byte)
    BY <1>1 DEF SentTo
  <1> QED BY <1>2, KeysAre, InputIs

\* A command that is accepted is last.
LEMMA WayTyped ==
    ASSUME NEW p, NEW s \in Line \cup {Nobody}, NEW out \in Seq(Line), NEW b \in Seq(Byte),
           NEW ch \in Seq(Command), NEW o \in Seq(Byte), NEW c \in Command,
           OnTheWay(p, s, out, b, ch, o)
    PROVE  OnTheWay(p, s, out, b, Append(ch, c), o \o Typed(p, c))
  <1>1. SentTo(p, s) \in Seq(Byte) /\ KeysOf(p, out) \in Pieces /\ InputOf(p, ch) \in Pieces
    BY StationsTyped
  <1>2. Typed(p, c) \in Seq(Byte)
    BY BytesTyped DEF Typed, Command
  <1>3. InputOf(p, Append(ch, c)) = Append(InputOf(p, ch), Typed(p, c))
    BY InputAppend
  <1> QED BY <1>1, <1>2, <1>3, TypedInOrder DEF OnTheWay

\* The worker takes a command: its input joins the buffer.
LEMMA WayTaken ==
    ASSUME NEW p, NEW s \in Line \cup {Nobody}, NEW out \in Seq(Line), NEW b \in Seq(Byte),
           NEW ch \in Seq(Command), NEW o \in Seq(Byte), ch # <<>>,
           OnTheWay(p, s, out, b, ch, o)
    PROVE  OnTheWay(p, s, out, b \o Typed(p, Head(ch)), Tail(ch), o)
  <1>1. SentTo(p, s) \in Seq(Byte) /\ KeysOf(p, out) \in Pieces /\ InputOf(p, ch) \in Pieces
    BY StationsTyped
  <1>2. /\ InputOf(p, ch) # <<>> /\ Head(InputOf(p, ch)) = Typed(p, Head(ch))
        /\ Tail(InputOf(p, ch)) = InputOf(p, Tail(ch))
    BY InputTail
  <1>3. InOrder(SentTo(p, s), KeysOf(p, out), b \o Head(InputOf(p, ch)), Tail(InputOf(p, ch)), o)
    BY <1>1, <1>2, BufferedInOrder DEF OnTheWay
  <1> QED BY <1>2, <1>3 DEF OnTheWay

\* Lines that hold the first n bytes of the buffer are queued.
LEMMA WayQueued ==
    ASSUME NEW p, NEW s \in Line \cup {Nobody}, outgoing \in Seq(Line), NEW b \in Seq(Byte),
           NEW ch \in Seq(Command), NEW o \in Seq(Byte),
           NEW ls \in Seq(Line), NEW gs \in SUBSET Permit, QueueLines(ls, gs), ~fatal',
           NEW n \in 0..Len(b), Chain(KeysOf(p, ls), b, 0, n),
           OnTheWay(p, s, outgoing, b, ch, o)
    PROVE  OnTheWay(p, s, outgoing', SubSeq(b, n + 1, Len(b)), ch, o)
  <1>1. SentTo(p, s) \in Seq(Byte) /\ KeysOf(p, outgoing) \in Pieces /\ InputOf(p, ch) \in Pieces
    BY StationsTyped
  <1>2. KeysOf(p, ls) \in Pieces
    BY KeysAre
  <1>3. KeysOf(p, outgoing') = KeysOf(p, outgoing) \o KeysOf(p, ls)
    BY KeysQueued
  <1>4. InOrder(SentTo(p, s), KeysOf(p, outgoing) \o KeysOf(p, ls),
                SubSeq(b, n + 1, Len(b)), InputOf(p, ch), o)
    BY <1>1, <1>2, QueuedInOrder DEF OnTheWay
  <1> QED BY <1>3, <1>4 DEF OnTheWay

\* Lines without keys of p are queued.
LEMMA WayPassed ==
    ASSUME NEW p, NEW s \in Line \cup {Nobody}, outgoing \in Seq(Line), NEW b \in Seq(Byte),
           NEW ch \in Seq(Command), NEW o \in Seq(Byte),
           NEW ls \in Seq(Line), NEW gs \in SUBSET Permit, QueueLines(ls, gs), ~fatal',
           \A i \in 1..Len(ls) : KeysOf(p, ls)[i] = <<>>,
           OnTheWay(p, s, outgoing, b, ch, o)
    PROVE  OnTheWay(p, s, outgoing', b, ch, o)
  <1>1. KeysOf(p, ls) \in Pieces /\ Len(KeysOf(p, ls)) = Len(ls)
    BY KeysAre
  <1>2. 0 \in 0..Len(b)
    OBVIOUS
  <1>3. Chain(KeysOf(p, ls), b, 0, 0)
    BY <1>1, <1>2, ChainNothing
  <1>4. OnTheWay(p, s, outgoing', SubSeq(b, 0 + 1, Len(b)), ch, o)
    BY <1>2, <1>3, WayQueued
  <1>5. SubSeq(b, 0 + 1, Len(b)) = b
    OBVIOUS
  <1> QED BY <1>4, <1>5

\* The first line of the queue is being sent.
LEMMA WayStarted ==
    ASSUME NEW p, NEW out \in Seq(Line), NEW b \in Seq(Byte),
           NEW ch \in Seq(Command), NEW o \in Seq(Byte), out # <<>>,
           OnTheWay(p, Nobody, out, b, ch, o)
    PROVE  OnTheWay(p, Head(out), Tail(out), b, ch, o)
  <1>1. KeysOf(p, out) \in Pieces
    BY KeysAre
  <1>2. /\ KeysOf(p, out) # <<>> /\ Head(KeysOf(p, out)) = Data(p, Head(out))
        /\ Tail(KeysOf(p, out)) = KeysOf(p, Tail(out))
    BY KeysTail
  <1>3. Head(out) # Nobody
    BY NobodyIsNone
  <1>4. SentTo(p, Nobody) = <<>> /\ SentTo(p, Head(out)) = Data(p, Head(out))
    BY <1>3 DEF SentTo
  <1>5. InOrder(Head(KeysOf(p, out)), Tail(KeysOf(p, out)), b, InputOf(p, ch), o)
    BY <1>1, <1>2, <1>4, StartedInOrder DEF OnTheWay
  <1> QED BY <1>2, <1>4, <1>5 DEF OnTheWay

\* A line has been sent.
LEMMA WaySent ==
    ASSUME NEW p, NEW s \in Line, NEW out \in Seq(Line), NEW b \in Seq(Byte),
           NEW ch \in Seq(Command), NEW o \in Seq(Byte), OnTheWay(p, s, out, b, ch, o)
    PROVE  OnTheWay(p, Nobody, out, b, ch, SubSeq(o, Len(Data(p, s)) + 1, Len(o)))
  <1>1. SentTo(p, s) \in Seq(Byte) /\ KeysOf(p, out) \in Pieces /\ InputOf(p, ch) \in Pieces
    BY StationsTyped
  <1>2. SentTo(p, s) = Data(p, s) /\ SentTo(p, Nobody) = <<>>
    BY NobodyIsNone DEF SentTo
  <1>3. InOrder(<<>>, KeysOf(p, out), b, InputOf(p, ch), SubSeq(o, Len(SentTo(p, s)) + 1, Len(o)))
    BY <1>1, SentInOrder DEF OnTheWay
  <1> QED BY <1>2, <1>3 DEF OnTheWay

-----------------------------------------------------------------------------
(* Order.                                                                  *)

Logged == DOMAIN log = {"owed", "lost"} /\ log.owed \in [Panes -> Seq(Byte)]

Unmapped == \A p \in Panes \ panes : buf[p] = <<>>

\* A caller's input is of an epoch that is over once the session has been torn down.
HandOver ==
    hand # Nobody =>
        /\ hand.permit.gen \in Nat /\ hand.permit.gen <= mailbox.gen
        /\ hand.kind = "input" /\ mode \in Gone => hand.permit.gen < mailbox.gen

\* A new attachment finds neither lines nor input.
Cleared ==
    mode \in {"shell", "handshake"} =>
        /\ outgoing = <<>>
        /\ \A i \in 1..Len(channel) : channel[i].kind # "input"

Between == Logged /\ Unmapped /\ HandOver /\ Cleared

Stations(p) == OnTheWay(p, sending, outgoing, buf[p], channel, log.owed[p])

Ordered == Idle => \A p \in Panes \ log.lost : Stations(p)

OrderInv == EpochInv /\ Between /\ Ordered

\* The initial state satisfies the invariant.
LEMMA OrderInit == Init => OrderInv
  <1> SUFFICES ASSUME Init PROVE OrderInv
    OBVIOUS
  <1>1. Between
    BY DEF Init, Between, Logged, Unmapped, HandOver, Cleared, NewLog, NoInput
  <1>2. Ordered
    BY DEF Init, Ordered, Idle
  <1> QED BY <1>1, <1>2, EpochInit DEF OrderInv

\* What is lost is owed no longer.
LEMMA LostIsLogged ==
    ASSUME Logged, NEW S
    PROVE  /\ DOMAIN Lost(S) = {"owed", "lost"} /\ Lost(S).owed \in [Panes -> Seq(Byte)]
           /\ Lost(S).lost = log.lost \cup S
           /\ \A p \in Panes \ S : Lost(S).owed[p] = log.owed[p]
  BY DEF Lost, Logged

\* What is owed to one pane changes.
LEMMA OwedIsLogged ==
    ASSUME Logged, NEW x, NEW d, x \in Panes => d \in Seq(Byte), NEW u,
           u = [log EXCEPT !.owed[x] = d]
    PROVE  /\ DOMAIN u = {"owed", "lost"} /\ u.owed \in [Panes -> Seq(Byte)]
           /\ u.lost = log.lost
           /\ \A p \in Panes : u.owed[p] = IF p = x THEN d ELSE log.owed[p]
  <1> DEFINE f == [log.owed EXCEPT ![x] = d]
  <1>1. f \in [Panes -> Seq(Byte)] /\ \A p \in Panes : f[p] = IF p = x THEN d ELSE log.owed[p]
    BY DEF Logged
  <1>2. u = [log EXCEPT !.owed = f]
    OBVIOUS
  <1> HIDE DEF f
  <1>3. DOMAIN u = {"owed", "lost"} /\ u.owed = f /\ u.lost = log.lost
    BY <1>2 DEF Logged
  <1> QED BY <1>1, <1>3

\* A caller: input is accepted for a mapped pane, in the epoch of the attachment.
LEMMA BetweenCaller == ASSUME EpochInv, Between, Caller PROVE Between'
  <1> USE DEF EpochInv, Between
  <1>1. ASSUME NEW k \in {"input", "command", "resize"}, NEW p \in Panes \cup {Nobody},
               NEW n \in Nat, Reserve(k, p, n), k = "input" => p \in panes
        PROVE  Between'
    <2>1. PICK i \in 1..(ItemLimit + 1) :
              hand' = [kind |-> k, pane |-> p,
                       permit |-> [id |-> i, bytes |-> n, gen |-> mailbox.gen]]
      BY <1>1 DEF Reserve
    <2>2. mailbox' = [mailbox EXCEPT !.bytes = @ + n, !.items = @ + 1]
      BY <1>1 DEF Reserve
    <2>3. mailbox'.gen = mailbox.gen /\ mailbox.gen \in Nat
      BY <2>2 DEF Shape
    <2>4. k = "input" => mode \notin Gone
      BY <1>1 DEF Emptied
    <2>5. UNCHANGED <<channel, mode, panes, buf, outgoing, log>>
      BY <1>1 DEF Reserve, input, lines
    <2>6. HandOver'
      BY <2>1, <2>3, <2>4, <2>5 DEF HandOver, Gone
    <2> QED BY <2>5, <2>6 DEF Logged, Unmapped, Cleared
  <1>2. CASE Enqueue
    <2>1. /\ hand # Nobody /\ hand' = Nobody /\ hand \in Command
          /\ UNCHANGED <<mode, panes, buf, outgoing>>
      BY <1>2 DEF Enqueue, Shape, input, lines
    <2>2. CASE Accepted(hand.permit)
      <3>1. /\ channel' = Append(channel, hand)
            /\ log' = IF hand.kind # "input" \/ hand.pane \in log.lost THEN log
                      ELSE [log EXCEPT !.owed[hand.pane] = @ \o Bytes(hand.permit)]
        BY <1>2, <2>2 DEF Enqueue
      <3>2. hand.permit \in Permit /\ Bytes(hand.permit) \in Seq(Byte)
        BY <2>1, BytesTyped DEF Command
      <3>3. Logged'
        <4> DEFINE x == hand.pane
                   d == log.owed[x] \o Bytes(hand.permit)
        <4>1. x \in Panes => d \in Seq(Byte)
          BY <3>2 DEF Logged
        <4>2. log' = log \/ log' = [log EXCEPT !.owed[x] = d]
          BY <3>1
        <4> HIDE DEF x, d
        <4> QED BY <4>1, <4>2, OwedIsLogged DEF Logged
      <3>4. mode \in {"shell", "handshake"} => hand.kind # "input"
        BY <2>1, <2>2 DEF HandOver, Accepted, Gone
      <3>5. Cleared'
        BY <2>1, <3>1, <3>4 DEF Cleared, Shape
      <3> QED BY <2>1, <3>3, <3>5 DEF Unmapped, HandOver
    <2>3. CASE ~Accepted(hand.permit)
      BY <1>2, <2>1, <2>3 DEF Enqueue, Logged, Unmapped, HandOver, Cleared
    <2> QED BY <2>2, <2>3
  <1>3. CASE SendDetach
    BY <1>3 DEF SendDetach, Logged, Unmapped, HandOver, Cleared, input, lines
  <1>4. ASSUME NEW p \in Panes, TmuxClosePane(p) PROVE Between'
    BY <1>4 DEF TmuxClosePane, Logged, Unmapped, HandOver, Cleared, input, lines
  <1> QED
    BY <1>1, <1>2, <1>3, <1>4, InputConstants
    DEF Caller, TmuxSendCommand, WritePane, ResizePane

\* Steps within an attachment leave the caller and the epoch alone.
LEMMA BetweenKept ==
    ASSUME Between, hand' = hand, mailbox'.gen = mailbox.gen,
           mode' \notin {"shell", "handshake"}, mode' \in Gone => mode \in Gone,
           Logged', Unmapped'
    PROVE  Between'
  BY DEF Between, HandOver, Cleared

\* A worker's step.
LEMMA BetweenWorker == ASSUME EpochInv, Between, Worker PROVE Between'
  <1>1. /\ Logged /\ Unmapped /\ mailbox.gen \in Nat /\ "gen" \in DOMAIN mailbox
        /\ buf \in [Panes -> Seq(Byte)]
        /\ \A S : DOMAIN Lost(S) = {"owed", "lost"} /\ Lost(S).owed \in [Panes -> Seq(Byte)]
        /\ \A m, S : "gen" \in DOMAIN m => Release(m, S).gen = m.gen
    BY LostIsLogged, ReleaseKeepsEpoch DEF Between, EpochInv, Shape
  <1>2. Running => mode \notin Gone
    BY DEF Running, Gone
  <1>3. ASSUME Running, UNCHANGED <<hand, mode>>, mailbox'.gen = mailbox.gen, Logged', Unmapped'
        PROVE  Between'
    BY <1>2, <1>3, BetweenKept DEF Gone
  <1>4. CASE Attach
    BY <1>4, <1>1 DEF Attach, Between, Logged, Unmapped, HandOver, Cleared, Gone, NewLog, NoInput,
                      input, lines
  <1>5. CASE Receive
    <2>1. ASSUME NEW k, Recv(k) PROVE Running
      BY <2>1 DEF Recv, Idle, Running
    <2>2. CASE RecvInput
      <3> DEFINE m == Head(channel).permit
                 p == Head(channel).pane
      <3>1. /\ Running /\ UNCHANGED <<hand, mode, panes>>
            /\ IF p \in panes
               THEN buf' = [buf EXCEPT ![p] = @ \o Bytes(m)] /\ UNCHANGED <<mailbox, log>>
               ELSE mailbox' = Release(mailbox, {m}) /\ log' = Lost({p}) /\ UNCHANGED buf
        BY <2>1, <2>2 DEF RecvInput, input
      <3> HIDE DEF m, p
      <3>2. mailbox'.gen = mailbox.gen /\ Logged'
        BY <3>1, <1>1 DEF Logged
      <3>3. Unmapped'
        BY <3>1, <1>1 DEF Unmapped
      <3> QED BY <3>1, <3>2, <3>3, <1>3
    <2>3. CASE RecvCommand
      <3>1. /\ Running /\ UNCHANGED <<hand, mode, panes, buf, log>>
            /\ \/ UNCHANGED mailbox
               \/ mailbox' = Release(mailbox, {Head(channel).permit})
        BY <2>1, <2>3 DEF RecvCommand, input
      <3> QED BY <3>1, <1>1, <1>3 DEF Logged, Unmapped
    <2>4. CASE RecvResize
      <3>1. /\ Running /\ UNCHANGED <<hand, mode, panes, buf, log>>
            /\ mailbox' = Release(mailbox, {Head(channel).permit})
        BY <2>1, <2>4 DEF RecvResize, input
      <3> QED BY <3>1, <1>1, <1>3 DEF Logged, Unmapped
    <2> QED BY <1>5, <2>2, <2>3, <2>4 DEF Receive
  <1>6. CASE OtherLine \/ StartSend \/ \E failed \in BOOLEAN : Answered(failed)
    <2>1. Running /\ UNCHANGED <<mailbox, hand, mode, panes, buf, log>>
      BY <1>6 DEF OtherLine, StartSend, Answered, input
    <2> QED BY <2>1, <1>1, <1>3 DEF Logged, Unmapped
  <1>7. ASSUME NEW m, NEW x \in {"detach", "close"}, "gen" \in DOMAIN m, m.gen = mailbox.gen,
               RequestDetach(m, x)
        PROVE  Between'
    <2>1. /\ hand' = hand /\ mode' = x /\ mailbox'.gen = mailbox.gen
          /\ buf' = NoInput /\ log' = Lost(Panes)
      BY <1>7, <1>1 DEF RequestDetach
    <2>2. Logged' /\ Unmapped'
      BY <2>1, <1>1 DEF Logged, Unmapped, NoInput
    <2> QED BY <2>1, <2>2, BetweenKept DEF Gone
  <1>8. CASE RecvDetach
    <2> DEFINE m == [mailbox EXCEPT !.detach = FALSE]
    <2>1. "gen" \in DOMAIN m /\ m.gen = mailbox.gen
      BY <1>1
    <2>2. CASE mode = "control"
      <3>1. RequestDetach(m, "detach")
        BY <1>8, <2>2 DEF RecvDetach
      <3> HIDE DEF m
      <3> QED BY <2>1, <3>1, <1>7
    <2>3. CASE mode # "control"
      <3>1. Running /\ mailbox' = m /\ UNCHANGED <<hand, mode, panes, buf, log>>
        BY <1>8, <2>3 DEF RecvDetach, input
      <3> HIDE DEF m
      <3> QED BY <2>1, <3>1, <1>1, <1>3 DEF Logged, Unmapped
    <2> QED BY <2>2, <2>3
  <1>9. CASE HostClosed
    BY <1>9, <1>1, <1>7 DEF HostClosed
  <1>10. CASE SendDone
    <2> DEFINE x == sending.pane
               d == SubSeq(log.owed[x], Len(sending.data) + 1, Len(log.owed[x]))
    <2>1. /\ Running /\ sending # Nobody /\ UNCHANGED <<hand, mode, panes, buf>>
          /\ mailbox' = Release(mailbox, sending.guards)
          /\ log' = log \/ log' = [log EXCEPT !.owed[x] = d]
      BY <1>10 DEF SendDone, input
    <2>2. sending \in Line
      BY <2>1 DEF EpochInv, Shape
    <2>3. sending.data \in Seq(Byte)
      BY <2>2 DEF Line
    <2>4. x \in Panes => d \in Seq(Byte)
      <3>1. ASSUME NEW o \in Seq(Byte), NEW n \in Nat PROVE SubSeq(o, n + 1, Len(o)) \in Seq(Byte)
        OBVIOUS
      <3>2. Len(sending.data) \in Nat
        BY <2>3
      <3>3. x \in Panes => log.owed[x] \in Seq(Byte)
        BY <1>1 DEF Logged
      <3> QED BY <3>1, <3>2, <3>3
    <2> HIDE DEF x, d
    <2>5. Logged'
      <3>1. Logged
        BY <1>1
      <3>2. CASE log' = log
        BY <3>1, <3>2 DEF Logged
      <3>3. CASE log' = [log EXCEPT !.owed[x] = d]
        <4>1. DOMAIN log' = {"owed", "lost"} /\ log'.owed \in [Panes -> Seq(Byte)]
          BY <2>4, <3>1, <3>3, OwedIsLogged DEF Logged
        <4> QED BY <4>1 DEF Logged
      <3> QED BY <2>1, <3>2, <3>3
    <2> QED BY <2>1, <2>5, <1>1, <1>3 DEF Unmapped
  <1>11. ASSUME NEW x \in {"toShell", "toEnd"}, Leave(x) PROVE Between'
    <2>1. /\ hand' = hand /\ mode' = x /\ UNCHANGED <<panes, buf>> /\ log' = Lost(Panes)
          /\ mailbox'.gen = mailbox.gen
      BY <1>11, <1>1 DEF Leave, input
    <2>2. Logged' /\ Unmapped'
      BY <2>1, <1>1 DEF Logged, Unmapped
    <2> QED BY <2>1, <2>2, BetweenKept DEF Gone
  <1>12. CASE Exit \/ Fatal \/ ChannelLost
    BY <1>11, <1>12 DEF Exit, Fatal, ChannelLost
  <1>13. CASE Suspend
    <2>1. /\ mode \notin Gone /\ mode' \in {"discarding", "stopping"}
          /\ mailbox'.gen = mailbox.gen + 1 /\ UNCHANGED <<hand, panes, buf, log>>
      BY <1>13, <1>1 DEF Suspend, Gone, input
    <2>2. HandOver'
      BY <2>1, <1>1 DEF Between, HandOver
    <2>3. Logged' /\ Unmapped'
      BY <2>1, <1>1 DEF Logged, Unmapped
    <2> QED BY <2>1, <2>2, <2>3 DEF Between, Cleared
  <1>14. CASE Discard
    <2>1. /\ mode \in Gone /\ mode' \in {"shell", "ended"} /\ channel' = <<>> /\ outgoing' = <<>>
          /\ mailbox'.gen = mailbox.gen /\ UNCHANGED <<hand, panes, buf, log>>
      BY <1>14, ReleaseKeepsEpoch DEF Discard, Gone, input, EpochInv, Shape
    <2>2. HandOver'
      BY <2>1 DEF Between, HandOver
    <2>3. Logged' /\ Unmapped' /\ Cleared'
      BY <2>1, <1>1 DEF Logged, Unmapped, Cleared
    <2> QED BY <2>2, <2>3 DEF Between
  <1>15. ASSUME NEW p \in Panes, FlushInput(p) PROVE Between'
    <2>1. Running /\ UNCHANGED <<mailbox, hand, mode, panes, log>> /\ buf[p] # <<>>
      BY <1>15 DEF FlushInput, Idle, Running
    <2>2. p \in panes
      BY <2>1, <1>1 DEF Unmapped
    <2>3. \A q \in Panes \ {p} : buf'[q] = buf[q]
      BY <1>15, <1>1 DEF FlushInput
    <2> QED BY <2>1, <2>2, <2>3, <1>1, <1>3 DEF Logged, Unmapped
  <1>16. ASSUME NEW p \in Panes, RecvClose(p) PROVE Between'
    <2>1. /\ Running /\ UNCHANGED <<hand, mode, panes, buf, log>>
          /\ mailbox'.gen = mailbox.gen
      BY <1>16, <1>1 DEF RecvClose, input
    <2> QED BY <2>1, <1>1, <1>3 DEF Logged, Unmapped
  <1>17. ASSUME NEW p \in Panes, SpawnPane(p) PROVE Between'
    <2>1. /\ Running /\ UNCHANGED <<mailbox, hand, mode, buf, log>> /\ panes' = panes \cup {p}
      BY <1>17 DEF SpawnPane, input
    <2> QED BY <2>1, <1>1, <1>3 DEF Logged, Unmapped
  <1>18. ASSUME NEW p \in Panes, DropPane(p) PROVE Between'
    <2>1. /\ mode \notin Gone /\ UNCHANGED <<hand, mode>> /\ mailbox'.gen = mailbox.gen
          /\ panes' = panes \ {p} /\ buf' = [buf EXCEPT ![p] = <<>>]
          /\ log' = log \/ log' = Lost({p})
      BY <1>18, <1>1 DEF DropPane, Gone
    <2>2. Logged' /\ Unmapped'
      BY <2>1, <1>1 DEF Logged, Unmapped
    <2> QED BY <2>1, <2>2, BetweenKept DEF Gone
  <1>19. CASE Detect \/ HandshakeExited
    BY <1>19 DEF Detect, HandshakeExited, Between, Logged, Unmapped, HandOver, Cleared, Gone,
                 input, lines
  <1>20. CASE EndShell
    <2>1. /\ mode \in Gone /\ mode' = "ended" /\ UNCHANGED <<hand, panes, buf, log>>
          /\ mailbox'.gen = mailbox.gen
      BY <1>20, ReleaseKeepsEpoch DEF EndShell, Gone, input, EpochInv, Shape
    <2>2. Logged' /\ Unmapped'
      BY <2>1, <1>1 DEF Logged, Unmapped
    <2> QED BY <2>1, <2>2, BetweenKept
  <1> QED
    BY <1>4, <1>5, <1>6, <1>8, <1>9, <1>10, <1>12, <1>13, <1>14, <1>15, <1>16, <1>17, <1>18,
       <1>19, <1>20 DEF Worker

\* A step that none of the stations sees.
LEMMA OrderedKept ==
    ASSUME Ordered, UNCHANGED <<mode, fatal, sending, outgoing, buf, channel, log>>
    PROVE  Ordered'
  BY DEF Ordered, Idle, Stations

\* A caller: only Enqueue touches a station.
LEMMA OrderedCaller == ASSUME OrderInv, Caller PROVE Ordered'
  <1>1. EpochInv /\ Between /\ Ordered
    BY DEF OrderInv
  <1>2. CASE Enqueue
    <2>1. hand \in Command /\ UNCHANGED <<mode, buf, outgoing, sending, fatal>>
      BY <1>1, <1>2 DEF Enqueue, EpochInv, Shape, input, lines
    <2>2. CASE Accepted(hand.permit)
      <3> DEFINE x == hand.pane
                 u == log.owed[x] \o Bytes(hand.permit)
      <3>1. /\ channel' = Append(channel, hand)
            /\ log' = IF hand.kind # "input" \/ x \in log.lost THEN log
                      ELSE [log EXCEPT !.owed[x] = u]
        BY <1>2, <2>2 DEF Enqueue
      <3>2. hand.permit \in Permit /\ Bytes(hand.permit) \in Seq(Byte)
        BY <2>1, BytesTyped DEF Command
      <3>3. x \in Panes => u \in Seq(Byte)
        BY <3>2, <1>1 DEF Between, Logged
      <3>4. Logged
        BY <1>1 DEF Between
      <3> HIDE DEF u
      <3>5. log'.lost = log.lost
        BY <3>1, <3>3, <3>4, OwedIsLogged
      <3>6. ASSUME Idle, NEW p \in Panes \ log.lost PROVE Stations(p)'
        <4>1. log'.owed[p] = IF hand.kind = "input" /\ p = x THEN u ELSE log.owed[p]
          BY <3>1, <3>3, <3>4, <3>6, OwedIsLogged
        <4>2. Typed(p, hand) = IF hand.kind = "input" /\ p = x THEN Bytes(hand.permit) ELSE <<>>
          BY DEF Typed, InputFor
        <4>3. log.owed[p] \in Seq(Byte)
          BY <3>4, <3>6 DEF Logged
        <4>4. log'.owed[p] = log.owed[p] \o Typed(p, hand)
          <5>1. CASE hand.kind = "input" /\ p = x
            BY <4>1, <4>2, <5>1 DEF u
          <5>2. CASE ~(hand.kind = "input" /\ p = x)
            <6>1. log'.owed[p] = log.owed[p] /\ Typed(p, hand) = <<>>
              BY <4>1, <4>2, <5>2
            <6>2. log.owed[p] \o <<>> = log.owed[p]
              BY <4>3
            <6> QED BY <6>1, <6>2
          <5> QED BY <5>1, <5>2
        <4>5. OnTheWay(p, sending, outgoing, buf[p], Append(channel, hand),
                       log.owed[p] \o Typed(p, hand))
          BY <1>1, <2>1, <3>6, <4>3, WayTyped DEF EpochInv, Shape, Ordered, Stations
        <4> QED BY <2>1, <3>1, <4>4, <4>5 DEF Stations
      <3> QED BY <2>1, <3>5, <3>6 DEF Ordered, Idle
    <2>3. CASE ~Accepted(hand.permit)
      BY <1>1, <1>2, <2>1, <2>3, OrderedKept DEF Enqueue
    <2> QED BY <2>2, <2>3
  <1>3. CASE ~Enqueue
    <2>1. UNCHANGED <<mode, fatal, sending, outgoing, buf, channel, log>>
      BY <1>3, Zenon DEF Caller, SendDetach, TmuxSendCommand, WritePane, ResizePane, Reserve, TmuxClosePane,
                  input, lines
    <2> QED BY <1>1, <2>1, OrderedKept
  <1> QED BY <1>2, <1>3

\* Lines without keys are queued, and nothing else happens to the stations.
LEMMA OrderedQueue ==
    ASSUME OrderInv, NEW k \in {"command", "kill", "other"}, NEW x \in Panes \cup {Nobody},
           NEW gs \in SUBSET Permit, QueueLines(<<Plain(k, x)>>, gs), ~fatal',
           NEW p \in Panes, NEW b \in Seq(Byte), NEW ch \in Seq(Command),
           OnTheWay(p, sending, outgoing, b, ch, log.owed[p])
    PROVE  OnTheWay(p, sending', outgoing', b, ch, log.owed[p])
  <1> DEFINE ls == <<Plain(k, x)>>
  <1>1. ls \in Seq(Line) /\ Len(KeysOf(p, ls)) = 1 /\ \A i \in 1..1 : KeysOf(p, ls)[i] = <<>>
    BY PlainKeys
  <1>2. QueueLines(ls, gs) /\ sending' = sending
    BY DEF QueueLines
  <1> HIDE DEF ls
  <1>3. /\ outgoing \in Seq(Line) /\ sending \in Line \cup {Nobody}
        /\ log.owed[p] \in Seq(Byte) /\ Len(ls) = 1
    BY <1>1, KeysAre DEF OrderInv, EpochInv, Shape, Between, Logged
  <1> QED BY <1>1, <1>2, <1>3, WayPassed

\* The worker takes a command from the channel.
LEMMA OrderedReceive == ASSUME OrderInv, Receive PROVE Ordered'
  <1> DEFINE c == Head(channel)
  <1>1. /\ EpochInv /\ Between /\ Ordered /\ Logged
        /\ channel \in Seq(Command) /\ buf \in [Panes -> Seq(Byte)]
        /\ outgoing \in Seq(Line) /\ sending \in Line \cup {Nobody}
        /\ log.owed \in [Panes -> Seq(Byte)]
    BY DEF OrderInv, EpochInv, Shape, Between, Logged
  <1>2. ASSUME NEW k, Recv(k)
        PROVE  /\ Idle /\ channel # <<>> /\ channel' = Tail(channel) /\ c.kind = k
               /\ c \in Command /\ Tail(channel) \in Seq(Command)
    BY <1>1, <1>2 DEF Recv
  <1>3. ASSUME Idle, channel # <<>>, NEW p \in Panes \ log.lost
        PROVE  OnTheWay(p, sending, outgoing, buf[p] \o Typed(p, c), Tail(channel), log.owed[p])
    <2>1. OnTheWay(p, sending, outgoing, buf[p], channel, log.owed[p])
      BY <1>1, <1>3 DEF Ordered, Stations
    <2>2. buf[p] \in Seq(Byte) /\ log.owed[p] \in Seq(Byte)
      BY <1>1, <1>3
    <2> QED BY <1>1, <1>3, <2>1, <2>2, WayTaken
  <1> HIDE DEF c
  <1>4. ASSUME c.kind # "input" \/ c.pane \notin Panes, NEW p \in Panes
        PROVE  buf[p] \o Typed(p, c) = buf[p]
    <2>1. Typed(p, c) = <<>>
      BY <1>4 DEF Typed, InputFor
    <2> QED BY <1>1, <2>1
  <1>5. CASE RecvInput
    <2> DEFINE m == c.permit
               x == c.pane
    <2>1. Recv("input")
      BY <1>5 DEF RecvInput
    <2>2. UNCHANGED <<mode, outgoing, sending, fatal>>
      BY <1>5 DEF RecvInput, lines
    <2>3. CASE x \in panes
      <3>1. buf' = [buf EXCEPT ![x] = @ \o Bytes(m)] /\ log' = log
        BY <1>5, <2>3 DEF RecvInput, c
      <3>2. ASSUME NEW p \in Panes PROVE buf'[p] = buf[p] \o Typed(p, c)
        <4>1. CASE p = x
          BY <1>1, <1>2, <2>1, <3>1, <4>1 DEF Typed, InputFor
        <4>2. CASE p # x
          <5>1. Typed(p, c) = <<>>
            BY <4>2 DEF Typed, InputFor
          <5>2. buf'[p] = buf[p] /\ buf[p] \in Seq(Byte)
            BY <1>1, <3>1, <4>2
          <5> QED BY <5>1, <5>2
        <4> QED BY <4>1, <4>2
      <3> QED BY <1>2, <1>3, <2>1, <2>2, <3>1, <3>2 DEF Ordered, Idle, Stations
    <2>4. CASE x \notin panes
      <3>1. buf' = buf /\ log' = Lost({x})
        BY <1>5, <2>4 DEF RecvInput, input, c
      <3>2. /\ Lost({x}).lost = log.lost \cup {x}
            /\ \A p \in Panes \ {x} : Lost({x}).owed[p] = log.owed[p]
        BY <1>1, LostIsLogged
      <3>3. ASSUME NEW p \in Panes \ log'.lost PROVE Stations(p)'
        <4>1. p \in Panes \ log.lost /\ p # x /\ log'.owed[p] = log.owed[p]
          BY <3>1, <3>2, <3>3
        <4>2. Typed(p, c) = <<>>
          BY <4>1 DEF Typed, InputFor
        <4>3. buf[p] \o <<>> = buf[p]
          BY <1>1, <4>1
        <4>4. OnTheWay(p, sending, outgoing, buf[p], Tail(channel), log.owed[p])
          BY <1>2, <1>3, <2>1, <4>1, <4>2, <4>3
        <4> QED BY <1>2, <2>1, <2>2, <3>1, <4>1, <4>4 DEF Stations
      <3> QED BY <3>3 DEF Ordered
    <2> QED BY <2>3, <2>4
  <1>6. CASE RecvCommand
    <2>1. Recv("command")
      BY <1>6 DEF RecvCommand
    <2>2. mode' = mode /\ buf' = buf /\ log' = log
      BY <1>6 DEF RecvCommand, input
    <2>3. ASSUME NEW p \in Panes \ log.lost
          PROVE  OnTheWay(p, sending, outgoing, buf[p], Tail(channel), log.owed[p])
      <3>1. Idle /\ channel # <<>> /\ c.kind # "input"
        BY <1>2, <2>1
      <3>2. OnTheWay(p, sending, outgoing, buf[p] \o Typed(p, c), Tail(channel), log.owed[p])
        BY <1>3, <2>3, <3>1
      <3>3. buf[p] \o Typed(p, c) = buf[p]
        BY <1>4, <2>3, <3>1
      <3> QED BY <3>2, <3>3
    <2>4. CASE QueueLines(<<Plain("command", Nobody)>>, {c.permit})
      <3>1. {c.permit} \in SUBSET Permit /\ Tail(channel) \in Seq(Command)
        BY <1>2, <2>1 DEF Command
      <3>2. ASSUME ~fatal', NEW p \in Panes \ log.lost PROVE Stations(p)'
        <4>1. OnTheWay(p, sending', outgoing', buf[p], Tail(channel), log.owed[p])
          <5>1. buf[p] \in Seq(Byte)
            BY <1>1, <3>2
          <5> QED BY <2>3, <2>4, <3>1, <3>2, <5>1, OrderedQueue
        <4> QED BY <1>2, <2>1, <2>2, <4>1 DEF Stations
      <3> QED BY <2>2, <3>2 DEF Ordered, Idle
    <2>5. CASE UNCHANGED lines
      BY <1>2, <2>1, <2>2, <2>3, <2>5 DEF Ordered, Idle, Stations, lines
    <2> QED BY <1>6, <2>4, <2>5 DEF RecvCommand, c
  <1>7. CASE RecvResize
    <2>1. Recv("resize")
      BY <1>7 DEF RecvResize
    <2>2. UNCHANGED <<mode, buf, log, outgoing, sending, fatal>>
      BY <1>7 DEF RecvResize, input, lines
    <2>3. ASSUME NEW p \in Panes \ log.lost
          PROVE  OnTheWay(p, sending, outgoing, buf[p], Tail(channel), log.owed[p])
      <3>1. Idle /\ channel # <<>> /\ c.kind # "input"
        BY <1>2, <2>1
      <3>2. OnTheWay(p, sending, outgoing, buf[p] \o Typed(p, c), Tail(channel), log.owed[p])
        BY <1>3, <2>3, <3>1
      <3>3. buf[p] \o Typed(p, c) = buf[p]
        BY <1>4, <2>3, <3>1
      <3> QED BY <3>2, <3>3
    <2> QED BY <1>2, <2>1, <2>2, <2>3 DEF Ordered, Idle, Stations
  <1> QED BY <1>5, <1>6, <1>7 DEF Receive

\* flush_input: the batch leaves the front of the buffer for the end of the queue.
LEMMA OrderedFlush == ASSUME OrderInv, NEW p \in Panes, FlushInput(p) PROVE Ordered'
  <1>1. /\ EpochInv /\ Ordered /\ buf \in [Panes -> Seq(Byte)] /\ buf[p] # <<>> /\ Idle
        /\ channel \in Seq(Command) /\ guards[p] \in SUBSET Permit
        /\ outgoing \in Seq(Line) /\ sending \in Line \cup {Nobody}
        /\ log.owed \in [Panes -> Seq(Byte)]
        /\ UNCHANGED <<mode, channel, log>>
    BY DEF OrderInv, EpochInv, Shape, Between, Logged, FlushInput
  <1> DEFINE e == Lesser(BatchBytes, Len(buf[p]))
             b == buf[p]
  <1>2. b \in Seq(Byte) /\ Len(b) \in Nat /\ e \in 1..Len(b)
    BY <1>1, InputConstants DEF Lesser
  <1>3. PICK n \in e..Lesser(e + KeyBytes - 1, Len(b)) :
           /\ \/ QueueLines(OneLine(p, n), ReleasedWith(p, RestOf(p, n)))
              \/ QueueLines(LinePerKey(p, e, n), ReleasedWith(p, RestOf(p, n)))
           /\ buf' = [buf EXCEPT ![p] = RestOf(p, n)]
    BY DEF FlushInput
  <1> HIDE DEF e
  <1>4. n \in 1..Len(b) /\ n \in 0..Len(b) /\ e <= n
    BY <1>2, InputConstants DEF Lesser
  <1> DEFINE gs == ReleasedWith(p, RestOf(p, n))
  <1>5. gs \in SUBSET Permit
    BY <1>1 DEF ReleasedWith
  <1> HIDE DEF gs, b
  <1>6. PICK ls : (ls = OneLine(p, n) \/ ls = LinePerKey(p, e, n)) /\ QueueLines(ls, gs)
    BY <1>3 DEF gs
  <1>7. ls \in Seq(Line)
    BY <1>2, <1>4, <1>6, LinesOfBatch DEF b
  <1>8. /\ Chain(KeysOf(p, ls), b, 0, n)
        /\ \A q : q # p => \A i \in 1..Len(ls) : KeysOf(q, ls)[i] = <<>>
    BY <1>2, <1>4, <1>6, BatchInOrder DEF b
  <1>9. sending' = sending
    BY <1>6 DEF QueueLines
  <1>10. ASSUME ~fatal', NEW q \in Panes \ log.lost PROVE Stations(q)'
    <2>1. /\ OnTheWay(q, sending, outgoing, buf[q], channel, log.owed[q])
          /\ buf[q] \in Seq(Byte) /\ log.owed[q] \in Seq(Byte)
      BY <1>1, <1>10 DEF Ordered, Stations
    <2>2. CASE q = p
      <3>1. OnTheWay(p, sending, outgoing', SubSeq(b, n + 1, Len(b)), channel, log.owed[p])
        BY <1>1, <1>2, <1>4, <1>5, <1>6, <1>7, <1>8, <1>10, <2>1, <2>2, WayQueued DEF b
      <3>2. buf'[p] = SubSeq(b, n + 1, Len(b))
        BY <1>1, <1>3 DEF RestOf, b
      <3> QED BY <1>1, <1>9, <2>2, <3>1, <3>2 DEF Stations
    <2>3. CASE q # p
      <3>1. OnTheWay(q, sending, outgoing', buf[q], channel, log.owed[q])
        BY <1>1, <1>5, <1>6, <1>7, <1>8, <1>10, <2>1, <2>3, WayPassed
      <3>2. buf'[q] = buf[q]
        BY <1>1, <1>3, <2>3
      <3> QED BY <1>1, <1>9, <3>1, <3>2 DEF Stations
    <2> QED BY <2>2, <2>3
  <1> QED BY <1>1, <1>10 DEF Ordered, Idle

\* The loop leaves, or stays outside control mode: nothing is claimed.
LEMMA OrderedAway == ASSUME mode' # "control" PROVE Ordered'
  BY DEF Ordered, Idle

\* A worker's step.
LEMMA OrderedWorker == ASSUME OrderInv, Worker PROVE Ordered'
  <1>1. /\ EpochInv /\ Between /\ Ordered /\ Logged
        /\ channel \in Seq(Command) /\ buf \in [Panes -> Seq(Byte)]
        /\ outgoing \in Seq(Line) /\ sending \in Line \cup {Nobody}
        /\ log.owed \in [Panes -> Seq(Byte)]
    BY DEF OrderInv, EpochInv, Shape, Between, Logged
  <1>2. ASSUME Idle, NEW p \in Panes \ log.lost
        PROVE  /\ OnTheWay(p, sending, outgoing, buf[p], channel, log.owed[p])
               /\ buf[p] \in Seq(Byte) /\ log.owed[p] \in Seq(Byte)
    BY <1>1, <1>2 DEF Ordered, Stations
  <1>3. CASE Attach
    <2>1. /\ mode = "handshake" /\ log' = NewLog /\ UNCHANGED <<channel, buf, outgoing, sending>>
      BY <1>3 DEF Attach, input, lines
    <2>2. /\ sending = Nobody /\ outgoing = <<>> /\ panes = {}
          /\ \A i \in 1..Len(channel) : channel[i].kind # "input"
      BY <1>1, <2>1 DEF EpochInv, Emptied, Gone, Between, Cleared
    <2>3. ASSUME NEW p \in Panes PROVE Stations(p)'
      <3>1. buf[p] = <<>> /\ log'.owed[p] = <<>>
        BY <1>1, <2>1, <2>2 DEF Between, Unmapped, NewLog, NoInput
      <3>2. /\ InputOf(p, channel) \in Pieces /\ Len(InputOf(p, channel)) = Len(channel)
            /\ \A i \in 1..Len(channel) : InputOf(p, channel)[i] = Typed(p, channel[i])
        BY <1>1, InputIs
      <3>3. \A i \in 1..Len(channel) : Typed(p, channel[i]) = <<>>
        BY <2>2 DEF Typed, InputFor
      <3>4. /\ KeysOf(p, outgoing) \in Pieces /\ Len(KeysOf(p, outgoing)) = 0
        BY <1>1, <2>2, KeysAre
      <3>5. SentTo(p, sending) = <<>>
        BY <2>2 DEF SentTo
      <3>6. \A i \in 1..0 : KeysOf(p, outgoing)[i] = <<>>
        OBVIOUS
      <3>7. InOrder(<<>>, KeysOf(p, outgoing), <<>>, InputOf(p, channel), <<>>)
        BY <3>2, <3>3, <3>4, <3>6, NothingInOrder
      <3> QED BY <2>1, <3>1, <3>5, <3>7 DEF Stations, OnTheWay
    <2> QED BY <2>3 DEF Ordered
  <1>4. CASE Receive
    BY <1>4, OrderedReceive
  <1>5. ASSUME NEW k \in {"command", "kill", "other"}, NEW x \in Panes \cup {Nobody},
               QueueLines(<<Plain(k, x)>>, {}), ~fatal, UNCHANGED <<mode, channel, buf, log>>
        PROVE  Ordered'
    <2>1. ASSUME Idle, ~fatal', NEW p \in Panes \ log.lost PROVE Stations(p)'
      <3>1. /\ OnTheWay(p, sending, outgoing, buf[p], channel, log.owed[p])
            /\ buf[p] \in Seq(Byte) /\ channel \in Seq(Command) /\ {} \in SUBSET Permit
        BY <1>1, <1>2, <2>1
      <3>2. QueueLines(<<Plain(k, x)>>, {})
        BY <1>5
      <3>3. OnTheWay(p, sending', outgoing', buf[p], channel, log.owed[p])
        BY <2>1, <3>1, <3>2, OrderedQueue
      <3> QED BY <1>5, <3>3 DEF Stations
    <2> QED BY <1>5, <2>1 DEF Ordered, Idle
  <1>6. CASE OtherLine
    BY <1>5, <1>6 DEF OtherLine, Running, input
  <1>7. CASE RecvDetach
    <2>1. CASE mode = "control"
      BY <1>7, <2>1, OrderedAway DEF RecvDetach, RequestDetach
    <2>2. CASE mode # "control"
      BY <1>7, <2>2, OrderedAway DEF RecvDetach
    <2> QED BY <2>1, <2>2
  <1>8. CASE HostClosed
    BY <1>8, OrderedAway DEF HostClosed, RequestDetach
  <1>9. CASE StartSend
    <2>1. /\ sending = Nobody /\ outgoing # <<>>
          /\ sending' = Head(outgoing) /\ outgoing' = Tail(outgoing)
          /\ UNCHANGED <<mode, channel, buf, log, fatal>>
      BY <1>9 DEF StartSend, input
    <2>2. ASSUME Idle, NEW p \in Panes \ log.lost PROVE Stations(p)'
      <3>1. OnTheWay(p, Nobody, outgoing, buf[p], channel, log.owed[p])
        BY <1>2, <2>1, <2>2
      <3>2. OnTheWay(p, Head(outgoing), Tail(outgoing), buf[p], channel, log.owed[p])
        BY <1>1, <1>2, <2>1, <2>2, <3>1, WayStarted
      <3> QED BY <2>1, <3>2 DEF Stations
    <2> QED BY <2>1, <2>2 DEF Ordered, Idle
  <1>10. CASE SendDone
    <2> DEFINE x == sending.pane
               d == SubSeq(log.owed[x], Len(sending.data) + 1, Len(log.owed[x]))
    <2>1. /\ sending # Nobody /\ sending' = Nobody
          /\ UNCHANGED <<mode, channel, buf, outgoing, fatal>>
          /\ log' = IF sending.kind # "keys" THEN log ELSE [log EXCEPT !.owed[x] = d]
      BY <1>10 DEF SendDone, input
    <2>2. sending \in Line
      BY <1>1, <2>1
    <2>3. x \in Panes => d \in Seq(Byte)
      <3>1. ASSUME NEW o \in Seq(Byte), NEW n \in Nat PROVE SubSeq(o, n + 1, Len(o)) \in Seq(Byte)
        OBVIOUS
      <3>2. Len(sending.data) \in Nat
        BY <2>2 DEF Line
      <3>3. x \in Panes => log.owed[x] \in Seq(Byte)
        BY <1>1
      <3> QED BY <3>1, <3>2, <3>3
    <2> HIDE DEF d, x
    <2>4. /\ log'.lost = log.lost
          /\ \A p \in Panes : log'.owed[p] = IF sending.kind = "keys" /\ p = x THEN d
                                             ELSE log.owed[p]
      <3>1. CASE sending.kind # "keys"
        BY <2>1, <3>1
      <3>2. CASE sending.kind = "keys"
        <4>1. log' = [log EXCEPT !.owed[x] = d]
          BY <2>1, <3>2
        <4>2. /\ log'.lost = log.lost
              /\ \A p \in Panes : log'.owed[p] = IF p = x THEN d ELSE log.owed[p]
          BY <1>1, <2>3, <4>1, OwedIsLogged DEF Logged
        <4> QED BY <3>2, <4>2
      <3> QED BY <3>1, <3>2
    <2>5. ASSUME Idle, NEW p \in Panes \ log.lost PROVE Stations(p)'
      <3> DEFINE o == log.owed[p]
      <3>1. OnTheWay(p, Nobody, outgoing, buf[p], channel, SubSeq(o, Len(Data(p, sending)) + 1, Len(o)))
        BY <1>1, <1>2, <2>2, <2>5, WaySent
      <3>2. log'.owed[p] = SubSeq(o, Len(Data(p, sending)) + 1, Len(o))
        <4>1. CASE sending.kind = "keys" /\ p = x
          BY <2>4, <2>5, <4>1 DEF Data, KeysFor, d, x
        <4>2. CASE ~(sending.kind = "keys" /\ p = x)
          <5>1. Data(p, sending) = <<>> /\ log'.owed[p] = o
            BY <2>4, <2>5, <4>2 DEF Data, KeysFor, x
          <5>2. o \in Seq(Byte)
            BY <1>2, <2>5
          <5> HIDE DEF o
          <5>3. SubSeq(o, Len(<<>>) + 1, Len(o)) = o
            BY <5>2
          <5> QED BY <5>1, <5>3
        <4> QED BY <4>1, <4>2
      <3> QED BY <2>1, <3>1, <3>2 DEF Stations
    <2> QED BY <2>1, <2>4, <2>5 DEF Ordered, Idle
  <1>11. CASE Exit \/ Fatal \/ ChannelLost
    BY <1>11, OrderedAway DEF Exit, Fatal, ChannelLost, Leave
  <1>12. CASE Suspend \/ Discard \/ Detect \/ HandshakeExited \/ EndShell
    BY <1>12, OrderedAway DEF Suspend, Discard, Detect, HandshakeExited, EndShell
  <1>13. ASSUME NEW p \in Panes, FlushInput(p) PROVE Ordered'
    BY <1>13, OrderedFlush
  <1>14. ASSUME NEW p \in Panes, RecvClose(p) PROVE Ordered'
    <2>1. CASE mode = "control"
      BY <1>5, <1>14, <2>1 DEF RecvClose, Running, input
    <2>2. CASE mode # "control"
      BY <1>14, <2>2, OrderedAway DEF RecvClose
    <2> QED BY <2>1, <2>2
  <1>15. ASSUME NEW p \in Panes, SpawnPane(p) PROVE Ordered'
    BY <1>1, <1>15, OrderedKept DEF SpawnPane, input, lines
  <1>16. ASSUME NEW p \in Panes, DropPane(p) PROVE Ordered'
    <2>1. /\ UNCHANGED <<mode, channel, outgoing, sending, fatal>>
          /\ buf' = [buf EXCEPT ![p] = <<>>]
          /\ log' = IF buf[p] = <<>> THEN log ELSE Lost({p})
      BY <1>16 DEF DropPane, lines
    <2>2. CASE buf[p] = <<>>
      <3>1. buf' = buf
        BY <1>1, <2>1, <2>2
      <3> QED BY <1>1, <2>1, <2>2, <3>1, OrderedKept
    <2>3. CASE buf[p] # <<>>
      <3>1. /\ log'.lost = log.lost \cup {p}
            /\ \A q \in Panes \ {p} : log'.owed[q] = log.owed[q] /\ buf'[q] = buf[q]
        BY <1>1, <2>1, <2>3, LostIsLogged
      <3>2. ASSUME Idle, NEW q \in Panes \ log'.lost PROVE Stations(q)'
        BY <1>2, <2>1, <3>1, <3>2 DEF Stations
      <3> QED BY <2>1, <3>2 DEF Ordered, Idle
    <2> QED BY <2>2, <2>3
  <1>17. ASSUME NEW failed \in BOOLEAN, Answered(failed) PROVE Ordered'
    BY <1>1, <1>17, OrderedKept DEF Answered, input
  <1> QED
    BY <1>3, <1>4, <1>6, <1>7, <1>8, <1>9, <1>10, <1>11, <1>12, <1>13, <1>14, <1>15, <1>16, <1>17
    DEF Worker

\* Every step keeps the invariant.
LEMMA OrderStep == OrderInv /\ [Next]_vars => OrderInv'
  <1> SUFFICES ASSUME OrderInv, [Next]_vars PROVE OrderInv'
    OBVIOUS
  <1>1. EpochInv'
    BY EpochStep DEF OrderInv
  <1>2. CASE Caller
    BY <1>1, <1>2, BetweenCaller, OrderedCaller DEF OrderInv
  <1>3. CASE Worker
    BY <1>1, <1>3, BetweenWorker, OrderedWorker DEF OrderInv
  <1>4. CASE UNCHANGED vars
    <2>1. Between'
      BY <1>4 DEF OrderInv, Between, Logged, Unmapped, HandOver, Cleared, vars, input, lines
    <2>2. Ordered'
      BY <1>4, OrderedKept DEF OrderInv, vars, input, lines
    <2> QED BY <1>1, <2>1, <2>2 DEF OrderInv
  <1> QED BY <1>2, <1>3, <1>4 DEF Next

\* What is being sent is owed next, and what is owed is at some station.
LEMMA OrderMeans == OrderInv => InputIntact
  <1> SUFFICES ASSUME OrderInv, NEW p \in Panes \ log.lost, Idle
               PROVE  /\ Sends(p) => IsPrefix(sending.data, log.owed[p])
                      /\ log.owed[p] # <<>> => Unsent(p) \/ Sends(p)
    BY DEF InputIntact
  <1> DEFINE S == SentTo(p, sending)
             K == KeysOf(p, outgoing)
             B == buf[p]
             I == InputOf(p, channel)
             o == log.owed[p]
  <1>1. /\ outgoing \in Seq(Line) /\ sending \in Line \cup {Nobody}
        /\ channel \in Seq(Command) /\ B \in Seq(Byte) /\ o \in Seq(Byte)
    BY DEF OrderInv, EpochInv, Shape, Between, Logged
  <1>2. InOrder(S, K, B, I, o)
    BY DEF OrderInv, Ordered, Stations, OnTheWay
  <1>3. S \in Seq(Byte) /\ K \in Pieces /\ I \in Pieces
    BY <1>1, StationsTyped
  <1>4. /\ IsPrefix(S, o)
        /\ /\ S = <<>> /\ B = <<>>
           /\ \A i \in 1..Len(K) : K[i] = <<>>
           /\ \A i \in 1..Len(I) : I[i] = <<>>
           => o = <<>>
    BY <1>1, <1>2, <1>3, InOrderMeans
  <1>5. Sends(p) => S = sending.data
    BY DEF Sends, SentTo, Data
  <1>6. ~Sends(p) => S = <<>>
    BY DEF Sends, SentTo, Data
  <1>7. ~Unsent(p) => \A i \in 1..Len(K) : K[i] = <<>>
    <2>1. Len(K) = Len(outgoing) /\ \A i \in 1..Len(outgoing) : K[i] = Data(p, outgoing[i])
      BY <1>1, KeysAre
    <2>2. \A i \in 1..Len(outgoing) : i \in DOMAIN outgoing
      BY <1>1
    <2>3. \A i \in 1..Len(outgoing) : outgoing[i] \in Range(outgoing)
      BY <2>2, Zenon DEF Range
    <2> HIDE DEF K
    <2> QED BY <2>1, <2>3 DEF Unsent, Data
  <1>8. ~Unsent(p) => \A i \in 1..Len(I) : I[i] = <<>>
    <2>1. Len(I) = Len(channel) /\ \A i \in 1..Len(channel) : I[i] = Typed(p, channel[i])
      BY <1>1, InputIs
    <2>2. \A i \in 1..Len(channel) : i \in DOMAIN channel
      BY <1>1
    <2>3. \A i \in 1..Len(channel) : channel[i] \in Range(channel)
      BY <2>2, Zenon DEF Range
    <2> HIDE DEF I
    <2> QED BY <2>1, <2>3 DEF Unsent, Typed
  <1>9. ~Unsent(p) => B = <<>>
    BY DEF Unsent
  <1> HIDE DEF S, K, B, I
  <1> QED BY <1>4, <1>5, <1>6, <1>7, <1>8, <1>9

\* What is typed into a pane reaches tmux byte for byte in the order it was typed,
\* however many inputs, panes and batches are on their way, as long as the pane is
\* not dropped and the session not left (buffer_pane_input, flush_input, start_send).
THEOREM InputReachesTmuxInOrder == Spec => []InputIntact
  <1>1. Init => OrderInv
    BY OrderInit
  <1>2. OrderInv /\ [Next]_vars => OrderInv'
    BY OrderStep
  <1>3. OrderInv => InputIntact
    BY OrderMeans
  <1> QED BY <1>1, <1>2, <1>3, PTL DEF Spec

=============================================================================
