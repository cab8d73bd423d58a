-------------------------- MODULE TmuxSeedProofs --------------------------
(***************************************************************************)
(* Theorems about TmuxSeed, for any limits and any number of chunks,       *)
(* pauses, failures and requests.                                          *)
(***************************************************************************)
EXTENDS TmuxSeed, SequenceTheorems, TLAPS

Panes ==
    [mapped : BOOLEAN, seeded : BOOLEAN, seeding : BOOLEAN, reseed : BOOLEAN,
     gen : Nat, barrier : BOOLEAN, captureAt : Nat \cup {None},
     seed : Nat \cup {None}, pending : Seq(Message)]

\* Everything but the display, which a fold computes.
Typed ==
    /\ tmux \in [written : Nat, notified : Nat, paused : BOOLEAN, commands : Seq(Batch)]
    /\ wire \in Seq(Message)
    /\ pane \in Panes
    /\ paused \in BOOLEAN /\ timer \in BOOLEAN
    /\ outgoing \in Seq(Batch) /\ expected \in Seq(Response)

-----------------------------------------------------------------------------
(* The pieces of the model keep the types.                                 *)

LEMMA OutputTyped ==
    ASSUME NEW n \in Nat, NEW held \in BOOLEAN
    PROVE  Output(n, held) \in Message
  BY DEF Output, Message

LEMMA NoticesTyped == [kind |-> "pause"] \in Message /\ [kind |-> "continue"] \in Message
  BY DEF Message

LEMMA BlockTyped ==
    ASSUME Typed, NEW of \in {"capture", "cursor", "resume"}, NEW b \in Batch, b.kind = "seed",
           NEW failed \in BOOLEAN
    PROVE  Block(of, b, failed) \in Message
  <1>1. b.gen \in Nat
    BY DEF Batch
  <1>2. [of |-> of, gen |-> b.gen] \in Response
    BY <1>1 DEF Response
  <1>3. tmux.written \in Nat
    BY DEF Typed
  <1> QED BY <1>2, <1>3 DEF Block, Message

LEMMA QueryBlockTyped ==
    [kind |-> "block", answers |-> [of |-> "query"], failed |-> FALSE, n |-> 0] \in Message
  BY DEF Message, Response

LEMMA SeedPaneTyped ==
    ASSUME Typed, NEW p \in Panes, NEW ps \in BOOLEAN, SeedPane(p, ps)
    PROVE  pane' \in Panes /\ paused' \in BOOLEAN /\ outgoing' \in Seq(Batch)
  <1>1. CASE ~p.mapped \/ p.seeding
    BY <1>1 DEF SeedPane, Typed
  <1>2. CASE ~(~p.mapped \/ p.seeding)
    <2> DEFINE b == [kind |-> "seed", gen |-> p.gen, resume |-> ps]
    <2>1. b \in Batch
      BY DEF Batch, Panes
    <2>2. outgoing \in Seq(Batch)
      BY DEF Typed
    <2> HIDE DEF b
    <2>3. Append(outgoing, b) \in Seq(Batch)
      BY <2>1, <2>2, AppendProperties
    <2>4. [p EXCEPT !.seeding = TRUE, !.seeded = FALSE, !.seed = None, !.barrier = ps] \in Panes
      BY DEF Panes
    <2> QED BY <1>2, <2>3, <2>4 DEF SeedPane, b
  <1> QED BY <1>1, <1>2

LEMMA InvalidateTyped == ASSUME NEW p \in Panes PROVE Invalidate(p) \in Panes
  <1> DEFINE g == p.gen + 1
  <1>1. g \in Nat /\ <<>> \in Seq(Message)
    BY EmptySeq DEF Panes
  <1> HIDE DEF g
  <1>2. [p EXCEPT !.gen = g, !.seeded = FALSE, !.seeding = FALSE, !.reseed = FALSE,
                  !.seed = None, !.captureAt = None, !.pending = <<>>] \in Panes
    BY <1>1 DEF Panes
  <1> QED BY <1>2 DEF Invalidate, g

\* The responses to a line: what they are, and that the first is not one that
\* an error earlier in the line can skip.
LEMMA ResponsesTyped ==
    ASSUME NEW b \in Batch
    PROVE  Responses(b) \in Seq(Response)
  <1>1. CASE b.kind = "query"
    BY <1>1 DEF Responses, Response
  <1>2. CASE b.kind = "seed"
    <2>1. b.gen \in Nat
      BY <1>2 DEF Batch
    <2> DEFINE c == [of |-> "capture", gen |-> b.gen]
               d == [of |-> "cursor", gen |-> b.gen]
               r == [of |-> "resume", gen |-> b.gen]
    <2>2. c \in Response /\ d \in Response /\ r \in Response
      BY <2>1 DEF Response
    <2>3. Responses(b) = <<c, d>> \o (IF b.resume THEN <<r>> ELSE <<>>)
      BY <1>2 DEF Responses
    <2> HIDE DEF c, d, r
    <2>4. <<c, d>> \in Seq(Response) /\ <<r>> \in Seq(Response) /\ <<>> \in Seq(Response)
      BY <2>2
    <2> QED BY <2>3, <2>4, ConcatProperties
  <1> QED BY <1>1, <1>2 DEF Batch

LEMMA SkipTyped ==
    ASSUME NEW s \in Seq(Response), NEW of, NEW gen
    PROVE  Skip(s, of, gen) \in Seq(Response)
  BY HeadTailProperties DEF Skip

LEMMA EndSeedTyped ==
    ASSUME Typed, NEW gen \in Nat, NEW lost, lost \in BOOLEAN, EndSeed(gen, lost)
    PROVE  /\ pane' \in Panes /\ paused' \in BOOLEAN /\ timer' \in BOOLEAN
           /\ outgoing' \in Seq(Batch)
  <1> DEFINE ps == paused \/ Retries(lost, gen)
             p == [pane EXCEPT !.seeding = FALSE, !.reseed = FALSE, !.seed = None]
  <1>1. Retries(lost, gen) \in BOOLEAN
    BY DEF Retries
  <1>2. ps \in BOOLEAN /\ timer' \in BOOLEAN
    BY <1>1, Zenon DEF Typed, EndSeed
  <1>3. p \in Panes
    BY DEF Typed, Panes
  <1>4. CASE ~pane.mapped \/ pane.gen # gen
    BY <1>2, <1>4 DEF Typed, EndSeed
  <1>5. CASE ~(~pane.mapped \/ pane.gen # gen) /\ pane.reseed
    <2>1. SeedPane(p, ps)
      BY <1>5 DEF EndSeed
    <2> HIDE DEF p, ps
    <2> QED BY <1>2, <1>3, <2>1, SeedPaneTyped
  <1>6. CASE ~(~pane.mapped \/ pane.gen # gen) /\ ~pane.reseed
    <2>1. pane' = [p EXCEPT !.seeded = pane.seed # None, !.pending = <<>>] /\ paused' = ps
          /\ outgoing' = outgoing
      BY <1>6 DEF EndSeed
    <2>2. (pane.seed # None) \in BOOLEAN /\ <<>> \in Seq(Message)
      BY EmptySeq
    <2> HIDE DEF p
    <2>3. [p EXCEPT !.seeded = pane.seed # None, !.pending = <<>>] \in Panes
      BY <1>3, <2>2 DEF Panes
    <2> QED BY <1>2, <2>1, <2>3 DEF Typed
  <1> QED BY <1>4, <1>5, <1>6

-----------------------------------------------------------------------------
(* Each step keeps the types.                                              *)

LEMMA WireGrows ==
    ASSUME Typed, NEW m \in Message
    PROVE  Append(wire, m) \in Seq(Message)
  BY AppendProperties DEF Typed

\* What a line of commands sends, with the failure f or without.
LEMMA SeedRun ==
    ASSUME NEW f \in {"none", "capture", "cursor", "resume"}, RunSeed(f)
    PROVE  LET b == Head(tmux.commands)
               c == Block("capture", b, FALSE)
               d == Block("cursor", b, FALSE)
               r == Block("resume", b, FALSE)
               rest == [tmux EXCEPT !.commands = Tail(@)]
               placed == wire \o Append(<<c>>, d)
           IN  /\ \/ wire' = Append(wire, Block("capture", b, TRUE))
                  \/ wire' = Append(wire \o <<c>>, Block("cursor", b, TRUE))
                  \/ b.resume /\ wire' = Append(placed, Block("resume", b, TRUE))
                  \/ b.resume /\ wire' = Append(placed, r) \o <<[kind |-> "continue"]>>
                  \/ b.resume /\ wire' = Append(placed, r) \o <<>>
                  \/ ~b.resume /\ wire' = placed
               /\ tmux' = rest \/ tmux' = Continued(rest)
  <1> DEFINE b == Head(tmux.commands)
  <1>1. CASE f = "capture"
    BY <1>1 DEF RunSeed
  <1>2. CASE f = "cursor"
    BY <1>2 DEF RunSeed
  <1>3. CASE f = "resume"
    BY <1>3 DEF RunSeed
  <1>4. CASE f = "none" /\ b.resume /\ tmux.paused
    BY <1>4 DEF RunSeed
  <1>5. CASE f = "none" /\ b.resume /\ ~tmux.paused
    BY <1>5 DEF RunSeed
  <1>6. CASE f = "none" /\ ~b.resume
    BY <1>6 DEF RunSeed
  <1> QED BY <1>1, <1>2, <1>3, <1>4, <1>5, <1>6

LEMMA RunSeedTyped ==
    ASSUME Typed, NEW f \in {"none", "capture", "cursor", "resume"}, RunSeed(f)
    PROVE  Typed'
  <1> DEFINE b == Head(tmux.commands)
             c == Block("capture", b, FALSE)
             d == Block("cursor", b, FALSE)
             r == Block("resume", b, FALSE)
             fc == Block("capture", b, TRUE)
             fd == Block("cursor", b, TRUE)
             fr == Block("resume", b, TRUE)
             k == [kind |-> "continue"]
             rest == [tmux EXCEPT !.commands = Tail(@)]
  <1>1. b \in Batch /\ b.kind = "seed"
        /\ Tail(tmux.commands) \in Seq(Batch)
    BY HeadTailProperties DEF Typed, RunSeed
  <1>2. c \in Message /\ d \in Message /\ r \in Message
        /\ fc \in Message /\ fd \in Message /\ fr \in Message /\ k \in Message
    BY <1>1, BlockTyped, NoticesTyped
  <1>3. rest \in [written : Nat, notified : Nat, paused : BOOLEAN, commands : Seq(Batch)]
    BY <1>1 DEF Typed
  <1>4. Continued(rest) \in [written : Nat, notified : Nat, paused : BOOLEAN, commands : Seq(Batch)]
    <2> HIDE DEF rest
    <2> QED BY <1>3 DEF Continued
  <1>5. /\ \/ wire' = Append(wire, fc)
           \/ wire' = Append(wire \o <<c>>, fd)
           \/ wire' = Append(wire \o Append(<<c>>, d), fr)
           \/ wire' = Append(wire \o Append(<<c>>, d), r) \o <<k>>
           \/ wire' = Append(wire \o Append(<<c>>, d), r) \o <<>>
           \/ wire' = wire \o Append(<<c>>, d)
        /\ tmux' = rest \/ tmux' = Continued(rest)
    BY SeedRun
  <1>6. wire \in Seq(Message)
    BY DEF Typed
  <1> HIDE DEF c, d, r, fc, fd, fr, k, rest
  <1>7. /\ Append(wire, fc) \in Seq(Message)
        /\ <<c>> \in Seq(Message) /\ <<k>> \in Seq(Message) /\ <<>> \in Seq(Message)
    BY <1>2, <1>6
  <1>8. Append(<<c>>, d) \in Seq(Message)
    BY <1>2, <1>7, AppendProperties
  <1>9. wire \o <<c>> \in Seq(Message) /\ wire \o Append(<<c>>, d) \in Seq(Message)
    BY <1>6, <1>7, <1>8, ConcatProperties
  <1>10. /\ Append(wire \o <<c>>, fd) \in Seq(Message)
         /\ Append(wire \o Append(<<c>>, d), fr) \in Seq(Message)
         /\ Append(wire \o Append(<<c>>, d), r) \in Seq(Message)
    BY <1>2, <1>9, AppendProperties
  <1>11. wire' \in Seq(Message)
    BY <1>5, <1>7, <1>9, <1>10, ConcatProperties
  <1> QED BY <1>3, <1>4, <1>5, <1>11 DEF RunSeed, client, Typed

LEMMA TmuxTyped ==
    ASSUME Typed, Tmux
    PROVE  Typed'
  <1>1. CASE Write
    <2> DEFINE n == tmux.written + 1
    <2>1. n \in Nat
      BY DEF Typed
    <2>5. Output(n, FALSE) \in Message
      BY <2>1, OutputTyped
    <2>2. Append(wire, Output(n, FALSE)) \in Seq(Message)
      BY <2>5, WireGrows
    <2>3. wire' \in Seq(Message)
      BY <1>1, <2>2 DEF Write, Typed
    <2>4. tmux' \in [written : Nat, notified : Nat, paused : BOOLEAN, commands : Seq(Batch)]
      BY <1>1, <2>1 DEF Write, Typed
    <2> QED BY <1>1, <2>3, <2>4 DEF Write, Typed, client
  <1>2. CASE NotifyHeld
    <2> DEFINE n == tmux.notified + 1
    <2>1. n \in Nat
      BY DEF Typed
    <2>4. Output(n, TRUE) \in Message
      BY <2>1, OutputTyped
    <2>2. wire' \in Seq(Message)
      BY <1>2, <2>4, WireGrows DEF NotifyHeld
    <2>3. tmux' \in [written : Nat, notified : Nat, paused : BOOLEAN, commands : Seq(Batch)]
      BY <1>2, <2>1 DEF NotifyHeld, Typed
    <2> QED BY <1>2, <2>2, <2>3 DEF NotifyHeld, Typed, client
  <1>3. CASE PausePane
    <2>1. wire' \in Seq(Message)
      BY <1>3, NoticesTyped, WireGrows DEF PausePane
    <2> QED BY <1>3, <2>1 DEF PausePane, Typed, client
  <1>4. CASE ContinuedByOther
    <2>1. wire' \in Seq(Message)
      BY <1>4, NoticesTyped, WireGrows DEF ContinuedByOther
    <2> QED BY <1>4, <2>1 DEF ContinuedByOther, Continued, Typed, client
  <1>5. CASE RunQuery
    <2>1. wire' \in Seq(Message)
      BY <1>5, QueryBlockTyped, WireGrows DEF RunQuery
    <2>2. Tail(tmux.commands) \in Seq(Batch)
      BY <1>5, HeadTailProperties DEF RunQuery, Typed
    <2> QED BY <1>5, <2>1, <2>2 DEF RunQuery, Typed, client
  <1>6. CASE \E f \in {"none", "capture", "cursor", "resume"} : RunSeed(f)
    BY <1>6, RunSeedTyped
  <1> QED BY <1>1, <1>2, <1>3, <1>4, <1>5, <1>6 DEF Tmux

LEMMA Received ==
    ASSUME Typed, NEW k, Receive(k)
    PROVE  Head(wire) \in Message /\ wire' \in Seq(Message) /\ tmux' = tmux
  BY HeadTailProperties DEF Receive, Typed

LEMMA StartSendTyped ==
    ASSUME Typed, StartSend
    PROVE  Typed'
  <1> PICK k \in 0..Len(outgoing) :
        /\ IF k = Len(outgoing)
           THEN outgoing' = <<>> /\ UNCHANGED <<tmux, expected>>
           ELSE /\ outgoing' = SubSeq(outgoing, k + 2, Len(outgoing))
                /\ expected' = expected \o Responses(outgoing[k + 1])
                /\ tmux' = [tmux EXCEPT !.commands = Append(@, outgoing[k + 1])]
        /\ UNCHANGED <<wire, pane, paused, timer, display, spent>>
    BY DEF StartSend
  <1>1. CASE k = Len(outgoing)
    BY <1>1, EmptySeq DEF Typed
  <1>2. CASE k # Len(outgoing)
    <2> DEFINE b == outgoing[k + 1]
    <2>1. outgoing \in Seq(Batch) /\ b \in Batch
      BY <1>2, LenProperties DEF Typed
    <2> HIDE DEF b
    <2>2. Responses(b) \in Seq(Response)
      BY <2>1, ResponsesTyped
    <2>3. expected' \in Seq(Response)
      <3>1. expected \o Responses(b) \in Seq(Response)
        BY <2>2, ConcatProperties DEF Typed
      <3> QED BY <1>2, <3>1 DEF b
    <2>4. outgoing' \in Seq(Batch)
      <3>1. \A i \in k + 2 .. Len(outgoing) : outgoing[i] \in Batch
        BY <2>1, LenProperties
      <3>2. k + 2 \in Int /\ Len(outgoing) \in Int
        BY <2>1, LenProperties
      <3>3. SubSeq(outgoing, k + 2, Len(outgoing)) \in Seq(Batch)
        BY <3>1, <3>2, SubSeqProperties
      <3> QED BY <1>2, <3>3
    <2>5. Append(tmux.commands, b) \in Seq(Batch)
      BY <2>1, AppendProperties DEF Typed
    <2>6. tmux' \in [written : Nat, notified : Nat, paused : BOOLEAN, commands : Seq(Batch)]
      BY <1>2, <2>5 DEF Typed, b
    <2> QED BY <2>3, <2>4, <2>6 DEF Typed
  <1> QED BY <1>1, <1>2

LEMMA RouteOutputTyped ==
    ASSUME Typed, RouteOutput
    PROVE  Typed'
  <1> DEFINE kept == Append(pane.pending, Head(wire))
             new == IF Len(kept) > MaxHeld THEN Tail(kept) ELSE kept
  <1>1. Receive("output")
    BY DEF RouteOutput
  <1>2. Head(wire) \in Message /\ wire' \in Seq(Message) /\ tmux' = tmux
    BY <1>1, Received
  <1>3. pane.pending \in Seq(Message)
    BY DEF Typed, Panes
  <1>4. kept \in Seq(Message) /\ kept # <<>>
    BY <1>2, <1>3, AppendProperties
  <1>5. new \in Seq(Message)
    BY <1>4, HeadTailProperties
  <1>6. pane' = pane \/ pane' = [pane EXCEPT !.pending = new]
    BY DEF RouteOutput
  <1> HIDE DEF new
  <1>7. pane' \in Panes
    BY <1>5, <1>6 DEF Typed, Panes
  <1> QED BY <1>2, <1>7 DEF RouteOutput, Typed

LEMMA CaptureTyped ==
    ASSUME Typed, CaptureAnswered
    PROVE  Typed'
  <1> DEFINE gen == Head(expected).gen
             rest == Skip(Tail(expected), "cursor", gen)
             lost == expected' # rest
  <1>1. Receive("block") /\ expected # <<>> /\ Head(expected).of = "capture"
    BY DEF CaptureAnswered, Answered
  <1>2. Head(wire) \in Message /\ wire' \in Seq(Message) /\ tmux' = tmux
    BY <1>1, Received
  <1>3. Head(expected) \in Response /\ Tail(expected) \in Seq(Response)
    BY <1>1, HeadTailProperties DEF Typed
  <1>4. gen \in Nat
    BY <1>1, <1>3 DEF Response
  <1>5. rest \in Seq(Response)
    BY <1>3, SkipTyped
  <1>6. CASE Head(wire).failed
    <2>1. expected' = Skip(rest, "resume", gen) /\ EndSeed(gen, lost)
      BY <1>6 DEF CaptureAnswered
    <2>2. expected' \in Seq(Response)
      BY <1>5, <2>1, SkipTyped
    <2>3. lost \in BOOLEAN
      OBVIOUS
    <2> HIDE DEF gen, lost
    <2> QED BY <1>2, <1>4, <2>1, <2>2, <2>3, EndSeedTyped DEF Typed
  <1>7. CASE ~Head(wire).failed
    <2>1. Head(wire).n \in Nat
      BY <1>1, <1>2 DEF Message, Receive
    <2>2. pane' = pane \/ \E c \in {None, Head(wire).n} :
             pane' = [pane EXCEPT !.seed = Head(wire).n, !.captureAt = c]
      BY <1>7 DEF CaptureAnswered
    <2>3. pane' \in Panes
      BY <2>1, <2>2 DEF Typed, Panes
    <2> QED BY <1>2, <1>3, <1>7, <2>3 DEF CaptureAnswered, Typed
  <1> QED BY <1>6, <1>7

LEMMA CursorTyped ==
    ASSUME Typed, CursorAnswered
    PROVE  Typed'
  <1> DEFINE gen == Head(expected).gen
             lost == expected' # Tail(expected)
  <1>1. Receive("block") /\ expected # <<>> /\ Head(expected).of = "cursor"
    BY DEF CursorAnswered, Answered
  <1>2. wire' \in Seq(Message) /\ tmux' = tmux
    BY <1>1, Received
  <1>3. Head(expected) \in Response /\ Tail(expected) \in Seq(Response)
    BY <1>1, HeadTailProperties DEF Typed
  <1>4. gen \in Nat
    BY <1>1, <1>3 DEF Response
  <1>5. expected' \in Seq(Response)
    BY <1>3, SkipTyped DEF CursorAnswered
  <1>6. EndSeed(gen, lost) /\ lost \in BOOLEAN
    BY DEF CursorAnswered
  <1> HIDE DEF gen, lost
  <1> QED BY <1>2, <1>4, <1>5, <1>6, EndSeedTyped DEF Typed

LEMMA ClientTyped ==
    ASSUME Typed, Client
    PROVE  Typed'
  <1>1. CASE StartSend
    BY <1>1, StartSendTyped
  <1>2. CASE RouteOutput
    BY <1>2, RouteOutputTyped
  <1>3. CASE Pause
    <2>1. wire' \in Seq(Message) /\ tmux' = tmux
      BY <1>3, Received DEF Pause
    <2>2. pane' \in Panes
      BY <1>3, InvalidateTyped DEF Pause, Typed
    <2> QED BY <1>3, <2>1, <2>2 DEF Pause, Typed
  <1>4. CASE Continue
    <2>1. wire' \in Seq(Message) /\ tmux' = tmux
      BY <1>4, Received DEF Continue
    <2>2. pane' \in Panes /\ paused' \in BOOLEAN /\ outgoing' \in Seq(Batch)
      BY <1>4, SeedPaneTyped DEF Continue, Typed
    <2> QED BY <1>4, <2>1, <2>2 DEF Continue, Typed
  <1>5. CASE ContinueDeadline
    <2>1. pane' \in Panes /\ paused' \in BOOLEAN /\ outgoing' \in Seq(Batch)
      BY <1>5, SeedPaneTyped DEF ContinueDeadline, Typed
    <2> QED BY <1>5, <2>1 DEF ContinueDeadline, Typed
  <1>6. CASE SpawnPane
    <2> DEFINE p == [pane EXCEPT !.mapped = TRUE]
    <2>1. p \in Panes /\ paused \in BOOLEAN
      BY DEF Typed, Panes
    <2>2. SeedPane(p, paused)
      BY <1>6 DEF SpawnPane
    <2> HIDE DEF p
    <2>3. pane' \in Panes /\ paused' \in BOOLEAN /\ outgoing' \in Seq(Batch)
      BY <2>1, <2>2, SeedPaneTyped
    <2> QED BY <1>6, <2>3 DEF SpawnPane, Typed
  <1>7. CASE Reconcile
    <2>1. pane' \in Panes /\ paused' \in BOOLEAN /\ outgoing' \in Seq(Batch)
      BY <1>7, SeedPaneTyped DEF Reconcile, Typed
    <2> QED BY <1>7, <2>1 DEF Reconcile, Typed
  <1>8. CASE CaptureAnswered
    BY <1>8, CaptureTyped
  <1>9. CASE CursorAnswered
    BY <1>9, CursorTyped
  <1>10. CASE ResumeAnswered
    <2>1. wire' \in Seq(Message) /\ tmux' = tmux /\ Tail(expected) \in Seq(Response)
      BY <1>10, Received, HeadTailProperties DEF ResumeAnswered, Answered, Typed
    <2>2. paused' \in BOOLEAN /\ timer' \in BOOLEAN
      BY <1>10, Zenon DEF ResumeAnswered, Typed
    <2> QED BY <1>10, <2>1, <2>2 DEF ResumeAnswered, Typed
  <1>11. CASE QueryAnswered
    <2>1. wire' \in Seq(Message) /\ tmux' = tmux /\ Tail(expected) \in Seq(Response)
      BY <1>11, Received, HeadTailProperties DEF QueryAnswered, Answered, Typed
    <2> QED BY <1>11, <2>1 DEF QueryAnswered, Typed
  <1> QED BY <1>1, <1>2, <1>3, <1>4, <1>5, <1>6, <1>7, <1>8, <1>9, <1>10, <1>11 DEF Client

LEMMA TypesStep == Typed /\ [Next]_vars => Typed'
  <1> SUFFICES ASSUME Typed, [Next]_vars PROVE Typed'
    OBVIOUS
  <1>1. CASE Tmux
    BY <1>1, TmuxTyped
  <1>2. CASE Client
    BY <1>2, ClientTyped
  <1>3. CASE Resize
    <2>1. CASE pane.seeding
      <3>1. [pane EXCEPT !.reseed = TRUE] \in Panes
        BY DEF Typed, Panes
      <3> QED BY <1>3, <2>1, <3>1 DEF Resize, Typed
    <2>2. CASE ~pane.seeding
      <3>1. pane' \in Panes /\ paused' \in BOOLEAN /\ outgoing' \in Seq(Batch)
        BY <1>3, <2>2, SeedPaneTyped DEF Resize, Typed
      <3> QED BY <1>3, <3>1 DEF Resize, Typed
    <2> QED BY <2>1, <2>2
  <1>4. CASE Query
    <2>1. [kind |-> "query"] \in Batch
      BY DEF Batch
    <2>2. outgoing' \in Seq(Batch)
      BY <1>4, <2>1, AppendProperties DEF Query, Typed
    <2> QED BY <1>4, <2>2 DEF Query, Typed
  <1>5. CASE UNCHANGED vars
    BY <1>5 DEF vars, client, Typed
  <1> QED BY <1>1, <1>2, <1>3, <1>4, <1>5 DEF Next

-----------------------------------------------------------------------------
(* The alignment of what is expected with what is on its way.              *)

LineStart(e, q) == q = Len(e) + 1 \/ e[q].of \in {"capture", "query"}

\* Responses e[p] to e[q-1] are those that message m settles.  A failed block
\* settles those of the rest of its line too.
Settles(m, e, p, q) ==
    IF m.kind # "block" THEN q = p
    ELSE /\ p <= Len(e) /\ e[p] = m.answers
         /\ IF ~m.failed THEN q = p + 1
            ELSE LET g == m.answers.gen
                 IN  /\ q <= Len(e) + 1 /\ LineStart(e, q)
                     /\ \/ /\ m.answers.of = "capture"
                           /\ p < Len(e) /\ e[p + 1] = [of |-> "cursor", gen |-> g]
                           /\ \/ q = p + 2
                              \/ q = p + 3 /\ e[p + 2] = [of |-> "resume", gen |-> g]
                        \/ /\ m.answers.of = "cursor"
                           /\ \/ q = p + 1
                              \/ q = p + 2 /\ e[p + 1] = [of |-> "resume", gen |-> g]
                        \/ m.answers.of = "resume" /\ q = p + 1

\* Responses e[p] to e[q-1] are those of the line of batch b.
Asks(b, e, p, q) ==
    /\ q = p + Len(Responses(b)) /\ q <= Len(e) + 1
    /\ \A i \in 1..Len(Responses(b)) : e[p + i - 1] = Responses(b)[i]

\* The messages in w settle e up to, but without, e[p].
ArrivalsTo(w, e, p) ==
    \E h \in [1..Len(w) + 1 -> Nat] :
        /\ h[1] = 1 /\ h[Len(w) + 1] = p
        /\ \A i \in 1..Len(w) : Settles(w[i], e, h[i], h[i + 1])
        /\ \A i, j \in 1..Len(w) + 1 : i <= j => h[i] <= h[j]

\* The lines in c ask for all of e from e[p] on.
LinesFrom(c, e, p) ==
    \E k \in [1..Len(c) + 1 -> Nat] :
        /\ k[1] = p /\ k[Len(c) + 1] = Len(e) + 1
        /\ \A i \in 1..Len(c) : Asks(c[i], e, k[i], k[i + 1])
        /\ \A i, j \in 1..Len(c) + 1 : i <= j => k[i] <= k[j]

\* Everything expected is asked for by a line not run yet or settled by a block
\* on its way, in this order.
Aligned == \E p \in Nat : ArrivalsTo(wire, expected, p) /\ LinesFrom(tmux.commands, expected, p)

-----------------------------------------------------------------------------
(* A message more, a line less.                                            *)

LEMMA SettlesForward ==
    ASSUME NEW m \in Message, NEW e, NEW p \in Nat, NEW q \in Nat, Settles(m, e, p, q)
    PROVE  p <= q
  BY DEF Settles

LEMMA OneMessageMore ==
    ASSUME NEW w \in Seq(Message), NEW m \in Message, NEW e, NEW p \in Nat, NEW q \in Nat,
           ArrivalsTo(w, e, p), Settles(m, e, p, q)
    PROVE  ArrivalsTo(Append(w, m), e, q)
  <1> DEFINE w2 == Append(w, m)
             n == Len(w)
  <1> PICK h \in [1..n + 1 -> Nat] :
        /\ h[1] = 1 /\ h[n + 1] = p
        /\ \A i \in 1..n : Settles(w[i], e, h[i], h[i + 1])
        /\ \A i, j \in 1..n + 1 : i <= j => h[i] <= h[j]
    BY DEF ArrivalsTo
  <1> DEFINE g == [i \in 1..n + 2 |-> IF i = n + 2 THEN q ELSE h[i]]
  <1>1. n \in Nat /\ Len(w2) = n + 1 /\ w2[n + 1] = m /\ \A i \in 1..n : w2[i] = w[i]
    BY AppendProperties, LenProperties
  <1>2. p <= q
    BY SettlesForward
  <1> HIDE DEF w2, n
  <1>3. g \in [1..n + 2 -> Nat] /\ g[1] = 1 /\ g[n + 2] = q /\ g[n + 1] = p
    BY <1>1
  <1>4. \A i \in 1..n + 1 : g[i] = h[i]
    BY <1>1
  <1>5. ASSUME NEW i \in 1..n + 1 PROVE Settles(w2[i], e, g[i], g[i + 1])
    <2>1. CASE i = n + 1
      BY <1>1, <1>3, <2>1
    <2>2. CASE i \in 1..n
      BY <1>1, <1>4, <2>2
    <2> QED BY <1>1, <2>1, <2>2
  <1>6. ASSUME NEW i \in 1..n + 2, NEW j \in 1..n + 2, i <= j PROVE g[i] <= g[j]
    <2>1. CASE j = n + 2 /\ i # n + 2
      <3>1. h[i] <= h[n + 1] /\ h[i] \in Nat
        BY <1>1, <2>1
      <3> QED BY <1>1, <1>2, <1>3, <1>4, <2>1, <3>1
    <2>2. CASE j # n + 2
      BY <1>1, <1>4, <1>6, <2>2
    <2>3. CASE i = n + 2
      BY <1>1, <1>3, <1>6, <2>3
    <2> QED BY <2>1, <2>2, <2>3
  <1> HIDE DEF g
  <1>7. Len(w2) + 1 = n + 2
    BY <1>1
  <1>8. ArrivalsTo(w2, e, q)
    BY <1>1, <1>3, <1>5, <1>6, <1>7 DEF ArrivalsTo
  <1> QED BY <1>8 DEF w2

LEMMA OneLineLess ==
    ASSUME NEW c \in Seq(Batch), c # <<>>, NEW e, NEW p \in Nat, LinesFrom(c, e, p)
    PROVE  \E q \in Nat : Asks(Head(c), e, p, q) /\ LinesFrom(Tail(c), e, q)
  <1> DEFINE n == Len(c)
  <1> PICK k \in [1..n + 1 -> Nat] :
        /\ k[1] = p /\ k[n + 1] = Len(e) + 1
        /\ \A i \in 1..n : Asks(c[i], e, k[i], k[i + 1])
        /\ \A i, j \in 1..n + 1 : i <= j => k[i] <= k[j]
    BY DEF LinesFrom
  <1>1. n \in Nat \ {0} /\ Len(Tail(c)) = n - 1 /\ (\A i \in 1..n - 1 : Tail(c)[i] = c[i + 1])
        /\ Head(c) = c[1]
    BY HeadTailProperties, EmptySeq
  <1> DEFINE t == Tail(c)
             g == [i \in 1..n |-> k[i + 1]]
  <1> HIDE DEF n, t
  <1>2. g \in [1..n -> Nat] /\ g[n] = Len(e) + 1 /\ g[1] = k[2] /\ k[2] \in Nat
    BY <1>1
  <1>3. \A i \in 1..n - 1 : Asks(t[i], e, g[i], g[i + 1])
    BY <1>1 DEF t
  <1>4. \A i, j \in 1..n : i <= j => g[i] <= g[j]
    BY <1>1
  <1>5. Len(t) = n - 1 /\ Len(t) + 1 = n
    BY <1>1 DEF t
  <1> HIDE DEF g
  <1>6. LinesFrom(t, e, k[2])
    BY <1>2, <1>3, <1>4, <1>5 DEF LinesFrom
  <1>7. Asks(Head(c), e, p, k[2])
    BY <1>1
  <1> QED BY <1>2, <1>6, <1>7 DEF t

\* What a line asks for begins with a snapshot or is a query.
LEMMA ResponsesOf ==
    ASSUME NEW b \in Batch
    PROVE  /\ b.kind = "query" => Responses(b) = <<[of |-> "query"]>>
           /\ b.kind = "seed" =>
                /\ Len(Responses(b)) = IF b.resume THEN 3 ELSE 2
                /\ Responses(b)[1] = [of |-> "capture", gen |-> b.gen]
                /\ Responses(b)[2] = [of |-> "cursor", gen |-> b.gen]
                /\ b.resume => Responses(b)[3] = [of |-> "resume", gen |-> b.gen]
           /\ Len(Responses(b)) \in 1..3
           /\ Responses(b)[1].of \in {"capture", "query"}
  <1>1. CASE b.kind = "query"
    BY <1>1 DEF Responses
  <1>2. CASE b.kind = "seed"
    <2> DEFINE c == [of |-> "capture", gen |-> b.gen]
               d == [of |-> "cursor", gen |-> b.gen]
               r == [of |-> "resume", gen |-> b.gen]
    <2>1. Responses(b) = <<c, d>> \o (IF b.resume THEN <<r>> ELSE <<>>)
      BY <1>2 DEF Responses
    <2>2. c.of = "capture"
      OBVIOUS
    <2>3. CASE b.resume
      <3> HIDE DEF c, d, r
      <3>1. Responses(b) = <<c, d>> \o <<r>>
        BY <2>1, <2>3
      <3>2. Len(Responses(b)) = 3 /\ Responses(b)[1] = c /\ Responses(b)[2] = d
            /\ Responses(b)[3] = r
        BY <3>1
      <3> QED BY <1>2, <2>2, <2>3, <3>2 DEF c, d, r
    <2>4. CASE ~b.resume
      <3> HIDE DEF c, d, r
      <3>1. Responses(b) = <<c, d>> \o <<>>
        BY <2>1, <2>4
      <3>2. Len(Responses(b)) = 2 /\ Responses(b)[1] = c /\ Responses(b)[2] = d
        BY <3>1
      <3> QED BY <1>2, <2>2, <2>4, <3>2 DEF c, d, r
    <2> QED BY <2>3, <2>4
  <1> QED BY <1>1, <1>2 DEF Batch

LEMMA LinesStart ==
    ASSUME NEW c \in Seq(Batch), NEW e \in Seq(Response), NEW p \in Nat, LinesFrom(c, e, p)
    PROVE  LineStart(e, p)
  <1>1. CASE c = <<>>
    BY <1>1 DEF LinesFrom, LineStart
  <1>2. CASE c # <<>>
    <2>1. PICK q \in Nat : Asks(Head(c), e, p, q)
      BY <1>2, OneLineLess
    <2>2. Head(c) \in Batch
      BY <1>2, HeadTailProperties
    <2> DEFINE r == Responses(Head(c))
    <2>3. Len(r) \in 1..3 /\ r[1].of \in {"capture", "query"}
      BY <2>2, ResponsesOf
    <2>4. \A i \in 1..Len(r) : e[p + i - 1] = r[i]
      BY <2>1 DEF Asks
    <2> HIDE DEF r
    <2>5. e[p + 1 - 1] = r[1]
      BY <2>3, <2>4
    <2>6. e[p] = r[1]
      BY <2>5
    <2> QED BY <2>3, <2>6 DEF LineStart
  <1> QED BY <1>1, <1>2

-----------------------------------------------------------------------------
(* A line more: what is expected grows by what the line asks for.          *)

LEMMA SettlesLonger ==
    ASSUME NEW m \in Message, NEW e \in Seq(Response), NEW r \in Seq(Response),
           Len(r) \in 1..3, r[1].of \in {"capture", "query"},
           NEW p \in Nat \ {0}, NEW q \in Nat, Settles(m, e, p, q)
    PROVE  Settles(m, e \o r, p, q)
  <1> DEFINE e2 == e \o r
  <1>1. /\ Len(e2) = Len(e) + Len(r) /\ Len(e) \in Nat
        /\ (\A i \in 1..Len(e) : e2[i] = e[i]) /\ e2[Len(e) + 1] = r[1]
    <2>1. Len(e) \in Nat
      BY LenProperties
    <2>2. /\ Len(e2) = Len(e) + Len(r)
          /\ \A i \in 1..Len(e) + Len(r) : e2[i] = IF i <= Len(e) THEN e[i] ELSE r[i - Len(e)]
      BY ConcatProperties
    <2> DEFINE n == Len(e)
               k == Len(r)
    <2> HIDE DEF e2, n, k
    <2>3. n \in Nat /\ k \in 1..3
      BY <2>1 DEF n, k
    <2>4. Len(e2) = n + k
          /\ \A i \in 1..n + k : e2[i] = IF i <= n THEN e[i] ELSE r[i - n]
      BY <2>2 DEF n, k
    <2>5. \A i \in 1..n : e2[i] = e[i]
      BY <2>3, <2>4
    <2>6. n + 1 - n = 1 /\ n + 1 \in 1..n + k /\ ~(n + 1 <= n)
      BY <2>3
    <2>7. e2[n + 1] = r[1]
      <3> DEFINE j == n + 1
      <3> HIDE DEF j
      <3>1. j \in 1..n + k /\ ~(j <= n) /\ j - n = 1
        BY <2>3, <2>6 DEF j
      <3>2. e2[j] = IF j <= n THEN e[j] ELSE r[j - n]
        BY <2>4, <3>1, Zenon
      <3>3. e2[j] = r[j - n]
        BY <3>1, <3>2, Zenon
      <3>4. e2[j] = r[1]
        BY <3>1, <3>3, Zenon
      <3> QED BY <3>4 DEF j
    <2> QED BY <2>3, <2>4, <2>5, <2>7 DEF n, k
  <1> HIDE DEF e2
  <1>2. CASE m.kind # "block"
    BY <1>2 DEF Settles, e2
  <1>3. CASE m.kind = "block" /\ ~m.failed
    BY <1>1, <1>3 DEF Settles, e2
  <1>4. CASE m.kind = "block" /\ m.failed
    <2>1. LineStart(e2, q)
      <3>1. q <= Len(e) + 1 /\ LineStart(e, q) /\ q \in Nat \ {0}
        BY <1>4 DEF Settles
      <3> QED BY <1>1, <3>1 DEF LineStart
    <2> DEFINE g == m.answers.gen
               a == m.answers.of
    <2>2. /\ p <= Len(e) /\ e[p] = m.answers /\ q <= Len(e) + 1
          /\ \/ /\ a = "capture"
                /\ p < Len(e) /\ e[p + 1] = [of |-> "cursor", gen |-> g]
                /\ \/ q = p + 2
                   \/ q = p + 3 /\ e[p + 2] = [of |-> "resume", gen |-> g]
             \/ /\ a = "cursor"
                /\ \/ q = p + 1
                   \/ q = p + 2 /\ e[p + 1] = [of |-> "resume", gen |-> g]
             \/ a = "resume" /\ q = p + 1
      BY <1>4 DEF Settles
    <2> HIDE DEF g, a
    <2>3. /\ p <= Len(e2) /\ e2[p] = m.answers /\ q <= Len(e2) + 1
          /\ p < Len(e) => p < Len(e2) /\ e2[p + 1] = e[p + 1]
          /\ q = p + 3 => e2[p + 2] = e[p + 2]
          /\ q = p + 2 => e2[p + 1] = e[p + 1]
      <3> DEFINE n == Len(e)
      <3> HIDE DEF n
      <3>1. n \in Nat /\ Len(e2) \in Nat /\ Len(e2) >= n + 1 /\ \A i \in 1..n : e2[i] = e[i]
        BY <1>1 DEF n
      <3>2. p <= n /\ q <= n + 1
        BY <2>2 DEF n
      <3>3. p \in 1..n /\ (p < n => p + 1 \in 1..n) /\ (q = p + 3 => p + 2 \in 1..n)
            /\ (q = p + 2 => p + 1 \in 1..n)
        BY <3>1, <3>2
      <3>4. e2[p] = m.answers
        BY <2>2, <3>1, <3>3
      <3>5. p <= Len(e2) /\ q <= Len(e2) + 1 /\ (p < n => p < Len(e2))
        BY <3>1, <3>2
      <3>6. (p < n => e2[p + 1] = e[p + 1]) /\ (q = p + 3 => e2[p + 2] = e[p + 2])
            /\ (q = p + 2 => e2[p + 1] = e[p + 1])
        BY <3>1, <3>3
      <3> QED BY <3>4, <3>5, <3>6 DEF n
    <2>4. Settles(m, e2, p, q)
      BY <1>4, <2>1, <2>2, <2>3 DEF Settles, g, a
    <2> QED BY <2>4 DEF e2
  <1> QED BY <1>2, <1>3, <1>4

LEMMA ArrivalsLonger ==
    ASSUME NEW w \in Seq(Message), NEW e \in Seq(Response), NEW r \in Seq(Response),
           Len(r) \in 1..3, r[1].of \in {"capture", "query"},
           NEW p \in Nat, ArrivalsTo(w, e, p)
    PROVE  ArrivalsTo(w, e \o r, p)
  <1> PICK h \in [1..Len(w) + 1 -> Nat] :
        /\ h[1] = 1 /\ h[Len(w) + 1] = p
        /\ \A i \in 1..Len(w) : Settles(w[i], e, h[i], h[i + 1])
        /\ \A i, j \in 1..Len(w) + 1 : i <= j => h[i] <= h[j]
    BY DEF ArrivalsTo
  <1>1. ASSUME NEW i \in 1..Len(w) PROVE Settles(w[i], e \o r, h[i], h[i + 1])
    <2>1. Len(w) \in Nat /\ w[i] \in Message
      BY LenProperties
    <2>2. h[1] <= h[i] /\ h[i] \in Nat /\ h[i + 1] \in Nat
      BY <2>1
    <2>3. h[i] \in Nat \ {0}
      BY <2>2
    <2> QED BY <2>1, <2>2, <2>3, SettlesLonger
  <1> QED BY <1>1 DEF ArrivalsTo

LEMMA LinesLonger ==
    ASSUME NEW c \in Seq(Batch), NEW b \in Batch, NEW e \in Seq(Response),
           NEW p \in Nat \ {0}, LinesFrom(c, e, p)
    PROVE  LinesFrom(Append(c, b), e \o Responses(b), p)
  <1> DEFINE c2 == Append(c, b)
             n == Len(c)
             r == Responses(b)
             e2 == e \o r
  <1> PICK k \in [1..n + 1 -> Nat] :
        /\ k[1] = p /\ k[n + 1] = Len(e) + 1
        /\ \A i \in 1..n : Asks(c[i], e, k[i], k[i + 1])
        /\ \A i, j \in 1..n + 1 : i <= j => k[i] <= k[j]
    BY DEF LinesFrom
  <1> DEFINE q == Len(e2) + 1
             g == [i \in 1..n + 2 |-> IF i = n + 2 THEN q ELSE k[i]]
  <1>1. n \in Nat /\ Len(c2) = n + 1 /\ c2[n + 1] = b /\ \A i \in 1..n : c2[i] = c[i]
    BY AppendProperties, LenProperties
  <1>2. r \in Seq(Response) /\ Len(r) \in 1..3
    BY ResponsesTyped, ResponsesOf
  <1>3. /\ Len(e2) = Len(e) + Len(r) /\ Len(e) \in Nat /\ e2 \in Seq(Response)
        /\ \A i \in 1..Len(e) + Len(r) : e2[i] = IF i <= Len(e) THEN e[i] ELSE r[i - Len(e)]
    <2> HIDE DEF r
    <2> QED BY <1>2, ConcatProperties, LenProperties
  <1> HIDE DEF c2, n, r, e2
  <1>4. g \in [1..n + 2 -> Nat] /\ g[1] = p /\ g[n + 2] = q /\ g[n + 1] = Len(e) + 1
    BY <1>1, <1>2, <1>3
  <1>5. \A i \in 1..n + 1 : g[i] = k[i]
    BY <1>1
  <1> HIDE DEF q
  <1>6. ASSUME NEW i \in 1..n + 1 PROVE Asks(c2[i], e2, g[i], g[i + 1])
    <2>1. CASE i = n + 1
      <3>1. q = Len(e) + 1 + Len(r)
        BY <1>2, <1>3 DEF q
      <3>2. \A j \in 1..Len(r) : e2[Len(e) + 1 + j - 1] = r[j]
        <4> TAKE j \in 1..Len(r)
        <4>1. Len(e) + 1 + j - 1 = Len(e) + j /\ Len(e) + j \in 1..Len(e) + Len(r)
              /\ ~(Len(e) + j <= Len(e)) /\ Len(e) + j - Len(e) = j
          BY <1>2, <1>3
        <4> QED BY <1>3, <4>1
      <3>3. q <= Len(e2) + 1
        BY <1>3, <3>1, <1>2 DEF q
      <3>4. Asks(b, e2, Len(e) + 1, q)
        BY <3>1, <3>2, <3>3 DEF Asks, r
      <3> QED BY <1>1, <1>4, <2>1, <3>4
    <2>2. CASE i \in 1..n
      <3>1. Asks(c[i], e, k[i], k[i + 1]) /\ k[i] \in Nat /\ k[1] <= k[i]
        BY <1>1, <2>2, SMTT(30)
      <3> DEFINE s == Responses(c[i])
      <3>2. c[i] \in Batch
        BY <1>1, <2>2, LenProperties DEF n
      <3>3. Len(s) \in 1..3
        BY <3>2, ResponsesOf
      <3>4. k[i + 1] = k[i] + Len(s) /\ k[i + 1] <= Len(e) + 1
            /\ \A j \in 1..Len(s) : e[k[i] + j - 1] = s[j]
        BY <3>1 DEF Asks
      <3> HIDE DEF s
      <3>5. \A j \in 1..Len(s) : e2[k[i] + j - 1] = s[j]
        <4> TAKE j \in 1..Len(s)
        <4>1. k[i] + j - 1 \in 1..Len(e)
          BY <1>3, <3>1, <3>3, <3>4, SMTT(30)
        <4>2. e2[k[i] + j - 1] = e[k[i] + j - 1]
          BY <1>2, <1>3, <4>1
        <4> QED BY <3>4, <4>2
      <3>6. k[i + 1] <= Len(e2) + 1
        BY <1>2, <1>3, <3>1, <3>3, <3>4
      <3>7. Asks(c[i], e2, k[i], k[i + 1])
        BY <3>4, <3>5, <3>6 DEF Asks, s
      <3> QED BY <1>1, <1>5, <2>2, <3>7
    <2> QED BY <1>1, <2>1, <2>2
  <1>7. ASSUME NEW i \in 1..n + 2, NEW j \in 1..n + 2, i <= j PROVE g[i] <= g[j]
    <2>1. CASE j = n + 2 /\ i # n + 2
      <3>1. k[i] <= k[n + 1] /\ k[i] \in Nat
        BY <1>1, <2>1
      <3>2. Len(e) + 1 <= q /\ q \in Nat
        BY <1>2, <1>3 DEF q
      <3> QED BY <1>1, <1>3, <1>4, <1>5, <2>1, <3>1, <3>2
    <2>2. CASE j # n + 2
      BY <1>1, <1>5, <1>7, <2>2
    <2>3. CASE i = n + 2
      BY <1>1, <1>4, <1>7, <2>3
    <2> QED BY <2>1, <2>2, <2>3
  <1> HIDE DEF g
  <1>8. Len(c2) + 1 = n + 2 /\ g[Len(c2) + 1] = Len(e2) + 1
    BY <1>1, <1>4 DEF q
  <1>9. LinesFrom(c2, e2, p)
    BY <1>1, <1>4, <1>6, <1>7, <1>8 DEF LinesFrom
  <1> QED BY <1>9 DEF c2, e2, r

-----------------------------------------------------------------------------
(* A message less: what it settles is not expected any more.               *)

Rest(e, q) == SubSeq(e, q, Len(e))

LEMMA RestOf ==
    ASSUME NEW e \in Seq(Response), NEW q \in Nat \ {0}, q <= Len(e) + 1
    PROVE  /\ Rest(e, q) \in Seq(Response)
           /\ Len(Rest(e, q)) = Len(e) + 1 - q
           /\ \A i \in 1..Len(e) + 1 - q : Rest(e, q)[i] = e[q + i - 1]
  <1>1. Len(e) \in Nat /\ \A i \in q..Len(e) : e[i] \in Response
    BY LenProperties
  <1>2. /\ Rest(e, q) \in Seq(Response)
        /\ Len(Rest(e, q)) = IF q <= Len(e) THEN Len(e) - q + 1 ELSE 0
        /\ \A i \in 1..Len(e) - q + 1 : Rest(e, q)[i] = e[q + i - 1]
    BY <1>1, SubSeqProperties DEF Rest
  <1>3. Len(e) + 1 - q = Len(e) - q + 1
    BY <1>1
  <1>4. Len(Rest(e, q)) = Len(e) + 1 - q
    <2>1. CASE q <= Len(e)
      BY <1>2, <1>3, <2>1
    <2>2. CASE ~(q <= Len(e))
      <3>1. Len(e) + 1 - q = 0
        BY <1>1, <2>2
      <3> QED BY <1>2, <2>2, <3>1
    <2> QED BY <2>1, <2>2
  <1>5. \A i \in 1..Len(e) + 1 - q : Rest(e, q)[i] = e[q + i - 1]
    BY <1>2, <1>3
  <1> QED BY <1>2, <1>4, <1>5

LEMMA SettlesShorter ==
    ASSUME NEW m \in Message, NEW e \in Seq(Response), NEW q \in Nat \ {0}, q <= Len(e) + 1,
           NEW a \in Nat, NEW b \in Nat, q <= a, Settles(m, e, a, b)
    PROVE  Settles(m, Rest(e, q), a - q + 1, b - q + 1)
  <1> DEFINE s == Rest(e, q)
             n == Len(e)
             x == a - q + 1
             y == b - q + 1
  <1>1. /\ n \in Nat /\ Len(s) = n + 1 - q
        /\ \A i \in 1..n + 1 - q : s[i] = e[q + i - 1]
    BY RestOf, LenProperties
  <1> HIDE DEF s, n
  <1>2. \A i \in q..n : s[i - q + 1] = e[i]
    <2> TAKE i \in q..n
    <2>1. i - q + 1 \in 1..n + 1 - q /\ q + (i - q + 1) - 1 = i
      BY <1>1
    <2> QED BY <1>1, <2>1
  <1>3. CASE m.kind # "block"
    BY <1>3 DEF Settles, s
  <1>4. CASE m.kind = "block" /\ ~m.failed
    <2>1. a <= n /\ e[a] = m.answers /\ b = a + 1
      BY <1>4 DEF Settles, n
    <2>2. x <= Len(s) /\ y = x + 1 /\ a \in q..n
      BY <1>1, <2>1
    <2>3. s[x] = m.answers
      BY <1>2, <2>1, <2>2
    <2> QED BY <1>4, <2>2, <2>3 DEF Settles, s
  <1>5. CASE m.kind = "block" /\ m.failed
    <2> DEFINE g == m.answers.gen
               o == m.answers.of
               c == [of |-> "cursor", gen |-> g]
               r == [of |-> "resume", gen |-> g]
    <2>1. /\ a <= n /\ e[a] = m.answers /\ b <= n + 1 /\ LineStart(e, b)
          /\ \/ /\ o = "capture" /\ a < n /\ e[a + 1] = c
                /\ b = a + 2 \/ (b = a + 3 /\ e[a + 2] = r)
             \/ /\ o = "cursor"
                /\ b = a + 1 \/ (b = a + 2 /\ e[a + 1] = r)
             \/ o = "resume" /\ b = a + 1
      BY <1>5 DEF Settles, n
    <2> HIDE DEF g, o, c, r
    <2>2. b \in a + 1..a + 3
      BY <2>1
    <2>3. x <= Len(s) /\ s[x] = m.answers /\ y <= Len(s) + 1
      <3>1. a <= n /\ b <= n + 1 /\ e[a] = m.answers
        BY <2>1
      <3>2. x <= Len(s) /\ y <= Len(s) + 1 /\ a \in q..n
        BY <1>1, <3>1
      <3>3. s[x] = m.answers
        BY <1>2, <3>1, <3>2
      <3> QED BY <3>2, <3>3
    <2>4. LineStart(s, y)
      <3>1. CASE b = n + 1
        BY <1>1, <3>1 DEF LineStart
      <3>2. CASE b \in q..n
        <4>1. s[y] = e[b]
          BY <1>2, <3>2
        <4>2. e[b].of \in {"capture", "query"}
          BY <1>1, <2>1, <3>2 DEF LineStart, n
        <4> QED BY <4>1, <4>2 DEF LineStart
      <3> QED BY <1>1, <2>1, <2>2, <3>1, <3>2
    <2>5. \/ /\ o = "capture" /\ x < Len(s) /\ s[x + 1] = c
             /\ y = x + 2 \/ (y = x + 3 /\ s[x + 2] = r)
          \/ /\ o = "cursor"
             /\ y = x + 1 \/ (y = x + 2 /\ s[x + 1] = r)
          \/ o = "resume" /\ y = x + 1
      <3>1. a + 1 <= n => s[a + 1 - q + 1] = e[a + 1]
        BY <1>1, <1>2
      <3>2. a + 2 <= n => s[a + 2 - q + 1] = e[a + 2]
        BY <1>1, <1>2
      <3>3. a + 1 - q + 1 = x + 1 /\ a + 2 - q + 1 = x + 2
        OBVIOUS
      <3> QED BY <1>1, <2>1, <3>1, <3>2, <3>3
    <2> HIDE DEF x, y
    <2>6. Settles(m, s, x, y)
      BY <1>5, <2>3, <2>4, <2>5 DEF Settles, g, o, c, r
    <2> QED BY <2>6 DEF s, x, y
  <1> QED BY <1>3, <1>4, <1>5

LEMMA AsksShorter ==
    ASSUME NEW d \in Batch, NEW e \in Seq(Response), NEW q \in Nat \ {0}, q <= Len(e) + 1,
           NEW a \in Nat, NEW b \in Nat, q <= a, Asks(d, e, a, b)
    PROVE  Asks(d, Rest(e, q), a - q + 1, b - q + 1)
  <1> DEFINE s == Rest(e, q)
             n == Len(e)
             r == Responses(d)
  <1>1. /\ n \in Nat /\ Len(s) = n + 1 - q
        /\ \A i \in 1..n + 1 - q : s[i] = e[q + i - 1]
    BY RestOf, LenProperties
  <1>2. Len(r) \in 1..3
    BY ResponsesOf
  <1>3. b = a + Len(r) /\ b <= n + 1 /\ \A i \in 1..Len(r) : e[a + i - 1] = r[i]
    BY DEF Asks
  <1> HIDE DEF s, n, r
  <1>4. \A i \in 1..Len(r) : s[(a - q + 1) + i - 1] = r[i]
    <2> TAKE i \in 1..Len(r)
    <2> DEFINE j == (a - q + 1) + i - 1
    <2>1. j \in 1..n + 1 - q /\ q + j - 1 = a + i - 1
      BY <1>1, <1>2, <1>3, SMTT(30)
    <2> QED BY <1>1, <1>3, <2>1
  <1>5. b - q + 1 = (a - q + 1) + Len(r) /\ b - q + 1 <= Len(s) + 1
    BY <1>1, <1>2, <1>3
  <1> QED BY <1>4, <1>5 DEF Asks, s, r

\* The head of the wire settles a beginning of what is expected, and the rest of
\* the wire and the lines are aligned with the rest of it.
LEMMA OneMessageLess ==
    ASSUME Typed, Aligned, wire # <<>>
    PROVE  \E q \in Nat \ {0} :
              /\ q <= Len(expected) + 1 /\ Settles(Head(wire), expected, 1, q)
              /\ \E p \in Nat : /\ ArrivalsTo(Tail(wire), Rest(expected, q), p)
                               /\ LinesFrom(tmux.commands, Rest(expected, q), p)
  <1> DEFINE w == wire
             n == Len(wire)
             e == expected
             c == tmux.commands
             k == Len(tmux.commands)
  <1>1. w \in Seq(Message) /\ e \in Seq(Response) /\ c \in Seq(Batch)
    BY DEF Typed
  <1>2. /\ n \in Nat \ {0} /\ Head(w) = w[1] /\ Len(Tail(w)) = n - 1
        /\ (\A i \in 1..n - 1 : Tail(w)[i] = w[i + 1])
        /\ (\A i \in 1..n : w[i] \in Message)
    BY <1>1, HeadTailProperties, EmptySeq, LenProperties
  <1>3. k = Len(c) /\ k \in Nat /\ (\A i \in 1..k : c[i] \in Batch) /\ Len(e) \in Nat
    BY <1>1, LenProperties
  <1>4. PICK p \in Nat : ArrivalsTo(w, e, p) /\ LinesFrom(c, e, p)
    BY DEF Aligned
  <1>5. PICK h \in [1..n + 1 -> Nat] :
        /\ h[1] = 1 /\ h[n + 1] = p
        /\ \A i \in 1..n : Settles(w[i], e, h[i], h[i + 1])
        /\ \A i, j \in 1..n + 1 : i <= j => h[i] <= h[j]
    BY <1>4 DEF ArrivalsTo
  <1>6. PICK l \in [1..k + 1 -> Nat] :
        /\ l[1] = p /\ l[k + 1] = Len(e) + 1
        /\ \A i \in 1..k : Asks(c[i], e, l[i], l[i + 1])
        /\ \A i, j \in 1..k + 1 : i <= j => l[i] <= l[j]
    BY <1>4 DEF LinesFrom
  <1> DEFINE q == h[2]
             s == Rest(e, q)
             g == [i \in 1..n |-> h[i + 1] - q + 1]
             f == [i \in 1..k + 1 |-> l[i] - q + 1]
             t == Tail(w)
  <1> HIDE DEF w, n, e, c, k
  <1>7. /\ q \in Nat \ {0} /\ q <= p /\ p <= Len(e) + 1
        /\ (\A i \in 1..n : h[i + 1] \in Nat /\ q <= h[i + 1])
        /\ (\A i \in 1..k + 1 : l[i] \in Nat /\ p <= l[i])
    <2>1. 2 \in 1..n + 1 /\ 1 \in 1..n + 1 /\ n + 1 \in 1..n + 1 /\ 2 <= n + 1
      BY <1>2
    <2>2. q \in Nat /\ h[1] <= q /\ q <= h[n + 1]
      BY <1>5, <2>1
    <2>3. 1 \in 1..k + 1 /\ k + 1 \in 1..k + 1 /\ 1 <= k + 1
      BY <1>3
    <2>4. l[1] <= l[k + 1]
      BY <1>6, <2>3
    <2>5. \A i \in 1..n : h[i + 1] \in Nat /\ q <= h[i + 1]
      BY <1>2, <1>5, <2>1, SMTT(30)
    <2>6. \A i \in 1..k + 1 : l[i] \in Nat /\ p <= l[i]
      BY <1>3, <1>6, <2>3, SMTT(30)
    <2> HIDE DEF q
    <2> QED BY <1>3, <1>5, <1>6, <2>2, <2>4, <2>5, <2>6
  <1>8. s \in Seq(Response) /\ Len(s) = Len(e) + 1 - q
    <2> HIDE DEF q
    <2>1. q \in Nat \ {0} /\ q <= Len(e) + 1
      BY <1>3, <1>7
    <2> QED BY <1>1, <2>1, RestOf
  <1>9. Settles(Head(w), e, 1, q)
    BY <1>2, <1>5
  <1> HIDE DEF q, s
  <1>10. ArrivalsTo(t, s, p - q + 1)
    <2>1. g \in [1..n -> Nat] /\ g[1] = 1 /\ g[n] = p - q + 1
      <3>1. \A i \in 1..n : h[i + 1] - q + 1 \in Nat
        BY <1>7
      <3>2. 1 \in 1..n /\ n \in 1..n /\ h[1 + 1] = q
        BY <1>2 DEF q
      <3>3. g[1] = q - q + 1 /\ g[n] = p - q + 1
        BY <1>5, <3>2
      <3> QED BY <1>7, <3>1, <3>3
    <2>2. ASSUME NEW i \in 1..n - 1 PROVE Settles(t[i], s, g[i], g[i + 1])
      <3>1. /\ i + 1 \in 1..n /\ i \in 1..n /\ h[i + 1] \in Nat /\ h[i + 2] \in Nat
            /\ q <= h[i + 1]
        BY <1>2, <1>5, <1>7
      <3>2. Settles(w[i + 1], e, h[i + 1], h[i + 2])
        BY <1>2, <1>5, <3>1
      <3>3. w[i + 1] \in Message /\ q <= Len(e) + 1
        BY <1>2, <1>3, <1>7, <3>1
      <3>4. Settles(w[i + 1], s, h[i + 1] - q + 1, h[i + 2] - q + 1)
        BY <1>1, <1>7, <3>1, <3>2, <3>3, SettlesShorter DEF s
      <3>5. g[i] = h[i + 1] - q + 1 /\ g[i + 1] = h[i + 2] - q + 1
        BY <1>2, <3>1
      <3> QED BY <1>2, <3>4, <3>5
    <2>3. \A i, j \in 1..n : i <= j => g[i] <= g[j]
      BY <1>2, <1>5, <1>7
    <2>4. Len(t) = n - 1 /\ Len(t) + 1 = n
      BY <1>2
    <2> HIDE DEF g, t
    <2> QED BY <2>1, <2>2, <2>3, <2>4 DEF ArrivalsTo
  <1>11. LinesFrom(c, s, p - q + 1)
    <2>1. f \in [1..k + 1 -> Nat] /\ f[1] = p - q + 1 /\ f[k + 1] = Len(s) + 1
      <3>1. \A i \in 1..k + 1 : l[i] - q + 1 \in Nat
        BY <1>7
      <3>4. k \in Nat /\ Len(e) \in Nat /\ q \in Nat /\ Len(s) = Len(e) + 1 - q
        BY <1>3, <1>7, <1>8
      <3>2. 1 \in 1..k + 1 /\ k + 1 \in 1..k + 1 /\ Len(e) + 1 - q + 1 = Len(s) + 1
        BY <3>4
      <3>5. l[1] = p /\ l[k + 1] = Len(e) + 1
        BY <1>6
      <3>3. f[1] = p - q + 1 /\ f[k + 1] = Len(e) + 1 - q + 1
        BY <3>2, <3>4, <3>5
      <3> QED BY <3>1, <3>2, <3>3
    <2>2. ASSUME NEW i \in 1..k PROVE Asks(c[i], s, f[i], f[i + 1])
      <3>1. /\ i + 1 \in 1..k + 1 /\ i \in 1..k + 1 /\ l[i] \in Nat /\ l[i + 1] \in Nat
            /\ q <= l[i]
        BY <1>3, <1>7
      <3>2. Asks(c[i], e, l[i], l[i + 1])
        BY <1>6
      <3>3. c[i] \in Batch /\ q <= Len(e) + 1
        BY <1>3, <1>7
      <3>4. Asks(c[i], s, l[i] - q + 1, l[i + 1] - q + 1)
        BY <1>1, <1>7, <3>1, <3>2, <3>3, AsksShorter DEF s
      <3>5. f[i] = l[i] - q + 1 /\ f[i + 1] = l[i + 1] - q + 1
        BY <3>1
      <3> QED BY <3>4, <3>5
    <2>3. \A i, j \in 1..k + 1 : i <= j => f[i] <= f[j]
      BY <1>3, <1>6, <1>7
    <2> HIDE DEF f
    <2> QED BY <1>3, <2>1, <2>2, <2>3 DEF LinesFrom
  <1>12. p - q + 1 \in Nat /\ q <= Len(e) + 1
    BY <1>3, <1>7
  <1> QED BY <1>7, <1>9, <1>10, <1>11, <1>12 DEF s, t, w, e, c

-----------------------------------------------------------------------------
(* Each step keeps the alignment.                                          *)

LEMMA Started ==
    ASSUME NEW w \in Seq(Message), NEW e, NEW p \in Nat, ArrivalsTo(w, e, p)
    PROVE  p \in Nat \ {0}
  <1> PICK h \in [1..Len(w) + 1 -> Nat] :
        /\ h[1] = 1 /\ h[Len(w) + 1] = p
        /\ \A i, j \in 1..Len(w) + 1 : i <= j => h[i] <= h[j]
    BY DEF ArrivalsTo
  <1>1. Len(w) \in Nat
    BY LenProperties
  <1> QED BY <1>1

\* A notification settles nothing.
LEMMA NoticeSent ==
    ASSUME Typed, Aligned, NEW m \in Message, m.kind # "block",
           wire' = Append(wire, m), tmux'.commands = tmux.commands, expected' = expected
    PROVE  Aligned'
  <1>1. PICK p \in Nat : ArrivalsTo(wire, expected, p) /\ LinesFrom(tmux.commands, expected, p)
    BY DEF Aligned
  <1>2. Settles(m, expected, p, p)
    BY DEF Settles
  <1>3. ArrivalsTo(Append(wire, m), expected, p)
    BY <1>1, <1>2, OneMessageMore DEF Typed
  <1> QED BY <1>1, <1>3 DEF Aligned

\* A block answers the first response that its line still asks for.
LEMMA BlockSettles ==
    ASSUME NEW m, m.kind = "block", ~m.failed, NEW e, NEW p, p <= Len(e), e[p] = m.answers
    PROVE  Settles(m, e, p, p + 1)
  BY DEF Settles

LEMMA RunQueryAligned ==
    ASSUME Typed, Aligned, RunQuery
    PROVE  Aligned'
  <1> DEFINE c == tmux.commands
             e == expected
             b == Head(tmux.commands)
             m == [kind |-> "block", answers |-> [of |-> "query"], failed |-> FALSE, n |-> 0]
  <1>1. PICK p \in Nat : ArrivalsTo(wire, e, p) /\ LinesFrom(c, e, p)
    BY DEF Aligned
  <1>2. c \in Seq(Batch) /\ c # <<>> /\ e \in Seq(Response) /\ b \in Batch
    BY HeadTailProperties DEF Typed, RunQuery
  <1>3. PICK q \in Nat : Asks(b, e, p, q) /\ LinesFrom(Tail(c), e, q)
    BY <1>1, <1>2, OneLineLess
  <1>4. Responses(b) = <<[of |-> "query"]>>
    BY <1>2, ResponsesOf DEF RunQuery
  <1>5. Len(Responses(b)) = 1 /\ Responses(b)[1] = [of |-> "query"] /\ Len(e) \in Nat
    BY <1>2, <1>4, LenProperties
  <1>6. e[p + 1 - 1] = [of |-> "query"]
    BY <1>3, <1>5 DEF Asks
  <1>7. q = p + 1 /\ q <= Len(e) + 1
    BY <1>3, <1>5 DEF Asks
  <1>8. p <= Len(e) /\ e[p] = [of |-> "query"]
    BY <1>5, <1>6, <1>7
  <1>9. Settles(m, e, p, q)
    BY <1>7, <1>8 DEF Settles
  <1>10. m \in Message
    BY QueryBlockTyped
  <1> HIDE DEF m
  <1>11. ArrivalsTo(Append(wire, m), e, q)
    BY <1>1, <1>9, <1>10, OneMessageMore DEF Typed
  <1>12. wire' = Append(wire, m) /\ tmux'.commands = Tail(c) /\ expected' = e
    BY DEF RunQuery, Typed, client, m
  <1> QED BY <1>3, <1>11, <1>12 DEF Aligned

LEMMA RunSeedAligned ==
    ASSUME Typed, Aligned, NEW f \in {"none", "capture", "cursor", "resume"}, RunSeed(f)
    PROVE  Aligned'
  <1> DEFINE l == tmux.commands
             e == expected
             b == Head(tmux.commands)
             c == Block("capture", b, FALSE)
             d == Block("cursor", b, FALSE)
             r == Block("resume", b, FALSE)
             fc == Block("capture", b, TRUE)
             fd == Block("cursor", b, TRUE)
             fr == Block("resume", b, TRUE)
             k == [kind |-> "continue"]
             ac == [of |-> "capture", gen |-> b.gen]
             ad == [of |-> "cursor", gen |-> b.gen]
             ar == [of |-> "resume", gen |-> b.gen]
  <1>1. PICK p \in Nat : ArrivalsTo(wire, e, p) /\ LinesFrom(l, e, p)
    BY DEF Aligned
  <1>2. l \in Seq(Batch) /\ l # <<>> /\ e \in Seq(Response) /\ b \in Batch /\ b.kind = "seed"
        /\ Tail(l) \in Seq(Batch) /\ wire \in Seq(Message)
    BY HeadTailProperties DEF Typed, RunSeed
  <1>3. PICK q \in Nat : Asks(b, e, p, q) /\ LinesFrom(Tail(l), e, q)
    BY <1>1, <1>2, OneLineLess
  <1>4. /\ Len(Responses(b)) = IF b.resume THEN 3 ELSE 2
        /\ Responses(b)[1] = ac /\ Responses(b)[2] = ad
        /\ b.resume => Responses(b)[3] = ar
    BY <1>2, ResponsesOf
  <1>5. LineStart(e, q) /\ Len(e) \in Nat
    BY <1>2, <1>3, LinesStart, LenProperties
  <1>6. c \in Message /\ d \in Message /\ r \in Message
        /\ fc \in Message /\ fd \in Message /\ fr \in Message /\ k \in Message
    BY <1>2, BlockTyped, NoticesTyped
  <1>7. /\ c.kind = "block" /\ ~c.failed /\ c.answers = ac
        /\ d.kind = "block" /\ ~d.failed /\ d.answers = ad
        /\ r.kind = "block" /\ ~r.failed /\ r.answers = ar
    BY DEF Block
  <1>8. /\ fc.kind = "block" /\ fc.failed /\ fc.answers = ac
        /\ fd.kind = "block" /\ fd.failed /\ fd.answers = ad
        /\ fr.kind = "block" /\ fr.failed /\ fr.answers = ar
    BY DEF Block
  <1>9. /\ ac.of = "capture" /\ ac.gen = b.gen /\ ad.of = "cursor" /\ ad.gen = b.gen
        /\ ar.of = "resume" /\ ar.gen = b.gen
    OBVIOUS
  <1>10. /\ \/ wire' = Append(wire, fc)
            \/ wire' = Append(wire \o <<c>>, fd)
            \/ b.resume /\ wire' = Append(wire \o Append(<<c>>, d), fr)
            \/ b.resume /\ wire' = Append(wire \o Append(<<c>>, d), r) \o <<k>>
            \/ b.resume /\ wire' = Append(wire \o Append(<<c>>, d), r) \o <<>>
            \/ ~b.resume /\ wire' = wire \o Append(<<c>>, d)
         /\ expected' = e
    BY SeedRun DEF RunSeed, client
  <1>11. tmux'.commands = Tail(l)
    BY DEF RunSeed, Continued, Typed
  <1> HIDE DEF l, e, b, c, d, r, fc, fd, fr, k, ac, ad, ar
  <1>12. /\ p + 2 <= q /\ q <= Len(e) + 1 /\ e[p] = ac /\ e[p + 1] = ad
         /\ q = IF b.resume THEN p + 3 ELSE p + 2
         /\ b.resume => e[p + 2] = ar
    <2>1. /\ q = p + Len(Responses(b)) /\ q <= Len(e) + 1
          /\ \A i \in 1..Len(Responses(b)) : e[p + i - 1] = Responses(b)[i]
      BY <1>3 DEF Asks
    <2>2. e[p + 1 - 1] = ac /\ e[p + 2 - 1] = ad /\ (b.resume => e[p + 3 - 1] = ar)
      BY <1>4, <2>1
    <2>3. p + 1 - 1 = p /\ p + 2 - 1 = p + 1 /\ p + 3 - 1 = p + 2
      OBVIOUS
    <2>4. q = IF b.resume THEN p + 3 ELSE p + 2
      BY <1>4, <2>1
    <2>5. p + 2 <= q
      BY <2>4
    <2> QED BY <2>1, <2>2, <2>3, <2>4, <2>5
  <1>13. Settles(c, e, p, p + 1) /\ Settles(d, e, p + 1, p + 2)
         /\ (b.resume => Settles(r, e, p + 2, p + 3))
    <2>1. p <= Len(e) /\ p + 1 <= Len(e) /\ (b.resume => p + 2 <= Len(e))
      BY <1>5, <1>12
    <2>2. p + 1 + 1 = p + 2 /\ p + 2 + 1 = p + 3
      OBVIOUS
    <2>3. Settles(c, e, p, p + 1)
      BY <1>7, <1>12, <2>1, BlockSettles
    <2>4. Settles(d, e, p + 1, p + 1 + 1)
      BY <1>7, <1>12, <2>1, BlockSettles
    <2>5. b.resume => Settles(r, e, p + 2, p + 2 + 1)
      BY <1>7, <1>12, <2>1, BlockSettles
    <2> QED BY <2>2, <2>3, <2>4, <2>5
  <1>14. Settles(fc, e, p, q)
    <2>1. p <= Len(e) /\ p < Len(e) /\ (q = p + 2 \/ (q = p + 3 /\ e[p + 2] = ar))
      BY <1>5, <1>12
    <2> QED BY <1>5, <1>8, <1>9, <1>12, <2>1 DEF Settles, ad, ar
  <1>15. Settles(fd, e, p + 1, q)
    <2>1. p + 1 <= Len(e) /\ (q = p + 1 + 1 \/ (q = p + 1 + 2 /\ e[p + 1 + 1] = ar))
      BY <1>5, <1>12
    <2> QED BY <1>5, <1>8, <1>9, <1>12, <2>1 DEF Settles, ar
  <1>16. b.resume => Settles(fr, e, p + 2, q)
    <2>1. b.resume => p + 2 <= Len(e) /\ q = p + 2 + 1
      BY <1>5, <1>12
    <2> QED BY <1>5, <1>8, <1>9, <1>12, <2>1 DEF Settles
  <1> DEFINE w1 == Append(wire, c)
             w2 == Append(w1, d)
             w3 == Append(w2, r)
  <1>17. /\ w1 \in Seq(Message) /\ w2 \in Seq(Message) /\ w3 \in Seq(Message)
    <2>1. w1 \in Seq(Message)
      BY <1>2, <1>6, AppendProperties
    <2> HIDE DEF w1
    <2>2. w2 \in Seq(Message)
      BY <1>6, <2>1, AppendProperties
    <2> HIDE DEF w2
    <2> QED BY <1>6, <2>1, <2>2, AppendProperties
  <1>18. /\ wire \o <<c>> = w1 /\ wire \o Append(<<c>>, d) = w2
         /\ Append(w2, r) \o <<k>> = Append(w3, k) /\ Append(w2, r) \o <<>> = w3
    <2>1. wire \o <<c>> = w1
      BY <1>2, <1>6, AppendIsConcat
    <2>2. wire \o Append(<<c>>, d) = w2
      <3>1. <<c>> \in Seq(Message) /\ <<d>> \in Seq(Message)
        BY <1>6
      <3>2. Append(<<c>>, d) = <<c>> \o <<d>>
        BY <1>6, <3>1, AppendIsConcat
      <3>3. (wire \o <<c>>) \o <<d>> = wire \o (<<c>> \o <<d>>)
        BY <1>2, <3>1, ConcatAssociative
      <3>4. w2 = w1 \o <<d>>
        BY <1>6, <1>17, AppendIsConcat
      <3> QED BY <2>1, <3>2, <3>3, <3>4
    <2>3. w3 \o <<k>> = Append(w3, k) /\ w3 \o <<>> = w3
      <3> HIDE DEF w3
      <3> QED BY <1>6, <1>17, AppendIsConcat, ConcatEmptySeq
    <2> QED BY <2>1, <2>2, <2>3
  <1> HIDE DEF w1, w2, w3
  <1>19. ArrivalsTo(Append(wire, fc), e, q)
    BY <1>1, <1>2, <1>6, <1>14, OneMessageMore
  <1>20. ArrivalsTo(w1, e, p + 1)
    BY <1>1, <1>2, <1>6, <1>13, OneMessageMore DEF w1
  <1>21. ArrivalsTo(Append(w1, fd), e, q)
    BY <1>6, <1>15, <1>17, <1>20, OneMessageMore
  <1>22. ArrivalsTo(w2, e, p + 2)
    BY <1>6, <1>13, <1>17, <1>20, OneMessageMore DEF w2
  <1>23. b.resume => ArrivalsTo(Append(w2, fr), e, q)
    BY <1>6, <1>16, <1>17, <1>22, OneMessageMore
  <1>24. b.resume => ArrivalsTo(w3, e, p + 3)
    BY <1>6, <1>13, <1>17, <1>22, OneMessageMore DEF w3
  <1>25. b.resume => ArrivalsTo(Append(w3, k), e, p + 3)
    <2>1. Settles(k, e, p + 3, p + 3)
      BY DEF Settles, k
    <2> QED BY <1>6, <1>17, <1>24, <2>1, OneMessageMore
  <1>26. ArrivalsTo(wire', e, q)
    <2>1. (b.resume => q = p + 3) /\ (~b.resume => q = p + 2)
      BY <1>12
    <2>2. \/ wire' = Append(wire, fc)
          \/ wire' = Append(w1, fd)
          \/ b.resume /\ wire' = Append(w2, fr)
          \/ b.resume /\ wire' = Append(w3, k)
          \/ b.resume /\ wire' = w3
          \/ ~b.resume /\ wire' = w2
      BY <1>10, <1>18
    <2> QED BY <2>1, <2>2, <1>19, <1>21, <1>22, <1>23, <1>24, <1>25
  <1> QED BY <1>3, <1>10, <1>11, <1>26 DEF Aligned

LEMMA StartSendAligned ==
    ASSUME Typed, Aligned, StartSend
    PROVE  Aligned'
  <1> PICK k \in 0..Len(outgoing) :
        /\ IF k = Len(outgoing)
           THEN outgoing' = <<>> /\ UNCHANGED <<tmux, expected>>
           ELSE /\ outgoing' = SubSeq(outgoing, k + 2, Len(outgoing))
                /\ expected' = expected \o Responses(outgoing[k + 1])
                /\ tmux' = [tmux EXCEPT !.commands = Append(@, outgoing[k + 1])]
        /\ UNCHANGED <<wire, pane, paused, timer, display, spent>>
    BY DEF StartSend
  <1>1. CASE k = Len(outgoing)
    BY <1>1 DEF Aligned
  <1>2. CASE k # Len(outgoing)
    <2> DEFINE b == outgoing[k + 1]
               r == Responses(b)
    <2>1. b \in Batch
      BY <1>2, LenProperties DEF Typed
    <2>2. tmux'.commands = Append(tmux.commands, b) /\ expected' = expected \o r /\ wire' = wire
      BY <1>2 DEF Typed
    <2> HIDE DEF b
    <2>3. r \in Seq(Response) /\ Len(r) \in 1..3 /\ r[1].of \in {"capture", "query"}
      BY <2>1, ResponsesTyped, ResponsesOf
    <2>4. PICK p \in Nat : ArrivalsTo(wire, expected, p) /\ LinesFrom(tmux.commands, expected, p)
      BY DEF Aligned
    <2>5. p \in Nat \ {0}
      BY <2>4, Started DEF Typed
    <2>6. LinesFrom(Append(tmux.commands, b), expected \o r, p)
      BY <2>1, <2>4, <2>5, LinesLonger DEF Typed
    <2> HIDE DEF r
    <2>7. ArrivalsTo(wire, expected \o r, p)
      BY <2>3, <2>4, ArrivalsLonger DEF Typed
    <2> QED BY <2>2, <2>6, <2>7 DEF Aligned
  <1> QED BY <1>1, <1>2

LEMMA NoticeReceived ==
    ASSUME Typed, Aligned, NEW k \in {"output", "pause", "continue"}, Receive(k),
           expected' = expected
    PROVE  Aligned'
  <1>1. wire # <<>> /\ Head(wire).kind # "block" /\ wire' = Tail(wire) /\ tmux' = tmux
    BY DEF Receive
  <1>2. PICK q \in Nat \ {0} :
          /\ Settles(Head(wire), expected, 1, q)
          /\ \E p \in Nat : /\ ArrivalsTo(Tail(wire), Rest(expected, q), p)
                           /\ LinesFrom(tmux.commands, Rest(expected, q), p)
    BY <1>1, OneMessageLess
  <1>3. q = 1
    BY <1>1, <1>2 DEF Settles
  <1>4. Rest(expected, 1) = expected
    BY SubSeqFull DEF Rest, Typed
  <1> QED BY <1>1, <1>2, <1>3, <1>4 DEF Aligned

LEMMA SkipRest ==
    ASSUME NEW e \in Seq(Response), NEW q \in Nat \ {0}, q <= Len(e) + 1, NEW of, NEW gen
    PROVE  Skip(Rest(e, q), of, gen) =
              IF q <= Len(e) /\ e[q].of = of /\ e[q].gen = gen THEN Rest(e, q + 1)
              ELSE Rest(e, q)
  <1>1. Len(e) \in Nat
    BY LenProperties
  <1>2. CASE q <= Len(e)
    <2>1. q \in 1..Len(e) /\ Len(e) \in q..Len(e)
      BY <1>1, <1>2
    <2>2. Head(Rest(e, q)) = e[q] /\ Tail(Rest(e, q)) = Rest(e, q + 1)
      BY <2>1, HeadTailOfSubSeq DEF Rest
    <2>3. Rest(e, q) # <<>>
      <3>1. Len(Rest(e, q)) = Len(e) + 1 - q
        BY RestOf
      <3>2. Len(Rest(e, q)) # 0
        BY <1>1, <1>2, <3>1
      <3> QED BY <3>2, EmptySeq
    <2> QED BY <1>2, <2>2, <2>3 DEF Skip
  <1>3. CASE ~(q <= Len(e))
    <2>1. Rest(e, q) = <<>>
      BY <1>1, <1>3, SubSeqEmpty DEF Rest
    <2> QED BY <1>3, <2>1 DEF Skip
  <1> QED BY <1>2, <1>3

\* The responses that a block settles are those that its handler takes.
LEMMA AnswerTaken ==
    ASSUME Typed, Receive("block"), expected # <<>>, NEW q \in Nat \ {0},
           q <= Len(expected) + 1, Settles(Head(wire), expected, 1, q),
           CaptureAnswered \/ CursorAnswered \/ ResumeAnswered \/ QueryAnswered
    PROVE  expected' = Rest(expected, q)
  <1> DEFINE e == expected
             m == Head(wire)
             g == Head(expected).gen
             o == Head(expected).of
             n == Len(expected)
  <1>1. e \in Seq(Response) /\ n \in Nat \ {0} /\ e[1] = Head(e) /\ m.kind = "block"
    BY EmptySeq DEF Typed, Receive
  <1>2. Tail(e) = Rest(e, 2)
    BY <1>1, TailIsSubSeq DEF Rest
  <1>3. e[1] = m.answers /\ m.answers.of = o /\ m.answers.gen = g
    BY <1>1 DEF Settles
  <1>4. CASE ~m.failed
    <2>1. q = 2
      BY <1>1, <1>4 DEF Settles
    <2>2. expected' = Tail(e)
      BY <1>4 DEF CaptureAnswered, CursorAnswered, ResumeAnswered, QueryAnswered
    <2> QED BY <1>2, <2>1, <2>2
  <1>5. CASE m.failed
    <2>1. /\ LineStart(e, q)
          /\ \/ /\ o = "capture" /\ 1 < n /\ e[2] = [of |-> "cursor", gen |-> g]
                /\ q = 3 \/ (q = 4 /\ e[3] = [of |-> "resume", gen |-> g])
             \/ /\ o = "cursor"
                /\ q = 2 \/ (q = 3 /\ e[2] = [of |-> "resume", gen |-> g])
             \/ o = "resume" /\ q = 2
      BY <1>1, <1>3, <1>5 DEF Settles
    <2>2. \A i \in 1..n : q = i => e[i].of # "resume"
      BY <1>1, <2>1 DEF LineStart
    <2>3. CASE CaptureAnswered
      <3>1. o = "capture" /\ expected' = Skip(Skip(Tail(e), "cursor", g), "resume", g)
        BY <1>5, <2>3 DEF CaptureAnswered, Answered
      <3>2. /\ 1 < n /\ e[2] = [of |-> "cursor", gen |-> g]
            /\ q = 3 \/ (q = 4 /\ e[3] = [of |-> "resume", gen |-> g])
        BY <2>1, <3>1
      <3>3. 2 <= n /\ e[2].of = "cursor" /\ e[2].gen = g
        BY <1>1, <3>2
      <3> HIDE DEF e, g, n, o
      <3>4. Skip(Rest(e, 2), "cursor", g) = Rest(e, 3)
        <4>1. Skip(Rest(e, 2), "cursor", g) =
                IF 2 <= Len(e) /\ e[2].of = "cursor" /\ e[2].gen = g THEN Rest(e, 2 + 1)
                ELSE Rest(e, 2)
          BY <1>1, <3>3, SkipRest DEF n, e
        <4> QED BY <3>3, <4>1 DEF n, e
      <3>5. Skip(Rest(e, 3), "resume", g) =
                IF 3 <= n /\ e[3].of = "resume" /\ e[3].gen = g THEN Rest(e, 4) ELSE Rest(e, 3)
        <4>1. Skip(Rest(e, 3), "resume", g) =
                IF 3 <= Len(e) /\ e[3].of = "resume" /\ e[3].gen = g THEN Rest(e, 3 + 1)
                ELSE Rest(e, 3)
          BY <1>1, <3>3, SkipRest DEF n, e
        <4> QED BY <4>1 DEF n, e
      <3>6. CASE q = 3
        <4>1. ~(3 <= n /\ e[3].of = "resume")
          BY <1>1, <2>2, <3>6 DEF e, n
        <4> QED BY <1>2, <3>1, <3>4, <3>5, <3>6, <4>1 DEF e
      <3>7. CASE q = 4
        <4>1. 3 <= n /\ e[3].of = "resume" /\ e[3].gen = g
          BY <1>1, <3>2, <3>7 DEF n, e
        <4> QED BY <1>2, <3>1, <3>4, <3>5, <3>7, <4>1 DEF e
      <3> QED BY <3>2, <3>6, <3>7
    <2>4. CASE CursorAnswered
      <3>1. o = "cursor" /\ expected' = Skip(Tail(e), "resume", g)
        BY <1>5, <2>4 DEF CursorAnswered, Answered
      <3>2. q = 2 \/ (q = 3 /\ e[2] = [of |-> "resume", gen |-> g])
        BY <2>1, <3>1
      <3> HIDE DEF e, g, n, o
      <3>3. Skip(Rest(e, 2), "resume", g) =
                IF 2 <= n /\ e[2].of = "resume" /\ e[2].gen = g THEN Rest(e, 3) ELSE Rest(e, 2)
        <4>1. Skip(Rest(e, 2), "resume", g) =
                IF 2 <= Len(e) /\ e[2].of = "resume" /\ e[2].gen = g THEN Rest(e, 2 + 1)
                ELSE Rest(e, 2)
          BY <1>1, SkipRest DEF n, e
        <4> QED BY <4>1 DEF n, e
      <3>4. CASE q = 2
        <4>1. ~(2 <= n /\ e[2].of = "resume")
          BY <1>1, <2>2, <3>4 DEF e, n
        <4> QED BY <1>2, <3>1, <3>3, <3>4, <4>1 DEF e
      <3>5. CASE q = 3
        <4>1. 2 <= n /\ e[2].of = "resume" /\ e[2].gen = g
          BY <1>1, <3>2, <3>5 DEF n, e
        <4> QED BY <1>2, <3>1, <3>3, <3>5, <4>1 DEF e
      <3> QED BY <3>2, <3>4, <3>5
    <2>5. CASE ResumeAnswered
      <3>1. o = "resume" /\ expected' = Tail(e)
        BY <2>5 DEF ResumeAnswered, Answered
      <3>2. q = 2
        BY <2>1, <3>1
      <3> QED BY <1>2, <3>1, <3>2
    <2>6. CASE QueryAnswered
      <3>1. o = "query"
        BY <2>6 DEF QueryAnswered, Answered
      <3> QED BY <2>1, <3>1
    <2> QED BY <2>3, <2>4, <2>5, <2>6
  <1> QED BY <1>4, <1>5

LEMMA AnswerAligned ==
    ASSUME Typed, Aligned,
           CaptureAnswered \/ CursorAnswered \/ ResumeAnswered \/ QueryAnswered
    PROVE  Aligned'
  <1>1. Receive("block") /\ expected # <<>>
    BY DEF CaptureAnswered, CursorAnswered, ResumeAnswered, QueryAnswered, Answered
  <1>2. wire # <<>> /\ wire' = Tail(wire) /\ tmux' = tmux
    BY <1>1 DEF Receive
  <1>3. PICK q \in Nat \ {0} :
          /\ q <= Len(expected) + 1 /\ Settles(Head(wire), expected, 1, q)
          /\ \E p \in Nat : /\ ArrivalsTo(Tail(wire), Rest(expected, q), p)
                           /\ LinesFrom(tmux.commands, Rest(expected, q), p)
    BY <1>2, OneMessageLess
  <1>4. expected' = Rest(expected, q)
    BY <1>1, <1>3, AnswerTaken
  <1> QED BY <1>2, <1>3, <1>4 DEF Aligned

LEMMA AlignedStep == Typed /\ Aligned /\ [Next]_vars => Aligned'
  <1> SUFFICES ASSUME Typed, Aligned, [Next]_vars PROVE Aligned'
    OBVIOUS
  <1>1. CASE Write
    <2> DEFINE n == tmux.written + 1
    <2>1. n \in Nat
      BY DEF Typed
    <2>2. Output(n, FALSE) \in Message /\ Output(n, FALSE).kind # "block"
      BY <2>1, OutputTyped DEF Output
    <2>3. tmux'.commands = tmux.commands /\ expected' = expected
          /\ (wire' = Append(wire, Output(n, FALSE)) \/ wire' = wire)
      BY <1>1 DEF Write, Typed, client
    <2> HIDE DEF n
    <2>4. CASE wire' = Append(wire, Output(n, FALSE))
      BY <2>2, <2>3, <2>4, NoticeSent
    <2>5. CASE wire' = wire
      BY <2>3, <2>5 DEF Aligned
    <2> QED BY <2>3, <2>4, <2>5
  <1>2. CASE NotifyHeld
    <2> DEFINE n == tmux.notified + 1
    <2>1. n \in Nat
      BY DEF Typed
    <2>2. Output(n, TRUE) \in Message /\ Output(n, TRUE).kind # "block"
      BY <2>1, OutputTyped DEF Output
    <2>3. tmux'.commands = tmux.commands /\ expected' = expected
          /\ wire' = Append(wire, Output(n, TRUE))
      BY <1>2 DEF NotifyHeld, Typed, client
    <2> HIDE DEF n
    <2> QED BY <2>2, <2>3, NoticeSent
  <1>3. CASE PausePane
    <2> DEFINE m == [kind |-> "pause"]
    <2>1. m \in Message /\ m.kind # "block"
      BY NoticesTyped
    <2>2. tmux'.commands = tmux.commands /\ expected' = expected /\ wire' = Append(wire, m)
      BY <1>3 DEF PausePane, Typed, client
    <2> HIDE DEF m
    <2> QED BY <2>1, <2>2, NoticeSent
  <1>4. CASE ContinuedByOther
    <2> DEFINE m == [kind |-> "continue"]
    <2>1. m \in Message /\ m.kind # "block"
      BY NoticesTyped
    <2>2. tmux'.commands = tmux.commands /\ expected' = expected /\ wire' = Append(wire, m)
      BY <1>4 DEF ContinuedByOther, Continued, Typed, client
    <2> HIDE DEF m
    <2> QED BY <2>1, <2>2, NoticeSent
  <1>5. CASE RunQuery
    BY <1>5, RunQueryAligned
  <1>6. CASE \E f \in {"none", "capture", "cursor", "resume"} : RunSeed(f)
    BY <1>6, RunSeedAligned
  <1>7. CASE StartSend
    BY <1>7, StartSendAligned
  <1>8. CASE RouteOutput \/ Pause \/ Continue
    BY <1>8, NoticeReceived DEF RouteOutput, Pause, Continue
  <1>9. CASE CaptureAnswered \/ CursorAnswered \/ ResumeAnswered \/ QueryAnswered
    BY <1>9, AnswerAligned
  <1>10. CASE UNCHANGED <<tmux, wire, expected>>
    BY <1>10 DEF Aligned
  <1>11. CASE ContinueDeadline \/ SpawnPane \/ Reconcile \/ Resize \/ Query
    <2>1. UNCHANGED <<tmux, wire, expected>>
      BY <1>11 DEF ContinueDeadline, SpawnPane, Reconcile, Resize, Query
    <2> QED BY <1>10, <2>1
  <1>12. CASE UNCHANGED vars
    BY <1>10, <1>12 DEF vars, client
  <1> QED BY <1>1, <1>2, <1>3, <1>4, <1>5, <1>6, <1>7, <1>8, <1>9, <1>11, <1>12
        DEF Next, Tmux, Client

-----------------------------------------------------------------------------
(* The theorems.                                                           *)

LEMMA InitTypes == Init => Typed
  <1> SUFFICES ASSUME Init PROVE Typed
    OBVIOUS
  <1>1. <<>> \in Seq(Message) /\ <<>> \in Seq(Batch) /\ <<>> \in Seq(Response)
    BY EmptySeq
  <1>2. pane \in Panes
    BY <1>1 DEF Init, Panes
  <1>3. tmux \in [written : Nat, notified : Nat, paused : BOOLEAN, commands : Seq(Batch)]
    BY <1>1 DEF Init
  <1> QED BY <1>1, <1>2, <1>3 DEF Init, Typed

LEMMA InitAligned == Init => Aligned
  <1> SUFFICES ASSUME Init PROVE Aligned
    OBVIOUS
  <1>1. wire = <<>> /\ expected = <<>> /\ tmux.commands = <<>>
    BY DEF Init
  <1> DEFINE h == [i \in 1..1 |-> 1]
  <1>2. h \in [1..1 -> Nat] /\ h[1] = 1 /\ \A i, j \in 1..1 : i <= j => h[i] <= h[j]
    OBVIOUS
  <1>3. Len(<<>>) = 0 /\ Len(<<>>) + 1 = 1
    OBVIOUS
  <1> HIDE DEF h
  <1>4. ArrivalsTo(<<>>, <<>>, 1)
    BY <1>2, <1>3 DEF ArrivalsTo
  <1>5. LinesFrom(<<>>, <<>>, 1)
    BY <1>2, <1>3 DEF LinesFrom
  <1> QED BY <1>1, <1>4, <1>5 DEF Aligned

LEMMA AlignedMatch == Typed /\ Aligned => BlocksMatchRequests
  <1> SUFFICES ASSUME Typed, Aligned, wire # <<>>, Head(wire).kind = "block"
               PROVE  expected # <<>> /\ Head(expected) = Head(wire).answers
    BY DEF BlocksMatchRequests
  <1>1. PICK q \in Nat \ {0} : Settles(Head(wire), expected, 1, q)
    BY OneMessageLess
  <1>2. 1 <= Len(expected) /\ expected[1] = Head(wire).answers
    BY <1>1 DEF Settles
  <1> QED BY <1>2, LenProperties DEF Typed

\* The remote end, the wire and the client hold what their types say; only the
\* display, the result of a fold, is left to TLC.
THEOREM SeedTypes == Spec => []Typed
  <1> QED BY InitTypes, TypesStep, PTL DEF Spec

\* response_kind: every block is taken for the answer to the command that it
\* answers, whatever is paused, resized, seeded again or asked meanwhile and
\* wherever a line of commands fails.
THEOREM AnswersMatched == Spec => []BlocksMatchRequests
  <1>1. Init => Typed /\ Aligned
    BY InitTypes, InitAligned
  <1>2. Typed /\ Aligned /\ [Next]_vars => (Typed /\ Aligned)'
    BY TypesStep, AlignedStep
  <1> QED BY <1>1, <1>2, AlignedMatch, PTL DEF Spec
=============================================================================
