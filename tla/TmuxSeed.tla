------------------------------ MODULE TmuxSeed ------------------------------
(***************************************************************************)
(* How the terminal of one tmux pane is kept equal to the remote screen    *)
(* (nyaterm-transport tmux/session.rs).  tmux notifies a control client of *)
(* the output of its panes, pauses a pane whose client lags behind, and    *)
(* answers commands in blocks, in the order in which they were sent.  The  *)
(* client paints a pane from a capture-pane snapshot, the seed, and then   *)
(* pushes the notified output; what arrives while a seed is under way is   *)
(* kept and pushed after it, but for what the snapshot already holds.      *)
(*                                                                         *)
(* A pane's output is the sequence of chunks 1, 2, 3, ...; the remote      *)
(* screen is the number of chunks written to it and a snapshot is such a   *)
(* number.  The module starts with flow control switched on.               *)
(***************************************************************************)
EXTENDS Integers, SequencesExt

CONSTANTS
    MaxHeld,      \* PENDING_PANE_OUTPUT_MAX_BYTES, in chunks
    MaxExpected,  \* MAX_PENDING_RESPONSES
    Steady,       \* TRUE if all messages take the same time to arrive
    OtherClient,  \* TRUE if another control client may continue the pane
    MaxOutput,    \* bound: chunks of output
    MaxPauses,    \* bound: pauses
    MaxFaults,    \* bound: commands that fail
    MaxAsks       \* bound: resizes and queries

ASSUME SeedConstants ==
    /\ MaxHeld \in Nat \ {0} /\ MaxExpected \in Nat
    /\ Steady \in BOOLEAN /\ OtherClient \in BOOLEAN
    /\ MaxOutput \in Nat /\ MaxPauses \in Nat /\ MaxFaults \in Nat /\ MaxAsks \in Nat

VARIABLES
    tmux,      \* the remote end: chunks written and notified, the pause, commands to run
    wire,      \* notifications and blocks on their way to the client
    pane,      \* VirtualPane, and the output buffered for the pane before it is mapped
    paused,    \* whether the pane is in paused_panes
    timer,     \* whether continue_deadline is armed
    outgoing,  \* command lines to send
    expected,  \* pending_responses
    display,   \* what has been pushed to the pane's session
    spent      \* what is left of the bounds

client == <<pane, paused, timer, outgoing, expected, display>>
vars   == <<tmux, wire, client, spent>>

None == -1

Batch == [kind : {"seed"}, gen : Nat, resume : BOOLEAN] \cup [kind : {"query"}]

Response == [of : {"capture", "cursor", "resume"}, gen : Nat] \cup [of : {"query"}]

Message ==
    [kind : {"output"}, n : Nat, held : BOOLEAN]
    \cup [kind : {"pause", "continue"}]
    \cup [kind : {"block"}, answers : Response, failed : BOOLEAN, n : Nat]

TypeOK ==
    /\ tmux \in [written : Nat, notified : Nat, paused : BOOLEAN, commands : Seq(Batch)]
    /\ wire \in Seq(Message)
    /\ pane \in [mapped : BOOLEAN, seeded : BOOLEAN, seeding : BOOLEAN, reseed : BOOLEAN,
                 gen : Nat, barrier : BOOLEAN, captureAt : Nat \cup {None},
                 seed : Nat \cup {None}, pending : Seq(Message)]
    /\ paused \in BOOLEAN /\ timer \in BOOLEAN
    /\ outgoing \in Seq(Batch) /\ expected \in Seq(Response)
    /\ display \in [shown : Nat, gap : BOOLEAN]
    /\ spent \in [pauses : 0..MaxPauses, faults : 0..MaxFaults, asks : 0..MaxAsks]

Init ==
    /\ tmux = [written |-> 0, notified |-> 0, paused |-> FALSE, commands |-> <<>>]
    /\ wire = <<>>
    /\ pane = [mapped |-> FALSE, seeded |-> FALSE, seeding |-> FALSE, reseed |-> FALSE,
               gen |-> 0, barrier |-> FALSE, captureAt |-> None, seed |-> None,
               pending |-> <<>>]
    /\ paused = FALSE /\ timer = FALSE /\ outgoing = <<>> /\ expected = <<>>
    /\ display = [shown |-> 0, gap |-> FALSE]
    /\ spent = [pauses |-> 0, faults |-> 0, asks |-> 0]

-----------------------------------------------------------------------------
(* tmux.                                                                   *)

Output(n, held) == [kind |-> "output", n |-> n, held |-> held]

\* The pane writes a chunk.  An idle client is notified at once; otherwise tmux
\* holds the chunk back, and the notification will say for how long.
Write ==
    /\ tmux.written < MaxOutput
    /\ LET n == tmux.written + 1
       IN \/ /\ ~tmux.paused /\ tmux.notified = tmux.written
             /\ tmux' = [tmux EXCEPT !.written = n, !.notified = n]
             /\ wire' = Append(wire, Output(n, FALSE))
          \/ /\ tmux' = [tmux EXCEPT !.written = n]
             /\ UNCHANGED wire
    /\ UNCHANGED <<client, spent>>

NotifyHeld ==
    /\ ~tmux.paused /\ tmux.notified < tmux.written
    /\ tmux' = [tmux EXCEPT !.notified = @ + 1]
    /\ wire' = Append(wire, Output(tmux.notified + 1, TRUE))
    /\ UNCHANGED <<client, spent>>

\* A lagging client loses what is held back for the pane until it continues it.
PausePane ==
    /\ ~tmux.paused /\ tmux.notified < tmux.written /\ spent.pauses < MaxPauses
    /\ tmux' = [tmux EXCEPT !.paused = TRUE]
    /\ wire' = Append(wire, [kind |-> "pause"])
    /\ spent' = [spent EXCEPT !.pauses = @ + 1]
    /\ UNCHANGED client

Continued(t) == [t EXCEPT !.paused = FALSE, !.notified = t.written]

ContinuedByOther ==
    /\ OtherClient /\ tmux.paused
    /\ tmux' = Continued(tmux)
    /\ wire' = Append(wire, [kind |-> "continue"])
    /\ UNCHANGED <<client, spent>>

Block(of, batch, failed) ==
    [kind |-> "block", answers |-> [of |-> of, gen |-> batch.gen], failed |-> failed,
     n |-> tmux.written]

\* A line of commands runs without a read of the pane in between, and stops at
\* the first command that fails.
RunSeed(failing) ==
    /\ tmux.commands # <<>> /\ Head(tmux.commands).kind = "seed"
    /\ spent' = IF failing = "none" THEN spent ELSE [spent EXCEPT !.faults = @ + 1]
    /\ spent.faults < MaxFaults \/ failing = "none"
    /\ LET b == Head(tmux.commands)
           rest == [tmux EXCEPT !.commands = Tail(@)]
           captured == <<Block("capture", b, FALSE)>>
           placed == Append(captured, Block("cursor", b, FALSE))
           notice == IF tmux.paused THEN <<[kind |-> "continue"]>> ELSE <<>>
       IN CASE failing = "capture" -> /\ wire' = Append(wire, Block("capture", b, TRUE))
                                      /\ tmux' = rest
            [] failing = "cursor"  -> /\ wire' = Append(wire \o captured, Block("cursor", b, TRUE))
                                      /\ tmux' = rest
            [] failing = "resume"  -> /\ b.resume
                                      /\ wire' = Append(wire \o placed, Block("resume", b, TRUE))
                                      /\ tmux' = rest
            [] failing = "none" /\ b.resume ->
                                      /\ wire' = Append(wire \o placed, Block("resume", b, FALSE))
                                                 \o notice
                                      /\ tmux' = IF tmux.paused THEN Continued(rest) ELSE rest
            [] OTHER               -> wire' = wire \o placed /\ tmux' = rest
    /\ UNCHANGED client

RunQuery ==
    /\ tmux.commands # <<>> /\ Head(tmux.commands).kind = "query"
    /\ tmux' = [tmux EXCEPT !.commands = Tail(@)]
    /\ wire' = Append(wire, [kind |-> "block", answers |-> [of |-> "query"], failed |-> FALSE,
                             n |-> 0])
    /\ UNCHANGED <<client, spent>>

-----------------------------------------------------------------------------
(* What the client pushes to the session of the pane.                      *)

PushSeed(n) == [shown |-> n, gap |-> FALSE]

PushOutput(d, m) ==
    [shown |-> IF m.n > d.shown THEN m.n ELSE d.shown,
     gap   |-> d.gap \/ m.n > d.shown + 1]

PushAll(d, ms) == FoldLeft(PushOutput, d, ms)

\* output_precedes_capture compares the arrival of the snapshot's block with the
\* arrival of the chunk less the time tmux held it: the outcome is exact when all
\* messages take the same time, and open otherwise, except that a chunk not held
\* back arrives, and is dated, after a block sent before it.
PrecedesCapture(m, at) ==
    IF at = None THEN {FALSE}
    ELSE IF Steady THEN {m.n <= at}
    ELSE IF m.n <= at \/ m.held THEN BOOLEAN ELSE {FALSE}

\* take_pending_output: what may be left after dropping what precedes the capture.
Replays(p) ==
    LET held == Range(p.pending)
    IN {SelectSeq(p.pending, LAMBDA m : m \notin old) :
          old \in {S \in SUBSET held :
                     \A m \in held : (m \in S) \in PrecedesCapture(m, p.captureAt)}}

-----------------------------------------------------------------------------
(* The client.                                                             *)

\* seed_pane, for the pane p and the paused pane ps: a batch for the snapshot
\* and the cursor, and for the continuation of a paused pane.
SeedPane(p, ps) ==
    IF ~p.mapped \/ p.seeding
    THEN pane' = p /\ paused' = ps /\ UNCHANGED outgoing
    ELSE /\ pane' = [p EXCEPT !.seeding = TRUE, !.seeded = FALSE, !.seed = None, !.barrier = ps]
         /\ outgoing' = Append(outgoing, [kind |-> "seed", gen |-> p.gen, resume |-> ps])
         /\ paused' = FALSE

Stale(b) == b.kind = "seed" /\ (~pane.mapped \/ b.gen # pane.gen)

Responses(b) ==
    IF b.kind = "query" THEN <<[of |-> "query"]>>
    ELSE <<[of |-> "capture", gen |-> b.gen], [of |-> "cursor", gen |-> b.gen]>>
         \o (IF b.resume THEN <<[of |-> "resume", gen |-> b.gen]>> ELSE <<>>)

\* start_send skips the seeds of earlier generations.
StartSend ==
    \E k \in 0..Len(outgoing) :
        /\ \A i \in 1..k : Stale(outgoing[i])
        /\ IF k = Len(outgoing)
           THEN /\ k > 0
                /\ outgoing' = <<>>
                /\ UNCHANGED <<tmux, expected>>
           ELSE LET b == outgoing[k + 1]
                IN /\ ~Stale(b)
                   /\ Len(expected) + Len(Responses(b)) <= MaxExpected
                   /\ outgoing' = SubSeq(outgoing, k + 2, Len(outgoing))
                   /\ expected' = expected \o Responses(b)
                   /\ tmux' = [tmux EXCEPT !.commands = Append(@, b)]
        /\ UNCHANGED <<wire, pane, paused, timer, display, spent>>

Receive(k) == wire # <<>> /\ Head(wire).kind = k /\ wire' = Tail(wire) /\ UNCHANGED <<tmux, spent>>

\* route_output.  A pane being seeded keeps its output, and beyond the limit
\* pushes the oldest; a pane not mapped drops the oldest.
RouteOutput ==
    /\ Receive("output")
    /\ LET m == Head(wire)
           kept == Append(pane.pending, m)
           over == Len(kept) > MaxHeld
       IN IF pane.mapped /\ pane.seeded
          THEN /\ \E old \in PrecedesCapture(m, pane.captureAt) :
                     display' = IF old THEN display ELSE PushOutput(display, m)
               /\ UNCHANGED pane
          ELSE /\ pane' = [pane EXCEPT !.pending = IF over THEN Tail(kept) ELSE kept]
               /\ display' = IF over /\ pane.mapped THEN PushOutput(display, Head(kept))
                             ELSE display
    /\ UNCHANGED <<paused, timer, outgoing, expected>>

\* Variant of Invalidate: the generation is not advanced.
InvalidateInPlace(p) ==
    IF ~p.mapped THEN p
    ELSE [p EXCEPT !.seeded = FALSE, !.seeding = FALSE, !.reseed = FALSE,
                   !.seed = None, !.captureAt = None, !.pending = <<>>]

\* invalidate_seed, of a mapped pane.
Invalidate(p) ==
    IF ~p.mapped THEN p
    ELSE [p EXCEPT !.gen = @ + 1, !.seeded = FALSE, !.seeding = FALSE, !.reseed = FALSE,
                   !.seed = None, !.captureAt = None, !.pending = <<>>]

Pause ==
    /\ Receive("pause")
    /\ pane' = IF paused THEN pane ELSE Invalidate(pane)
    /\ paused' = TRUE /\ timer' = TRUE
    /\ UNCHANGED <<outgoing, expected, display>>

Continue ==
    /\ Receive("continue")
    /\ IF paused THEN SeedPane(pane, FALSE) ELSE UNCHANGED <<pane, paused, outgoing>>
    /\ UNCHANGED <<timer, expected, display>>

\* continue_paused.
ContinueDeadline ==
    /\ timer /\ timer' = FALSE
    /\ IF paused THEN SeedPane(pane, TRUE) ELSE UNCHANGED <<pane, paused, outgoing>>
    /\ UNCHANGED <<tmux, wire, expected, display, spent>>

\* spawn_pane and the rest of reconcile_panes: buffered output becomes pending.
SpawnPane ==
    /\ ~pane.mapped
    /\ SeedPane([pane EXCEPT !.mapped = TRUE], paused)
    /\ UNCHANGED <<tmux, wire, timer, expected, display, spent>>

\* reconcile_panes again: a pane whose seed failed is seeded.
Reconcile ==
    /\ pane.mapped /\ ~pane.seeded /\ ~pane.seeding
    /\ SeedPane(pane, paused)
    /\ UNCHANGED <<tmux, wire, timer, expected, display, spent>>

\* The renderer or the layout has a new size: the pane is seeded again, after
\* the seed under way if there is one.
Resize ==
    /\ pane.mapped /\ spent.asks < MaxAsks
    /\ spent' = [spent EXCEPT !.asks = @ + 1]
    /\ IF pane.seeding THEN pane' = [pane EXCEPT !.reseed = TRUE] /\ UNCHANGED <<paused, outgoing>>
                       ELSE SeedPane(pane, paused)
    /\ UNCHANGED <<tmux, wire, timer, expected, display>>

\* Any other command with an answer: list-windows, list-panes, a cwd query.
Query ==
    /\ spent.asks < MaxAsks
    /\ spent' = [spent EXCEPT !.asks = @ + 1]
    /\ outgoing' = Append(outgoing, [kind |-> "query"])
    /\ UNCHANGED <<tmux, wire, pane, paused, timer, expected, display>>

-----------------------------------------------------------------------------
(* Blocks: response_kind and handle_block.                                 *)

\* Variant of Skip: every response expected is waited for.
SkipNothing(s, of, gen) == s

\* The response to a command that tmux skipped is not expected any more.
Skip(s, of, gen) ==
    IF s # <<>> /\ Head(s).of = of /\ Head(s).gen = gen THEN Tail(s) ELSE s

\* Variant of Retries: a continuation is tried once.
NeverRetries(lost, gen) == FALSE

\* retry_paused_seed: a continuation that failed or was skipped.
Retries(lost, gen) == lost /\ pane.mapped /\ pane.gen = gen

Painted == IF pane.seed = None THEN display ELSE PushSeed(pane.seed)

\* The answer about the cursor ends a seed: it is redone, or painted and followed
\* by the pending output; with no snapshot the pane stays unseeded.
EndSeed(gen, lost) ==
    LET ps == paused \/ Retries(lost, gen)
        p == [pane EXCEPT !.seeding = FALSE, !.reseed = FALSE, !.seed = None]
    IN /\ timer' = (timer \/ Retries(lost, gen))
       /\ IF ~pane.mapped \/ pane.gen # gen
          THEN paused' = ps /\ UNCHANGED <<pane, outgoing, display>>
          ELSE IF pane.reseed
          THEN SeedPane(p, ps) /\ UNCHANGED display
          ELSE /\ pane' = [p EXCEPT !.seeded = pane.seed # None, !.pending = <<>>]
               /\ paused' = ps
               /\ \E ms \in Replays(pane) : display' = PushAll(Painted, ms)
               /\ UNCHANGED outgoing

Answered(of) == Receive("block") /\ expected # <<>> /\ Head(expected).of = of

CaptureAnswered ==
    /\ Answered("capture")
    /\ LET b == Head(wire)
           gen == Head(expected).gen
           rest == Skip(Tail(expected), "cursor", gen)
       IN IF b.failed
          THEN /\ expected' = Skip(rest, "resume", gen)
               /\ EndSeed(gen, expected' # rest)
          ELSE /\ expected' = Tail(expected)
               /\ pane' = IF ~pane.mapped \/ pane.gen # gen THEN pane
                          ELSE [pane EXCEPT !.seed = b.n,
                                            !.captureAt = IF pane.barrier THEN None ELSE b.n]
               /\ UNCHANGED <<paused, timer, outgoing, display>>

CursorAnswered ==
    /\ Answered("cursor")
    /\ LET b == Head(wire)
           gen == Head(expected).gen
           rest == Tail(expected)
       IN /\ expected' = IF b.failed THEN Skip(rest, "resume", gen) ELSE rest
          /\ EndSeed(gen, expected' # rest)

ResumeAnswered ==
    /\ Answered("resume")
    /\ LET gen == Head(expected).gen
           lost == Head(wire).failed
       IN /\ paused' = (paused \/ Retries(lost, gen))
          /\ timer' = (timer \/ Retries(lost, gen))
    /\ expected' = Tail(expected)
    /\ UNCHANGED <<pane, outgoing, display>>

QueryAnswered ==
    /\ Answered("query")
    /\ expected' = Tail(expected)
    /\ UNCHANGED <<pane, paused, timer, outgoing, display>>

-----------------------------------------------------------------------------
Tmux ==
    \/ Write \/ NotifyHeld \/ PausePane \/ ContinuedByOther \/ RunQuery
    \/ \E f \in {"none", "capture", "cursor", "resume"} : RunSeed(f)

Client ==
    \/ StartSend \/ RouteOutput \/ Pause \/ Continue \/ ContinueDeadline \/ SpawnPane \/ Reconcile
    \/ CaptureAnswered \/ CursorAnswered \/ ResumeAnswered \/ QueryAnswered

Next == Tmux \/ Client \/ Resize \/ Query

Spec == Init /\ [][Next]_vars

\* The worker's thread runs, its timers expire, and tmux runs its commands.
FairSpec == Spec /\ WF_vars(Client) /\ WF_vars(RunQuery \/ RunSeed("none"))

-----------------------------------------------------------------------------
(* Properties.                                                             *)

\* Every block is taken for the answer to the command it answers, although a
\* line of commands stops at its first error and sends no block for the rest
\* (the comment in response_kind).
BlocksMatchRequests ==
    wire # <<>> /\ Head(wire).kind = "block" =>
        expected # <<>> /\ Head(expected) = Head(wire).answers

\* Nothing is under way and tmux has notified everything.
Quiet ==
    /\ wire = <<>> /\ outgoing = <<>> /\ expected = <<>> /\ pane.seeded
    /\ ~tmux.paused /\ tmux.notified = tmux.written

\* A seeded pane shows the output without a gap and, when nothing is under way,
\* all of it: no chunk is lost between snapshots, pauses, resizes and failures.
NothingLost ==
    pane.seeded => ~display.gap /\ (Quiet => display.shown = tmux.written)

\* A pane is never left paused or unseeded for ever: failed seeds and failed
\* continuations are tried again.
PaneRecovers == []<>(pane.seeded /\ ~tmux.paused)

\* The same where nobody asks for a seed while another is under way.
PaneRecoversAlone == [](spent.asks = 0) => PaneRecovers
=============================================================================
