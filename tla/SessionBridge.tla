---------------------------- MODULE SessionBridge ----------------------------
(***************************************************************************)
(* How the events of one session travel from the transport queue to the    *)
(* terminal of the window that shows it: nyaterm-desktop                   *)
(* models/session_event_bridge.rs and its users (the drain of the event    *)
(* pump, the ZMODEM runtime, tab moves between windows).                   *)
(*                                                                         *)
(* Every window has a bridge thread and a UI thread.  The bridge thread    *)
(* drains a batch of the session's events while it holds the transfer gate *)
(* and routes each one: directly to the frame worker, or through the UI    *)
(* queue to the UI thread, whose detectors may withhold output or hand the *)
(* session to a ZMODEM runtime.  A tab, with its session, moves to another *)
(* window and back.                                                        *)
(*                                                                         *)
(* Events are numbered in the order the transport produced them; `kinds'   *)
(* says what each one is.  Every queue is a sequence of those numbers.     *)
(* `seen' is what reached the frame worker or was handled by the UI thread,*)
(* in that order; `consumed' is what a file transfer consumed.  `carried'  *)
(* and `resumed' are histories: the events a detector held when the tab    *)
(* moved, and those a move that failed gave back to the window, each with  *)
(* the length of `seen' at that time.                                      *)
(***************************************************************************)
EXTENDS Integers, Sequences, SequencesExt

CONSTANTS
    Windows,
    Runtime,            \* the consumer id of the ZMODEM runtime
    Nobody,             \* no window, no consumer
    MaxEvents,          \* bound: events the transport produces
    MaxMoves,           \* bound: tab moves
    ProbeEvents,        \* SESSION_EVENT_BRIDGE_SIDEBAND_PROBE_EVENTS
    FrameMayStall       \* the frame worker may leave a move unanswered for 5 s

ASSUME BridgeConstants ==
    /\ Nobody \notin Windows /\ Runtime \notin Windows /\ Runtime # Nobody
    /\ MaxEvents \in Nat /\ MaxMoves \in Nat /\ ProbeEvents \in Nat
    /\ FrameMayStall \in BOOLEAN

VARIABLES
    kinds,      \* kinds[n]: what event n is
    source,     \* the session's events in the transport queue
    consumer,   \* the consumer they are assigned to
    batch,      \* batch[w]: drained by the bridge thread and not yet routed
    direct,     \* direct[w]: pending_direct_outputs
    probe,      \* probe[w]: events left of the sideband probe
    uiQueue,    \* uiQueue[w]: ui_queue
    routed,     \* routed[w]: the session is in ui_routed_sessions
    held,       \* held[w]: ... in pending_ui_sessions
    bound,      \* bound[w]: ... in protocol_consumers
    configured, \* configured[w]: ... in session_encodings
    pending,    \* pending[w]: events.pending of the UI thread
    frames,     \* frames[w]: pending_frame_outputs of the drain
    ui,         \* ui[w]: whether the UI thread is inside a drain
    home,       \* the window that shows the session; Nobody during a move
    bundle,     \* the events that travel with the tab
    withheld,   \* output held back by the detectors; travels with the tab
    runtime,    \* the ZMODEM runtime
    input,      \* what the runtime has taken over or drained
    published,  \* events of the runtime that the UI thread has not received
    seen,
    consumed,
    carried,
    resumed,
    moves

history == <<carried, resumed, moves>>
control == <<routed, held, bound, configured>>
transfer == <<runtime, input, published, consumed>>
vars == <<kinds, source, consumer, batch, direct, probe, uiQueue, control, pending,
          frames, ui, home, bundle, withheld, transfer, seen, history>>

Kinds == {"text", "trigger", "control"}

Published == [events : Seq(Nat), done : BOOLEAN]

TypeOK ==
    /\ kinds \in Seq(Kinds)
    /\ \A q \in {source, bundle, withheld, input, seen, consumed} : q \in Seq(Nat)
    /\ consumer \in Windows \cup {Runtime, Nobody}
    /\ \A f \in {batch, direct, uiQueue, pending, frames} : f \in [Windows -> Seq(Nat)]
    /\ probe \in [Windows -> 0 .. ProbeEvents]
    /\ \A f \in {routed, held, bound, configured} : f \in [Windows -> BOOLEAN]
    /\ ui \in [Windows -> {"idle", "drain"}]
    /\ home \in Windows \cup {Nobody}
    /\ runtime \in {"none", "live", "done"}
    /\ published \in Seq(Published)
    /\ \A h \in {carried, resumed} : h \in SUBSET (Nat \X Nat)
    /\ moves \in 0 .. MaxMoves

\* A session registered in one window: claim_session, and the bridge knows its
\* encoding.
Init ==
    /\ kinds = <<>>
    /\ source = <<>>
    /\ home \in Windows
    /\ consumer = home
    /\ configured = [w \in Windows |-> w = home]
    /\ batch = [w \in Windows |-> <<>>]
    /\ direct = [w \in Windows |-> <<>>]
    /\ uiQueue = [w \in Windows |-> <<>>]
    /\ pending = [w \in Windows |-> <<>>]
    /\ frames = [w \in Windows |-> <<>>]
    /\ probe = [w \in Windows |-> 0]
    /\ routed = [w \in Windows |-> FALSE]
    /\ held = [w \in Windows |-> FALSE]
    /\ bound = [w \in Windows |-> FALSE]
    /\ ui = [w \in Windows |-> "idle"]
    /\ bundle = <<>>
    /\ withheld = <<>>
    /\ runtime = "none"
    /\ input = <<>>
    /\ published = <<>>
    /\ seen = <<>>
    /\ consumed = <<>>
    /\ carried = {}
    /\ resumed = {}
    /\ moves = 0

-----------------------------------------------------------------------------
(* The transport queue (SessionEventQueue): events of one session, in order*)

Produce(k) ==
    /\ Len(kinds) < MaxEvents
    /\ kinds' = Append(kinds, k)
    /\ source' = Append(source, Len(kinds) + 1)
    /\ UNCHANGED <<consumer, batch, direct, probe, uiQueue, control, pending, frames, ui,
                   home, bundle, withheld, transfer, seen, history>>

\* A drain takes as much as its budget allows.
Take(q, n) == SubSeq(q, 1, n)
Leave(q, n) == SubSeq(q, n + 1, Len(q))

-----------------------------------------------------------------------------
(* The bridge thread: run_session_event_bridge.  It holds the transfer gate*)
(* from the drain of a batch to the flush of the last direct output.       *)

GateFree(w) == batch[w] = <<>> /\ direct[w] = <<>>

DrainSource(w) ==
    /\ GateFree(w)
    /\ consumer = w
    /\ \E n \in 1 .. Len(source) :
          /\ batch' = [batch EXCEPT ![w] = Take(source, n)]
          /\ source' = Leave(source, n)
    /\ UNCHANGED <<kinds, consumer, direct, probe, uiQueue, control, pending, frames, ui,
                   home, bundle, withheld, transfer, seen, history>>

\* The probe opened by a trigger may have expired when the event is routed.
ProbeActive(w) == IF probe[w] > 0 THEN BOOLEAN ELSE {FALSE}

\* Variant of MayGoDirect: a handoff ends when the UI queue is empty.
DirectOnceQueueEmpty(w) == configured[w] /\ ~routed[w] /\ uiQueue[w] = <<>>

\* bridge_output_can_go_direct and bridge_output_is_backpressured: both send
\* the output to the frame worker.
MayGoDirect(w) == configured[w] /\ ~routed[w] /\ ~held[w]

\* bridge_route_event, for an output that goes directly to the frame worker
RouteDirect(w) ==
    /\ batch[w] # <<>>
    /\ kinds[Head(batch[w])] = "text"
    /\ FALSE \in ProbeActive(w)
    /\ MayGoDirect(w)
    /\ direct' = [direct EXCEPT ![w] = Append(@, Head(batch[w]))]
    /\ batch' = [batch EXCEPT ![w] = Tail(@)]
    /\ probe' = [probe EXCEPT ![w] = 0]
    /\ UNCHANGED <<kinds, source, consumer, uiQueue, control, pending, frames, ui, home,
                   bundle, withheld, transfer, seen, history>>

\* bridge_consume_sideband_probe; a probe that is used up is removed.
UsedUp(left) == IF left > 0 THEN left - 1 ELSE 0

\* ... and for an event that goes through the UI queue: a trigger, an output of
\* a session the UI thread must see, or a control event.  What the probe has
\* left: a trigger arms it anew, an output routed to the UI uses it up.
RouteToUi(w) ==
    /\ batch[w] # <<>>
    /\ \E active \in ProbeActive(w) :
         LET k == kinds[Head(batch[w])]
             armed == IF k = "trigger" THEN ProbeEvents ELSE IF active THEN probe[w] ELSE 0
         IN /\ k = "text" => active \/ ~MayGoDirect(w)
            /\ probe' = [probe EXCEPT ![w] = IF k = "control" THEN @
                                             ELSE UsedUp(armed)]
    /\ seen' = seen \o direct[w]
    /\ direct' = [direct EXCEPT ![w] = <<>>]
    /\ uiQueue' = [uiQueue EXCEPT ![w] = Append(@, Head(batch[w]))]
    /\ held' = [held EXCEPT ![w] = TRUE]
    /\ batch' = [batch EXCEPT ![w] = Tail(@)]
    /\ UNCHANGED <<kinds, source, consumer, routed, bound, configured, pending, frames, ui,
                   home, bundle, withheld, transfer, history>>

\* flush_bridge_direct_outputs at the end of the batch
FlushDirect(w) ==
    /\ batch[w] = <<>> /\ direct[w] # <<>>
    /\ seen' = seen \o direct[w]
    /\ direct' = [direct EXCEPT ![w] = <<>>]
    /\ UNCHANGED <<kinds, source, consumer, batch, probe, uiQueue, control, pending, frames,
                   ui, home, bundle, withheld, transfer, history>>

-----------------------------------------------------------------------------
(* The UI thread: drain_session_events_with_budget.  Events of other       *)
(* sessions start drains too, so a drain may find nothing of this one.     *)

StartUiDrain(w) ==
    /\ ui[w] = "idle"
    /\ ui' = [ui EXCEPT ![w] = "drain"]
    /\ \E n \in 0 .. Len(uiQueue[w]) :
          IF pending[w] = <<>>
          THEN /\ pending' = [pending EXCEPT ![w] = Take(uiQueue[w], n)]
               /\ uiQueue' = [uiQueue EXCEPT ![w] = Leave(@, n)]
          ELSE UNCHANGED <<pending, uiQueue>>
    /\ UNCHANGED <<kinds, source, consumer, batch, direct, probe, control, frames, home,
                   bundle, withheld, transfer, seen, history>>

Popped(w) == [pending EXCEPT ![w] = Tail(@)]

\* A control event is handled after what was accepted before it is submitted.
HandleControl(w) ==
    /\ ui[w] = "drain" /\ pending[w] # <<>>
    /\ kinds[Head(pending[w])] = "control"
    /\ seen' = seen \o Append(frames[w], Head(pending[w]))
    /\ frames' = [frames EXCEPT ![w] = <<>>]
    /\ pending' = Popped(w)
    /\ UNCHANGED <<kinds, source, consumer, batch, direct, probe, uiQueue, control, ui, home,
                   bundle, withheld, transfer, history>>

\* session_sideband_detectors_idle
DetectorsIdle == withheld = <<>> /\ runtime = "none"

\* session_output_can_bypass_sideband_detectors
AcceptOutput(w) ==
    /\ ui[w] = "drain" /\ pending[w] # <<>>
    /\ kinds[Head(pending[w])] = "text" /\ DetectorsIdle
    /\ frames' = [frames EXCEPT ![w] = Append(@, Head(pending[w]))]
    /\ pending' = Popped(w)
    /\ UNCHANGED <<kinds, source, consumer, batch, direct, probe, uiQueue, control, ui, home,
                   bundle, withheld, transfer, seen, history>>

\* The detectors let a prefix of what they have pass and withhold the rest; the
\* accepted output is submitted before the routing follows the detectors.  No
\* output of a session whose transfer is live should get here
\* (process_zmodem_output): it would be dropped.
InspectOutput(w) ==
    /\ ui[w] = "drain" /\ pending[w] # <<>>
    /\ kinds[Head(pending[w])] # "control"
    /\ kinds[Head(pending[w])] = "trigger" \/ ~DetectorsIdle
    /\ IF runtime = "none"
       THEN LET all == Append(withheld, Head(pending[w]))
            IN \E n \in 0 .. Len(all) :
                  /\ withheld' = Leave(all, n)
                  /\ seen' = seen \o frames[w] \o Take(all, n)
                  /\ routed' = [routed EXCEPT ![w] = (n < Len(all))]
       ELSE /\ seen' = seen \o frames[w]
            /\ routed' = [routed EXCEPT ![w] = TRUE]
            /\ UNCHANGED withheld
    /\ frames' = [frames EXCEPT ![w] = <<>>]
    /\ pending' = Popped(w)
    /\ UNCHANGED <<kinds, source, consumer, batch, direct, probe, uiQueue, held, bound,
                   configured, ui, home, bundle, transfer, history>>

\* Variant of Fence: what the UI thread has already taken is forgotten.
FenceQueueOnly(w) == uiQueue[w]

\* What was dequeued and not processed when a transfer starts, in order.
Fence(w) == Tail(pending[w]) \o uiQueue[w]

\* A transfer is detected: start_zmodem_runtime and begin_protocol_handoff.
\* The initial bytes belong to the transfer.
StartTransfer(w) ==
    /\ ui[w] = "drain" /\ pending[w] # <<>>
    /\ kinds[Head(pending[w])] = "trigger" /\ runtime = "none"
    /\ GateFree(w)
    /\ runtime' = "live"
    /\ consumed' = Append(consumed, Head(pending[w]))
    /\ input' = Fence(w)
    /\ pending' = [pending EXCEPT ![w] = <<>>]
    /\ uiQueue' = [uiQueue EXCEPT ![w] = <<>>]
    /\ bound' = [bound EXCEPT ![w] = TRUE]
    /\ consumer' = Runtime
    /\ seen' = seen \o frames[w] \o withheld
    /\ frames' = [frames EXCEPT ![w] = <<>>]
    /\ withheld' = <<>>
    /\ routed' = [routed EXCEPT ![w] = TRUE]
    /\ UNCHANGED <<kinds, source, batch, direct, probe, held, configured, ui, home, bundle,
                   published, history>>

\* drain_zmodem_idle_output and drain_trzsz_idle_output: a marker that did not
\* go on releases the text; it is submitted before the routing changes.
ReleaseWithheld(w) ==
    /\ ui[w] = "drain" /\ home = w
    /\ pending[w] = <<>> /\ uiQueue[w] = <<>>
    /\ withheld # <<>> /\ runtime = "none"
    /\ seen' = seen \o frames[w] \o withheld
    /\ frames' = [frames EXCEPT ![w] = <<>>]
    /\ withheld' = <<>>
    /\ routed' = [routed EXCEPT ![w] = FALSE]
    /\ UNCHANGED <<kinds, source, consumer, batch, direct, probe, uiQueue, held, bound,
                   configured, pending, ui, home, bundle, transfer, history>>

\* complete_ui_drain
StillHeld(w) == held[w] /\ (pending[w] # <<>> \/ uiQueue[w] # <<>>)

FinishUiDrain(w) ==
    /\ ui[w] = "drain"
    /\ ui' = [ui EXCEPT ![w] = "idle"]
    /\ seen' = seen \o frames[w]
    /\ frames' = [frames EXCEPT ![w] = <<>>]
    /\ held' = [held EXCEPT ![w] = StillHeld(w)]
    /\ UNCHANGED <<kinds, source, consumer, batch, direct, probe, uiQueue, routed, bound,
                   configured, pending, home, bundle, withheld, transfer, history>>

\* sync_session_event_bridge_config: new tabs and changed settings tell the bridge
\* which sessions the window shows, and leave their routing alone.
SyncConfig(w) ==
    /\ ui[w] = "idle"
    /\ configured' = [configured EXCEPT ![w] = (home = w)]
    /\ UNCHANGED <<kinds, source, consumer, batch, direct, probe, uiQueue, routed, held, bound,
                   pending, frames, ui, home, bundle, withheld, transfer, seen, history>>

\* sync_session_event_bridge_policy: other transitions of the window configure
\* the bridge with the sessions it shows and set their routing.
SyncPolicy(w) ==
    /\ ui[w] = "idle"
    /\ configured' = [configured EXCEPT ![w] = (home = w)]
    /\ routed' = [routed EXCEPT ![w] = (home = w /\ ~DetectorsIdle)]
    /\ UNCHANGED <<kinds, source, consumer, batch, direct, probe, uiQueue, held, bound,
                   pending, frames, ui, home, bundle, withheld, transfer, seen, history>>

-----------------------------------------------------------------------------
(* The ZMODEM runtime thread: nyaterm-transport zmodem/runtime.rs.         *)

RuntimeDrain ==
    /\ runtime = "live" /\ consumer = Runtime
    /\ input = <<>>
    /\ \E n \in 1 .. Len(source) :
          /\ input' = Take(source, n)
          /\ source' = Leave(source, n)
    /\ UNCHANGED <<kinds, consumer, batch, direct, probe, uiQueue, control, pending, frames,
                   ui, home, bundle, withheld, runtime, published, consumed, seen, history>>

\* Output feeds the transfer; a control event is published for the UI thread.
RuntimeStep ==
    /\ runtime = "live" /\ input # <<>>
    /\ input' = Tail(input)
    /\ IF kinds[Head(input)] = "control"
       THEN /\ published' = Append(published, [events |-> <<Head(input)>>, done |-> FALSE])
            /\ UNCHANGED consumed
       ELSE /\ consumed' = Append(consumed, Head(input))
            /\ UNCHANGED published
    /\ UNCHANGED <<kinds, source, consumer, batch, direct, probe, uiQueue, control, pending,
                   frames, ui, home, bundle, withheld, runtime, seen, history>>

\* The transfer completes, fails or is cancelled: what was dequeued and not
\* consumed is given back with the last event.
RuntimeDone ==
    /\ runtime = "live"
    /\ runtime' = "done"
    /\ published' = Append(published, [events |-> input, done |-> TRUE])
    /\ input' = <<>>
    /\ UNCHANGED <<kinds, source, consumer, batch, direct, probe, uiQueue, control, pending,
                   frames, ui, home, bundle, withheld, consumed, seen, history>>

\* apply_zmodem_worker_event; with the last one, finish_protocol_handoff, which
\* holds the session behind what was given back, the end of the transfer and the
\* routing that follows from it.
ReceivePublished(w) ==
    /\ ui[w] = "idle" /\ home = w
    /\ published # <<>>
    /\ published' = Tail(published)
    /\ pending' = [pending EXCEPT ![w] = @ \o Head(published).events]
    /\ IF Head(published).done
       THEN /\ GateFree(w)
            /\ bound' = [bound EXCEPT ![w] = FALSE]
            /\ held' = [held EXCEPT ![w] = TRUE]
            /\ consumer' = w
            /\ runtime' = "none"
            /\ routed' = [routed EXCEPT ![w] = FALSE]
       ELSE UNCHANGED <<bound, held, consumer, runtime, routed>>
    /\ UNCHANGED <<kinds, source, batch, direct, probe, uiQueue, configured, frames, ui, home,
                   bundle, withheld, input, consumed, seen, history>>

-----------------------------------------------------------------------------
(* A tab moves: tab_transfer.rs and the controller.  Both ends run on the  *)
(* UI threads, between drains.                                             *)

MayMove(w) ==
    /\ ui[w] = "idle" /\ home = w
    /\ moves < MaxMoves
    /\ GateFree(w)

\* The histories: the events of q with what has been seen, and a history without them.
Marked(q) == Range(q) \X {Len(seen)}
Without(h, q) == {c \in h : c[1] \notin Range(q)}

\* detach_tab_tree_for_transfer: pause_sessions_for_transfer, then either the
\* frame worker gives the session up and its events travel with the tab, or
\* resume_sessions_after_failed_transfer.  The detectors and what they withhold
\* travel with the tab as well; nothing asks whether they hold anything.
Detach(w) ==
    /\ MayMove(w)
    /\ moves' = moves + 1
    /\ bound' = [bound EXCEPT ![w] = FALSE]
    /\ routed' = [routed EXCEPT ![w] = FALSE]
    /\ held' = [held EXCEPT ![w] = FALSE]
    /\ uiQueue' = [uiQueue EXCEPT ![w] = <<>>]
    /\ \E answered \in IF FrameMayStall THEN BOOLEAN ELSE {TRUE} :
          LET own == pending[w] \o uiQueue[w]
          IN /\ consumer' = IF ~answered THEN w
                            ELSE IF consumer = w THEN Nobody ELSE consumer
             /\ bundle' = IF answered THEN own ELSE <<>>
             /\ pending' = [pending EXCEPT ![w] = IF answered THEN <<>> ELSE own]
             /\ home' = IF answered THEN Nobody ELSE w
             /\ carried' = IF answered THEN carried \cup Marked(withheld)
                           ELSE Without(carried, withheld)
             /\ resumed' = IF answered THEN Without(resumed, withheld)
                           ELSE resumed \cup Marked(own)
    /\ UNCHANGED <<kinds, source, batch, direct, probe, configured, frames, ui, withheld,
                   transfer, seen>>

\* claim_session, after bind_protocol_consumer for a session with a runtime
Claimant(w) == IF bound[w] \/ runtime # "none" THEN Runtime ELSE w

\* attach_sessions_from_transfer, in the window the tab was dragged to or, when
\* that window refuses it, in the one it came from: bind the runtime if there
\* is one, hold_session_for_ui, claim, and only then append what moved with the tab.
Attach(w) ==
    /\ home = Nobody /\ ui[w] = "idle"
    /\ home' = w
    /\ bound' = [bound EXCEPT ![w] = @ \/ runtime # "none"]
    /\ held' = [held EXCEPT ![w] = TRUE]
    /\ consumer' = Claimant(w)
    /\ pending' = [pending EXCEPT ![w] = @ \o bundle]
    /\ bundle' = <<>>
    /\ UNCHANGED <<kinds, source, batch, direct, probe, uiQueue, routed, configured, frames,
                   ui, withheld, transfer, seen, history>>

-----------------------------------------------------------------------------
Bridge(w) == DrainSource(w) \/ RouteDirect(w) \/ RouteToUi(w) \/ FlushDirect(w)

UiDrain(w) ==
    \/ StartUiDrain(w) \/ HandleControl(w) \/ AcceptOutput(w)
    \/ InspectOutput(w) \/ ReleaseWithheld(w) \/ FinishUiDrain(w)

RuntimeThread == RuntimeDrain \/ RuntimeStep \/ RuntimeDone

Next ==
    \/ \E k \in Kinds : Produce(k)
    \/ RuntimeThread
    \/ \E w \in Windows :
          \/ Bridge(w) \/ UiDrain(w) \/ StartTransfer(w)
          \/ SyncConfig(w) \/ SyncPolicy(w) \/ ReceivePublished(w)
          \/ Detach(w) \/ Attach(w)

Spec == Init /\ [][Next]_vars

-----------------------------------------------------------------------------
(* Properties.                                                             *)

\* Everything of the session that waits in the window w.
Waiting(w) == batch[w] \o direct[w] \o uiQueue[w] \o pending[w] \o frames[w]

\* Every event the transport produced, wherever it is now.
Everything ==
    source \o bundle \o withheld \o input \o seen \o consumed
    \o FoldFunction(\o, <<>>, [w \in Windows |-> Waiting(w)])
    \o FoldFunction(\o, <<>>, [i \in DOMAIN published |-> published[i].events])

\* Nothing is lost and nothing comes twice: an event is always in exactly one
\* place, although two bridge threads, two UI threads and a runtime take it
\* from each other and a tab may move while a batch is being routed.
NothingLostNorTwice ==
    /\ Len(Everything) = Len(kinds)
    /\ Range(Everything) = DOMAIN kinds

IsOutput(n) == kinds[n] # "control"

\* The places of seen whose events came the wrong way round.  A control event (an
\* exit, a new directory) may pass output that a detector withholds.
Overtakings ==
    {<<i, j>> \in (DOMAIN seen) \X (DOMAIN seen) :
        i < j /\ seen[i] > seen[j] /\ (IsOutput(seen[i]) \/ ~IsOutput(seen[j]))}

\* Those of the events in a history, by what the window got after they were marked.
OvertakingsOf(h) == {o \in Overtakings : \E c \in h : c[1] = seen[o[2]] /\ c[2] < o[1]}

\* The events of a session reach its window in the order they were produced,
\* whichever of the direct path, the UI queue, the detectors and another window
\* they came through (the comments on pending_ui_sessions and complete_ui_drain).
\* The one exception, which MovesKeepAnOrder is about: nothing routes what a window
\* gets behind the bytes its detectors brought along.  A transfer gets its input
\* in order.
OutputInOrder ==
    /\ Overtakings = OvertakingsOf(carried)
    /\ \A i, j \in DOMAIN consumed : i < j => consumed[i] < consumed[j]

\* "A UI handoff remains ordered until the UI has submitted its whole drain to the
\* frame worker" (pending_ui_sessions), after a move that failed too.
HandoffOrdered == OvertakingsOf(resumed) = {}

\* "Transferred UI events and detector-held bytes precede any output the
\* destination bridge can receive after claiming this session"
\* (attach_sessions_from_transfer).
DetectorHeldFirst == OvertakingsOf(carried) = {}

\* A tab that moves keeps at least one of the two orders the comments promise; a
\* behaviour that violates it breaks both of them.
MovesKeepAnOrder == HandoffOrdered \/ DetectorHeldFirst
=============================================================================
