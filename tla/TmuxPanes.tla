----------------------------- MODULE TmuxPanes -----------------------------
(***************************************************************************)
(* The virtual sessions of tmux panes.  An SSH worker in tmux control mode *)
(* (nyaterm-transport tmux/session.rs) follows the panes of the remote     *)
(* tmux session, registers each one as a session of its own in the         *)
(* registry of SessionManager (session.rs), pushes their output and tells  *)
(* the desktop which panes there are (emit_state).  The desktop            *)
(* (nyaterm-desktop features/tmux.rs) applies these states later, on its   *)
(* own thread, and closes the sessions of the panes it misses in them.     *)
(* The user may detach, attach again, and close the host meanwhile.        *)
(*                                                                         *)
(* Of the event queue the module keeps the cancelled sessions and the      *)
(* states queued for the host; SessionEventQueue models the rest.          *)
(***************************************************************************)
EXTENDS Naturals, Sequences

CONSTANTS
    Panes,      \* tmux pane ids, and the ids of their virtual sessions
    Windows,    \* tmux windows
    host,       \* the SSH session running the control client
    NoPane,
    MaxMoves,   \* bound: changes of the remote panes
    MaxWire,    \* bound: control messages in flight
    MaxStates   \* bound: states queued for the desktop

ASSUME PaneConstants ==
    /\ host \notin Panes /\ NoPane \notin Panes
    /\ MaxMoves \in Nat /\ MaxWire \in Nat /\ MaxStates \in Nat

VARIABLES
    remote,     \* the panes of each window of the attached tmux session
    left,       \* the panes that have ever left it
    moves,      \* changes of remote so far
    wire,       \* control messages sent by tmux and not yet read
    mode,       \* "shell", "control", "teardown" or "ended"
    exitMode,   \* ControlSession::exit_mode: "none", "detach" or "close"
    panes,      \* ControlSession::panes
    layouts,    \* the panes of the layouts in ControlSession::windows
    task,       \* what the worker's current handler has left to do
    parked,     \* the pane whose output the worker is parked on, if any
    last,       \* last_emitted
    registry,   \* SessionManager::sessions
    cancelled,  \* the queue's cancelled_sessions
    states,     \* TmuxState events the desktop has still to apply
    ui          \* what the desktop knows, and what its handler has left to do

worker == <<mode, exitMode, panes, layouts, task, parked, last>>
server == <<remote, left, moves, wire>>
queue  == <<cancelled, states>>
vars   == <<server, worker, registry, queue, ui>>

Layouts == [Windows -> SUBSET Panes]

NoLayouts == [w \in Windows |-> {}]

PanesOf(f) == UNION {f[w] : w \in Windows}

Message ==
    [kind : {"layout"}, window : Windows, panes : SUBSET Panes]
    \cup [kind : {"list"}, windows : Layouts]
    \cup [kind : {"paneExited"}, pane : Panes]
    \cup [kind : {"windowClose", "windowChanged"}, window : Windows]
    \cup [kind : {"sessionChanged", "exit"}]

\* drop and spawn are the panes the handler still has to drop and to spawn,
\* half the pane taken out of the registry and not yet cancelled, then what it
\* ends with.
Task == [drop : SUBSET Panes, spawn : SUBSET Panes, half : Panes \cup {NoPane},
         then : {"idle", "emit", "shell", "ended"}]

Idle == [drop |-> {}, spawn |-> {}, half |-> NoPane, then |-> "idle"]

State == [exited : BOOLEAN, panes : SUBSET Panes]

Exited == [exited |-> TRUE, panes |-> {}]

\* known is pane_sessions of the host; dead are the panes still to be closed and
\* next the panes to adopt.
Desktop == [known : SUBSET Panes, dead : SUBSET Panes, half : Panes \cup {NoPane},
            next : SUBSET Panes, busy : BOOLEAN]

TypeOK ==
    /\ remote \in Layouts /\ left \in SUBSET Panes /\ moves \in 0..MaxMoves
    /\ wire \in Seq(Message)
    /\ mode \in {"shell", "control", "teardown", "ended"}
    /\ exitMode \in {"none", "detach", "close"}
    /\ panes \in SUBSET Panes /\ layouts \in Layouts
    /\ task \in Task
    /\ parked \in Panes \cup {NoPane}
    /\ last \in State
    /\ registry \in SUBSET (Panes \cup {host})
    /\ cancelled \in SUBSET (Panes \cup {host})
    /\ states \in Seq(State)
    /\ ui \in Desktop

\* The host runs a shell; tmux may have been running before.
Init ==
    /\ remote \in {f \in Layouts : \A v, w \in Windows : v # w => f[v] \cap f[w] = {}}
    /\ left = {} /\ moves = 0 /\ wire = <<>>
    /\ mode = "shell" /\ exitMode = "none" /\ panes = {} /\ layouts = NoLayouts
    /\ task = Idle /\ parked = NoPane /\ last = Exited
    /\ registry = {host} /\ cancelled = {} /\ states = <<>>
    /\ ui = [known |-> {}, dead |-> {}, half |-> NoPane, next |-> {}, busy |-> FALSE]

-----------------------------------------------------------------------------
(* tmux, at the other end of the channel.  It tells an attached client of  *)
(* every change, one window at a time.                                     *)

Notify(ms) ==
    /\ Len(wire) + Len(ms) <= MaxWire
    /\ wire' = IF mode = "control" THEN wire \o ms ELSE wire

Move ==
    /\ moves < MaxMoves /\ moves' = moves + 1
    /\ UNCHANGED <<worker, registry, queue, ui>>

LayoutOf(w, S) == IF S = {} THEN [kind |-> "windowClose", window |-> w]
                  ELSE [kind |-> "layout", window |-> w, panes |-> S]

\* A split, a new window, or a pane of another session moved in.
PaneAppears(p, w) ==
    /\ Move
    /\ p \notin PanesOf(remote)
    /\ remote' = [remote EXCEPT ![w] = @ \cup {p}]
    /\ Notify(<<LayoutOf(w, remote'[w])>>)
    /\ UNCHANGED left

\* A pane exits, or is moved to another session.
PaneGoes(p, w) ==
    /\ Move
    /\ p \in remote[w]
    /\ remote' = [remote EXCEPT ![w] = @ \ {p}]
    /\ left' = left \cup {p}
    /\ \/ Notify(<<LayoutOf(w, remote'[w])>>)
       \/ Notify(<<[kind |-> "paneExited", pane |-> p]>>)

\* join-pane and break-pane: the windows report one after the other.
PaneMoves(p, v, w) ==
    /\ Move
    /\ v # w /\ p \in remote[v]
    /\ remote' = [remote EXCEPT ![v] = @ \ {p}, ![w] = @ \cup {p}]
    /\ Notify(<<LayoutOf(v, remote'[v]), LayoutOf(w, remote'[w])>>)
    /\ UNCHANGED left

\* switch-client: another session, with other panes, in one of its windows.
SessionChanges(S, w) ==
    /\ Move
    /\ S \cap PanesOf(remote) = {}
    /\ remote' = [NoLayouts EXCEPT ![w] = S]
    /\ left' = left \cup PanesOf(remote)
    /\ Notify(<<[kind |-> "sessionChanged"]>>)

\* What changes no pane: the answer to list-windows, which the worker asks for
\* again and again; a layout of the same panes; another window is selected; the
\* control client exits.
Tell ==
    /\ mode = "control"
    /\ \/ Notify(<<[kind |-> "list", windows |-> remote]>>)
       \/ \E w \in Windows :
             /\ remote[w] # {}
             /\ \/ Notify(<<LayoutOf(w, remote[w])>>)
                \/ Notify(<<[kind |-> "windowChanged", window |-> w]>>)
       \/ Notify(<<[kind |-> "exit"]>>)
    /\ UNCHANGED <<remote, left, moves, worker, registry, queue, ui>>

-----------------------------------------------------------------------------
(* The worker: one thread, which may also be parked in push.               *)

Free == mode = "control" /\ task = Idle /\ parked = NoPane

\* tmux -CC starts, or attaches again: run_control_session begins anew.
EnterControlMode ==
    /\ mode = "shell"
    /\ mode' = "control" /\ exitMode' = "none" /\ layouts' = NoLayouts /\ last' = Exited
    /\ wire' = <<>>
    /\ UNCHANGED <<remote, left, moves, panes, task, parked, registry, queue, ui>>

Receive(k) ==
    /\ Free
    /\ wire # <<>> /\ Head(wire).kind = k /\ wire' = Tail(wire)
    /\ UNCHANGED <<remote, left, moves, exitMode, panes, parked, last, registry, queue, ui>>

\* Only a list-windows snapshot can prove that a pane is gone.
Missing(snapshot) == IF snapshot THEN panes \ PanesOf(layouts') ELSE {}

\* reconcile_panes: drops, then spawns, then emit_state.
Reconcile(snapshot) ==
    /\ task' = [drop |-> Missing(snapshot), spawn |-> PanesOf(layouts') \ panes,
                half |-> NoPane, then |-> "emit"]
    /\ UNCHANGED mode

LayoutChange ==
    /\ Receive("layout")
    /\ LET m == Head(wire) IN layouts' = [layouts EXCEPT ![m.window] = m.panes]
    /\ Reconcile(FALSE)

WindowsRefresh ==
    /\ Receive("list")
    /\ layouts' = Head(wire).windows
    /\ Reconcile(TRUE)

\* Variant of WindowClose: the panes of the window go with it.
WindowCloseDrops ==
    /\ Receive("windowClose")
    /\ layouts' = [layouts EXCEPT ![Head(wire).window] = {}]
    /\ Reconcile(TRUE)

\* The window's panes stay until a snapshot misses them.
WindowClose ==
    /\ Receive("windowClose")
    /\ layouts' = [layouts EXCEPT ![Head(wire).window] = {}]
    /\ UNCHANGED <<mode, task>>

SessionWindowChanged ==
    /\ Receive("windowChanged")
    /\ UNCHANGED layouts
    /\ IF layouts[Head(wire).window] = {} THEN UNCHANGED <<mode, task>> ELSE Reconcile(FALSE)

\* Some messages only emit the state: a renamed window or another active pane,
\* even of a window whose layout is not known yet, and the answer to list-panes.
Refresh ==
    /\ Free
    /\ task' = [Idle EXCEPT !.then = "emit"]
    /\ UNCHANGED <<server, mode, exitMode, panes, layouts, parked, last, registry, queue, ui>>

PaneExited ==
    /\ Receive("paneExited")
    /\ task' = [Idle EXCEPT !.drop = panes \cap {Head(wire).pane}, !.then = "emit"]
    /\ UNCHANGED <<mode, layouts>>

SessionChanged ==
    /\ Receive("sessionChanged")
    /\ layouts' = NoLayouts
    /\ UNCHANGED <<mode, task>>

\* Variant of Unregister: the map forgets the pane, the registry does not.
KeepRegistered(p) == registry

\* remove_tmux_pane.
Unregister(p) == registry \ {p}

\* drop_pane takes the pane out of the worker's map and of the registry ...
DropPane(p) ==
    /\ p \in task.drop /\ task.half = NoPane
    /\ panes' = panes \ {p}
    /\ registry' = Unregister(p)
    /\ task' = [task EXCEPT !.drop = task.drop \ {p}, !.half = p]
    /\ UNCHANGED <<server, mode, exitMode, layouts, parked, last, queue, ui>>

\* ... and cancels its session, outside the registry's lock.
CancelDropped ==
    /\ task.half # NoPane
    /\ cancelled' = cancelled \cup {task.half}
    /\ task' = [task EXCEPT !.half = NoPane]
    /\ UNCHANGED <<server, mode, exitMode, panes, layouts, parked, last, registry, states, ui>>

\* Variant of MayRegister: the host is not consulted.
RegisterAlways == TRUE

\* register_tmux_pane, under the registry's lock, refuses a cancelled host.
MayRegister == host \notin cancelled

\* spawn_pane: the queue accepts the session again.
SpawnPane(p) ==
    /\ p \in task.spawn /\ task.drop = {} /\ task.half = NoPane
    /\ task' = [task EXCEPT !.spawn = task.spawn \ {p}]
    /\ IF MayRegister
       THEN /\ cancelled' = cancelled \ {p}
            /\ registry' = registry \cup {p}
            /\ panes' = panes \cup {p}
       ELSE UNCHANGED <<cancelled, registry, panes>>
    /\ UNCHANGED <<server, mode, exitMode, layouts, parked, last, states, ui>>

Handled == task.drop = {} /\ task.spawn = {} /\ task.half = NoPane

\* The queue refuses the events of a cancelled session.
PushState(s) ==
    /\ Len(states) < MaxStates
    /\ states' = IF host \in cancelled THEN states ELSE Append(states, s)

\* emit_state skips a payload equal to the last one; of the payload the model
\* keeps the panes, so equal panes may or may not be skipped.
EmitState ==
    /\ task.then = "emit" /\ Handled
    /\ LET s == [exited |-> FALSE, panes |-> panes]
       IN \/ s = last /\ UNCHANGED <<states, last>>
          \/ PushState(s) /\ last' = s
    /\ task' = Idle
    /\ UNCHANGED <<server, mode, exitMode, panes, layouts, parked, registry, cancelled, ui>>

\* The user detaches.
TmuxDetach ==
    /\ Free /\ exitMode = "none"
    /\ exitMode' = "detach"
    /\ UNCHANGED <<server, mode, panes, layouts, task, parked, last, registry, queue, ui>>

\* The host's mailbox is closed, and polled only until a detach is under way.
HostClosed ==
    /\ Free /\ exitMode = "none" /\ host \notin registry
    /\ exitMode' = "close"
    /\ UNCHANGED <<server, mode, panes, layouts, task, parked, last, registry, queue, ui>>

\* teardown drops every pane and then returns to the shell or ends the worker.
Teardown(then) ==
    /\ Free
    /\ mode' = "teardown" /\ wire' = <<>>
    /\ task' = [Idle EXCEPT !.drop = panes, !.then = then]
    /\ UNCHANGED <<remote, left, moves, exitMode, panes, layouts, parked, last, registry, queue, ui>>

AfterExit == IF exitMode = "close" THEN "ended" ELSE "shell"

Exit ==
    /\ wire # <<>> /\ Head(wire).kind = "exit"
    /\ Teardown(AfterExit)

\* detach-client never produced %exit.
DetachDeadline == exitMode # "none" /\ Teardown("ended")

\* The channel ends, or its responses can no longer be told apart.
ChannelClosed == Teardown("ended")

EmitExited ==
    /\ task.then \in {"shell", "ended"} /\ Handled
    /\ PushState(Exited)
    /\ task' = Idle /\ mode' = task.then
    /\ UNCHANGED <<server, exitMode, panes, layouts, parked, last, registry, cancelled, ui>>

EndShell ==
    /\ mode = "shell" /\ host \notin registry
    /\ mode' = "ended"
    /\ UNCHANGED <<server, exitMode, panes, layouts, task, parked, last, registry, queue, ui>>

\* route_output: the worker parks in push when the queue is full, and returns
\* when there is space or the session of that pane is cancelled.
ParkOnOutput(p) ==
    /\ Free
    /\ p \in panes \ cancelled
    /\ parked' = p
    /\ UNCHANGED <<server, mode, exitMode, panes, layouts, task, last, registry, queue, ui>>

Unpark ==
    /\ parked # NoPane
    /\ parked' = NoPane
    /\ UNCHANGED <<server, mode, exitMode, panes, layouts, task, last, registry, queue, ui>>

-----------------------------------------------------------------------------
(* The desktop: handle_session_tmux_state_event, and the close of the tab. *)

\* A state that says exited hides the panes and keeps them for a reattach.
TakeState ==
    /\ ~ui.busy /\ states # <<>>
    /\ states' = Tail(states)
    /\ LET s == Head(states)
       IN ui' = IF s.exited THEN ui
                ELSE [ui EXCEPT !.dead = ui.known \ s.panes, !.next = s.panes, !.busy = TRUE]
    /\ UNCHANGED <<server, worker, registry, cancelled>>

\* SessionManager::close of a pane the state misses: out of the registry under
\* its lock ...
CloseDeadPane(p) ==
    /\ ui.busy /\ p \in ui.dead /\ ui.half = NoPane
    /\ registry' = registry \ {p}
    /\ ui' = [ui EXCEPT !.dead = ui.dead \ {p}, !.known = ui.known \ {p},
                        !.half = IF p \in registry THEN p ELSE NoPane]
    /\ UNCHANGED <<server, worker, queue>>

\* ... then cancelled, unless it was not found.
CancelDeadPane ==
    /\ ui.half # NoPane
    /\ cancelled' = cancelled \cup {ui.half}
    /\ ui' = [ui EXCEPT !.half = NoPane]
    /\ UNCHANGED <<server, worker, registry, states>>

AdoptPanes ==
    /\ ui.busy /\ ui.dead = {} /\ ui.half = NoPane
    /\ ui' = [ui EXCEPT !.known = ui.next, !.next = {}, !.busy = FALSE]
    /\ UNCHANGED <<server, worker, registry, queue>>

\* Variant of Projections: cancelling the host alone.
HostAlone == {}

\* cancel_tmux_pane_output: the panes registered with the worker's mailbox.
Projections == registry \cap Panes

\* The user closes the tab.  close_detached of the host cancels it and its panes
\* under the registry's lock, and its queued states go with it.  The desktop
\* forgets all panes; those it was showing are closed next.
CloseHost ==
    /\ ~ui.busy /\ host \in registry
    /\ registry' = registry \ {host}
    /\ cancelled' = cancelled \cup {host} \cup Projections
    /\ states' = <<>>
    /\ \E shown \in SUBSET ui.known :
          ui' = [ui EXCEPT !.known = {}, !.dead = shown]
    /\ UNCHANGED <<server, worker>>

\* close_detached of a pane: one step, under the registry's lock.
CloseLeaf(p) ==
    /\ ~ui.busy /\ p \in ui.dead
    /\ registry' = registry \ {p}
    /\ cancelled' = IF p \in registry THEN cancelled \cup {p} ELSE cancelled
    /\ ui' = [ui EXCEPT !.dead = ui.dead \ {p}]
    /\ UNCHANGED <<server, worker, states>>

-----------------------------------------------------------------------------
Server ==
    \/ Tell
    \/ \E w \in Windows : \E S \in SUBSET Panes : SessionChanges(S, w)
    \/ \E p \in Panes, w \in Windows :
          \/ PaneAppears(p, w) \/ PaneGoes(p, w)
          \/ \E v \in Windows : PaneMoves(p, v, w)

\* The rest of a handler that has begun.
Handler ==
    \/ CancelDropped \/ EmitState \/ EmitExited
    \/ \E p \in Panes : DropPane(p) \/ SpawnPane(p)

Control ==
    \/ LayoutChange \/ WindowsRefresh \/ WindowClose \/ SessionWindowChanged
    \/ PaneExited \/ SessionChanged \/ Refresh \/ Exit \/ ChannelClosed \/ TmuxDetach
    \/ \E p \in Panes : ParkOnOutput(p)

DesktopStep ==
    \/ TakeState \/ CancelDeadPane \/ AdoptPanes
    \/ \E p \in Panes : CloseDeadPane(p) \/ CloseLeaf(p)

Next ==
    \/ Server \/ EnterControlMode \/ Control \/ HostClosed \/ DetachDeadline
    \/ Handler \/ EndShell \/ Unpark \/ DesktopStep \/ CloseHost

Spec == Init /\ [][Next]_vars

\* Threads run.  The select of run_control_session is biased: it polls the
\* deadline of a detach and the host's mailbox before the channel, so messages
\* cannot keep either waiting for ever.  A push parked on a cancelled session
\* returns; nothing is assumed of the space in the queue, because a window need
\* never drain a pane.
FairSpec ==
    /\ Spec
    /\ WF_vars(Handler) /\ WF_vars(DesktopStep) /\ WF_vars(EndShell)
    /\ SF_vars(HostClosed) /\ SF_vars(DetachDeadline)
    /\ WF_vars(parked \in cancelled /\ Unpark)

-----------------------------------------------------------------------------
(* Properties.                                                             *)

\* Once the close of the host has cancelled it, no pane of its worker is
\* accepted by the queue, although layouts may still be in flight (the comment
\* in register_tmux_pane): the worker cannot park on output nobody will drain
\* while it is being joined.
PanesSilentAfterClose == host \in cancelled => panes \subseteq cancelled

\* A pane in the registry is one the worker projects: no session without a
\* worker to feed it is left behind by a drop or a teardown that races the
\* desktop's own closing of the pane.
NoOrphanSessions == registry \cap Panes \subseteq panes

\* The worker gives a pane up only if it has left the remote session at some
\* time, or on a teardown: a pane moving between windows, which tmux reports
\* one window at a time, keeps its session (the comment in reconcile_panes).
DropsOnlyPanesThatLeft ==
    [][\A p \in panes \ panes' : p \in left \/ mode = "teardown"]_vars

\* Closing the host ends its worker, even one parked on the output of a pane
\* (the comment on cancel_tmux_pane_output).
CloseEndsWorker == host \notin registry ~> mode = "ended"

\* Nothing is under way: no message, no state, no handler.
Settled ==
    /\ host \in registry /\ mode = "control" /\ task = Idle /\ wire = <<>>
    /\ states = <<>> /\ ~ui.busy

\* When everything has been handled, the panes the worker projects are
\* registered and their output is accepted: a pane that comes back, after a
\* reattach or under its old id, is not left cancelled (the comments on
\* resume_session and in apply_window_list).
ProjectedPanesLive ==
    Settled => \A p \in panes : p \in registry /\ p \notin cancelled
=============================================================================
