------------------------- MODULE TmuxPanesProofs -------------------------
(***************************************************************************)
(* Theorems about TmuxPanes, for every set of panes and windows.           *)
(***************************************************************************)
EXTENDS TmuxPanes, SequenceTheorems, TLAPS

-----------------------------------------------------------------------------
(* Type correctness.                                                       *)

\* What tmux notifies are messages, and the wire stays a sequence of them.
LEMMA NotifyType ==
    ASSUME TypeOK, NEW ms \in Seq(Message), Notify(ms)
    PROVE  wire' \in Seq(Message)
<1>1. wire \o ms \in Seq(Message)
  BY DEF TypeOK
<1>. QED BY <1>1 DEF Notify, TypeOK

\* ... in particular when it notifies one message.
LEMMA NotifyOneType ==
    ASSUME TypeOK, NEW m \in Message, Notify(<<m>>)
    PROVE  wire' \in Seq(Message)
<1>1. <<m>> \in Seq(Message)
  OBVIOUS
<1>. QED BY <1>1, NotifyType

LEMMA LayoutOfType ==
    ASSUME NEW w \in Windows, NEW S \in SUBSET Panes
    PROVE  LayoutOf(w, S) \in Message
BY DEF LayoutOf, Message

\* The server's steps keep the types.
LEMMA ServerType ==
    ASSUME TypeOK, Server
    PROVE  TypeOK'
<1>1. ASSUME NEW p \in Panes, NEW w \in Windows, PaneAppears(p, w) PROVE TypeOK'
  <2>1. remote' \in Layouts /\ remote'[w] \in SUBSET Panes
    BY <1>1 DEF PaneAppears, TypeOK, Layouts
  <2>2. wire' \in Seq(Message)
    <3>1. LayoutOf(w, remote'[w]) \in Message
      BY <2>1, LayoutOfType
    <3>. QED BY <1>1, <3>1, NotifyOneType DEF PaneAppears
  <2>3. moves' \in 0..MaxMoves
    BY <1>1, PaneConstants DEF PaneAppears, Move, TypeOK
  <2>. QED BY <1>1, <2>1, <2>2, <2>3 DEF PaneAppears, Move, TypeOK, worker, queue
<1>2. ASSUME NEW p \in Panes, NEW w \in Windows, PaneGoes(p, w) PROVE TypeOK'
  <2>1. remote' \in Layouts /\ remote'[w] \in SUBSET Panes
    BY <1>2 DEF PaneGoes, TypeOK, Layouts
  <2>2. [kind |-> "paneExited", pane |-> p] \in Message
    BY DEF Message
  <2>3. wire' \in Seq(Message)
    <3>1. LayoutOf(w, remote'[w]) \in Message
      BY <2>1, LayoutOfType
    <3>. QED BY <1>2, <2>2, <3>1, NotifyOneType DEF PaneGoes
  <2>4. moves' \in 0..MaxMoves
    BY <1>2, PaneConstants DEF PaneGoes, Move, TypeOK
  <2>. QED BY <1>2, <2>1, <2>3, <2>4 DEF PaneGoes, Move, TypeOK, worker, queue
<1>3. ASSUME NEW p \in Panes, NEW v \in Windows, NEW w \in Windows, PaneMoves(p, v, w)
      PROVE  TypeOK'
  <2>1. remote' \in Layouts /\ remote'[w] \in SUBSET Panes /\ remote'[v] \in SUBSET Panes
    BY <1>3 DEF PaneMoves, TypeOK, Layouts
  <2>2. <<LayoutOf(v, remote'[v]), LayoutOf(w, remote'[w])>> \in Seq(Message)
    BY <2>1, LayoutOfType
  <2>3. wire' \in Seq(Message)
    BY <1>3, <2>2, NotifyType DEF PaneMoves
  <2>4. moves' \in 0..MaxMoves
    BY <1>3, PaneConstants DEF PaneMoves, Move, TypeOK
  <2>. QED BY <1>3, <2>1, <2>3, <2>4 DEF PaneMoves, Move, TypeOK, worker, queue
<1>4. ASSUME NEW S \in SUBSET Panes, NEW w \in Windows, SessionChanges(S, w) PROVE TypeOK'
  <2>1. remote' \in Layouts
    BY <1>4 DEF SessionChanges, NoLayouts, Layouts
  <2>2. [kind |-> "sessionChanged"] \in Message
    BY DEF Message
  <2>3. wire' \in Seq(Message)
    BY <1>4, <2>2, NotifyOneType DEF SessionChanges
  <2>4. moves' \in 0..MaxMoves
    BY <1>4, PaneConstants DEF SessionChanges, Move, TypeOK
  <2>5. left' \in SUBSET Panes
    BY <1>4 DEF SessionChanges, PanesOf, TypeOK, Layouts
  <2>. QED BY <1>4, <2>1, <2>3, <2>4, <2>5 DEF SessionChanges, Move, TypeOK, worker, queue
<1>5. ASSUME Tell PROVE TypeOK'
  <2>1. [kind |-> "list", windows |-> remote] \in Message /\ [kind |-> "exit"] \in Message
    BY DEF Message, TypeOK
  <2>2. ASSUME NEW w \in Windows
        PROVE  /\ LayoutOf(w, remote[w]) \in Message
               /\ [kind |-> "windowChanged", window |-> w] \in Message
    <3>1. remote[w] \in SUBSET Panes
      BY DEF TypeOK, Layouts
    <3>. QED BY <3>1, LayoutOfType DEF Message
  <2>3. wire' \in Seq(Message)
    BY <1>5, <2>1, <2>2, NotifyOneType DEF Tell
  <2>. QED BY <1>5, <2>3 DEF Tell, TypeOK, worker, queue
<1>. QED BY <1>1, <1>2, <1>3, <1>4, <1>5 DEF Server

\* Receiving a message takes it off the wire.
LEMMA ReceiveType ==
    ASSUME TypeOK, NEW k, Receive(k)
    PROVE  /\ wire' \in Seq(Message)
           /\ Head(wire) \in Message /\ Head(wire).kind = k
BY DEF TypeOK, Receive

LEMMA PanesOfType ==
    ASSUME NEW f \in Layouts
    PROVE  PanesOf(f) \in SUBSET Panes
BY DEF PanesOf, Layouts

LEMMA ReconcileType ==
    ASSUME TypeOK, layouts' \in Layouts, NEW b, Reconcile(b)
    PROVE  task' \in Task /\ mode' = mode
<1>1. PanesOf(layouts') \in SUBSET Panes
  BY PanesOfType
<1>2. Missing(b) \in SUBSET Panes
  BY DEF Missing, TypeOK
<1>. QED BY <1>1, <1>2 DEF Reconcile, Task, TypeOK

\* The worker's reactions to what it reads keep the types.
LEMMA ControlType ==
    ASSUME TypeOK, Control
    PROVE  TypeOK'
<1>a. Idle \in Task
  BY DEF Idle, Task
<1>1. CASE LayoutChange
  <2>1. wire' \in Seq(Message) /\ Head(wire) \in Message /\ Head(wire).kind = "layout"
    BY <1>1, ReceiveType DEF LayoutChange
  <2>2. Head(wire).window \in Windows /\ Head(wire).panes \in SUBSET Panes
    BY <2>1 DEF Message
  <2>3. layouts' \in Layouts
    BY <1>1, <2>2 DEF LayoutChange, TypeOK, Layouts
  <2>4. task' \in Task /\ mode' = mode
    BY <1>1, <2>3, ReconcileType DEF LayoutChange
  <2>. QED BY <1>1, <2>1, <2>3, <2>4 DEF LayoutChange, Receive, TypeOK, queue
<1>2. CASE WindowsRefresh
  <2>1. wire' \in Seq(Message) /\ Head(wire) \in Message /\ Head(wire).kind = "list"
    BY <1>2, ReceiveType DEF WindowsRefresh
  <2>2. layouts' \in Layouts
    BY <1>2, <2>1 DEF WindowsRefresh, Message
  <2>3. task' \in Task /\ mode' = mode
    BY <1>2, <2>2, ReconcileType DEF WindowsRefresh
  <2>. QED BY <1>2, <2>1, <2>2, <2>3 DEF WindowsRefresh, Receive, TypeOK, queue
<1>3. CASE WindowClose
  <2>1. wire' \in Seq(Message) /\ Head(wire) \in Message /\ Head(wire).kind = "windowClose"
    BY <1>3, ReceiveType DEF WindowClose
  <2>2. layouts' \in Layouts
    BY <1>3, <2>1 DEF WindowClose, TypeOK, Layouts
  <2>. QED BY <1>3, <2>1, <2>2 DEF WindowClose, Receive, TypeOK, queue
<1>4. CASE SessionWindowChanged
  <2>1. wire' \in Seq(Message)
    BY <1>4, ReceiveType DEF SessionWindowChanged
  <2>2. layouts' \in Layouts
    BY <1>4 DEF SessionWindowChanged, TypeOK
  <2>3. task' \in Task /\ mode' = mode
    BY <1>4, <2>2, ReconcileType DEF SessionWindowChanged, TypeOK
  <2>. QED BY <1>4, <2>1, <2>2, <2>3 DEF SessionWindowChanged, Receive, TypeOK, queue
<1>5. CASE PaneExited
  <2>1. wire' \in Seq(Message)
    BY <1>5, ReceiveType DEF PaneExited
  <2>2. task' \in Task
    BY <1>5 DEF PaneExited, Idle, Task, TypeOK
  <2>. QED BY <1>5, <2>1, <2>2 DEF PaneExited, Receive, TypeOK, queue
<1>6. CASE SessionChanged
  <2>1. wire' \in Seq(Message)
    BY <1>6, ReceiveType DEF SessionChanged
  <2>2. layouts' \in Layouts
    BY <1>6 DEF SessionChanged, NoLayouts, Layouts
  <2>. QED BY <1>6, <2>1, <2>2 DEF SessionChanged, Receive, TypeOK, queue
<1>7. CASE Refresh
  BY <1>7 DEF Refresh, Idle, Task, TypeOK, server, queue
<1>8. ASSUME NEW then \in {"shell", "ended"}, Teardown(then) PROVE TypeOK'
  <2>1. task' \in Task
    BY <1>8 DEF Teardown, Idle, Task, TypeOK
  <2>. QED BY <1>8, <2>1 DEF Teardown, TypeOK, queue
<1>9. CASE Exit
  BY <1>8, <1>9 DEF Exit, AfterExit
<1>10. CASE ChannelClosed
  BY <1>8, <1>10 DEF ChannelClosed
<1>11. CASE TmuxDetach
  BY <1>11 DEF TmuxDetach, TypeOK, server, queue
<1>12. ASSUME NEW p \in Panes, ParkOnOutput(p) PROVE TypeOK'
  BY <1>12 DEF ParkOnOutput, TypeOK, server, queue
<1>. QED BY <1>1, <1>2, <1>3, <1>4, <1>5, <1>6, <1>7, <1>9, <1>10, <1>11, <1>12 DEF Control

\* So do the steps that finish a handler.
LEMMA HandlerType ==
    ASSUME TypeOK, Handler
    PROVE  TypeOK'
<1>a. Idle \in Task /\ Exited \in State
  BY DEF Idle, Task, Exited, State
<1>b. ASSUME NEW s \in State, PushState(s) PROVE states' \in Seq(State)
  BY <1>b DEF PushState, TypeOK
<1>1. CASE CancelDropped
  BY <1>1 DEF CancelDropped, TypeOK, Task, server
<1>2. CASE EmitState
  <2>1. [exited |-> FALSE, panes |-> panes] \in State
    BY DEF State, TypeOK
  <2>2. states' \in Seq(State) /\ last' \in State
    BY <1>2, <1>b, <2>1 DEF EmitState, TypeOK
  <2>. QED BY <1>2, <1>a, <2>2 DEF EmitState, TypeOK, server
<1>3. CASE EmitExited
  <2>1. states' \in Seq(State)
    BY <1>3, <1>a, <1>b DEF EmitExited
  <2>. QED BY <1>3, <1>a, <2>1 DEF EmitExited, TypeOK, server
<1>4. ASSUME NEW p \in Panes, DropPane(p) PROVE TypeOK'
  BY <1>4 DEF DropPane, Unregister, TypeOK, Task, server, queue
<1>5. ASSUME NEW p \in Panes, SpawnPane(p) PROVE TypeOK'
  BY <1>5 DEF SpawnPane, TypeOK, Task, server
<1>. QED BY <1>1, <1>2, <1>3, <1>4, <1>5 DEF Handler

\* And the desktop's steps.
LEMMA DesktopType ==
    ASSUME TypeOK, DesktopStep \/ CloseHost
    PROVE  TypeOK'
<1>1. CASE TakeState
  <2>1. Head(states) \in State /\ states' \in Seq(State)
    BY <1>1 DEF TakeState, TypeOK
  <2>2. ui' \in Desktop
    BY <1>1, <2>1 DEF TakeState, TypeOK, State, Desktop
  <2>. QED BY <1>1, <2>1, <2>2 DEF TakeState, TypeOK, server, worker
<1>2. CASE CancelDeadPane
  BY <1>2 DEF CancelDeadPane, TypeOK, Desktop, server, worker
<1>3. CASE AdoptPanes
  BY <1>3 DEF AdoptPanes, TypeOK, Desktop, server, worker, queue
<1>4. ASSUME NEW p \in Panes, CloseDeadPane(p) PROVE TypeOK'
  BY <1>4 DEF CloseDeadPane, TypeOK, Desktop, server, worker, queue
<1>5. ASSUME NEW p \in Panes, CloseLeaf(p) PROVE TypeOK'
  BY <1>5 DEF CloseLeaf, TypeOK, Desktop, server, worker
<1>6. CASE CloseHost
  <2>1. ui' \in Desktop
    BY <1>6 DEF CloseHost, TypeOK, Desktop
  <2>2. states' \in Seq(State)
    <3>1. states' = << >>
      BY <1>6 DEF CloseHost
    <3>. QED BY <3>1
  <2>3. registry' \in SUBSET (Panes \cup {host}) /\ cancelled' \in SUBSET (Panes \cup {host})
    BY <1>6 DEF CloseHost, Projections, TypeOK
  <2>. QED BY <1>6, <2>1, <2>2, <2>3 DEF CloseHost, TypeOK, server, worker
<1>. QED BY <1>1, <1>2, <1>3, <1>4, <1>5, <1>6 DEF DesktopStep

LEMMA TypeInit == Init => TypeOK
BY PaneConstants DEF Init, TypeOK, Layouts, NoLayouts, Idle, Task, Exited, State, Desktop

LEMMA TypeNext == TypeOK /\ [Next]_vars => TypeOK'
<1>. SUFFICES ASSUME TypeOK, [Next]_vars PROVE TypeOK'
  OBVIOUS
<1>1. CASE EnterControlMode
  BY <1>1 DEF EnterControlMode, TypeOK, NoLayouts, Layouts, Exited, State, queue
<1>2. CASE HostClosed
  BY <1>2 DEF HostClosed, TypeOK, server, queue
<1>3. CASE DetachDeadline
  <2>1. task' \in Task
    BY <1>3 DEF DetachDeadline, Teardown, Idle, Task, TypeOK
  <2>. QED BY <1>3, <2>1 DEF DetachDeadline, Teardown, TypeOK, queue
<1>4. CASE EndShell
  BY <1>4 DEF EndShell, TypeOK, server, queue
<1>5. CASE Unpark
  BY <1>5 DEF Unpark, TypeOK, server, queue
<1>6. CASE UNCHANGED vars
  BY <1>6 DEF vars, TypeOK, server, worker, queue
<1>. QED
  BY <1>1, <1>2, <1>3, <1>4, <1>5, <1>6, ServerType, ControlType, HandlerType, DesktopType
  DEF Next

\* The worker, the registry, the queue and the desktop keep well-typed state in
\* every interleaving: a handler's remaining work names real panes and the mode
\* it ends in is one that run_control_session can return to.
THEOREM PanesTypeCorrect == Spec => []TypeOK
BY TypeInit, TypeNext, PTL DEF Spec

-----------------------------------------------------------------------------
(* The registry, the worker's panes and the cancelled sessions.            *)

\* Every pane of the worker is registered, or cancelled, or being closed by the
\* desktop; which closes nothing while it is idle.
Covered ==
    /\ panes \subseteq registry \cup cancelled \cup {ui.half}
    /\ ~ui.busy => ui.half = NoPane

PanesInv == Covered /\ NoOrphanSessions /\ PanesSilentAfterClose

LEMMA PanesInvInit == Init => PanesInv
BY PaneConstants DEF Init, PanesInv, Covered, NoOrphanSessions, PanesSilentAfterClose

LEMMA PanesInvNext == TypeOK /\ PanesInv /\ [Next]_vars => PanesInv'
<1>. SUFFICES ASSUME TypeOK, PanesInv, [Next]_vars PROVE PanesInv'
  OBVIOUS
<1>. USE PaneConstants
\* Most steps touch neither the panes nor the sessions nor the desktop.
<1>a. ASSUME UNCHANGED <<panes, registry, cancelled, ui>> PROVE PanesInv'
  BY <1>a DEF PanesInv, Covered, NoOrphanSessions, PanesSilentAfterClose
<1>1. CASE Server
  BY <1>1, <1>a DEF Server, Tell, SessionChanges, PaneAppears, PaneGoes, PaneMoves, Move,
                    worker, queue
<1>2. CASE Control
  <2>1. ASSUME NEW k, Receive(k) PROVE PanesInv'
    BY <2>1, <1>a DEF Receive, queue
  <2>2. ASSUME NEW then, Teardown(then) PROVE PanesInv'
    BY <2>2, <1>a DEF Teardown, queue
  <2>. QED
    BY <1>2, <1>a, <2>1, <2>2
    DEF Control, LayoutChange, WindowsRefresh, WindowClose, SessionWindowChanged, PaneExited,
        SessionChanged, Refresh, Exit, ChannelClosed, TmuxDetach, ParkOnOutput, queue
<1>3. CASE EnterControlMode \/ HostClosed \/ DetachDeadline \/ EndShell \/ Unpark
  BY <1>3, <1>a
  DEF EnterControlMode, HostClosed, DetachDeadline, Teardown, EndShell, Unpark, queue
<1>4. CASE CancelDropped
  BY <1>4 DEF CancelDropped, TypeOK, Task, PanesInv, Covered, NoOrphanSessions,
              PanesSilentAfterClose
<1>5. CASE EmitState \/ EmitExited
  BY <1>5, <1>a DEF EmitState, EmitExited
\* A dropped pane leaves the map and the registry together.
<1>6. ASSUME NEW p \in Panes, DropPane(p) PROVE PanesInv'
  BY <1>6 DEF DropPane, Unregister, PanesInv, Covered, NoOrphanSessions,
              PanesSilentAfterClose, queue
\* A pane is accepted again only with its registration, and never under a
\* cancelled host.
<1>7. ASSUME NEW p \in Panes, SpawnPane(p) PROVE PanesInv'
  BY <1>7 DEF SpawnPane, MayRegister, PanesInv, Covered, NoOrphanSessions,
              PanesSilentAfterClose
<1>8. CASE TakeState \/ AdoptPanes
  BY <1>8 DEF TakeState, AdoptPanes, TypeOK, Desktop, PanesInv, Covered, NoOrphanSessions,
              PanesSilentAfterClose, worker, queue
<1>9. CASE CancelDeadPane
  BY <1>9 DEF CancelDeadPane, TypeOK, Desktop, PanesInv, Covered, NoOrphanSessions,
              PanesSilentAfterClose, worker
<1>10. ASSUME NEW p \in Panes, CloseDeadPane(p) PROVE PanesInv'
  BY <1>10 DEF CloseDeadPane, TypeOK, Desktop, PanesInv, Covered, NoOrphanSessions,
               PanesSilentAfterClose, worker, queue
<1>11. ASSUME NEW p \in Panes, CloseLeaf(p) PROVE PanesInv'
  BY <1>11 DEF CloseLeaf, TypeOK, Desktop, PanesInv, Covered, NoOrphanSessions,
               PanesSilentAfterClose, worker
\* The desktop is idle, so every pane not yet cancelled is a projection.
<1>12. CASE CloseHost
  BY <1>12 DEF CloseHost, Projections, TypeOK, Desktop, PanesInv, Covered, NoOrphanSessions,
               PanesSilentAfterClose, worker
<1>13. CASE UNCHANGED vars
  BY <1>13, <1>a DEF vars, worker, queue
<1>. QED
  BY <1>1, <1>2, <1>3, <1>4, <1>5, <1>6, <1>7, <1>8, <1>9, <1>10, <1>11, <1>12, <1>13
  DEF Next, Handler, DesktopStep

\* A worker whose host has been closed has no pane the queue would accept, so it
\* never parks on pane output while the close joins it.
THEOREM CloseSilencesPanes == Spec => []PanesSilentAfterClose
<1>1. PanesInv => PanesSilentAfterClose
  BY DEF PanesInv
<1>. QED BY <1>1, PanesTypeCorrect, PanesInvInit, PanesInvNext, PTL DEF Spec

\* Every registered pane has a worker that projects it: drops and teardowns that
\* race the desktop's closes leave no session behind.
THEOREM RegisteredPanesHaveWorkers == Spec => []NoOrphanSessions
<1>1. PanesInv => NoOrphanSessions
  BY DEF PanesInv
<1>. QED BY <1>1, PanesTypeCorrect, PanesInvInit, PanesInvNext, PTL DEF Spec

-----------------------------------------------------------------------------
(* Which panes the worker may give up.  The argument follows the order of  *)
(* the channel: what the worker has seen came before every snapshot still  *)
(* in flight, so a pane it knows and the snapshot misses has left.         *)

MessagePanes(m) ==
    IF m.kind = "layout" THEN m.panes
    ELSE IF m.kind = "list" THEN PanesOf(m.windows)
    ELSE IF m.kind = "paneExited" THEN {m.pane} ELSE {}

\* The panes the worker knows of, and those it may know of.
Seen == panes \cup PanesOf(layouts) \cup task.spawn
Told == PanesOf(remote) \cup left

Mentioned ==
    /\ Seen \subseteq Told
    /\ \A i \in 1..Len(wire) : MessagePanes(wire[i]) \subseteq Told

ExitsHappened ==
    \A i \in 1..Len(wire) : wire[i].kind = "paneExited" => wire[i].pane \in left

SnapshotsInOrder ==
    \A i \in 1..Len(wire) : wire[i].kind = "list" =>
        /\ Seen \subseteq PanesOf(wire[i].windows) \cup left
        /\ \A j \in 1..(i - 1) :
              MessagePanes(wire[j]) \subseteq PanesOf(wire[i].windows) \cup left

DropsJustified == mode # "teardown" => task.drop \subseteq left

LeftInv == Mentioned /\ ExitsHappened /\ SnapshotsInOrder /\ DropsJustified

\* A message tmux may send when the panes have become remote' and left'.
Honest(m) ==
    /\ MessagePanes(m) \subseteq PanesOf(remote') \cup left'
    /\ m.kind = "paneExited" => m.pane \in left'
    /\ m.kind = "list" => m.windows = remote'

\* Honest notifications keep the invariant.
LEMMA LeftNotify ==
    ASSUME TypeOK, LeftInv, NEW ms \in Seq(Message), Notify(ms),
           UNCHANGED worker, left \subseteq left',
           Told \subseteq PanesOf(remote') \cup left',
           \A k \in 1..Len(ms) : Honest(ms[k])
    PROVE  LeftInv'
<1>. DEFINE W(i) == PanesOf(wire'[i].windows)
<1>1. Seen' = Seen /\ task' = task /\ mode' = mode /\ Told' = PanesOf(remote') \cup left'
  BY DEF Seen, Told, worker, PanesOf
<1>2. wire \in Seq(Message) /\ Len(wire) \in Nat /\ Len(ms) \in Nat
  BY DEF TypeOK
<1>3. CASE wire' = wire
  BY <1>1, <1>2, <1>3 DEF LeftInv, Mentioned, ExitsHappened, SnapshotsInOrder, DropsJustified
<1>4. CASE wire' = wire \o ms
  <2>1. Len(wire') = Len(wire) + Len(ms)
    BY <1>2, <1>4
  <2>2. \A i \in 1..Len(wire) : wire'[i] = wire[i]
    BY <1>2, <1>4
  <2>3. \A i \in 1..Len(wire') : i > Len(wire) => Honest(wire'[i])
    BY <1>2, <1>4, <2>1
  <2>4. \A i \in 1..Len(wire') : MessagePanes(wire'[i]) \subseteq Told'
    BY <1>1, <1>2, <2>1, <2>2, <2>3 DEF LeftInv, Mentioned, Honest
  <2>5. Mentioned'
    BY <1>1, <2>4 DEF LeftInv, Mentioned
  <2>6. ExitsHappened'
    BY <1>1, <1>2, <2>1, <2>2, <2>3 DEF LeftInv, ExitsHappened, Honest
  <2>7. SnapshotsInOrder'
    <3>. SUFFICES ASSUME NEW i \in 1..Len(wire'), wire'[i].kind = "list"
                  PROVE  /\ Seen' \subseteq W(i) \cup left'
                         /\ \A j \in 1..(i - 1) : MessagePanes(wire'[j]) \subseteq W(i) \cup left'
      BY DEF SnapshotsInOrder
    <3>1. CASE i \in 1..Len(wire)
      <4>1. \A j \in 1..(i - 1) : j \in 1..Len(wire)
        BY <1>2, <3>1
      <4>. QED BY <1>1, <2>2, <3>1, <4>1 DEF LeftInv, SnapshotsInOrder
    <3>2. CASE i > Len(wire)
      <4>1. W(i) \cup left' = Told'
        BY <1>1, <2>3, <3>2 DEF Honest
      <4>2. \A j \in 1..(i - 1) : j \in 1..Len(wire')
        BY <1>2, <2>1
      <4>. QED BY <1>1, <2>4, <2>5, <4>1, <4>2 DEF Mentioned
    <3>. QED BY <1>2, <2>1, <3>1, <3>2
  <2>8. DropsJustified'
    BY <1>1 DEF LeftInv, DropsJustified
  <2>. QED BY <2>5, <2>6, <2>7, <2>8 DEF LeftInv
<1>. QED BY <1>3, <1>4 DEF Notify

\* A layout names only panes of its window.
LEMMA HonestLayout ==
    ASSUME NEW w \in Windows, NEW S, S \subseteq PanesOf(remote') \cup left'
    PROVE  Honest(LayoutOf(w, S))
BY DEF Honest, LayoutOf, MessagePanes

\* ... so one honest message keeps the invariant.
LEMMA LeftNotifyOne ==
    ASSUME TypeOK, LeftInv, NEW m \in Message, Notify(<<m>>), Honest(m),
           UNCHANGED worker, left \subseteq left', Told \subseteq PanesOf(remote') \cup left'
    PROVE  LeftInv'
<1>1. <<m>> \in Seq(Message) /\ \A k \in 1..Len(<<m>>) : Honest(<<m>>[k])
  OBVIOUS
<1>. QED BY <1>1, LeftNotify

\* tmux reports every change honestly.
LEMMA LeftServer ==
    ASSUME TypeOK, LeftInv, Server
    PROVE  LeftInv'
<1>1. ASSUME NEW p \in Panes, NEW w \in Windows, PaneAppears(p, w) PROVE LeftInv'
  <2>1. remote'[w] \in SUBSET Panes /\ remote'[w] \subseteq PanesOf(remote')
    BY <1>1 DEF PaneAppears, TypeOK, Layouts, PanesOf
  <2>2. LayoutOf(w, remote'[w]) \in Message /\ Honest(LayoutOf(w, remote'[w]))
    BY <2>1, LayoutOfType, HonestLayout
  <2>3. Told \subseteq PanesOf(remote') \cup left' /\ left \subseteq left' /\ UNCHANGED worker
    BY <1>1 DEF PaneAppears, Move, Told, PanesOf, TypeOK, Layouts, worker
  <2>. QED BY <1>1, <2>2, <2>3, LeftNotifyOne DEF PaneAppears
<1>2. ASSUME NEW p \in Panes, NEW w \in Windows, PaneGoes(p, w) PROVE LeftInv'
  <2>1. remote'[w] \in SUBSET Panes /\ remote'[w] \subseteq PanesOf(remote')
    BY <1>2 DEF PaneGoes, TypeOK, Layouts, PanesOf
  <2>2. LayoutOf(w, remote'[w]) \in Message /\ Honest(LayoutOf(w, remote'[w]))
    BY <2>1, LayoutOfType, HonestLayout
  <2>3. [kind |-> "paneExited", pane |-> p] \in Message
    BY DEF Message
  <2>4. Honest([kind |-> "paneExited", pane |-> p])
    BY <1>2 DEF PaneGoes, Honest, MessagePanes
  <2>5. Told \subseteq PanesOf(remote') \cup left' /\ left \subseteq left' /\ UNCHANGED worker
    BY <1>2 DEF PaneGoes, Move, Told, PanesOf, TypeOK, Layouts, worker
  <2>. QED BY <1>2, <2>2, <2>3, <2>4, <2>5, LeftNotifyOne DEF PaneGoes
<1>3. ASSUME NEW p \in Panes, NEW v \in Windows, NEW w \in Windows, PaneMoves(p, v, w)
      PROVE  LeftInv'
  <2>. DEFINE ms == <<LayoutOf(v, remote'[v]), LayoutOf(w, remote'[w])>>
  <2>1. /\ remote'[w] \in SUBSET Panes /\ remote'[w] \subseteq PanesOf(remote')
        /\ remote'[v] \in SUBSET Panes /\ remote'[v] \subseteq PanesOf(remote')
    BY <1>3 DEF PaneMoves, TypeOK, Layouts, PanesOf
  <2>2. /\ LayoutOf(v, remote'[v]) \in Message /\ Honest(LayoutOf(v, remote'[v]))
        /\ LayoutOf(w, remote'[w]) \in Message /\ Honest(LayoutOf(w, remote'[w]))
    BY <2>1, LayoutOfType, HonestLayout
  <2>3. ms \in Seq(Message) /\ \A k \in 1..Len(ms) : Honest(ms[k])
    BY <2>2
  <2>4. Told \subseteq PanesOf(remote') \cup left' /\ left \subseteq left' /\ UNCHANGED worker
    BY <1>3 DEF PaneMoves, Move, Told, PanesOf, TypeOK, Layouts, worker
  <2>5. Notify(ms)
    BY <1>3 DEF PaneMoves
  <2>. HIDE DEF ms
  <2>. QED BY <2>3, <2>4, <2>5, LeftNotify
<1>4. ASSUME NEW S \in SUBSET Panes, NEW w \in Windows, SessionChanges(S, w) PROVE LeftInv'
  <2>1. [kind |-> "sessionChanged"] \in Message /\ Honest([kind |-> "sessionChanged"])
    BY DEF Message, Honest, MessagePanes
  <2>2. Told \subseteq PanesOf(remote') \cup left' /\ left \subseteq left' /\ UNCHANGED worker
    BY <1>4 DEF SessionChanges, Move, Told, worker
  <2>. QED BY <1>4, <2>1, <2>2, LeftNotifyOne DEF SessionChanges
<1>5. ASSUME Tell PROVE LeftInv'
  <2>1. remote' = remote /\ left' = left /\ UNCHANGED worker
    BY <1>5 DEF Tell, worker
  <2>2. Told \subseteq PanesOf(remote') \cup left' /\ left \subseteq left'
    BY <2>1 DEF Told
  <2>3. [kind |-> "list", windows |-> remote] \in Message /\ [kind |-> "exit"] \in Message
    BY DEF Message, TypeOK
  <2>4. Honest([kind |-> "list", windows |-> remote]) /\ Honest([kind |-> "exit"])
    BY <2>1 DEF Honest, MessagePanes
  <2>5. ASSUME NEW w \in Windows
        PROVE  /\ LayoutOf(w, remote[w]) \in Message /\ Honest(LayoutOf(w, remote[w]))
               /\ [kind |-> "windowChanged", window |-> w] \in Message
               /\ Honest([kind |-> "windowChanged", window |-> w])
    <3>1. remote[w] \in SUBSET Panes /\ remote[w] \subseteq PanesOf(remote')
      BY <2>1 DEF TypeOK, Layouts, PanesOf
    <3>2. LayoutOf(w, remote[w]) \in Message /\ Honest(LayoutOf(w, remote[w]))
      BY <3>1, LayoutOfType, HonestLayout
    <3>3. [kind |-> "windowChanged", window |-> w] \in Message
      BY DEF Message
    <3>4. Honest([kind |-> "windowChanged", window |-> w])
      BY DEF Honest, MessagePanes
    <3>. QED BY <3>2, <3>3, <3>4
  <2>. QED BY <1>5, <2>1, <2>2, <2>3, <2>4, <2>5, LeftNotifyOne DEF Tell
<1>. QED BY <1>1, <1>2, <1>3, <1>4, <1>5 DEF Server

\* Reading a message moves its panes from the wire to what the worker has seen.
LEMMA LeftReceive ==
    ASSUME TypeOK, LeftInv, NEW k, Receive(k),
           Seen' \subseteq Seen \cup MessagePanes(Head(wire)), task'.drop \subseteq left
    PROVE  LeftInv'
<1>1. wire \in Seq(Message) /\ wire # << >> /\ wire' = Tail(wire)
  BY DEF Receive, TypeOK
<1>2. /\ Len(wire) \in Nat \ {0} /\ Len(wire') = Len(wire) - 1 /\ Head(wire) = wire[1]
      /\ \A i \in 1..Len(wire') : i + 1 \in 1..Len(wire) /\ wire'[i] = wire[i + 1]
  BY <1>1
<1>3. left' = left /\ Told' = Told
  BY DEF Receive, Told
<1>4. Mentioned'
  BY <1>2, <1>3 DEF LeftInv, Mentioned
<1>5. ExitsHappened'
  BY <1>2, <1>3 DEF LeftInv, ExitsHappened
<1>6. SnapshotsInOrder'
  <2>. SUFFICES ASSUME NEW i \in 1..Len(wire'), wire'[i].kind = "list"
                PROVE  /\ Seen' \subseteq PanesOf(wire'[i].windows) \cup left'
                       /\ \A j \in 1..(i - 1) :
                             MessagePanes(wire'[j]) \subseteq PanesOf(wire'[i].windows) \cup left'
    BY DEF SnapshotsInOrder
  <2>1. i + 1 \in 1..Len(wire) /\ wire'[i] = wire[i + 1]
    BY <1>2
  <2>2. /\ Seen \subseteq PanesOf(wire'[i].windows) \cup left
        /\ \A j \in 1..i : MessagePanes(wire[j]) \subseteq PanesOf(wire'[i].windows) \cup left
    BY <2>1 DEF LeftInv, SnapshotsInOrder
  <2>3. MessagePanes(Head(wire)) \subseteq PanesOf(wire'[i].windows) \cup left
    BY <1>2, <2>2
  <2>4. ASSUME NEW j \in 1..(i - 1)
        PROVE  MessagePanes(wire'[j]) \subseteq PanesOf(wire'[i].windows) \cup left
    <3>1. j \in 1..Len(wire') /\ j + 1 \in 1..i
      BY <1>2
    <3>. QED BY <1>2, <2>2, <3>1
  <2>. QED BY <1>3, <2>2, <2>3, <2>4
<1>7. DropsJustified'
  BY <1>3 DEF DropsJustified
<1>. QED BY <1>4, <1>5, <1>6, <1>7 DEF LeftInv

\* A step of the worker alone that learns of no pane.
LEMMA LeftWork ==
    ASSUME TypeOK, LeftInv, UNCHANGED <<remote, left>>, wire' = wire \/ wire' = << >>,
           Seen' \subseteq Seen, DropsJustified'
    PROVE  LeftInv'
<1>1. Told' = Told
  BY DEF Told
<1>2. CASE wire' = wire
  BY <1>1, <1>2 DEF LeftInv, Mentioned, ExitsHappened, SnapshotsInOrder
<1>3. CASE wire' = << >>
  <2>1. 1..Len(wire') = {}
    BY <1>3
  <2>. QED BY <1>1, <2>1 DEF LeftInv, Mentioned, ExitsHappened, SnapshotsInOrder
<1>. QED BY <1>2, <1>3

\* What the messages make the worker drop has left.
LEMMA LeftControl ==
    ASSUME TypeOK, LeftInv, Control
    PROVE  LeftInv'
<1>a. ASSUME NEW k, Receive(k)
      PROVE  /\ Head(wire) \in Message /\ Head(wire).kind = k /\ Head(wire) = wire[1]
             /\ 1 \in 1..Len(wire) /\ panes' = panes /\ task = Idle
  BY <1>a DEF Receive, Free, TypeOK
<1>b. ASSUME Reconcile(FALSE), panes' = panes,
             PanesOf(layouts') \subseteq PanesOf(layouts) \cup MessagePanes(Head(wire))
      PROVE  Seen' \subseteq Seen \cup MessagePanes(Head(wire)) /\ task'.drop \subseteq left
  BY <1>b DEF Reconcile, Missing, Seen, PanesOf
<1>1. CASE LayoutChange
  <2>1. /\ Head(wire) \in Message /\ Head(wire).kind = "layout" /\ panes' = panes
    BY <1>1, <1>a DEF LayoutChange
  <2>2. PanesOf(layouts') \subseteq PanesOf(layouts) \cup MessagePanes(Head(wire))
    BY <1>1, <2>1 DEF LayoutChange, PanesOf, MessagePanes, Message, TypeOK, Layouts
  <2>. QED BY <1>1, <1>b, <2>1, <2>2, LeftReceive DEF LayoutChange
<1>2. CASE WindowsRefresh
  <2>1. /\ Head(wire).kind = "list" /\ Head(wire) = wire[1] /\ 1 \in 1..Len(wire)
        /\ panes' = panes
    BY <1>2, <1>a DEF WindowsRefresh
  <2>2. PanesOf(layouts') = MessagePanes(Head(wire)) /\ PanesOf(layouts') = PanesOf(wire[1].windows)
    BY <1>2, <2>1 DEF WindowsRefresh, PanesOf, MessagePanes
  <2>3. panes \subseteq PanesOf(wire[1].windows) \cup left
    BY <2>1 DEF LeftInv, SnapshotsInOrder, Seen
  <2>4. Seen' \subseteq Seen \cup MessagePanes(Head(wire)) /\ task'.drop \subseteq left
    BY <1>2, <2>1, <2>2, <2>3 DEF WindowsRefresh, Reconcile, Missing, Seen, PanesOf
  <2>. QED BY <1>2, <2>4, LeftReceive DEF WindowsRefresh
<1>3. CASE WindowClose
  <2>1. panes' = panes /\ task = Idle /\ Head(wire).kind = "windowClose"
    BY <1>3, <1>a DEF WindowClose
  <2>2. PanesOf(layouts') \subseteq PanesOf(layouts)
    BY <1>3 DEF WindowClose, PanesOf, TypeOK, Layouts
  <2>3. Seen' \subseteq Seen /\ task'.drop \subseteq left
    BY <1>3, <2>1, <2>2 DEF WindowClose, Seen, Idle, PanesOf
  <2>. QED BY <1>3, <2>3, LeftReceive DEF WindowClose
<1>4. CASE SessionWindowChanged
  <2>1. panes' = panes /\ task = Idle /\ layouts' = layouts
    BY <1>4, <1>a DEF SessionWindowChanged
  <2>2. CASE task' = task
    <3>1. Seen' \subseteq Seen /\ task'.drop \subseteq left
      BY <2>1, <2>2 DEF Seen, Idle, PanesOf
    <3>. QED BY <1>4, <3>1, LeftReceive DEF SessionWindowChanged
  <2>3. CASE Reconcile(FALSE)
    <3>1. PanesOf(layouts') \subseteq PanesOf(layouts) \cup MessagePanes(Head(wire))
      BY <2>1 DEF PanesOf
    <3>. QED BY <1>4, <1>b, <2>1, <2>3, <3>1, LeftReceive DEF SessionWindowChanged
  <2>. QED BY <1>4, <2>2, <2>3 DEF SessionWindowChanged
<1>5. CASE PaneExited
  <2>1. /\ Head(wire) \in Message /\ Head(wire).kind = "paneExited" /\ Head(wire) = wire[1]
        /\ 1 \in 1..Len(wire) /\ panes' = panes
    BY <1>5, <1>a DEF PaneExited
  <2>2. Head(wire).pane \in left
    BY <2>1 DEF LeftInv, ExitsHappened
  <2>3. Seen' \subseteq Seen /\ task'.drop \subseteq left
    BY <1>5, <2>1, <2>2 DEF PaneExited, Seen, Idle, PanesOf
  <2>. QED BY <1>5, <2>3, LeftReceive DEF PaneExited
<1>6. CASE SessionChanged
  <2>1. panes' = panes /\ task = Idle
    BY <1>6, <1>a DEF SessionChanged
  <2>2. Seen' \subseteq Seen /\ task'.drop \subseteq left
    BY <1>6, <2>1 DEF SessionChanged, Seen, Idle, PanesOf, NoLayouts
  <2>. QED BY <1>6, <2>2, LeftReceive DEF SessionChanged
<1>7. CASE Refresh
  <2>1. Seen' \subseteq Seen /\ DropsJustified'
    BY <1>7 DEF Refresh, Seen, Idle, PanesOf, DropsJustified
  <2>. QED BY <1>7, <2>1, LeftWork DEF Refresh, server
<1>8. CASE Exit \/ ChannelClosed
  <2>1. PICK then : Teardown(then)
    BY <1>8 DEF Exit, ChannelClosed
  <2>2. Seen' \subseteq Seen /\ DropsJustified'
    BY <2>1 DEF Teardown, Seen, Idle, PanesOf, DropsJustified
  <2>. QED BY <2>1, <2>2, LeftWork DEF Teardown
<1>9. CASE TmuxDetach \/ \E p \in Panes : ParkOnOutput(p)
  <2>1. Seen' \subseteq Seen /\ DropsJustified'
    BY <1>9 DEF TmuxDetach, ParkOnOutput, Seen, PanesOf, LeftInv, DropsJustified, server
  <2>. QED BY <1>9, <2>1, LeftWork DEF TmuxDetach, ParkOnOutput, server
<1>. QED BY <1>1, <1>2, <1>3, <1>4, <1>5, <1>6, <1>7, <1>8, <1>9 DEF Control

LEMMA LeftInit == Init => LeftInv
<1>. SUFFICES ASSUME Init PROVE LeftInv
  OBVIOUS
<1>1. 1..Len(wire) = {}
  BY DEF Init
<1>2. Seen = {} /\ task.drop = {}
  BY DEF Init, Seen, Idle, PanesOf, NoLayouts
<1>. QED
  BY <1>1, <1>2 DEF LeftInv, Mentioned, ExitsHappened, SnapshotsInOrder, DropsJustified

LEMMA LeftNext == TypeOK /\ LeftInv /\ [Next]_vars => LeftInv'
<1>. SUFFICES ASSUME TypeOK, LeftInv, [Next]_vars PROVE LeftInv'
  OBVIOUS
<1>1. CASE EnterControlMode
  <2>1. Seen' \subseteq Seen /\ DropsJustified'
    BY <1>1 DEF EnterControlMode, Seen, PanesOf, NoLayouts, LeftInv, DropsJustified
  <2>. QED BY <1>1, <2>1, LeftWork DEF EnterControlMode
<1>2. CASE HostClosed \/ EndShell \/ Unpark
  <2>1. Seen' \subseteq Seen /\ DropsJustified'
    BY <1>2 DEF HostClosed, EndShell, Unpark, Seen, PanesOf, LeftInv, DropsJustified, server
  <2>. QED BY <1>2, <2>1, LeftWork DEF HostClosed, EndShell, Unpark, server
<1>3. CASE DetachDeadline
  <2>1. Seen' \subseteq Seen /\ DropsJustified'
    BY <1>3 DEF DetachDeadline, Teardown, Seen, Idle, PanesOf, DropsJustified
  <2>. QED BY <1>3, <2>1, LeftWork DEF DetachDeadline, Teardown
<1>4. CASE Handler
  <2>1. CASE EmitState \/ EmitExited
    <3>1. Seen' \subseteq Seen /\ DropsJustified'
      BY <2>1 DEF EmitState, EmitExited, Seen, Idle, PanesOf, DropsJustified
    <3>. QED BY <2>1, <3>1, LeftWork DEF EmitState, EmitExited, server
  <2>2. CASE CancelDropped
    <3>1. task'.drop = task.drop /\ task'.spawn = task.spawn
      BY <2>2 DEF CancelDropped, TypeOK, Task
    <3>2. Seen' \subseteq Seen /\ DropsJustified'
      BY <2>2, <3>1 DEF CancelDropped, Seen, PanesOf, LeftInv, DropsJustified, server
    <3>. QED BY <2>2, <3>2, LeftWork DEF CancelDropped, server
  <2>3. ASSUME NEW p \in Panes, DropPane(p) PROVE LeftInv'
    <3>1. task'.drop \subseteq task.drop /\ task'.spawn = task.spawn
      BY <2>3 DEF DropPane, TypeOK, Task
    <3>2. Seen' \subseteq Seen /\ DropsJustified'
      BY <2>3, <3>1 DEF DropPane, Seen, PanesOf, LeftInv, DropsJustified, server
    <3>. QED BY <2>3, <3>2, LeftWork DEF DropPane, server
  <2>4. ASSUME NEW p \in Panes, SpawnPane(p) PROVE LeftInv'
    <3>1. task'.drop = task.drop /\ task'.spawn \subseteq task.spawn /\ p \in task.spawn
      BY <2>4 DEF SpawnPane, TypeOK, Task
    <3>2. Seen' \subseteq Seen /\ DropsJustified'
      BY <2>4, <3>1 DEF SpawnPane, Seen, PanesOf, LeftInv, DropsJustified, server
    <3>. QED BY <2>4, <3>2, LeftWork DEF SpawnPane, server
  <2>. QED BY <1>4, <2>1, <2>2, <2>3, <2>4 DEF Handler
<1>5. CASE DesktopStep \/ CloseHost \/ UNCHANGED vars
  <2>1. UNCHANGED <<server, worker>>
    BY <1>5 DEF DesktopStep, TakeState, CancelDeadPane, AdoptPanes, CloseDeadPane, CloseLeaf,
                CloseHost, vars
  <2>2. Seen' \subseteq Seen /\ DropsJustified'
    BY <2>1 DEF worker, server, Seen, PanesOf, LeftInv, DropsJustified
  <2>. QED BY <2>1, <2>2, LeftWork DEF server
<1>. QED BY <1>1, <1>2, <1>3, <1>4, <1>5, LeftServer, LeftControl DEF Next

\* The worker gives up only panes that have left the remote session, unless it
\* tears down: notifications that report a move one window at a time never cost
\* a pane its session, whatever is in flight.
THEOREM WorkerKeepsMovingPanes == Spec => DropsOnlyPanesThatLeft
<1>1. TypeOK /\ LeftInv /\ [Next]_vars
        => [\A p \in panes \ panes' : p \in left \/ mode = "teardown"]_vars
  <2>. SUFFICES ASSUME TypeOK, LeftInv, Next, NEW p \in panes \ panes'
                PROVE  p \in left \/ mode = "teardown"
    OBVIOUS
  <2>1. panes' # panes
    OBVIOUS
  <2>2. ~Control
    BY <2>1 DEF Control, LayoutChange, WindowsRefresh, WindowClose, SessionWindowChanged,
                PaneExited, SessionChanged, Refresh, Exit, ChannelClosed, TmuxDetach,
                ParkOnOutput, Receive, Teardown
  <2>3. ~Server
    BY <2>1 DEF Server, Tell, SessionChanges, PaneAppears, PaneGoes, PaneMoves, Move, worker
  <2>4. ~(DesktopStep \/ CloseHost)
    BY <2>1 DEF DesktopStep, TakeState, CancelDeadPane, AdoptPanes, CloseDeadPane, CloseLeaf,
                CloseHost, worker
  <2>5. ~(EnterControlMode \/ HostClosed \/ DetachDeadline \/ EndShell \/ Unpark)
    BY <2>1 DEF EnterControlMode, HostClosed, DetachDeadline, Teardown, EndShell, Unpark
  <2>6. PICK q \in Panes : DropPane(q) \/ SpawnPane(q)
    BY <2>1, <2>2, <2>3, <2>4, <2>5 DEF Next, Handler, CancelDropped, EmitState, EmitExited
  <2>7. CASE DropPane(q)
    BY <2>7 DEF DropPane, LeftInv, DropsJustified
  <2>8. CASE SpawnPane(q)
    BY <2>8 DEF SpawnPane
  <2>. QED BY <2>6, <2>7, <2>8
<1>. QED
  BY <1>1, PanesTypeCorrect, LeftInit, LeftNext, PTL DEF Spec, DropsOnlyPanesThatLeft
=============================================================================
