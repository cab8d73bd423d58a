----------------------- MODULE SessionEventQueueProofs -----------------------
(***************************************************************************)
(* What SessionEventQueue guarantees for every set of sessions, producers  *)
(* and consumers and for every limit, watermark and chunk size that satisfy*)
(* QueueConstants and QueueActors.                                         *)
(***************************************************************************)
EXTENDS SessionEventQueue, TLAPS

\* The events of the queue are intervals of what was appended, and no more was
\* taken than appended: what makes the byte arithmetic of drains and cancels
\* stay within the naturals.
Intervals ==
    /\ \A e \in events : e.lo <= e.hi /\ e.hi <= pos[e.sess]
    /\ \A s \in Sessions : taken[s] <= pos[s]

\* The mutex is either free or held by a drain of one of the drainers.
Holder == draining = NoDrain \/ draining.by \in Drainers

TypeInv == TypeOK /\ Intervals /\ Holder

LEMMA InitTypeInv == Init => TypeInv
  <1> SUFFICES ASSUME Init PROVE TypeInv
    OBVIOUS
  <1> USE QueueConstants, QueueActors
  <1>1. \A p \in Producers : (CHOOSE s \in SessionsOf[p] : TRUE) \in Sessions
    OBVIOUS
  <1>2. job \in [Producers -> Job]
    BY <1>1 DEF Init, Job
  <1>3. draining \in Drain
    BY DEF Init, NoDrain, Drain
  <1>4. TypeOK
    BY <1>2, <1>3 DEF Init, TypeOK, ProducerStates
  <1> QED
    BY <1>4 DEF Init, TypeInv, Intervals, Holder

LEMMA ProducerKeepsTypes ==
  ASSUME TypeInv, NEW p \in Producers, Producer(p)
  PROVE  TypeInv'
  <1> USE QueueConstants, QueueActors
  <1> USE DEF TypeInv, TypeOK, Intervals, Holder, Job, ProducerStates, Conditions, Event
  <1>0. Returned(job[p]) \in Job
    BY DEF Returned
  <1>1. CASE Push(p)
    BY <1>1 DEF Push, inner
  <1>2. CASE RefuseTurn(p)
    BY <1>0, <1>2 DEF RefuseTurn, inner
  <1>3. CASE TakeTurn(p)
    BY <1>3 DEF TakeTurn
  <1>4. CASE WaitForTurn(p)
    BY <1>4 DEF WaitForTurn, inner
  <1>5. CASE AbandonEvent(p)
    BY <1>5 DEF AbandonEvent, inner
  <1>6. CASE PushControl(p)
    BY <1>6 DEF PushControl, PushBack
  <1>7. CASE PushChunk(p)
    BY <1>7 DEF PushChunk, PushBack, ChunkSize
  <1>8. CASE WaitForSpace(p)
    BY <1>8 DEF WaitForSpace
  <1>9. CASE ReleaseTurn(p)
    BY <1>0, <1>9 DEF ReleaseTurn
  <1>10. CASE SpuriousWakeup(p)
    BY <1>10 DEF SpuriousWakeup, inner, Resumed
  <1> QED
    BY <1>1, <1>2, <1>3, <1>4, <1>5, <1>6, <1>7, <1>8, <1>9, <1>10 DEF Producer

LEMMA SessionKeepsTypes ==
  ASSUME TypeInv, NEW s \in Sessions, Session(s)
  PROVE  TypeInv'
  <1> USE QueueConstants, QueueActors
  <1> USE DEF TypeInv, TypeOK, Intervals, Holder, Conditions, Operation
  <1>1. CASE CancelSession(s)
    BY <1>1 DEF CancelSession, SaturatingSub, BytesOf, StaysBackpressured, Reap, Event
  <1>2. CASE ResumeSession(s)
    BY <1>2 DEF ResumeSession
  <1>3. ASSUME NEW c \in Consumers, AssignConsumer(s, c)
        PROVE  TypeInv'
    BY <1>3 DEF AssignConsumer
  <1>4. ASSUME NEW c \in Consumers, ClearConsumer(s, c)
        PROVE  TypeInv'
    BY <1>4 DEF ClearConsumer
  <1> QED
    BY <1>1, <1>2, <1>3, <1>4 DEF Session

LEMMA ConsumerKeepsTypes ==
  ASSUME TypeInv, NEW c \in Drainers, Consumer(c)
  PROVE  TypeInv'
  <1> USE QueueConstants, QueueActors
  <1> USE DEF TypeInv, TypeOK, Intervals, Holder, Drain
  <1>1. CASE Park(c)
    BY <1>1 DEF Park, inner
  <1>2. CASE StopWaiting(c)
    BY <1>2 DEF StopWaiting, inner
  <1>3. CASE StartDrain(c)
    BY <1>3 DEF StartDrain, inner
  <1> QED
    BY <1>1, <1>2, <1>3 DEF Consumer

LEMMA SaturatingSubBounds ==
  ASSUME NEW m \in Nat, NEW n \in Nat
  PROVE  SaturatingSub(m, n) \in Nat /\ SaturatingSub(m, n) <= m
  BY DEF SaturatingSub

LEMMA DrainKeepsTypes ==
  ASSUME TypeInv, DrainStep
  PROVE  TypeInv'
  <1> USE QueueConstants, QueueActors
  <1> USE DEF TypeInv
  <1>1. ASSUME NEW e \in events, DrainEvent(e)
        PROVE  TypeInv'
    <2>0. e \in Event /\ draining \in Drain /\ queued \in Nat
      BY DEF TypeOK
    <2>1. Size(e) \in Nat /\ e.hi \in Nat /\ e.sess \in Sessions /\ e.hi <= pos[e.sess]
      BY <2>0 DEF Intervals, Size, Event
    <2>2. draining' \in Drain /\ draining'.by = draining.by
      BY <1>1, <2>0, <2>1 DEF DrainEvent, Drain, Drained
    <2>3. queued' \in Nat
      BY <1>1, <2>0, <2>1, SaturatingSubBounds DEF DrainEvent
    <2>4. taken' \in [Sessions -> Nat] /\ (\A s \in Sessions : taken'[s] <= pos[s])
      BY <1>1, <2>1 DEF DrainEvent, TypeOK, Intervals
    <2>5. TypeOK'
      BY <1>1, <2>2, <2>3, <2>4 DEF DrainEvent, TypeOK
    <2>6. Intervals'
      BY <1>1, <2>4 DEF DrainEvent, Intervals
    <2>7. Holder'
      BY <1>1, <2>2 DEF DrainEvent, Holder, NoDrain
    <2> QED
      BY <2>5, <2>6, <2>7
  <1>2. ASSUME NEW e \in events, DrainPrefix(e)
        PROVE  TypeInv'
    <2>0. e \in Event /\ draining \in Drain /\ queued \in Nat
      BY DEF TypeOK
    <2> DEFINE mid == e.lo + draining.budget
    <2>1. /\ e.lo \in Nat /\ e.hi \in Nat /\ e.sess \in Sessions
          /\ draining.budget \in Nat /\ mid \in Nat /\ e.lo < mid /\ mid < e.hi
          /\ e.hi <= pos[e.sess] /\ pos[e.sess] \in Nat
      BY <1>2, <2>0 DEF DrainPrefix, Intervals, Size, Event, Drain, TypeOK
    <2>2. draining' \in Drain /\ draining'.by = draining.by
      BY <1>2, <2>0, <2>1 DEF DrainPrefix, Drain, Drained
    <2>3. queued' \in Nat
      BY <1>2, <2>0, <2>1, SaturatingSubBounds DEF DrainPrefix
    <2>4. taken' \in [Sessions -> Nat] /\ (\A s \in Sessions : taken'[s] <= pos[s])
      BY <1>2, <2>1 DEF DrainPrefix, TypeOK, Intervals
    <2>5. Remainder(e, mid) \in Event /\ Remainder(e, mid).lo = mid
          /\ Remainder(e, mid).hi = e.hi /\ Remainder(e, mid).sess = e.sess
      BY <2>0, <2>1 DEF Remainder, Event
    <2>6. events' = (events \ {e}) \cup {Remainder(e, mid)}
      BY <1>2 DEF DrainPrefix
    <2>7. TypeOK'
      BY <1>2, <2>2, <2>3, <2>4, <2>5, <2>6 DEF DrainPrefix, TypeOK
    <2>8. Intervals'
      BY <1>2, <2>1, <2>4, <2>5, <2>6 DEF DrainPrefix, Intervals
    <2>9. Holder'
      BY <1>2, <2>2 DEF DrainPrefix, Holder, NoDrain
    <2> QED
      BY <2>7, <2>8, <2>9
  <1>3. CASE FinishDrain
    BY <1>3 DEF FinishDrain, StaysBackpressured, SpaceFreed, Conditions, NoDrain, TypeOK,
                Intervals, Holder, Drain
  <1> QED
    BY <1>1, <1>2, <1>3 DEF DrainStep

LEMMA NextKeepsTypes == TypeInv /\ [Next]_vars => TypeInv'
  <1> SUFFICES ASSUME TypeInv, [Next]_vars PROVE TypeInv'
    OBVIOUS
  <1> USE QueueConstants, QueueActors
  <1>1. ASSUME NEW n \in Conditions, NotifyAll(n)
        PROVE  TypeInv'
    BY <1>1 DEF NotifyAll, inner, Resumed, TypeInv, TypeOK, Intervals, Holder, ProducerStates
  <1>2. ASSUME NEW r \in reaping, CleanupFailure(r)
        PROVE  TypeInv'
    <2> DEFINE d == [at |-> tail, kind |-> "cleanup", sess |-> r.sess, prod |-> NoProducer,
                     seq |-> 0, lo |-> pos[r.sess], hi |-> pos[r.sess], owner |-> r.owner]
    <2>1. d \in Event /\ d.lo = d.hi /\ d.hi = pos[d.sess] /\ d.hi \in Nat
      BY DEF TypeInv, TypeOK, Reap, Event
    <2>2. events' \in {events, events \cup {d}} /\ tail' \in {tail, tail + 1}
          /\ notify' \in {notify, notify \cup {"ready"}}
      BY <1>2 DEF CleanupFailure, PushBack
    <2>3. UNCHANGED <<queued, backpressured, producerActive, closed, cancelled, consumers,
                      pc, job, waiting, draining, pos, taken, ops>> /\ reaping' \subseteq reaping
      BY <1>2 DEF CleanupFailure
    <2>4. events' \subseteq events \cup {d}
      BY <2>2
    <2>5. TypeOK'
      BY <2>1, <2>2, <2>3, <2>4 DEF TypeInv, TypeOK, Conditions
    <2>6. Intervals'
      BY <2>1, <2>3, <2>4 DEF TypeInv, Intervals
    <2> QED
      BY <2>3, <2>5, <2>6 DEF TypeInv, Holder
  <1>3. CASE Close
    BY <1>3 DEF Close, Operation, TypeInv, TypeOK, Intervals, Holder
  <1>4. CASE UNCHANGED vars
    BY <1>4 DEF vars, inner, TypeInv, TypeOK, Intervals, Holder
  <1> QED
    BY <1>1, <1>2, <1>3, <1>4, ProducerKeepsTypes, SessionKeepsTypes, ConsumerKeepsTypes,
       DrainKeepsTypes DEF Next

\* The state of the queue is always well typed; the byte counters never leave
\* the naturals.
THEOREM QueueTypeCorrect == Spec => []TypeOK
  <1>1. TypeInv => TypeOK
    BY DEF TypeInv
  <1> QED
    BY <1>1, InitTypeInv, NextKeepsTypes, PTL DEF Spec

-----------------------------------------------------------------------------
(* The turn, the bounds and the wakeups.                                   *)

\* The turn is taken exactly while one producer holds it.
TurnInv ==
    /\ producerActive <=> \E p \in Producers : HoldsTurn(p)
    /\ \A p, q \in Producers : HoldsTurn(p) /\ HoldsTurn(q) => p = q

\* The inductive invariant: the bounds need the types, the wakeups of the
\* producers need the turn (a holder that gives it back is the one that
\* notifies, and nobody else can be parked for space meanwhile).
SafetyInv ==
    /\ TypeInv
    /\ TurnInv
    /\ QueuedWithinLimit
    /\ BackpressureHasCause
    /\ ProducersNotStranded
    /\ ConsumersNotStranded
    /\ NothingOfCancelledSessions

LEMMA InitSafety == Init => SafetyInv
  <1> SUFFICES ASSUME Init PROVE SafetyInv
    OBVIOUS
  <1>1. TypeInv
    BY InitTypeInv
  <1> QED
    BY <1>1, QueueConstants
       DEF Init, SafetyInv, TurnInv, HoldsTurn, QueuedWithinLimit, BackpressureHasCause,
           ProducersNotStranded, ConsumersNotStranded, NothingOfCancelledSessions

LEMMA ProducerKeepsTurn ==
  ASSUME SafetyInv, NEW p \in Producers, Producer(p)
  PROVE  TurnInv'
  <1> USE DEF SafetyInv, TypeInv, TypeOK, TurnInv, HoldsTurn
  <1>1. CASE Push(p)
    BY <1>1 DEF Push, inner
  <1>2. CASE RefuseTurn(p)
    BY <1>2 DEF RefuseTurn, inner
  <1>3. CASE TakeTurn(p)
    BY <1>3 DEF TakeTurn, TurnFree
  <1>4. CASE WaitForTurn(p)
    BY <1>4 DEF WaitForTurn, inner
  <1>5. CASE AbandonEvent(p)
    BY <1>5 DEF AbandonEvent, inner
  <1>6. CASE PushControl(p)
    BY <1>6 DEF PushControl
  <1>7. CASE PushChunk(p)
    BY <1>7 DEF PushChunk
  <1>8. CASE WaitForSpace(p)
    BY <1>8 DEF WaitForSpace
  <1>9. CASE ReleaseTurn(p)
    BY <1>9 DEF ReleaseTurn
  <1>10. CASE SpuriousWakeup(p)
    BY <1>10 DEF SpuriousWakeup, inner, Resumed
  <1> QED
    BY <1>1, <1>2, <1>3, <1>4, <1>5, <1>6, <1>7, <1>8, <1>9, <1>10 DEF Producer

LEMMA ProducerKeepsBounds ==
  ASSUME SafetyInv, NEW p \in Producers, Producer(p)
  PROVE  QueuedWithinLimit' /\ BackpressureHasCause'
  <1> USE QueueConstants
  <1> USE DEF SafetyInv, TypeInv, TypeOK, QueuedWithinLimit, BackpressureHasCause, MutexFree
  <1>1. CASE PushChunk(p)
    <2>1. ChunkSize(p) \in Nat
      BY DEF ChunkSize, Job
    <2> QED
      BY <1>1, <2>1 DEF PushChunk, Fits
  <1>2. CASE WaitForSpace(p)
    <2>1. ChunkSize(p) \in Nat /\ ChunkSize(p) <= EventLimit
      BY DEF ChunkSize, Job
    <2> QED
      BY <1>2, <2>1 DEF WaitForSpace, Fits
  <1>3. CASE UNCHANGED <<queued, backpressured, draining>>
    BY <1>3
  <1> QED
    BY <1>1, <1>2, <1>3 DEF Producer, Push, RefuseTurn, TakeTurn, WaitForTurn, AbandonEvent,
       PushControl, ReleaseTurn, SpuriousWakeup, inner

LEMMA ProducerStrandsNobody ==
  ASSUME SafetyInv, NEW p \in Producers, Producer(p)
  PROVE  ProducersNotStranded'
  <1> USE DEF SafetyInv, TypeInv, TypeOK, TurnInv, HoldsTurn, ProducersNotStranded, WakeupOf,
              Accepts
  <1>1. CASE Push(p)
    BY <1>1 DEF Push, inner
  <1>2. CASE RefuseTurn(p)
    BY <1>2 DEF RefuseTurn, inner
  <1>3. CASE TakeTurn(p)
    BY <1>3 DEF TakeTurn, TurnFree
  <1>4. CASE WaitForTurn(p)
    BY <1>4 DEF WaitForTurn, inner, TurnFree
  <1>5. CASE AbandonEvent(p)
    BY <1>5 DEF AbandonEvent, inner
  <1>6. CASE PushControl(p)
    BY <1>6 DEF PushControl
  <1>7. CASE PushChunk(p)
    BY <1>7 DEF PushChunk, ChunkSize, Job
  <1>8. CASE WaitForSpace(p)
    BY <1>8 DEF WaitForSpace
  <1>9. CASE ReleaseTurn(p)
    BY <1>9 DEF ReleaseTurn
  <1>10. CASE SpuriousWakeup(p)
    BY <1>10 DEF SpuriousWakeup, inner, Resumed
  <1> QED
    BY <1>1, <1>2, <1>3, <1>4, <1>5, <1>6, <1>7, <1>8, <1>9, <1>10 DEF Producer

LEMMA ProducerKeepsQueue ==
  ASSUME SafetyInv, NEW p \in Producers, Producer(p)
  PROVE  ConsumersNotStranded' /\ NothingOfCancelledSessions'
  <1> USE DEF SafetyInv, ConsumersNotStranded, NothingOfCancelledSessions, HasEvent, BelongsTo
  <1>1. CASE PushControl(p)
    BY <1>1 DEF PushControl, PushBack, Accepts
  <1>2. CASE PushChunk(p)
    BY <1>2 DEF PushChunk, PushBack, Accepts
  <1>3. CASE /\ UNCHANGED <<events, consumers, cancelled, closed, waiting>>
             /\ notify \subseteq notify'
    BY <1>3
  <1> QED
    BY <1>1, <1>2, <1>3 DEF Producer, Push, RefuseTurn, TakeTurn, WaitForTurn, AbandonEvent,
       WaitForSpace, ReleaseTurn, SpuriousWakeup, inner

LEMMA SessionKeepsSafety ==
  ASSUME SafetyInv, NEW s \in Sessions, Session(s)
  PROVE  SafetyInv'
  <1> USE QueueConstants, QueueActors
  <1>0. TypeInv'
    BY SessionKeepsTypes DEF SafetyInv
  <1>1. TurnInv'
    BY DEF Session, CancelSession, ResumeSession, AssignConsumer, ClearConsumer, SafetyInv,
           TurnInv, HoldsTurn
  <1>2. QueuedWithinLimit' /\ BackpressureHasCause'
    <2>1. CASE CancelSession(s)
      <3>1. BytesOf(s) \in Nat
        BY DEF SafetyInv, TypeInv, TypeOK, Intervals, BytesOf
      <3>2. SaturatingSub(queued, BytesOf(s)) \in Nat
            /\ SaturatingSub(queued, BytesOf(s)) <= queued
        BY <3>1, SaturatingSubBounds DEF SafetyInv, TypeInv, TypeOK
      <3>3. queued' = SaturatingSub(queued, BytesOf(s))
            /\ (backpressured' => queued' > Low)
        BY <2>1 DEF CancelSession, StaysBackpressured
      <3>4. queued \in Nat /\ queued <= Limit
        BY DEF SafetyInv, TypeInv, TypeOK, QueuedWithinLimit
      <3>5. QueuedWithinLimit'
        BY <3>2, <3>3, <3>4 DEF QueuedWithinLimit
      <3> QED
        BY <3>3, <3>5 DEF BackpressureHasCause
    <2> QED
      BY <2>1 DEF Session, ResumeSession, AssignConsumer, ClearConsumer, SafetyInv,
         QueuedWithinLimit, BackpressureHasCause, MutexFree
  <1>3. ProducersNotStranded'
    BY DEF Session, CancelSession, ResumeSession, AssignConsumer, ClearConsumer, SafetyInv,
           TypeInv, TypeOK, ProducersNotStranded, WakeupOf, Accepts, HoldsTurn, Conditions
  <1>4. ConsumersNotStranded'
    <2>1. CASE CancelSession(s)
      BY <2>1 DEF CancelSession, ConsumersNotStranded, Conditions
    <2>2. CASE ResumeSession(s)
      BY <2>2 DEF ResumeSession, SafetyInv, ConsumersNotStranded, HasEvent, BelongsTo
    <2> QED
      BY <2>1, <2>2 DEF Session, AssignConsumer, ClearConsumer, ConsumersNotStranded
  <1>5. NothingOfCancelledSessions'
    BY DEF Session, CancelSession, ResumeSession, AssignConsumer, ClearConsumer, SafetyInv,
           NothingOfCancelledSessions
  <1> QED
    BY <1>0, <1>1, <1>2, <1>3, <1>4, <1>5 DEF SafetyInv

LEMMA ConsumerKeepsSafety ==
  ASSUME SafetyInv, NEW c \in Drainers, Consumer(c)
  PROVE  SafetyInv'
  <1> USE QueueActors
  <1>0. TypeInv'
    BY ConsumerKeepsTypes DEF SafetyInv
  <1>1. TurnInv' /\ QueuedWithinLimit' /\ NothingOfCancelledSessions'
    BY DEF Consumer, Park, StopWaiting, StartDrain, inner, SafetyInv, TurnInv, HoldsTurn,
           QueuedWithinLimit, NothingOfCancelledSessions
  <1>2. BackpressureHasCause'
    BY DEF Consumer, Park, StopWaiting, StartDrain, inner, SafetyInv, BackpressureHasCause,
           MutexFree, NoDrain
  <1>3. ProducersNotStranded'
    BY DEF Consumer, Park, StopWaiting, StartDrain, inner, SafetyInv, ProducersNotStranded,
           WakeupOf, Accepts, HoldsTurn
  <1>4. ConsumersNotStranded'
    BY DEF Consumer, Park, StopWaiting, StartDrain, inner, SafetyInv, TypeInv, TypeOK,
           ConsumersNotStranded, HasEvent, BelongsTo
  <1> QED
    BY <1>0, <1>1, <1>2, <1>3, <1>4 DEF SafetyInv

\* What a drain leaves of an event belongs to whom the event belonged.
LEMMA RemainderKeepsOwner ==
  ASSUME NEW e \in Event, NEW mid \in Nat
  PROVE  /\ Remainder(e, mid).kind = e.kind
         /\ Remainder(e, mid).sess = e.sess
         /\ Remainder(e, mid).owner = e.owner
  BY DEF Remainder, Event

LEMMA DrainKeepsSafety ==
  ASSUME SafetyInv, DrainStep
  PROVE  SafetyInv'
  <1> USE QueueActors
  <1>0. TypeInv'
    BY DrainKeepsTypes DEF SafetyInv
  <1>1. ASSUME NEW e \in events, DrainEvent(e)
        PROVE  SafetyInv'
    <2>1. Size(e) \in Nat /\ queued \in Nat
      BY DEF SafetyInv, TypeInv, TypeOK, Intervals, Event, Size
    <2>2. queued' \in Nat /\ queued' <= queued
      BY <1>1, <2>1, SaturatingSubBounds DEF DrainEvent
    <2>3. QueuedWithinLimit'
      BY <2>1, <2>2, QueueConstants DEF SafetyInv, QueuedWithinLimit
    <2>4. BackpressureHasCause'
      BY <1>1 DEF DrainEvent, SafetyInv, TypeInv, TypeOK, Drain, Drained, BackpressureHasCause,
         MutexFree, NoDrain, Holder
    <2>5. TurnInv' /\ ProducersNotStranded'
      BY <1>1 DEF DrainEvent, SafetyInv, TurnInv, HoldsTurn, ProducersNotStranded, WakeupOf,
         Accepts
    <2>6. ConsumersNotStranded' /\ NothingOfCancelledSessions'
      BY <1>1 DEF DrainEvent, SafetyInv, ConsumersNotStranded, NothingOfCancelledSessions,
         HasEvent, BelongsTo
    <2> QED
      BY <1>0, <2>3, <2>4, <2>5, <2>6 DEF SafetyInv
  <1>2. ASSUME NEW e \in events, DrainPrefix(e)
        PROVE  SafetyInv'
    <2>1. draining.budget \in Nat /\ queued \in Nat /\ e \in Event
          /\ e.lo + draining.budget \in Nat
      BY DEF SafetyInv, TypeInv, TypeOK, Drain, Event
    <2>2. queued' \in Nat /\ queued' <= queued
      BY <1>2, <2>1, SaturatingSubBounds DEF DrainPrefix
    <2>3. QueuedWithinLimit'
      BY <2>1, <2>2, QueueConstants DEF SafetyInv, QueuedWithinLimit
    <2>4. BackpressureHasCause'
      BY <1>2 DEF DrainPrefix, SafetyInv, TypeInv, TypeOK, Drain, Drained,
         BackpressureHasCause, MutexFree, NoDrain, Holder
    <2>5. TurnInv' /\ ProducersNotStranded'
      BY <1>2 DEF DrainPrefix, SafetyInv, TurnInv, HoldsTurn, ProducersNotStranded, WakeupOf,
         Accepts
    <2>6. ConsumersNotStranded' /\ NothingOfCancelledSessions'
      BY <1>2, <2>1, RemainderKeepsOwner DEF DrainPrefix, SafetyInv, ConsumersNotStranded,
         NothingOfCancelledSessions, HasEvent, BelongsTo
    <2> QED
      BY <1>0, <2>3, <2>4, <2>5, <2>6 DEF SafetyInv
  <1>3. CASE FinishDrain
    <2>1. BackpressureHasCause' /\ QueuedWithinLimit'
      BY <1>3 DEF FinishDrain, SafetyInv, QueuedWithinLimit, BackpressureHasCause,
         StaysBackpressured
    <2>2. TurnInv' /\ ProducersNotStranded'
      BY <1>3 DEF FinishDrain, SafetyInv, TypeInv, TypeOK, TurnInv, HoldsTurn,
         ProducersNotStranded, WakeupOf, Accepts, SpaceFreed, StaysBackpressured
    <2>3. ConsumersNotStranded' /\ NothingOfCancelledSessions'
      BY <1>3 DEF FinishDrain, SafetyInv, ConsumersNotStranded, NothingOfCancelledSessions,
         HasEvent, BelongsTo, SpaceFreed
    <2> QED
      BY <1>0, <2>1, <2>2, <2>3 DEF SafetyInv
  <1> QED
    BY <1>1, <1>2, <1>3 DEF DrainStep

LEMMA NextKeepsSafety == SafetyInv /\ [Next]_vars => SafetyInv'
  <1> SUFFICES ASSUME SafetyInv, [Next]_vars PROVE SafetyInv'
    OBVIOUS
  <1>0. TypeInv'
    BY NextKeepsTypes DEF SafetyInv
  <1>1. ASSUME NEW p \in Producers, Producer(p)
        PROVE  SafetyInv'
    BY <1>0, <1>1, ProducerKeepsTurn, ProducerKeepsBounds, ProducerStrandsNobody,
       ProducerKeepsQueue DEF SafetyInv
  <1>2. ASSUME NEW n \in Conditions, NotifyAll(n)
        PROVE  SafetyInv'
    <2>1. TurnInv'
      BY <1>2 DEF NotifyAll, inner, SafetyInv, TypeInv, TypeOK, TurnInv, HoldsTurn, WaitsOn,
         Resumed
    <2>2. /\ QueuedWithinLimit' /\ BackpressureHasCause'
          /\ NothingOfCancelledSessions'
      BY <1>2 DEF NotifyAll, inner, SafetyInv, QueuedWithinLimit, BackpressureHasCause,
         MutexFree, NothingOfCancelledSessions
    <2>3. ProducersNotStranded'
      BY <1>2 DEF NotifyAll, inner, SafetyInv, TypeInv, TypeOK, ProducersNotStranded,
         WakeupOf, WaitsOn, Resumed, Accepts, HoldsTurn
    <2>4. ConsumersNotStranded'
      BY <1>2 DEF NotifyAll, inner, SafetyInv, TypeInv, TypeOK, ConsumersNotStranded, HasEvent,
         BelongsTo
    <2> QED
      BY <1>0, <2>1, <2>2, <2>3, <2>4 DEF SafetyInv
  <1>3. ASSUME NEW r \in reaping, CleanupFailure(r)
        PROVE  SafetyInv'
    <2>1. TurnInv' /\ QueuedWithinLimit' /\ BackpressureHasCause'
      BY <1>3 DEF CleanupFailure, SafetyInv, TurnInv, HoldsTurn, QueuedWithinLimit,
         BackpressureHasCause, MutexFree
    <2>2. ProducersNotStranded'
      BY <1>3 DEF CleanupFailure, SafetyInv, ProducersNotStranded, WakeupOf, Accepts, HoldsTurn
    <2>3. ConsumersNotStranded' /\ NothingOfCancelledSessions'
      BY <1>3 DEF CleanupFailure, PushBack, SafetyInv, ConsumersNotStranded,
         NothingOfCancelledSessions, HasEvent, BelongsTo
    <2> QED
      BY <1>0, <2>1, <2>2, <2>3 DEF SafetyInv
  <1>4. CASE Close
    BY <1>0, <1>4 DEF Close, Conditions, SafetyInv, TypeInv, TypeOK, TurnInv, HoldsTurn,
       QueuedWithinLimit, BackpressureHasCause, MutexFree, ProducersNotStranded, WakeupOf,
       ConsumersNotStranded, NothingOfCancelledSessions
  <1>5. CASE UNCHANGED vars
    BY <1>0, <1>5 DEF vars, inner, SafetyInv, TurnInv, HoldsTurn, QueuedWithinLimit,
       BackpressureHasCause, MutexFree, ProducersNotStranded, WakeupOf, Accepts,
       ConsumersNotStranded, NothingOfCancelledSessions, HasEvent, BelongsTo
  <1> QED
    BY <1>1, <1>2, <1>3, <1>4, <1>5, SessionKeepsSafety, ConsumerKeepsSafety, DrainKeepsSafety
       DEF Next

\* The queue never retains more than the limit (SESSION_EVENT_QUEUE_OUTPUT_LIMIT).
THEOREM QueueIsBounded == Spec => []QueuedWithinLimit
  <1>1. SafetyInv => QueuedWithinLimit
    BY DEF SafetyInv
  <1> QED
    BY <1>1, InitSafety, NextKeepsSafety, PTL DEF Spec

\* Backpressure ends with the drain or the cancel that crosses the low
\* watermark: resume_output_if_below_low_watermark is called wherever the
\* queue shrinks.
THEOREM BackpressureEnds == Spec => []BackpressureHasCause
  <1>1. SafetyInv => BackpressureHasCause
    BY DEF SafetyInv
  <1> QED
    BY <1>1, InitSafety, NextKeepsSafety, PTL DEF Spec

\* No producer, synchronous or asynchronous, misses the notification that ends
\* its wait for the turn or for space.
THEOREM NoProducerStranded == Spec => []ProducersNotStranded
  <1>1. SafetyInv => ProducersNotStranded
    BY DEF SafetyInv
  <1> QED
    BY <1>1, InitSafety, NextKeepsSafety, PTL DEF Spec

\* No consumer stays parked over an event of its own or over the close of the
\* queue.
THEOREM NoConsumerStranded == Spec => []ConsumersNotStranded
  <1>1. SafetyInv => ConsumersNotStranded
    BY DEF SafetyInv
  <1> QED
    BY <1>1, InitSafety, NextKeepsSafety, PTL DEF Spec

\* A cancelled session has nothing in the queue but cleanup diagnostics.
THEOREM CancelDropsEvents == Spec => []NothingOfCancelledSessions
  <1>1. SafetyInv => NothingOfCancelledSessions
    BY DEF SafetyInv
  <1> QED
    BY <1>1, InitSafety, NextKeepsSafety, PTL DEF Spec

-----------------------------------------------------------------------------
(* The streams.                                                            *)

\* push_back gives every event a ticket of its own.
Tickets ==
    /\ \A e \in events : e.at < tail
    /\ \A e, f \in events : e.at = f.at => e = f

InOrder ==
    \A e, f \in events : e.sess = f.sess /\ e.at < f.at => e.hi <= f.lo

\* Nothing taken is queued, and everything appended and not taken is.
Untaken ==
    /\ \A e \in events : taken[e.sess] <= e.lo /\ (e.kind # "output" => e.lo = e.hi)
    /\ \A s \in Sessions : \A b \in Nat :
          taken[s] <= b /\ b < pos[s] =>
              \E e \in events : e.sess = s /\ e.lo <= b /\ b < e.hi

\* Cleanup diagnostics are about local sessions, which do not come back: they
\* share the queue with no other event of their session.
CleanupsAfterCancel ==
    /\ \A e \in events : e.kind = "cleanup" => e.sess \in LocalSessions \cap cancelled
    /\ \A r \in reaping : r.sess \in LocalSessions \cap cancelled

StreamInv == SafetyInv /\ Tickets /\ InOrder /\ Untaken /\ CleanupsAfterCancel

LEMMA InitStream == Init => StreamInv
  <1> SUFFICES ASSUME Init PROVE StreamInv
    OBVIOUS
  <1>1. SafetyInv
    BY InitSafety
  <1> QED
    BY <1>1 DEF Init, StreamInv, Tickets, InOrder, Untaken, CleanupsAfterCancel

\* A step that appends an interval starting at the end of the stream.
LEMMA AppendKeepsStream ==
  ASSUME StreamInv, NEW e \in Event, PushBack(e), e.at = tail,
         e.lo = pos[e.sess], pos' = [pos EXCEPT ![e.sess] = e.hi], e.lo <= e.hi,
         e.kind # "output" => e.lo = e.hi,
         UNCHANGED taken
  PROVE  Tickets' /\ InOrder' /\ Untaken'
  <1>0. events' = events \cup {e} /\ tail' = tail + 1 /\ tail \in Nat /\ events \subseteq Event
    BY DEF PushBack, StreamInv, SafetyInv, TypeInv, TypeOK
  <1>1. Tickets'
    BY <1>0 DEF StreamInv, Tickets, Event
  <1>2. \A f \in events : f.hi <= pos[f.sess] /\ f.lo <= f.hi /\ f.at < tail
    BY DEF StreamInv, SafetyInv, TypeInv, Intervals, Tickets
  <1>3. InOrder'
    BY <1>0, <1>2 DEF StreamInv, InOrder, Event
  <1>4. e.sess \in Sessions /\ pos \in [Sessions -> Nat] /\ e.lo \in Nat /\ e.hi \in Nat
    BY DEF StreamInv, SafetyInv, TypeInv, TypeOK, Event
  <1>5. taken[e.sess] <= e.lo
    BY <1>4 DEF StreamInv, SafetyInv, TypeInv, Intervals
  <1>6. Untaken'
    BY <1>0, <1>4, <1>5 DEF StreamInv, Untaken
  <1> QED
    BY <1>1, <1>3, <1>6

LEMMA ProducerKeepsStream ==
  ASSUME StreamInv, NEW p \in Producers, Producer(p)
  PROVE  Tickets' /\ InOrder' /\ Untaken' /\ CleanupsAfterCancel'
  <1> USE QueueConstants, QueueActors
  <1> DEFINE s == job[p].sess
  <1>0. s \in Sessions /\ pos[s] \in Nat /\ tail \in Nat /\ job[p].seq \in Nat
        /\ ChunkSize(p) \in Nat /\ pos \in [Sessions -> Nat]
    BY DEF StreamInv, SafetyInv, TypeInv, TypeOK, Job, ChunkSize
  <1>1. CASE PushControl(p)
    <2> DEFINE e == [at |-> tail, kind |-> "control", sess |-> s, prod |-> p,
                     seq |-> job[p].seq, lo |-> pos[s], hi |-> pos[s], owner |-> NoConsumer]
    <2>1. e \in Event /\ PushBack(e) /\ pos' = [pos EXCEPT ![e.sess] = e.hi] /\ UNCHANGED taken
      BY <1>0, <1>1 DEF PushControl, Event
    <2>2. e.at = tail /\ e.lo = pos[e.sess] /\ e.lo <= e.hi /\ (e.kind # "output" => e.lo = e.hi)
      BY <1>0
    <2> HIDE DEF e
    <2>3. Tickets' /\ InOrder' /\ Untaken'
      BY <2>1, <2>2, AppendKeepsStream DEF StreamInv
    <2>4. CleanupsAfterCancel'
      BY <1>1 DEF PushControl, PushBack, StreamInv, CleanupsAfterCancel
    <2> QED
      BY <2>3, <2>4
  <1>2. CASE PushChunk(p)
    <2> DEFINE e == [at |-> tail, kind |-> "output", sess |-> s, prod |-> p,
                     seq |-> job[p].seq, lo |-> pos[s], hi |-> pos[s] + ChunkSize(p),
                     owner |-> NoConsumer]
    <2>1. e \in Event /\ PushBack(e) /\ pos' = [pos EXCEPT ![e.sess] = e.hi] /\ UNCHANGED taken
      BY <1>0, <1>2 DEF PushChunk, Event
    <2>2. e.at = tail /\ e.lo = pos[e.sess] /\ e.lo <= e.hi /\ (e.kind # "output" => e.lo = e.hi)
      BY <1>0
    <2> HIDE DEF e
    <2>3. Tickets' /\ InOrder' /\ Untaken'
      BY <2>1, <2>2, AppendKeepsStream DEF StreamInv
    <2>4. CleanupsAfterCancel'
      BY <1>2 DEF PushChunk, PushBack, StreamInv, CleanupsAfterCancel
    <2> QED
      BY <2>3, <2>4
  <1>3. CASE UNCHANGED <<events, tail, cancelled, reaping, pos, taken>>
    BY <1>3 DEF StreamInv, Tickets, InOrder, Untaken, CleanupsAfterCancel
  <1> QED
    BY <1>1, <1>2, <1>3 DEF Producer, Push, RefuseTurn, TakeTurn, WaitForTurn, AbandonEvent,
       WaitForSpace, ReleaseTurn, SpuriousWakeup, inner

LEMMA SessionKeepsStream ==
  ASSUME StreamInv, NEW s \in Sessions, Session(s)
  PROVE  Tickets' /\ InOrder' /\ Untaken' /\ CleanupsAfterCancel'
  <1> USE QueueActors
  <1>1. CASE CancelSession(s)
    <2>1. Tickets' /\ InOrder'
      BY <1>1 DEF CancelSession, StreamInv, Tickets, InOrder
    <2>2. Untaken'
      BY <1>1 DEF CancelSession, StreamInv, SafetyInv, TypeInv, TypeOK, Untaken
    <2>3. CleanupsAfterCancel'
      BY <1>1 DEF CancelSession, StreamInv, CleanupsAfterCancel
    <2> QED
      BY <2>1, <2>2, <2>3
  <1>2. CASE ResumeSession(s)
    BY <1>2 DEF ResumeSession, StreamInv, Tickets, InOrder, Untaken, CleanupsAfterCancel
  <1> QED
    BY <1>1, <1>2 DEF Session, AssignConsumer, ClearConsumer, StreamInv, Tickets, InOrder,
       Untaken, CleanupsAfterCancel

\* The first output of a drainer is the first event of its session.
LEMMA FirstOfItsSession ==
  ASSUME StreamInv, NEW c, NEW e \in events, IsFirst(e, c), e.kind = "output"
  PROVE  \A f \in events : f.sess = e.sess /\ f # e => e.hi <= f.lo
  <1>1. SUFFICES ASSUME NEW f \in events, f.sess = e.sess, f # e
                 PROVE  e.hi <= f.lo
    OBVIOUS
  <1>2. e.sess \notin cancelled
    BY DEF StreamInv, SafetyInv, NothingOfCancelledSessions
  <1>3. f.kind # "cleanup"
    BY <1>1, <1>2 DEF StreamInv, CleanupsAfterCancel
  <1>4. BelongsTo(f, c)
    BY <1>1, <1>3 DEF IsFirst, BelongsTo
  <1>5. e.at < f.at
    BY <1>1, <1>4 DEF IsFirst, StreamInv, Tickets, SafetyInv, TypeInv, TypeOK, Event
  <1> QED
    BY <1>1, <1>5 DEF StreamInv, InOrder

LEMMA DrainKeepsStream ==
  ASSUME StreamInv, DrainStep
  PROVE  Tickets' /\ InOrder' /\ Untaken' /\ CleanupsAfterCancel'
  <1>0. events \subseteq Event /\ pos \in [Sessions -> Nat] /\ taken \in [Sessions -> Nat]
        /\ draining \in Drain
    BY DEF StreamInv, SafetyInv, TypeInv, TypeOK
  <1>1. ASSUME NEW e \in events, DrainEvent(e)
        PROVE  Tickets' /\ InOrder' /\ Untaken' /\ CleanupsAfterCancel'
    <2>1. Tickets' /\ InOrder' /\ CleanupsAfterCancel'
      BY <1>1 DEF DrainEvent, StreamInv, Tickets, InOrder, CleanupsAfterCancel
    <2>2. CASE e.kind = "output"
      <3>1. taken' = [taken EXCEPT ![e.sess] = e.hi] /\ events' = events \ {e} /\ pos' = pos
        BY <1>1, <2>2 DEF DrainEvent
      <3>2. \A f \in events : f.sess = e.sess /\ f # e => e.hi <= f.lo
        BY <1>1, <2>2, FirstOfItsSession DEF DrainEvent
      <3>3. e.hi \in Nat /\ e.lo \in Nat /\ e.sess \in Sessions /\ e.lo <= e.hi
            /\ taken[e.sess] <= e.lo
        BY <1>0 DEF Event, StreamInv, SafetyInv, TypeInv, Intervals, Untaken
      <3>4. \A f \in events' : taken'[f.sess] <= f.lo /\ (f.kind # "output" => f.lo = f.hi)
        BY <1>0, <3>1, <3>2, <3>3 DEF StreamInv, Untaken, Event
      <3>5. ASSUME NEW s \in Sessions, NEW b \in Nat, taken'[s] <= b, b < pos'[s]
            PROVE  \E f \in events' : f.sess = s /\ f.lo <= b /\ b < f.hi
        <4>1. taken[s] <= b /\ b < pos[s] /\ (s = e.sess => e.hi <= b)
          BY <1>0, <3>1, <3>3, <3>5
        <4>2. PICK f \in events : f.sess = s /\ f.lo <= b /\ b < f.hi
          BY <4>1 DEF StreamInv, Untaken
        <4>3. f # e
          BY <1>0, <3>3, <4>1, <4>2 DEF Event
        <4> QED
          BY <3>1, <4>2, <4>3
      <3> QED
        BY <2>1, <3>4, <3>5 DEF Untaken
    <2>3. CASE e.kind # "output"
      <3>1. taken' = taken /\ events' = events \ {e} /\ pos' = pos
        BY <1>0, <1>1, <2>3 DEF DrainEvent
      <3>2. e.lo = e.hi /\ e.lo \in Nat
        BY <1>0, <2>3 DEF StreamInv, Untaken, Event
      <3> QED
        BY <2>1, <3>1, <3>2 DEF StreamInv, Untaken
    <2> QED
      BY <2>2, <2>3
  <1>2. ASSUME NEW e \in events, DrainPrefix(e)
        PROVE  Tickets' /\ InOrder' /\ Untaken' /\ CleanupsAfterCancel'
    <2> DEFINE mid == e.lo + draining.budget
    <2> DEFINE r == Remainder(e, mid)
    <2>1. /\ e.lo \in Nat /\ e.hi \in Nat /\ e.sess \in Sessions /\ e.at \in Nat
          /\ mid \in Nat /\ e.lo < mid /\ mid < e.hi
      BY <1>0, <1>2 DEF DrainPrefix, Size, Event, Drain
    <2>2. e.kind = "output"
      BY <2>1 DEF StreamInv, Untaken
    <2>3. r.at = e.at /\ r.sess = e.sess /\ r.kind = e.kind /\ r.lo = mid /\ r.hi = e.hi
      BY <1>0 DEF Remainder, Event
    <2>4. /\ events' = (events \ {e}) \cup {r} /\ taken' = [taken EXCEPT ![e.sess] = mid]
          /\ pos' = pos /\ tail' = tail /\ cancelled' = cancelled /\ reaping' = reaping
      BY <1>2 DEF DrainPrefix
    <2> HIDE DEF r, mid
    <2>5. Tickets'
      BY <2>3, <2>4 DEF StreamInv, Tickets
    <2>6. InOrder'
      BY <1>0, <2>1, <2>3, <2>4 DEF StreamInv, InOrder, Event
    <2>7. CleanupsAfterCancel'
      BY <2>3, <2>4 DEF StreamInv, CleanupsAfterCancel
    <2>8. \A f \in events : f.sess = e.sess /\ f # e => e.hi <= f.lo
      BY <1>2, <2>2, FirstOfItsSession DEF DrainPrefix
    <2>9. \A f \in events' : taken'[f.sess] <= f.lo /\ (f.kind # "output" => f.lo = f.hi)
      BY <1>0, <2>1, <2>2, <2>3, <2>4, <2>8 DEF StreamInv, Untaken, Event
    <2>10. ASSUME NEW s \in Sessions, NEW b \in Nat, taken'[s] <= b, b < pos'[s]
           PROVE  \E f \in events' : f.sess = s /\ f.lo <= b /\ b < f.hi
      <3>1. taken[e.sess] <= e.lo
        BY DEF StreamInv, Untaken
      <3>2. taken[s] <= b /\ b < pos[s] /\ (s = e.sess => mid <= b)
        BY <1>0, <2>1, <2>4, <2>10, <3>1
      <3>3. PICK f \in events : f.sess = s /\ f.lo <= b /\ b < f.hi
        BY <3>2 DEF StreamInv, Untaken
      <3>4. CASE f = e
        BY <2>3, <2>4, <3>2, <3>3, <3>4
      <3>5. CASE f # e
        BY <2>4, <3>3, <3>5
      <3> QED
        BY <3>4, <3>5
    <2> QED
      BY <2>5, <2>6, <2>7, <2>9, <2>10 DEF Untaken
  <1>3. CASE FinishDrain
    BY <1>3 DEF FinishDrain, StreamInv, Tickets, InOrder, Untaken, CleanupsAfterCancel
  <1> QED
    BY <1>1, <1>2, <1>3 DEF DrainStep

LEMMA NextKeepsStream == StreamInv /\ [Next]_vars => StreamInv'
  <1> SUFFICES ASSUME StreamInv, [Next]_vars PROVE StreamInv'
    OBVIOUS
  <1> USE QueueActors
  <1>0. SafetyInv'
    BY NextKeepsSafety DEF StreamInv
  <1> SUFFICES Tickets' /\ InOrder' /\ Untaken' /\ CleanupsAfterCancel'
    BY <1>0 DEF StreamInv
  <1>1. CASE UNCHANGED <<events, tail, cancelled, reaping, pos, taken>>
    BY <1>1 DEF StreamInv, Tickets, InOrder, Untaken, CleanupsAfterCancel
  <1>2. ASSUME NEW r \in reaping, CleanupFailure(r)
        PROVE  Tickets' /\ InOrder' /\ Untaken' /\ CleanupsAfterCancel'
    <2> DEFINE e == [at |-> tail, kind |-> "cleanup", sess |-> r.sess, prod |-> NoProducer,
                     seq |-> 0, lo |-> pos[r.sess], hi |-> pos[r.sess], owner |-> r.owner]
    <2>1. e \in Event /\ pos = [pos EXCEPT ![e.sess] = e.hi] /\ e.hi \in Nat
      BY DEF StreamInv, SafetyInv, TypeInv, TypeOK, Reap, Event
    <2>2. pos' = pos /\ taken' = taken /\ cancelled' = cancelled /\ reaping' \subseteq reaping
      BY <1>2 DEF CleanupFailure
    <2>3. CASE UNCHANGED <<events, tail>>
      BY <2>2, <2>3 DEF StreamInv, Tickets, InOrder, Untaken, CleanupsAfterCancel
    <2>4. CASE PushBack(e)
      <3>1. Tickets' /\ InOrder' /\ Untaken'
        BY <2>1, <2>2, <2>4, AppendKeepsStream
      <3>2. CleanupsAfterCancel'
        BY <2>2, <2>4 DEF PushBack, StreamInv, CleanupsAfterCancel
      <3> QED
        BY <3>1, <3>2
    <2> QED
      BY <1>2, <2>3, <2>4 DEF CleanupFailure
  <1>3. ASSUME NEW c \in Drainers, Consumer(c)
        PROVE  UNCHANGED <<events, tail, cancelled, reaping, pos, taken>>
    BY <1>3 DEF Consumer, Park, StopWaiting, StartDrain, inner
  <1>4. ASSUME NEW n \in Conditions, NotifyAll(n)
        PROVE  UNCHANGED <<events, tail, cancelled, reaping, pos, taken>>
    BY <1>4 DEF NotifyAll, inner
  <1>5. CASE Close
    BY <1>1, <1>5 DEF Close
  <1>6. CASE UNCHANGED vars
    BY <1>1, <1>6 DEF vars, inner
  <1> QED
    BY <1>1, <1>2, <1>3, <1>4, <1>5, <1>6, ProducerKeepsStream, SessionKeepsStream,
       DrainKeepsStream DEF Next

\* Every session's bytes leave the queue once, in the order they were pushed,
\* whatever chunks, budgets, cancels and consumers do to its events.
THEOREM StreamsAreIntact == Spec => []StreamIntact
  <1>1. StreamInv => StreamIntact
    <2> SUFFICES ASSUME StreamInv, NEW s \in Sessions
                 PROVE  LET E == {e \in events : e.sess = s}
                        IN /\ \A e, f \in E : e.at < f.at => e.hi <= f.lo
                           /\ UNION {e.lo .. (e.hi - 1) : e \in E} = taken[s] .. (pos[s] - 1)
      BY DEF StreamIntact
    <2> DEFINE E == {e \in events : e.sess = s}
    <2>0. events \subseteq Event /\ pos[s] \in Nat /\ taken[s] \in Nat
      BY DEF StreamInv, SafetyInv, TypeInv, TypeOK
    <2>1. \A e, f \in E : e.at < f.at => e.hi <= f.lo
      BY DEF StreamInv, InOrder
    <2>2. ASSUME NEW e \in E, NEW b \in e.lo .. (e.hi - 1)
          PROVE  b \in taken[s] .. (pos[s] - 1)
      <3>1. e.lo \in Nat /\ e.hi \in Nat /\ taken[s] <= e.lo /\ e.hi <= pos[s]
        BY <2>0 DEF Event, StreamInv, SafetyInv, TypeInv, Intervals, Untaken
      <3> QED
        BY <2>0, <3>1
    <2>3. ASSUME NEW b \in taken[s] .. (pos[s] - 1)
          PROVE  \E e \in E : b \in e.lo .. (e.hi - 1)
      <3>1. b \in Nat /\ taken[s] <= b /\ b < pos[s]
        BY <2>0
      <3>2. PICK e \in events : e.sess = s /\ e.lo <= b /\ b < e.hi
        BY <3>1 DEF StreamInv, Untaken
      <3>3. e.lo \in Nat /\ e.hi \in Nat
        BY <2>0 DEF Event
      <3> QED
        BY <3>1, <3>2, <3>3
    <2> QED
      BY <2>1, <2>2, <2>3
  <1> QED
    BY <1>1, InitStream, NextKeepsStream, PTL DEF Spec

-----------------------------------------------------------------------------
(* The chunks of an event.                                                 *)

\* Who pushed what is queued: the events of a producer are numbered as it pushed
\* them, the one it waits to push is not there yet, and behind a part of the event it
\* is pushing there is nothing but more of that event.
Pushed ==
    /\ \A e \in events : e.kind = "cleanup" <=> e.prod = NoProducer
    /\ \A p \in Producers, e \in events : e.prod = p =>
          /\ e.seq <= job[p].seq
          /\ pc[p] \in {"begin", "orderWait"} => e.seq < job[p].seq
          /\ pc[p] \in {"turn", "spaceWait"} /\ e.seq = job[p].seq =>
                \A f \in events : e.at < f.at /\ f.kind # "cleanup"
                                     => f.prod = p /\ f.seq = job[p].seq

ChunksInv == StreamInv /\ Pushed /\ ChunksNotInterleaved

LEMMA InitChunks == Init => ChunksInv
  BY InitStream DEF Init, ChunksInv, Pushed, ChunksNotInterleaved

\* A producer with the turn appends a part of its event: it alone has the turn, so no
\* other event can have come after the parts before.
LEMMA AppendKeepsChunks ==
  ASSUME ChunksInv, NEW p \in Producers, pc[p] = "turn",
         NEW e \in Event, events' = events \cup {e}, e.at = tail,
         e.kind # "cleanup", e.prod = p, e.seq = job[p].seq,
         job' \in [Producers -> Job], \A q \in Producers : job'[q].seq = job[q].seq,
         \A q \in Producers : q # p => pc'[q] = pc[q],
         pc'[p] \in {"turn", "release"}
  PROVE  Pushed' /\ ChunksNotInterleaved'
  <1> USE QueueActors
  <1>0. /\ \A f \in events : f.at < tail /\ f.at \in Nat /\ f.seq \in Nat
        /\ e.seq \in Nat /\ tail \in Nat
    BY DEF ChunksInv, StreamInv, SafetyInv, TypeInv, TypeOK, Tickets, Event
  <1>1. \A q \in Producers : q # p => pc[q] \notin {"turn", "spaceWait"}
    BY DEF ChunksInv, StreamInv, SafetyInv, TurnInv, HoldsTurn
  <1>2. Pushed'
    BY <1>0, <1>1 DEF ChunksInv, Pushed
  <1>3. ChunksNotInterleaved'
    BY <1>0 DEF ChunksInv, Pushed, ChunksNotInterleaved
  <1> QED
    BY <1>2, <1>3

\* Events leave, or a diagnostic comes, which is no part of an event.
LEMMA ShrinkKeepsChunks ==
  ASSUME Pushed, ChunksNotInterleaved, UNCHANGED <<pc, job>>,
         \A e \in events' :
            \/ e.kind = "cleanup" /\ e.prod = NoProducer
            \/ \E f \in events : /\ f.at = e.at /\ f.kind = e.kind
                                 /\ f.prod = e.prod /\ f.seq = e.seq
  PROVE  Pushed' /\ ChunksNotInterleaved'
  <1> USE QueueActors
  <1>1. Pushed'
    BY DEF Pushed
  <1>2. ChunksNotInterleaved'
    BY DEF Pushed, ChunksNotInterleaved
  <1> QED
    BY <1>1, <1>2

LEMMA ProducerKeepsChunks ==
  ASSUME ChunksInv, NEW p \in Producers, Producer(p)
  PROVE  Pushed' /\ ChunksNotInterleaved'
  <1> DEFINE s == job[p].sess
  <1>0. /\ s \in Sessions /\ pos[s] \in Nat /\ tail \in Nat /\ job \in [Producers -> Job]
        /\ \A q \in Producers : job[q].seq \in Nat
        /\ pc \in [Producers -> ProducerStates]
    BY DEF ChunksInv, StreamInv, SafetyInv, TypeInv, TypeOK, Job
  <1>1. CASE PushControl(p)
    <2> DEFINE e == [at |-> tail, kind |-> "control", sess |-> s, prod |-> p,
                     seq |-> job[p].seq, lo |-> pos[s], hi |-> pos[s], owner |-> NoConsumer]
    <2>1. /\ e \in Event /\ e.at = tail /\ e.kind # "cleanup" /\ e.prod = p
          /\ e.seq = job[p].seq
      BY <1>0 DEF Event
    <2>2. /\ events' = events \cup {e} /\ job' = job /\ pc[p] = "turn"
          /\ pc' = [pc EXCEPT ![p] = "release"]
      BY <1>1 DEF PushControl, PushBack
    <2> HIDE DEF e
    <2> QED
      BY <1>0, <2>1, <2>2, AppendKeepsChunks
  <1>2. CASE PushChunk(p)
    <2> DEFINE e == [at |-> tail, kind |-> "output", sess |-> s, prod |-> p,
                     seq |-> job[p].seq, lo |-> pos[s], hi |-> pos[s] + ChunkSize(p),
                     owner |-> NoConsumer]
    <2>0. ChunkSize(p) \in Nat /\ job' \in [Producers -> Job]
      BY <1>2, NextKeepsTypes, QueueConstants
         DEF ChunksInv, StreamInv, SafetyInv, TypeInv, TypeOK, Next, Producer, ChunkSize, Job
    <2>1. /\ e \in Event /\ e.at = tail /\ e.kind # "cleanup" /\ e.prod = p
          /\ e.seq = job[p].seq
      BY <1>0, <2>0 DEF Event
    <2>2. /\ events' = events \cup {e} /\ pc[p] = "turn"
          /\ job' = [job EXCEPT ![p].rest = @ - ChunkSize(p)]
          /\ pc' = [pc EXCEPT ![p] = IF job[p].rest = ChunkSize(p) THEN "release" ELSE "turn"]
      BY <1>2 DEF PushChunk, PushBack
    <2>3. \A q \in Producers : job'[q].seq = job[q].seq
      BY <1>0, <2>2 DEF Job
    <2>4. (\A q \in Producers : q # p => pc'[q] = pc[q]) /\ pc'[p] \in {"turn", "release"}
      BY <1>0, <2>2
    <2> HIDE DEF e
    <2> QED
      BY <2>0, <2>1, <2>2, <2>3, <2>4, AppendKeepsChunks
  <1>3. CASE Push(p)
    <2>1. \A e \in events : e.seq \in Nat
      BY DEF ChunksInv, StreamInv, SafetyInv, TypeInv, TypeOK, Event
    <2> QED
      BY <1>0, <1>3, <2>1 DEF Push, inner, ChunksInv, Pushed, ChunksNotInterleaved
  <1>4. CASE RefuseTurn(p) \/ ReleaseTurn(p)
    BY <1>0, <1>4 DEF RefuseTurn, ReleaseTurn, Returned, inner, ChunksInv, Pushed,
       ChunksNotInterleaved
  <1>5. CASE TakeTurn(p) \/ WaitForTurn(p) \/ AbandonEvent(p) \/ WaitForSpace(p) \/ SpuriousWakeup(p)
    <2>1. /\ events' = events /\ job' = job
          /\ \/ pc[p] = "begin" /\ pc'[p] \in {"turn", "release", "orderWait"}
             \/ pc[p] \in {"turn", "spaceWait"} /\ pc'[p] \in {"turn", "spaceWait", "release"}
             \/ pc[p] = "orderWait" /\ pc'[p] = "begin"
          /\ \A q \in Producers : q # p => pc'[q] = pc[q]
      BY <1>0, <1>5 DEF TakeTurn, WaitForTurn, AbandonEvent, WaitForSpace, SpuriousWakeup,
         Resumed, inner
    <2>2. \A e \in events : e.seq \in Nat
      BY DEF ChunksInv, StreamInv, SafetyInv, TypeInv, TypeOK, Event
    <2> QED
      BY <1>0, <2>1, <2>2 DEF ChunksInv, Pushed, ChunksNotInterleaved
  <1> QED
    BY <1>1, <1>2, <1>3, <1>4, <1>5 DEF Producer

LEMMA NextKeepsChunks == ChunksInv /\ [Next]_vars => ChunksInv'
  <1> SUFFICES ASSUME ChunksInv, [Next]_vars PROVE ChunksInv'
    OBVIOUS
  <1>0. StreamInv'
    BY NextKeepsStream DEF ChunksInv
  <1> SUFFICES Pushed' /\ ChunksNotInterleaved'
    BY <1>0 DEF ChunksInv
  <1>1. CASE UNCHANGED <<pc, job>> /\ events' \subseteq events
    BY <1>1, ShrinkKeepsChunks DEF ChunksInv
  <1>2. ASSUME NEW r \in reaping, CleanupFailure(r)
        PROVE  Pushed' /\ ChunksNotInterleaved'
    <2>1. /\ UNCHANGED <<pc, job>>
          /\ \A e \in events' : e \in events \/ (e.kind = "cleanup" /\ e.prod = NoProducer)
      BY <1>2 DEF CleanupFailure, PushBack
    <2> QED
      BY <2>1, ShrinkKeepsChunks DEF ChunksInv
  <1>3. ASSUME NEW n \in Conditions, NotifyAll(n)
        PROVE  Pushed' /\ ChunksNotInterleaved'
    <2>1. /\ events' = events /\ job' = job
          /\ \A q \in Producers : \/ pc'[q] = pc[q]
                                  \/ pc[q] = "orderWait" /\ pc'[q] = "begin"
                                  \/ pc[q] = "spaceWait" /\ pc'[q] = "turn"
      BY <1>3 DEF NotifyAll, WaitsOn, Resumed, inner
    <2> QED
      BY <2>1 DEF ChunksInv, Pushed, ChunksNotInterleaved
  <1>4. ASSUME NEW e \in events, DrainPrefix(e)
        PROVE  Pushed' /\ ChunksNotInterleaved'
    <2> DEFINE rest == Remainder(e, e.lo + draining.budget)
    <2>1. rest.at = e.at /\ rest.kind = e.kind /\ rest.prod = e.prod /\ rest.seq = e.seq
      BY DEF Remainder, ChunksInv, StreamInv, SafetyInv, TypeInv, TypeOK, Event
    <2>2. UNCHANGED <<pc, job>> /\ events' = (events \ {e}) \cup {rest}
      BY <1>4 DEF DrainPrefix
    <2> HIDE DEF rest
    <2>3. \A f \in events' : \E g \in events : /\ g.at = f.at /\ g.kind = f.kind
                                               /\ g.prod = f.prod /\ g.seq = f.seq
      BY <2>1, <2>2
    <2> QED
      BY <2>2, <2>3, ShrinkKeepsChunks DEF ChunksInv
  <1>5. ASSUME NEW s \in Sessions, Session(s)
        PROVE  UNCHANGED <<pc, job>> /\ events' \subseteq events
    BY <1>5 DEF Session, CancelSession, ResumeSession, AssignConsumer, ClearConsumer
  <1>6. ASSUME NEW c \in Drainers, Consumer(c)
        PROVE  UNCHANGED <<pc, job>> /\ events' \subseteq events
    BY <1>6 DEF Consumer, Park, StopWaiting, StartDrain, inner
  <1>7. ASSUME NEW e \in events, DrainEvent(e)
        PROVE  UNCHANGED <<pc, job>> /\ events' \subseteq events
    BY <1>7 DEF DrainEvent
  <1>8. FinishDrain \/ Close \/ UNCHANGED vars => UNCHANGED <<pc, job>> /\ events' \subseteq events
    BY DEF FinishDrain, Close, vars, inner
  <1> QED
    BY <1>1, <1>2, <1>3, <1>4, <1>5, <1>6, <1>7, <1>8, ProducerKeepsChunks DEF Next, DrainStep

\* However producers wait for the turn and for space, and sessions are cancelled and
\* drained in between, nothing another producer pushes comes between the chunks of
\* an output event (producer_order, ProducerOrderGuard).
THEOREM ChunksStayTogether == Spec => []ChunksNotInterleaved
  <1>1. ChunksInv => ChunksNotInterleaved
    BY DEF ChunksInv
  <1> QED
    BY <1>1, InitChunks, NextKeepsChunks, PTL DEF Spec

-----------------------------------------------------------------------------
(* The refinement: a step of the queue is a step of SessionStreams, or     *)
(* changes nothing that SessionStreams shows.                              *)

Shown == <<tail, pos, taken, events, cancelled, closed, consumers, draining>>

LEMMA ShownDecides == UNCHANGED Shown => UNCHANGED Streams!vars
  BY DEF Shown, Streams!vars, MarksOf

LEMMA InitStreams == Init => Streams!Init
  <1> SUFFICES ASSUME Init PROVE Streams!Init
    OBVIOUS
  <1>1. \A s \in Sessions : MarksOf(s) = {}
    BY DEF Init, MarksOf
  <1> QED
    BY <1>1 DEF Init, Streams!Init, NoDrain

\* A producer that has the turn for an output event has bytes left to append.
Unfinished ==
    \A p \in Producers :
        pc[p] \in {"turn", "spaceWait"} /\ job[p].kind = "output" => job[p].rest > 0

LEMMA NextKeepsUnfinished == TypeInv /\ Unfinished /\ [Next]_vars => Unfinished'
  <1> SUFFICES ASSUME TypeInv, Unfinished, [Next]_vars PROVE Unfinished'
    OBVIOUS
  <1> USE DEF Unfinished, TypeInv, TypeOK, ProducerStates
  <1>1. ASSUME NEW p \in Producers, Producer(p)
        PROVE  Unfinished'
    <2>1. CASE Push(p) \/ RefuseTurn(p) \/ TakeTurn(p) \/ WaitForTurn(p) \/ AbandonEvent(p)
      BY <2>1 DEF Push, RefuseTurn, TakeTurn, WaitForTurn, AbandonEvent, inner, Job
    <2>2. CASE PushChunk(p)
      BY <2>2, QueueConstants DEF PushChunk, ChunkSize, Job
    <2>3. CASE PushControl(p) \/ WaitForSpace(p) \/ ReleaseTurn(p) \/ SpuriousWakeup(p)
      BY <2>3 DEF PushControl, WaitForSpace, ReleaseTurn, SpuriousWakeup, inner, Resumed
    <2> QED
      BY <1>1, <2>1, <2>2, <2>3 DEF Producer
  <1>2. ASSUME NEW n \in Conditions, NotifyAll(n)
        PROVE  Unfinished'
    BY <1>2 DEF NotifyAll, WaitsOn, Resumed
  <1>3. CASE UNCHANGED <<pc, job>>
    BY <1>3
  <1>4. ASSUME NEW s \in Sessions, Session(s)
        PROVE  UNCHANGED <<pc, job>>
    BY <1>4 DEF Session, CancelSession, ResumeSession, AssignConsumer, ClearConsumer
  <1>5. ASSUME NEW c \in Drainers, Consumer(c)
        PROVE  UNCHANGED <<pc, job>>
    BY <1>5 DEF Consumer, Park, StopWaiting, StartDrain
  <1>6. ASSUME NEW r \in reaping, CleanupFailure(r)
        PROVE  UNCHANGED <<pc, job>>
    BY <1>6 DEF CleanupFailure
  <1>7. DrainStep \/ Close \/ UNCHANGED vars => UNCHANGED <<pc, job>>
    BY DEF DrainStep, DrainEvent, DrainPrefix, FinishDrain, Close, vars
  <1> QED
    BY <1>1, <1>2, <1>3, <1>4, <1>5, <1>6, <1>7 DEF Next

\* The mutex is free exactly when no batch is being drained.
LEMMA IdleIsMutexFree == ASSUME StreamInv PROVE Streams!Idle <=> MutexFree
  BY QueueActors DEF StreamInv, SafetyInv, TypeInv, Holder, Streams!Idle, MutexFree, NoDrain

LEMMA ProducerImplements ==
  ASSUME StreamInv, Unfinished, NEW p \in Producers, Producer(p)
  PROVE  [Streams!Next]_(Streams!vars)
  <1> DEFINE s == job[p].sess
  <1>0. s \in Sessions /\ pos \in [Sessions -> Nat] /\ tail \in Nat /\ job[p].rest \in Nat
        /\ EventLimit \in Nat
        /\ EventLimit > 0
    BY QueueConstants DEF StreamInv, SafetyInv, TypeInv, TypeOK, Job
  <1>1. CASE PushControl(p)
    <2> DEFINE e == [at |-> tail, kind |-> "control", sess |-> s, prod |-> p,
                     seq |-> job[p].seq, lo |-> pos[s], hi |-> pos[s], owner |-> NoConsumer]
    <2>1. events' = events \cup {e} /\ tail' = tail + 1
      BY <1>1 DEF PushControl, PushBack
    <2>2. \A t \in Sessions : MarksOf(t)' = IF t = s
                                 THEN MarksOf(t) \cup {[at |-> tail, lo |-> pos[s]]}
                                 ELSE MarksOf(t)
      <3>1. e.kind = "control" /\ e.sess = s /\ e.at = tail /\ e.lo = pos[s]
        OBVIOUS
      <3> HIDE DEF e, s
      <3>2. \A t \in Sessions : MarksOf(t)' = MarksOf(t) \cup
                                 {[at |-> f.at, lo |-> f.lo] : f \in {g \in {e} : g.kind = "control" /\ g.sess = t}}
        BY <2>1 DEF MarksOf
      <3> QED
        BY <3>1, <3>2
    <2>3. Streams!Accepts(s)
      BY <1>1, IdleIsMutexFree DEF PushControl, Accepts, Streams!Accepts
    <2>4. Streams!AppendMark(s)
      BY <1>0, <1>1, <2>1, <2>2, <2>3 DEF PushControl, Streams!AppendMark
    <2> QED
      BY <1>0, <2>4 DEF Streams!Next, Streams!Stream
  <1>2. CASE PushChunk(p)
    <2> DEFINE n == ChunkSize(p)
    <2> DEFINE e == [at |-> tail, kind |-> "output", sess |-> s, prod |-> p,
                     seq |-> job[p].seq, lo |-> pos[s], hi |-> pos[s] + n, owner |-> NoConsumer]
    <2>1. events' = events \cup {e} /\ tail' = tail + 1 /\ pos' = [pos EXCEPT ![s] = @ + n]
      BY <1>2 DEF PushChunk, PushBack
    <2>2. \A t \in Sessions : MarksOf(t)' = MarksOf(t)
      BY <2>1 DEF MarksOf
    <2>3. Streams!Accepts(s)
      BY <1>2, IdleIsMutexFree DEF PushChunk, Accepts, Streams!Accepts
    <2>4. Streams!AppendBytes(s, n)
      BY <1>0, <1>2, <2>1, <2>2, <2>3 DEF PushChunk, Streams!AppendBytes
    <2>5. n \in 1 .. EventLimit
      BY <1>0, <1>2 DEF PushChunk, ChunkSize, Unfinished
    <2> QED
      BY <1>0, <2>4, <2>5 DEF Streams!Next, Streams!Stream
  <1>3. CASE UNCHANGED Shown
    BY <1>3, ShownDecides
  <1> QED
    BY <1>1, <1>2, <1>3 DEF Producer, Push, RefuseTurn, TakeTurn, WaitForTurn, AbandonEvent,
       WaitForSpace, ReleaseTurn, SpuriousWakeup, inner, Shown

LEMMA SessionImplements ==
  ASSUME StreamInv, NEW s \in Sessions, Session(s)
  PROVE  [Streams!Next]_(Streams!vars)
  <1>1. CASE CancelSession(s)
    <2>1. events' = {e \in events : e.sess # s}
      BY <1>1 DEF CancelSession
    <2>2. \A t \in Sessions : MarksOf(t)' = IF t = s THEN {} ELSE MarksOf(t)
      BY <2>1 DEF MarksOf
    <2>3. Streams!Cancel(s)
      BY <1>1, <2>2, IdleIsMutexFree DEF CancelSession, Streams!Cancel
    <2> QED
      BY <2>3 DEF Streams!Next, Streams!Stream
  <1>2. CASE ResumeSession(s)
    <2>1. Streams!Resume(s)
      BY <1>2, IdleIsMutexFree DEF ResumeSession, Streams!Resume, MarksOf
    <2> QED
      BY <2>1 DEF Streams!Next, Streams!Stream
  <1>3. ASSUME NEW c \in Consumers, AssignConsumer(s, c)
        PROVE  [Streams!Next]_(Streams!vars)
    <2>1. Streams!Assign(s, c)
      BY <1>3, IdleIsMutexFree DEF AssignConsumer, Streams!Assign, MarksOf
    <2> QED
      BY <2>1 DEF Streams!Next, Streams!Stream
  <1>4. ASSUME NEW c \in Consumers, ClearConsumer(s, c)
        PROVE  [Streams!Next]_(Streams!vars)
    <2>1. CASE consumers[s] = c
      <3>1. Streams!Assign(s, NoConsumer)
        BY <1>4, <2>1, IdleIsMutexFree DEF ClearConsumer, Streams!Assign, MarksOf
      <3> QED
        BY <3>1 DEF Streams!Next, Streams!Stream
    <2>2. CASE consumers[s] # c
      <3>1. UNCHANGED Shown
        BY <1>4, <2>2 DEF ClearConsumer, Shown
      <3> QED
        BY <3>1, ShownDecides
    <2> QED
      BY <2>1, <2>2
  <1> QED
    BY <1>1, <1>2, <1>3, <1>4 DEF Session

\* The first control event of a drainer is the next thing in its stream.
LEMMA ControlIsNext ==
  ASSUME StreamInv, NEW c, NEW e \in events, IsFirst(e, c), e.kind = "control"
  PROVE  /\ e.lo = taken[e.sess]
         /\ \A f \in events : f.sess = e.sess => e.at <= f.at
  <1>0. e.sess \in Sessions /\ e.lo \in Nat /\ events \subseteq Event
        /\ taken[e.sess] \in Nat /\ pos[e.sess] \in Nat
        /\ taken[e.sess] <= e.lo /\ e.lo = e.hi /\ e.hi <= pos[e.sess]
    BY DEF StreamInv, SafetyInv, TypeInv, TypeOK, Event, Untaken, Intervals
  <1>1. e.sess \notin cancelled
    BY DEF StreamInv, SafetyInv, NothingOfCancelledSessions
  <1>2. \A f \in events : f.sess = e.sess => e.at <= f.at
    <2> SUFFICES ASSUME NEW f \in events, f.sess = e.sess PROVE e.at <= f.at
      OBVIOUS
    <2>1. f.kind # "cleanup"
      BY <1>1 DEF StreamInv, CleanupsAfterCancel
    <2> QED
      BY <2>1 DEF IsFirst, BelongsTo
  <1>3. SUFFICES ASSUME taken[e.sess] < e.lo PROVE FALSE
    BY <1>0, <1>2
  <1>4. PICK f \in events : f.sess = e.sess /\ f.lo <= taken[e.sess] /\ taken[e.sess] < f.hi
    BY <1>0, <1>3 DEF StreamInv, Untaken
  <1>5. f # e /\ f \in Event
    BY <1>0, <1>3, <1>4
  <1>6. e.at < f.at
    BY <1>0, <1>2, <1>4, <1>5 DEF StreamInv, Tickets, Event
  <1>7. e.hi <= f.lo
    BY <1>4, <1>6 DEF StreamInv, InOrder
  <1> QED
    BY <1>0, <1>3, <1>4, <1>5, <1>7 DEF Event

\* No mark stands before the end of the first output of a drainer.
LEMMA OutputIsNext ==
  ASSUME StreamInv, NEW c, NEW e \in events, IsFirst(e, c), e.kind = "output"
  PROVE  /\ e.lo < e.hi => e.lo = taken[e.sess]
         /\ \A m \in MarksOf(e.sess) : e.hi <= m.lo
  <1>0. e.sess \in Sessions /\ e.lo \in Nat /\ e.hi \in Nat /\ events \subseteq Event
        /\ taken[e.sess] \in Nat /\ pos[e.sess] \in Nat
        /\ taken[e.sess] <= e.lo /\ e.hi <= pos[e.sess]
    BY DEF StreamInv, SafetyInv, TypeInv, TypeOK, Event, Untaken, Intervals
  <1>1. \A f \in events : f.sess = e.sess /\ f # e => e.hi <= f.lo
    BY FirstOfItsSession
  <1>2. \A m \in MarksOf(e.sess) : e.hi <= m.lo
    BY <1>1 DEF MarksOf
  <1>3. SUFFICES ASSUME e.lo < e.hi, taken[e.sess] < e.lo PROVE FALSE
    BY <1>0, <1>2
  <1>4. PICK f \in events : f.sess = e.sess /\ f.lo <= taken[e.sess] /\ taken[e.sess] < f.hi
    BY <1>0, <1>3 DEF StreamInv, Untaken
  <1>5. f # e /\ f \in Event
    BY <1>0, <1>3, <1>4
  <1> QED
    BY <1>0, <1>1, <1>3, <1>4, <1>5 DEF Event

LEMMA DrainImplements ==
  ASSUME StreamInv, DrainStep
  PROVE  [Streams!Next]_(Streams!vars)
  <1>0. events \subseteq Event /\ pos \in [Sessions -> Nat] /\ taken \in [Sessions -> Nat]
        /\ draining \in Drain
    BY DEF StreamInv, SafetyInv, TypeInv, TypeOK
  <1>1. ASSUME NEW e \in events, DrainEvent(e)
        PROVE  [Streams!Next]_(Streams!vars)
    <2>1. e.lo \in Nat /\ e.hi \in Nat /\ e.sess \in Sessions /\ e.lo <= e.hi
          /\ e.hi <= pos[e.sess] /\ e.kind \in {"output", "control", "cleanup"}
      BY <1>0 DEF Event, StreamInv, SafetyInv, TypeInv, Intervals
    <2>2. ~MutexFree /\ draining'.by = draining.by /\ events' = events \ {e}
      BY <1>0, <1>1, <2>1 DEF DrainEvent, MutexFree, NoDrain, Drain, Drained, Size
    <2>3. e.kind # "cleanup" => Streams!MayTake(e.sess)
      BY <1>1, <2>2, IdleIsMutexFree DEF DrainEvent, IsFirst, BelongsTo, Streams!MayTake
    <2>4. CASE e.kind = "output"
      <3>1. \A t \in Sessions : MarksOf(t)' = MarksOf(t)
        BY <2>2, <2>4 DEF MarksOf
      <3>2. /\ e.lo < e.hi => e.lo = taken[e.sess]
            /\ \A m \in MarksOf(e.sess) : e.hi <= m.lo
        BY <1>1, <2>4, OutputIsNext DEF DrainEvent
      <3>3. CASE taken[e.sess] = e.hi
        BY <1>0, <1>1, <2>1, <2>2, <2>4, <3>1, <3>3 DEF DrainEvent, Streams!vars
      <3>4. CASE taken[e.sess] # e.hi
        <4> DEFINE n == e.hi - taken[e.sess]
        <4>1. taken[e.sess] <= e.lo
          BY DEF StreamInv, Untaken
        <4>2. n \in 1 .. (pos[e.sess] - taken[e.sess]) /\ taken[e.sess] + n = e.hi
          BY <1>0, <2>1, <3>4, <4>1
        <4>3. Streams!TakeBytes(e.sess, n)
          BY <1>0, <1>1, <2>1, <2>2, <2>3, <2>4, <3>1, <3>2, <4>2
             DEF DrainEvent, Streams!TakeBytes
        <4> QED
          BY <2>1, <4>2, <4>3 DEF Streams!Next, Streams!Stream
      <3> QED
        BY <3>3, <3>4
    <2>5. CASE e.kind = "control"
      <3> DEFINE m == [at |-> e.at, lo |-> e.lo]
      <3>1. e.lo = taken[e.sess] /\ \A f \in events : f.sess = e.sess => e.at <= f.at
        BY <1>1, <2>5, ControlIsNext DEF DrainEvent
      <3>2. m \in MarksOf(e.sess) /\ \A k \in MarksOf(e.sess) : m.at <= k.at
        BY <2>5, <3>1 DEF MarksOf
      <3>3. \A t \in Sessions : MarksOf(t)' = IF t = e.sess THEN MarksOf(t) \ {m} ELSE MarksOf(t)
        BY <2>2, <2>5 DEF MarksOf, StreamInv, Tickets
      <3>4. taken' = taken
        BY <1>0, <1>1, <2>1, <2>5 DEF DrainEvent
      <3>5. Streams!TakeMark(e.sess, m)
        BY <1>1, <2>1, <2>2, <2>3, <2>5, <3>1, <3>2, <3>3, <3>4 DEF DrainEvent, Streams!TakeMark
      <3> QED
        BY <2>1, <3>2, <3>5 DEF Streams!Next, Streams!Stream
    <2>6. CASE e.kind = "cleanup"
      <3>1. \A t \in Sessions : MarksOf(t)' = MarksOf(t)
        BY <2>2, <2>6 DEF MarksOf
      <3>2. taken' = taken
        BY <1>0, <1>1, <2>1, <2>6 DEF DrainEvent
      <3> QED
        BY <1>1, <2>2, <3>1, <3>2 DEF DrainEvent, Streams!vars
    <2> QED
      BY <2>1, <2>4, <2>5, <2>6
  <1>2. ASSUME NEW e \in events, DrainPrefix(e)
        PROVE  [Streams!Next]_(Streams!vars)
    <2> DEFINE n == draining.budget
    <2>1. /\ e.lo \in Nat /\ e.hi \in Nat /\ e.sess \in Sessions /\ n \in Nat /\ 1 <= n
          /\ e.lo + n < e.hi /\ e.hi <= pos[e.sess]
      BY <1>0, <1>2 DEF DrainPrefix, Size, Event, Drain, StreamInv, SafetyInv, TypeInv, Intervals
    <2>2. e.kind = "output"
      BY <2>1 DEF StreamInv, Untaken
    <2>3. ~MutexFree /\ draining'.by = draining.by
          /\ events' = (events \ {e}) \cup {Remainder(e, e.lo + n)}
      BY <1>0, <1>2 DEF DrainPrefix, MutexFree, NoDrain, Drained, Drain
    <2>4. Remainder(e, e.lo + n).kind = "output"
      BY <1>0, <2>2 DEF Remainder, Event
    <2>5. \A t \in Sessions : MarksOf(t)' = MarksOf(t)
      BY <2>2, <2>3, <2>4 DEF MarksOf
    <2>6. e.lo = taken[e.sess] /\ \A m \in MarksOf(e.sess) : e.hi <= m.lo
      BY <1>2, <2>1, <2>2, OutputIsNext DEF DrainPrefix
    <2>7. Streams!MayTake(e.sess)
      BY <1>2, <2>2, <2>3, IdleIsMutexFree DEF DrainPrefix, IsFirst, BelongsTo, Streams!MayTake
    <2>8. \A m \in MarksOf(e.sess) : taken[e.sess] + n <= m.lo
      BY <1>0, <2>1, <2>6 DEF MarksOf, Event
    <2>9. Streams!TakeBytes(e.sess, n)
      BY <1>0, <1>2, <2>1, <2>3, <2>5, <2>6, <2>7, <2>8 DEF DrainPrefix, Streams!TakeBytes
    <2>10. n \in 1 .. (pos[e.sess] - taken[e.sess])
      BY <1>0, <2>1, <2>6
    <2> QED
      BY <2>1, <2>9, <2>10 DEF Streams!Next, Streams!Stream
  <1>3. CASE FinishDrain
    <2>1. Streams!EndBatch
      BY <1>3, IdleIsMutexFree DEF FinishDrain, NoDrain, Streams!EndBatch, MarksOf
    <2> QED
      BY <2>1 DEF Streams!Next
  <1> QED
    BY <1>1, <1>2, <1>3 DEF DrainStep

LEMMA NextImplements ==
  StreamInv /\ Unfinished /\ [Next]_vars => [Streams!Next]_(Streams!vars)
  <1> SUFFICES ASSUME StreamInv, Unfinished, [Next]_vars
               PROVE  [Streams!Next]_(Streams!vars)
    OBVIOUS
  <1>1. ASSUME NEW p \in Producers, Producer(p)
        PROVE  [Streams!Next]_(Streams!vars)
    BY <1>1, ProducerImplements
  <1>2. ASSUME NEW s \in Sessions, Session(s)
        PROVE  [Streams!Next]_(Streams!vars)
    BY <1>2, SessionImplements
  <1>3. ASSUME NEW c \in Drainers, Consumer(c)
        PROVE  [Streams!Next]_(Streams!vars)
    <2>1. CASE StartDrain(c)
      <3>1. draining'.by = c /\ c \in Consumers \cup {Anyone}
        BY <2>1, QueueActors DEF StartDrain
      <3>2. Streams!BeginBatch(c)
        BY <2>1, <3>1, IdleIsMutexFree DEF StartDrain, inner, Streams!BeginBatch, MarksOf
      <3> QED
        BY <3>1, <3>2 DEF Streams!Next
    <2>2. CASE Park(c) \/ StopWaiting(c)
      <3>1. UNCHANGED Shown
        BY <2>2 DEF Park, StopWaiting, inner, Shown
      <3> QED
        BY <3>1, ShownDecides
    <2> QED
      BY <1>3, <2>1, <2>2 DEF Consumer
  <1>4. ASSUME NEW n \in Conditions, NotifyAll(n)
        PROVE  [Streams!Next]_(Streams!vars)
    <2>1. UNCHANGED Shown
      BY <1>4 DEF NotifyAll, inner, Shown
    <2> QED
      BY <2>1, ShownDecides
  <1>5. ASSUME NEW r \in reaping, CleanupFailure(r)
        PROVE  [Streams!Next]_(Streams!vars)
    <2>1. CASE UNCHANGED <<events, tail>>
      <3>1. UNCHANGED Shown
        BY <1>5, <2>1 DEF CleanupFailure, Shown
      <3> QED
        BY <3>1, ShownDecides
    <2>2. CASE ~UNCHANGED <<events, tail>>
      <3> DEFINE e == [at |-> tail, kind |-> "cleanup", sess |-> r.sess, prod |-> NoProducer,
                       seq |-> 0, lo |-> pos[r.sess], hi |-> pos[r.sess], owner |-> r.owner]
      <3>1. ~closed /\ events' = events \cup {e} /\ tail' = tail + 1
        BY <1>5, <2>2 DEF CleanupFailure, PushBack
      <3>2. \A t \in Sessions : MarksOf(t)' = MarksOf(t)
        BY <3>1 DEF MarksOf
      <3>3. Streams!AppendDiagnostic
        BY <1>5, <3>1, <3>2, IdleIsMutexFree DEF CleanupFailure, Streams!AppendDiagnostic
      <3> QED
        BY <3>3 DEF Streams!Next
    <2> QED
      BY <2>1, <2>2
  <1>6. CASE DrainStep
    BY <1>6, DrainImplements
  <1>7. CASE Close
    <2>1. Streams!Close
      BY <1>7, IdleIsMutexFree DEF Close, Streams!Close, MarksOf
    <2> QED
      BY <2>1 DEF Streams!Next
  <1>8. CASE UNCHANGED vars
    BY <1>8, ShownDecides DEF vars, inner, Shown
  <1> QED
    BY <1>1, <1>2, <1>3, <1>4, <1>5, <1>6, <1>7, <1>8 DEF Next

\* For every set of producers, sessions and consumers and every limit, what
\* pushes, drains, cancels and assignments do to the queue is a behaviour of
\* one stream per session.
THEOREM QueueImplementsStreams == Spec => ImplementsStreams
  <1>1. Init => Unfinished
    BY DEF Init, Unfinished
  <1>2. StreamInv => TypeInv
    BY DEF StreamInv, SafetyInv
  <1>3. Spec => [](StreamInv /\ Unfinished)
    BY <1>1, <1>2, InitStream, NextKeepsStream, NextKeepsUnfinished, PTL DEF Spec
  <1> QED
    BY <1>3, InitStreams, NextImplements, PTL DEF Spec, ImplementsStreams, Streams!Spec
=============================================================================
