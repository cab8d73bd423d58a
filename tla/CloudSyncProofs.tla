--------------------------- MODULE CloudSyncProofs ---------------------------
(***************************************************************************)
(* Theorems about CloudSync, for any number of devices, values, edits,     *)
(* syncs and faults.                                                       *)
(***************************************************************************)
EXTENDS CloudSync, FiniteSetTheorems, NaturalsInduction, WellFoundedInduction, TLAPS

-----------------------------------------------------------------------------
(* The states of the resource.                                             *)

\* The three shapes a state of the resource has.
LEMMA SyncValueShape ==
    ASSUME NEW s \in SyncValues
    PROVE  \/ s = Nothing /\ DOMAIN s = {}
           \/ s = Bare /\ DOMAIN s = {"$present"} /\ s["$present"] = "true"
           \/ \E v \in Values : /\ s = Holding(v) /\ DOMAIN s = Fields
                                /\ s["value"] = v /\ s["$present"] = "true"
  BY DEF SyncValues, Nothing, Bare, Holding, Fields

\* Two states of the resource that agree on presence and value are the same.
LEMMA SyncValueAt ==
    ASSUME NEW s \in SyncValues, NEW t \in SyncValues, s # t
    PROVE  /\ \E f \in Fields : At(s, f) # At(t, f)
           /\ Present(s) /\ Present(t) => At(s, "value") # At(t, "value")
  BY SyncValueShape, SyncConstants DEF At, Present, Fields

\* The constructors give states of the resource.
LEMMA SyncValueMembers ==
    /\ Nothing \in SyncValues /\ Bare \in SyncValues
    /\ \A v \in Values : Holding(v) \in SyncValues
    /\ ~Present(Nothing) /\ Present(Bare) /\ \A v \in Values : Present(Holding(v))
  BY DEF SyncValues, Nothing, Bare, Holding, Fields, Present

-----------------------------------------------------------------------------
(* Replicas.                                                               *)

\* The image of a finite set under a function is finite.
LEMMA FiniteImage ==
    ASSUME NEW S, IsFiniteSet(S), NEW T, NEW g \in [S -> T], \A t \in T : \E x \in S : g[x] = t
    PROVE  IsFiniteSet(T)
  <1>1. g \in Surjection(S, T)
    BY DEF Surjection
  <1> QED BY <1>1, FS_Surjection

\* The candidates of a register are operations on it, and their values are its values.
LEMMA CandidatesType ==
    ASSUME NEW doc \in Replicas, NEW f \in Fields
    PROVE  /\ Candidates(doc, f) \subseteq doc
           /\ IsFiniteSet(Candidates(doc, f)) /\ IsFiniteSet(CandidateValues(doc, f))
           /\ {Id(o) : o \in Candidates(doc, f)} \in SUBSET (Authors \X Nat)
           /\ CandidateValues(doc, f) \subseteq
                 IF f = "value" THEN Values \cup {"deleted"} ELSE {"true", "false"}
  <1>1. Candidates(doc, f) \subseteq doc /\ IsFiniteSet(doc) /\ doc \subseteq Operations
    BY DEF Candidates, Replicas
  <1>2. IsFiniteSet(Candidates(doc, f))
    BY <1>1, FS_Subset
  <1>3. IsFiniteSet(CandidateValues(doc, f))
    <2> DEFINE g == [o \in Candidates(doc, f) |-> o.value]
    <2>1. /\ g \in [Candidates(doc, f) -> CandidateValues(doc, f)]
          /\ \A t \in CandidateValues(doc, f) : \E o \in Candidates(doc, f) : g[o] = t
      BY DEF CandidateValues
    <2> HIDE DEF g
    <2> QED BY <1>2, <2>1, FiniteImage
  <1>4. \A o \in Candidates(doc, f) : /\ o \in Operations /\ o.field = f
    BY <1>1 DEF Candidates
  <1>5. {Id(o) : o \in Candidates(doc, f)} \in SUBSET (Authors \X Nat)
    BY <1>4 DEF Id, Operations, OperationsOn
  <1>6. CandidateValues(doc, f) \subseteq
                 IF f = "value" THEN Values \cup {"deleted"} ELSE {"true", "false"}
    BY <1>4 DEF CandidateValues, Operations, OperationsOn, Fields
  <1> QED BY <1>1, <1>2, <1>3, <1>5, <1>6

\* A write adds one operation, numbered one above the operations of the replica.
LEMMA PutType ==
    ASSUME NEW doc \in Replicas, NEW w \in Authors, NEW f \in Fields, NEW v,
           v \in IF f = "value" THEN Values \cup {"deleted"} ELSE {"true", "false"}
    PROVE  /\ Put(doc, w, f, v) \in Replicas
           /\ doc \subseteq Put(doc, w, f, v)
           /\ \E o \in Put(doc, w, f, v) : /\ o.field = f /\ o.value = v /\ o.writer = w
                                           /\ o.n = Cardinality(doc) + 1
                                           /\ Put(doc, w, f, v) = doc \cup {o}
                                           /\ o \in Operations
  <1> DEFINE o == [writer |-> w, n |-> Cardinality(doc) + 1, field |-> f, value |-> v,
                   overwrote |-> {Id(x) : x \in Candidates(doc, f)}]
  <1>1. IsFiniteSet(doc) /\ doc \subseteq Operations /\ Cardinality(doc) + 1 \in Nat
    BY FS_CardinalityType DEF Replicas
  <1>2. o \in Operations
    <2>1. {Id(x) : x \in Candidates(doc, f)} \in SUBSET (Authors \X Nat)
      BY CandidatesType
    <2> QED BY <1>1, <2>1 DEF Operations, OperationsOn, Fields
  <1>3. Put(doc, w, f, v) = doc \cup {o}
    BY DEF Put
  <1>4. IsFiniteSet(doc \cup {o})
    BY <1>1, FS_AddElement
  <1> QED BY <1>1, <1>2, <1>3, <1>4 DEF Replicas

\* A capture writes operations of the replica's types, over the ones it has.
LEMMA CaptureType ==
    ASSUME NEW doc \in Replicas, NEW w \in Authors, NEW baseline \in SyncValues,
           NEW current \in SyncValues, NEW edited \in SUBSET Fields
    PROVE  /\ Capture(doc, w, baseline, current, edited) \in Replicas
           /\ doc \subseteq Capture(doc, w, baseline, current, edited)
  <1> DEFINE value == IF "value" \in DOMAIN current THEN current["value"] ELSE "deleted"
             P == Put(doc, w, "value", value)
             D == Put(doc, w, "$present", "false")
             T == Put(doc, w, "$present", "true")
             Q == Put(P, w, "$present", "true")
  <1>1. value \in Values \cup {"deleted"} /\ "value" \in Fields /\ "$present" \in Fields
    BY SyncValueShape DEF Nothing, Fields
  <1>2. P \in Replicas /\ doc \subseteq P
    BY <1>1, PutType
  <1>3. /\ D \in Replicas /\ doc \subseteq D
        /\ T \in Replicas /\ doc \subseteq T
    BY <1>1, PutType
  <1>4. Q \in Replicas /\ P \subseteq Q
    <2> HIDE DEF P
    <2> QED BY <1>1, <1>2, PutType
  <1>5. Capture(doc, w, baseline, current, edited) \in {doc, D, T, Q}
    BY DEF Capture
  <1> QED BY <1>2, <1>3, <1>4, <1>5

\* A register with one candidate value materializes to a state of the resource.
LEMMA MaterializeType ==
    ASSUME NEW local \in SyncValues, NEW doc \in Replicas
    PROVE  Materialize(local, doc) \in SyncValues
  <1> DEFINE values == CandidateValues(doc, "value")
  <1>1. values \subseteq Values \cup {"deleted"} /\ IsFiniteSet(values)
    BY CandidatesType DEF Fields
  <1>2. ASSUME Cardinality(values) = 1, values # {"deleted"}
        PROVE  (CHOOSE v \in values : TRUE) \in Values
    <2>1. PICK x : values = {x}
      BY <1>1, <1>2, FS_Singleton
    <2> QED BY <1>1, <1>2, <2>1
  <1> QED BY <1>2, SyncValueMembers DEF Materialize

-----------------------------------------------------------------------------
(* Types.                                                                  *)

\* The empty replica, and the branch a process starts.
LEMMA NewReplica ==
    /\ {} \in Replicas
    /\ \A w \in Processes : w \in Authors
    /\ \A w \in Processes, n \in Nat : Branch(w, n) \in Authors
    /\ \A w \in Processes, n \in Nat : \A v \in Processes : Branch(w, n) # v
  <1>1. {} \in Replicas
    BY FS_EmptySet DEF Replicas
  <1>2. ASSUME NEW d \in Devices, NEW k \in Nat, NEW n \in Nat, NEW e \in Devices, NEW l \in Nat
        PROVE  <<d, k, n>> # <<e, l>>
    OBVIOUS
  <1> QED BY <1>1, <1>2 DEF Processes, Authors, Branch

\* The record a sync starts from.
LEMMA LoadedType ==
    ASSUME TypeOK, NEW d \in Devices
    PROVE  LoadedRecord(d) \in Records
  <1>1. Process(d) \in Processes
    BY DEF TypeOK, Process, Processes
  <1>2. NewRecord(d) \in Records
    BY <1>1, NewReplica, SyncValueMembers DEF NewRecord, Records, FirstSequence
  <1>3. ASSUME NEW r \in Records
        PROVE  Adopt(d, r) \in Records
    <2> DEFINE w == [r EXCEPT !.writer = Process(d)]
               n == [w EXCEPT !.next = FirstSequence]
    <2>1. w \in Records
      BY <1>1 DEF Records
    <2>2. n \in Records
      <3> HIDE DEF w
      <3> QED BY <2>1 DEF Records, FirstSequence
    <2>3. [n EXCEPT !.owner = Process(d)] \in Records
      <3> HIDE DEF n
      <3> QED BY <1>1, <2>2 DEF Records
    <2> QED BY <2>3 DEF Adopt
  <1>4. db[d].record \in Records \cup {None}
    BY DEF TypeOK, Databases
  <1> QED BY <1>2, <1>3, <1>4 DEF LoadedRecord

\* What it captures of the device is a replica that goes on from the record's.
LEMMA CapturedType ==
    ASSUME TypeOK, NEW d \in Devices, NEW r \in Records
    PROVE  Captured(d, r) \in Replicas /\ r.replica \subseteq Captured(d, r)
  <1> DEFINE local == db[d].local
             branch == Capture({}, Branch(r.writer, Cardinality(r.replica)), Nothing, local, {})
             main == Capture(r.replica, r.writer, r.effective, local, Edited(d, r))
  <1>1. /\ local \in SyncValues
        /\ r.replica \in Replicas /\ r.writer \in Processes /\ r.effective \in SyncValues
        /\ Edited(d, r) \in SUBSET Fields
    BY DEF TypeOK, Databases, Records, Edited
  <1>2. IsFiniteSet(r.replica) /\ Cardinality(r.replica) \in Nat
    BY <1>1, FS_CardinalityType DEF Replicas
  <1>3. branch \in Replicas
    BY <1>1, <1>2, NewReplica, SyncValueMembers, CaptureType
  <1>4. r.replica \cup branch \in Replicas
    BY <1>1, <1>3, FS_Union DEF Replicas
  <1>5. main \in Replicas /\ r.replica \subseteq main
    BY <1>1, NewReplica, CaptureType
  <1>6. Captured(d, r) \in {r.replica \cup branch, main}
    BY DEF Captured
  <1> QED BY <1>4, <1>5, <1>6

\* The publications found are typed and finitely many.
LEMMA NewsType ==
    ASSUME TypeOK, NEW r
    PROVE  /\ News(r) \subseteq Publications
           /\ News(r) \subseteq {o.id : o \in objects}
           /\ UNION {p.replica : p \in News(r)} \in Replicas
  <1>1. News(r) \subseteq {o.id : o \in objects} /\ {o.id : o \in objects} \subseteq Publications
    BY DEF News, Listed, TypeOK
  <1>2. IsFiniteSet({o.id : o \in objects})
    <2> DEFINE T == {o.id : o \in objects}
               g == [o \in objects |-> o.id]
    <2>1. g \in [objects -> T] /\ \A t \in T : \E o \in objects : g[o] = t
      OBVIOUS
    <2>2. IsFiniteSet(objects)
      BY DEF TypeOK
    <2> HIDE DEF g, T
    <2>3. IsFiniteSet(T)
      BY <2>1, <2>2, FiniteImage
    <2> QED BY <2>3 DEF T
  <1>3. IsFiniteSet(News(r))
    BY <1>1, <1>2, FS_Subset
  <1>4. IsFiniteSet({p.replica : p \in News(r)})
    <2> DEFINE T == {p.replica : p \in News(r)}
               g == [p \in News(r) |-> p.replica]
    <2>1. g \in [News(r) -> T] /\ \A t \in T : \E p \in News(r) : g[p] = t
      OBVIOUS
    <2> HIDE DEF g, T
    <2>2. IsFiniteSet(T)
      BY <1>3, <2>1, FiniteImage
    <2> QED BY <2>2 DEF T
  <1>5. \A R \in {p.replica : p \in News(r)} : R \subseteq Operations /\ IsFiniteSet(R)
    BY <1>1 DEF Publications, Replicas
  <1>6. IsFiniteSet(UNION {p.replica : p \in News(r)})
    BY <1>4, <1>5, FS_UNION
  <1>7. UNION {p.replica : p \in News(r)} \subseteq Operations
    BY <1>5
  <1> QED BY <1>1, <1>6, <1>7 DEF Replicas

\* A preview and its parts.
LEMMA PreviewType ==
    ASSUME TypeOK, NEW d \in Devices
    PROVE  /\ Preview(d) \in Previews
           /\ Captured(d, LoadedRecord(d)) \subseteq Preview(d).doc
           /\ Preview(d).expected = db[d].record
           /\ Preview(d).generation = db[d].generation
           /\ Preview(d).local = db[d].local
           /\ Preview(d).effective = Materialize(db[d].local, Preview(d).doc)
           /\ Preview(d).record \in Records
           /\ \A f \in {"writer", "owner", "next", "replica", "pending", "effective", "applied"} :
                 Preview(d).record[f] = LoadedRecord(d)[f]
  <1> DEFINE r == LoadedRecord(d)
             news == UNION {p.replica : p \in News(r)}
             doc == Captured(d, r) \cup news
             record == [r EXCEPT !.observed = @ \cup News(r)]
  <1>1. r \in Records
    BY LoadedType
  <1>2. Captured(d, r) \in Replicas /\ news \in Replicas /\ News(r) \subseteq Publications
    BY <1>1, CapturedType, NewsType
  <1>3. doc \in Replicas
    BY <1>2, FS_Union DEF Replicas
  <1>4. /\ record \in Records
        /\ \A f \in {"writer", "owner", "next", "replica", "pending", "effective", "applied"} :
              record[f] = r[f]
    BY <1>1, <1>2 DEF Records
  <1>5. /\ db[d].record \in Records \cup {None} /\ db[d].generation \in Nat
        /\ db[d].local \in SyncValues
    BY DEF TypeOK, Databases
  <1>6. Materialize(db[d].local, doc) \in SyncValues
    BY <1>3, <1>5, MaterializeType
  <1>7. Preview(d) = [record |-> record, expected |-> db[d].record,
                      generation |-> db[d].generation, local |-> db[d].local, doc |-> doc,
                      effective |-> Materialize(db[d].local, doc)]
    BY DEF Preview
  <1> HIDE DEF record, doc
  <1>8. Captured(d, r) \subseteq doc
    BY DEF doc
  <1> QED BY <1>3, <1>4, <1>5, <1>6, <1>7, <1>8 DEF Previews

-----------------------------------------------------------------------------
(* What the steps that write a database leave in it.                       *)

\* Every database other than that of d is left alone.
OnlyOf(d) == /\ db' \in [Devices -> Databases]
             /\ \A e \in Devices \ {d} : db'[e] = db[e]

\* A database with another record.
LEMMA RecordWritten ==
    ASSUME TypeOK, NEW d \in Devices, NEW r \in Records, db' = [db EXCEPT ![d].record = r]
    PROVE  /\ OnlyOf(d) /\ db'[d].record = r
           /\ \A f \in {"local", "intent", "touched", "generation", "journal"} :
                 db'[d][f] = db[d][f]
  <1> DEFINE b == [db[d] EXCEPT !.record = r]
  <1>1. db[d] \in Databases /\ db' = [db EXCEPT ![d] = b]
    BY DEF TypeOK
  <1>2. b \in Databases /\ b.record = r
        /\ \A f \in {"local", "intent", "touched", "generation", "journal"} : b[f] = db[d][f]
    BY <1>1 DEF Databases
  <1> HIDE DEF b
  <1> QED BY <1>1, <1>2 DEF TypeOK, OnlyOf

\* The journal after a transaction: the fields it changed have its generation.
LEMMA JournalType ==
    ASSUME NEW journal \in [Fields -> Nat], NEW s, NEW t, NEW g \in Nat
    PROVE  /\ Journalled(journal, s, t, g) \in [Fields -> Nat]
           /\ \A f \in Fields : Journalled(journal, s, t, g)[f] =
                 IF At(s, f) # At(t, f) THEN g ELSE journal[f]
  BY DEF Journalled

\* The transaction of an apply, deferred or not, on a database nobody changed.
LEMMA ApplyEffect ==
    ASSUME TypeOK, NEW d \in Devices, Apply(d), StillCurrent(d, job[d].preview)
    PROVE  LET p == job[d].preview
               b == db'[d]
           IN /\ p \in Previews /\ p.record \in Records /\ p.doc \in Replicas
              /\ OnlyOf(d)
              /\ job' = [job EXCEPT ![d] = [phase |-> "publish", preview |-> None]]
              /\ b.local \in {db[d].local, p.effective} /\ b.intent = db[d].intent
              /\ b.touched = FALSE
              /\ b.generation = IF b.local = db[d].local THEN db[d].generation
                                ELSE db[d].generation + 1
              /\ b.journal = Journalled(db[d].journal, db[d].local, b.local, b.generation)
              /\ b.record \in Records /\ b.record.replica = p.doc
              /\ b.record.effective = b.local /\ b.record.applied = b.generation
              /\ ~b.record.deferred => b.local = p.effective
              /\ \A f \in {"writer", "owner", "next", "pending", "published", "observed"} :
                    b.record[f] = p.record[f]
              /\ faults' \in Nat
  <1> DEFINE p == job[d].preview
  <1>1. p \in Previews /\ db[d] \in Databases
    BY DEF TypeOK, Apply
  <1>2. p.record \in Records /\ p.doc \in Replicas /\ p.effective \in SyncValues
    BY <1>1 DEF Previews
  <1>3. PICK deferred : deferred \in BOOLEAN /\
          LET applied == IF deferred THEN db[d].local ELSE p.effective
              g == IF applied = db[d].local THEN db[d].generation ELSE db[d].generation + 1
          IN /\ db' = [db EXCEPT
                         ![d].local = applied,
                         ![d].touched = FALSE,
                         ![d].generation = g,
                         ![d].journal = Journalled(@, db[d].local, applied, g),
                         ![d].record = [p.record EXCEPT
                                          !.replica = p.doc,
                                          !.effective = applied,
                                          !.deferred = deferred,
                                          !.applied = AppliedGeneration(p, g)]]
             /\ job' = [job EXCEPT ![d] = [phase |-> "publish", preview |-> None]]
             /\ faults' \in {faults, faults + 1}
    BY ZenonT(30) DEF Apply
  <1> DEFINE applied == IF deferred THEN db[d].local ELSE p.effective
             g == IF applied = db[d].local THEN db[d].generation ELSE db[d].generation + 1
             j == Journalled(db[d].journal, db[d].local, applied, g)
             x == [p.record EXCEPT !.replica = p.doc, !.effective = applied,
                                   !.deferred = deferred, !.applied = g]
  <1>4. /\ applied \in SyncValues /\ g \in Nat /\ applied \in {db[d].local, p.effective}
        /\ db[d].journal \in [Fields -> Nat] /\ db[d].intent \in SyncValues \cup {None}
        /\ (~deferred => applied = p.effective) /\ deferred \in BOOLEAN
    BY <1>1, <1>2, <1>3 DEF Databases
  <1>5. j \in [Fields -> Nat]
    BY <1>4, JournalType
  <1>6. /\ x \in Records
        /\ x.replica = p.doc /\ x.effective = applied /\ x.deferred = deferred /\ x.applied = g
        /\ \A f \in {"writer", "owner", "next", "pending", "published", "observed"} :
              x[f] = p.record[f]
    <2> DEFINE a == [p.record EXCEPT !.replica = p.doc]
               b == [a EXCEPT !.effective = applied]
               c == [b EXCEPT !.deferred = deferred]
               same == {"writer", "owner", "next", "pending", "published", "observed"}
    <2> HIDE DEF applied, g, p
    <2>1. a \in Records /\ a.replica = p.doc /\ \A f \in same : a[f] = p.record[f]
      BY <1>2 DEF Records
    <2>2. /\ b \in Records /\ b.replica = p.doc /\ b.effective = applied
          /\ \A f \in same : b[f] = p.record[f]
      <3> HIDE DEF a
      <3> QED BY <1>4, <2>1 DEF Records
    <2>3. /\ c \in Records /\ c.replica = p.doc /\ c.effective = applied
          /\ c.deferred = deferred /\ \A f \in same : c[f] = p.record[f]
      <3> HIDE DEF b
      <3> QED BY <1>4, <2>2 DEF Records
    <2>4. x = [c EXCEPT !.applied = g]
      OBVIOUS
    <2> HIDE DEF c
    <2> QED BY <1>4, <2>3, <2>4 DEF Records
  <1>7. db' = [db EXCEPT ![d].local = applied, ![d].touched = FALSE, ![d].generation = g,
                         ![d].journal = j, ![d].record = x]
    BY <1>3 DEF AppliedGeneration
  <1>8. g = IF applied = db[d].local THEN db[d].generation ELSE db[d].generation + 1
    OBVIOUS
  <1>9. j = Journalled(db[d].journal, db[d].local, applied, g)
    OBVIOUS
  <1>10. faults' \in Nat /\ db \in [Devices -> Databases]
    BY <1>3 DEF TypeOK
  <1> HIDE DEF applied, g, j, x
  <1>11. /\ \A e \in Devices \ {d} : db'[e] = db[e]
         /\ db' = [e \in Devices |-> db'[e]]
         /\ db'[d] = [local |-> applied, intent |-> db[d].intent, touched |-> FALSE,
                      generation |-> g, journal |-> j, record |-> x]
    BY <1>7, <1>10, ZenonT(30) DEF Databases
  <1>12. db'[d] \in Databases
    BY <1>4, <1>5, <1>6, <1>11 DEF Databases
  <1>13. OnlyOf(d)
    BY <1>10, <1>11, <1>12 DEF OnlyOf
  <1>14. /\ db'[d].local = applied /\ db'[d].intent = db[d].intent /\ db'[d].touched = FALSE
         /\ db'[d].generation = g /\ db'[d].journal = j /\ db'[d].record = x
    BY <1>11
  <1> QED BY <1>1, <1>2, <1>3, <1>4, <1>6, <1>8, <1>9, <1>10, <1>13, <1>14

\* A reservation: the record has one more publication pending, or what it had.
LEMMA ReserveEffect ==
    ASSUME TypeOK, NEW d \in Devices, Reserve(d)
    PROVE  LET r == db[d].record
               s == db'[d].record
           IN /\ r \in Records
              /\ \/ UNCHANGED db /\ r.pending = None /\ job' = [job EXCEPT ![d] = Idle]
                 \/ UNCHANGED db /\ r.pending # None /\ job' = [job EXCEPT ![d].phase = "upload"]
                 \/ /\ r.pending = None /\ OnlyOf(d) /\ job' = [job EXCEPT ![d].phase = "upload"]
                    /\ s \in Records /\ s.pending \in Publications
                    /\ s.pending.writer = r.writer /\ s.pending.sequence = r.next
                    /\ s.pending.replica = r.replica
                    /\ s.next = r.next + 1
                    /\ \A f \in {"writer", "owner", "replica", "effective", "applied", "deferred"} :
                          s[f] = r[f]
                    /\ \A f \in {"local", "intent", "touched", "generation", "journal"} :
                          db'[d][f] = db[d][f]
  <1> DEFINE r == db[d].record
             id == [writer |-> r.writer, sequence |-> r.next, replica |-> r.replica]
             a == [r EXCEPT !.next = @ + 1]
             s == [a EXCEPT !.pending = id]
  <1>1. r \in Records
    BY DEF TypeOK, Reserve
  <1>2. /\ id \in Publications /\ id.writer = r.writer /\ id.sequence = r.next
        /\ id.replica = r.replica
    BY <1>1 DEF Records, Publications
  <1>3. /\ a \in Records /\ a.next = r.next + 1
        /\ \A f \in {"writer", "owner", "replica", "effective", "applied", "deferred"} :
              a[f] = r[f]
    <2>1. r.next + 1 \in Nat \ {0}
      BY <1>1 DEF Records
    <2> QED BY <1>1, <2>1 DEF Records
  <1>4. /\ s \in Records /\ s.pending = id /\ s.next = r.next + 1
        /\ \A f \in {"writer", "owner", "replica", "effective", "applied", "deferred"} :
              s[f] = r[f]
    <2> HIDE DEF a, id
    <2> QED BY <1>2, <1>3 DEF Records
  <1>5. CASE r.pending # None
    BY <1>1, <1>5 DEF Reserve
  <1>6. CASE r.pending = None /\ ~NeedsPublication(r)
    BY <1>1, <1>6 DEF Reserve
  <1>7. CASE r.pending = None /\ NeedsPublication(r)
    <2>1. /\ db' = [db EXCEPT ![d].record = s] /\ job' = [job EXCEPT ![d].phase = "upload"]
      BY <1>7 DEF Reserve
    <2> HIDE DEF s, id
    <2>2. /\ OnlyOf(d) /\ db'[d].record = s
          /\ \A f \in {"local", "intent", "touched", "generation", "journal"} :
                 db'[d][f] = db[d][f]
      BY <1>4, <2>1, RecordWritten
    <2> QED BY <1>1, <1>2, <1>4, <1>7, <2>1, <2>2
  <1> QED BY <1>5, <1>6, <1>7

\* An acknowledgement: the pending publication is an observed one.
LEMMA AcknowledgeEffect ==
    ASSUME TypeOK, NEW d \in Devices, Acknowledge(d)
    PROVE  LET r == db[d].record
               s == db'[d].record
           IN /\ r \in Records /\ r.pending \in Publications
              /\ OnlyOf(d) /\ s \in Records /\ s.pending = None
              /\ \A f \in {"writer", "owner", "next", "replica", "effective", "applied", "deferred"} :
                    s[f] = r[f]
              /\ \A f \in {"local", "intent", "touched", "generation", "journal"} :
                    db'[d][f] = db[d][f]
  <1> DEFINE r == db[d].record
             same == {"writer", "owner", "next", "replica", "effective", "applied", "deferred"}
             a == [r EXCEPT !.published = r.pending.replica]
             b == [a EXCEPT !.observed = @ \cup {r.pending}]
             s == [b EXCEPT !.pending = None]
  <1>1. r \in Records /\ r.pending \in Publications
    BY DEF TypeOK, Acknowledge
  <1>2. a \in Records /\ \A f \in same : a[f] = r[f]
    BY <1>1 DEF Records, Publications
  <1>3. b \in Records /\ \A f \in same : b[f] = r[f]
    <2> HIDE DEF a
    <2> QED BY <1>1, <1>2 DEF Records
  <1>4. s \in Records /\ s.pending = None /\ \A f \in same : s[f] = r[f]
    <2> HIDE DEF b
    <2> QED BY <1>3 DEF Records
  <1>5. db' = [db EXCEPT ![d].record = s]
    BY DEF Acknowledge
  <1> HIDE DEF s
  <1>6. /\ OnlyOf(d) /\ db'[d].record = s
        /\ \A f \in {"local", "intent", "touched", "generation", "journal"} :
              db'[d][f] = db[d][f]
    BY <1>4, <1>5, RecordWritten
  <1> QED BY <1>1, <1>4, <1>6

\* An edit of the user.
LEMMA EditEffect ==
    ASSUME TypeOK, NEW d \in Devices, Edit(d)
    PROVE  LET b == db'[d]
           IN /\ OnlyOf(d) /\ b.record = db[d].record
              /\ b.local \in SyncValues /\ b.local # db[d].local
              /\ b.intent = IF b.local = Nothing /\ ~Synced(d) THEN None ELSE b.local
              /\ b.touched = TRUE /\ b.generation = db[d].generation + 1
              /\ b.journal = Journalled(db[d].journal, db[d].local, b.local, b.generation)
  <1>1. PICK s \in SyncValues \ {db[d].local} :
          db' = [db EXCEPT ![d].local = s,
                           ![d].intent = IF s = Nothing /\ ~Synced(d) THEN None ELSE s,
                           ![d].touched = TRUE,
                           ![d].generation = db[d].generation + 1,
                           ![d].journal = Journalled(@, db[d].local, s, db[d].generation + 1)]
    BY DEF Edit
  <1> DEFINE i == IF s = Nothing /\ ~Synced(d) THEN None ELSE s
             g == db[d].generation + 1
             j == Journalled(db[d].journal, db[d].local, s, g)
  <1>2. /\ db[d] \in Databases /\ db \in [Devices -> Databases] /\ i \in SyncValues \cup {None}
    BY DEF TypeOK
  <1>3. g \in Nat /\ g = db[d].generation + 1 /\ db[d].journal \in [Fields -> Nat]
    BY <1>2 DEF Databases
  <1>4. j \in [Fields -> Nat] /\ j = Journalled(db[d].journal, db[d].local, s, g)
    BY <1>3, JournalType
  <1>5. i = IF s = Nothing /\ ~Synced(d) THEN None ELSE s
    OBVIOUS
  <1>6. db' = [db EXCEPT ![d].local = s, ![d].intent = i, ![d].touched = TRUE,
                         ![d].generation = g, ![d].journal = j]
    BY <1>1
  <1> HIDE DEF i, g, j
  <1>7. /\ \A e \in Devices \ {d} : db'[e] = db[e]
        /\ db' = [e \in Devices |-> db'[e]]
        /\ db'[d] = [local |-> s, intent |-> i, touched |-> TRUE,
                     generation |-> g, journal |-> j, record |-> db[d].record]
    BY <1>2, <1>6 DEF Databases
  <1>8. db'[d] \in Databases
    BY <1>2, <1>3, <1>4, <1>7 DEF Databases
  <1>9. OnlyOf(d)
    BY <1>2, <1>7, <1>8 DEF OnlyOf
  <1>10. /\ db'[d].local = s /\ db'[d].intent = i /\ db'[d].touched = TRUE
         /\ db'[d].generation = g /\ db'[d].journal = j /\ db'[d].record = db[d].record
    BY <1>7
  <1> QED BY <1>3, <1>4, <1>5, <1>9, <1>10

\* A conflict resolved in a preview: one more operation, nothing else.
LEMMA ResolveEffect ==
    ASSUME TypeOK, NEW d \in Devices, ResolveConflict(d)
    PROVE  LET p == held[d]
               q == held'[d]
           IN /\ p \in Previews /\ p # None /\ q \in Previews
              /\ held' \in [Devices -> Previews \cup {None}]
              /\ \A e \in Devices \ {d} : held'[e] = held[e]
              /\ \E f \in Fields :
                    \E v \in IF f = "value" THEN Values \cup {"deleted"} ELSE {"true", "false"} :
                       q.doc = Put(p.doc, p.record.writer, f, v)
              /\ p.doc \subseteq q.doc
              /\ q.effective = Materialize(p.local, q.doc)
              /\ \A f \in {"record", "expected", "generation", "local"} : q[f] = p[f]
  <1> DEFINE p == held[d]
  <1>1. p \in Previews /\ held \in [Devices -> Previews \cup {None}] /\ p # None
    BY DEF TypeOK, ResolveConflict
  <1>2. PICK f \in Conflicts(p.doc) : \E v \in CandidateValues(p.doc, f) :
          held' = [held EXCEPT ![d].doc = Put(p.doc, p.record.writer, f, v),
                               ![d].effective = Materialize(p.local, Put(p.doc, p.record.writer, f, v))]
    BY DEF ResolveConflict
  <1>3. PICK v \in CandidateValues(p.doc, f) :
          held' = [held EXCEPT ![d].doc = Put(p.doc, p.record.writer, f, v),
                               ![d].effective = Materialize(p.local, Put(p.doc, p.record.writer, f, v))]
    BY <1>2
  <1> DEFINE doc == Put(p.doc, p.record.writer, f, v)
             effective == Materialize(p.local, doc)
  <1>4. f \in Fields /\ p.doc \in Replicas /\ p.record.writer \in Processes /\ p.local \in SyncValues
    BY <1>1 DEF Conflicts, Previews, Records
  <1>5. v \in IF f = "value" THEN Values \cup {"deleted"} ELSE {"true", "false"}
    BY <1>4, CandidatesType
  <1>6. doc \in Replicas /\ p.doc \subseteq doc
    BY <1>4, <1>5, NewReplica, PutType
  <1>7. effective \in SyncValues
    <2> HIDE DEF doc
    <2> QED BY <1>4, <1>6, MaterializeType
  <1>8. held' = [held EXCEPT ![d].doc = doc, ![d].effective = effective]
    BY <1>3
  <1>9. effective = Materialize(p.local, doc) /\ doc = Put(p.doc, p.record.writer, f, v)
    OBVIOUS
  <1> HIDE DEF doc, effective
  <1>10. /\ \A e \in Devices \ {d} : held'[e] = held[e]
         /\ held' = [e \in Devices |-> held'[e]]
         /\ held'[d] = [record |-> p.record, expected |-> p.expected, generation |-> p.generation,
                        local |-> p.local, doc |-> doc, effective |-> effective]
    BY <1>1, <1>8 DEF Previews
  <1>11. held'[d] \in Previews
    BY <1>1, <1>6, <1>7, <1>10 DEF Previews
  <1>12. held' \in [Devices -> Previews \cup {None}]
    BY <1>1, <1>10, <1>11
  <1>13. /\ held'[d].doc = doc /\ held'[d].effective = effective
         /\ \A g \in {"record", "expected", "generation", "local"} : held'[d][g] = p[g]
    BY <1>10
  <1> QED BY <1>1, <1>4, <1>5, <1>6, <1>9, <1>10, <1>11, <1>12, <1>13

\* An upload touches the object of the publication it writes and no other, and goes
\* on to the registration only with the whole object in place.
LEMMA UploadEffect ==
    ASSUME TypeOK, NEW d \in Devices, Upload(d)
    PROVE  LET id == db[d].record.pending
           IN /\ id \in Publications /\ db[d].record \in Records
              /\ \/ objects' = objects
                 \/ /\ Object(id, TRUE) \notin objects
                    /\ objects' \in {Store(id, TRUE), Store(id, FALSE)}
              /\ objects' \subseteq [id : Publications, whole : BOOLEAN] /\ IsFiniteSet(objects')
              /\ \/ job' = [job EXCEPT ![d] = Idle]
                 \/ job' = [job EXCEPT ![d].phase = "register"] /\ Object(id, TRUE) \in objects'
              /\ faults' \in Nat
  <1> DEFINE id == db[d].record.pending
  <1>1. id \in Publications /\ db[d].record \in Records
    BY DEF TypeOK, Upload
  <1>2. PICK after \in AfterWrite(id) :
          /\ objects' = after
          /\ \E answered \in BOOLEAN :
                job' = [job EXCEPT ![d] = IF answered /\ Verified(id, after)
                                          THEN [@ EXCEPT !.phase = "register"] ELSE Idle]
          /\ faults' \in {faults, faults + 1}
    BY DEF Upload
  <1>3. \/ objects' = objects
        \/ /\ Object(id, TRUE) \notin objects
           /\ objects' \in {Store(id, TRUE), Store(id, FALSE)}
    BY <1>2 DEF AfterWrite
  <1>4. ASSUME NEW w \in BOOLEAN
        PROVE  Store(id, w) \subseteq [id : Publications, whole : BOOLEAN] /\ IsFiniteSet(Store(id, w))
    <2>1. objects \subseteq [id : Publications, whole : BOOLEAN] /\ IsFiniteSet(objects)
      BY DEF TypeOK
    <2>2. IsFiniteSet({o \in objects : o.id # id})
      BY <2>1, FS_Subset
    <2>3. IsFiniteSet(Store(id, w))
      BY <2>2, FS_AddElement DEF Store
    <2> QED BY <1>1, <2>1, <2>3 DEF Store, Object
  <1>5. objects' \subseteq [id : Publications, whole : BOOLEAN] /\ IsFiniteSet(objects')
    BY <1>3, <1>4 DEF TypeOK
  <1>6. \/ job' = [job EXCEPT ![d] = Idle]
        \/ job' = [job EXCEPT ![d].phase = "register"] /\ Object(id, TRUE) \in objects'
    BY <1>2 DEF Verified
  <1>7. faults' \in Nat
    BY <1>2 DEF TypeOK
  <1> QED BY <1>1, <1>3, <1>5, <1>6, <1>7, Zenon

-----------------------------------------------------------------------------
(* Type correctness.                                                       *)

\* The parts of TypeOK about the operation of one device.
JobType(d) ==
    /\ job[d].phase \in {"confirm", "apply"} => job[d].preview \in Previews
    /\ job[d].phase \notin {"idle", "confirm", "apply"} => db[d].record \in Records
    /\ job[d].phase \in {"upload", "register", "acknowledge"} =>
          db[d].record.pending \in Publications

\* The idle operation is one.
LEMMA IdleType ==
    /\ Idle \in [phase : Phases, preview : Previews \cup {None}]
    /\ Idle.phase = "idle"
  BY DEF Idle, Phases

\* A step of d leaves the operations of the other devices alone.
LEMMA JobsOfOthers ==
    ASSUME TypeOK, NEW d \in Devices, NEW j \in [phase : Phases, preview : Previews \cup {None}],
           job' = [job EXCEPT ![d] = j], OnlyOf(d), JobType(d)'
    PROVE  /\ job' \in [Devices -> [phase : Phases, preview : Previews \cup {None}]]
           /\ \A e \in Devices : JobType(e)'
  <1>1. \A e \in Devices \ {d} : job'[e] = job[e] /\ db'[e] = db[e]
    BY DEF OnlyOf, TypeOK
  <1>2. \A e \in Devices \ {d} : JobType(e)'
    BY <1>1 DEF TypeOK, JobType
  <1> QED BY <1>2 DEF TypeOK

\* The initial state is typed.
LEMMA TypeInit == Init => TypeOK
  <1> SUFFICES ASSUME Init PROVE TypeOK
    OBVIOUS
  <1>1. PICK s \in [Devices -> {Nothing} \cup {Holding(v) : v \in Values}] :
          db = [d \in Devices |->
                  [local |-> s[d], intent |-> None, touched |-> FALSE, generation |-> 0,
                   journal |-> [f \in Fields |-> 0], record |-> None]]
    BY DEF Init
  <1>2. \A d \in Devices : s[d] \in SyncValues
    BY DEF SyncValues
  <1>3. db \in [Devices -> Databases]
    BY <1>1, <1>2 DEF Databases
  <1>4. job \in [Devices -> [phase : Phases, preview : Previews \cup {None}]]
        /\ \A d \in Devices : job[d].phase = "idle"
    BY IdleType DEF Init
  <1>5. IsFiniteSet(objects)
    BY FS_EmptySet DEF Init
  <1> QED BY <1>3, <1>4, <1>5 DEF Init, TypeOK

\* Every step of a device keeps the types.
LEMMA TypeStep == TypeOK /\ [Next]_vars => TypeOK'
  <1> SUFFICES ASSUME TypeOK, [Next]_vars PROVE TypeOK'
    OBVIOUS
  <1>1. CASE UNCHANGED vars
    BY <1>1 DEF vars, TypeOK
  <1>2. ASSUME NEW d \in Devices,
               Operation(d) \/ Edit(d) \/ TakeCopy(d) \/ Restart(d) \/ RestoreCopy(d)
        PROVE  TypeOK'
    <2> DEFINE Jobs == [phase : Phases, preview : Previews \cup {None}]
    <2>1. \A e \in Devices : JobType(e)
      BY DEF TypeOK, JobType
    <2>2. UNCHANGED db => OnlyOf(d)
      BY DEF TypeOK, OnlyOf
    <2>3. job[d] \in Jobs /\ db[d] \in Databases
      BY DEF TypeOK
    <2>4. ASSUME /\ job' \in [Devices -> Jobs] /\ \A e \in Devices : JobType(e)'
                 /\ db' \in [Devices -> Databases] /\ copy' \in Databases \cup {None}
                 /\ process' \in [Devices -> Nat]
                 /\ held' \in [Devices -> Previews \cup {None}]
                 /\ objects' \subseteq [id : Publications, whole : BOOLEAN] /\ IsFiniteSet(objects')
                 /\ registry' \subseteq Processes /\ restored' \in BOOLEAN
                 /\ edits' \in Nat /\ prepares' \in Nat /\ faults' \in Nat
          PROVE  TypeOK'
      BY <2>4 DEF TypeOK, JobType
    <2>5. CASE AutoSync(d)
      <3>1. PICK j : j = [phase |-> "confirm", preview |-> Preview(d)]
        OBVIOUS
      <3>2. j \in Jobs /\ j.phase = "confirm" /\ j.preview \in Previews
        BY <3>1, PreviewType DEF Phases
      <3>3. job' = [job EXCEPT ![d] = j] /\ UNCHANGED db
        BY <2>5, <3>1 DEF AutoSync
      <3>4. JobType(d)'
        BY <3>2, <3>3 DEF JobType, TypeOK
      <3>5. job' \in [Devices -> Jobs] /\ \A e \in Devices : JobType(e)'
        BY <2>2, <3>2, <3>3, <3>4, JobsOfOthers
      <3> QED BY <2>4, <2>5, <3>5 DEF AutoSync, TypeOK, backup
    <2>6. CASE HoldPreview(d)
      <3>1. held' \in [Devices -> Previews \cup {None}]
        BY <2>6, PreviewType DEF HoldPreview, TypeOK
      <3> QED BY <2>6, <3>1 DEF HoldPreview, TypeOK, backup
    <2>7. CASE ResolveConflict(d)
      <3>1. held' \in [Devices -> Previews \cup {None}]
        BY <2>7, ResolveEffect
      <3> QED BY <2>7, <3>1 DEF ResolveConflict, TypeOK, backup
    <2>8. CASE ApplyHeld(d)
      <3>1. PICK j : j = [phase |-> "confirm", preview |-> held[d]]
        OBVIOUS
      <3>2. j \in Jobs /\ j.phase = "confirm" /\ j.preview \in Previews
        BY <2>8, <3>1 DEF ApplyHeld, TypeOK, Phases
      <3>3. job' = [job EXCEPT ![d] = j] /\ UNCHANGED db
        BY <2>8, <3>1 DEF ApplyHeld
      <3>4. JobType(d)'
        BY <3>2, <3>3 DEF JobType, TypeOK
      <3>5. job' \in [Devices -> Jobs] /\ \A e \in Devices : JobType(e)'
        BY <2>2, <3>2, <3>3, <3>4, JobsOfOthers
      <3>6. held' \in [Devices -> Previews \cup {None}]
        BY <2>8 DEF ApplyHeld, TypeOK
      <3> QED BY <2>4, <2>8, <3>5, <3>6 DEF ApplyHeld, TypeOK, backup
    <2>9. CASE Confirm(d)
      <3>1. PICK j \in {[job[d] EXCEPT !.phase = "apply"], Idle} : job' = [job EXCEPT ![d] = j]
        BY <2>9 DEF Confirm
      <3>2. j \in Jobs /\ (j.phase = "idle" \/ (j.phase = "apply" /\ j.preview \in Previews))
        BY <2>3, <2>9, <3>1, IdleType DEF Phases, Confirm, TypeOK
      <3>3. UNCHANGED db
        BY <2>9 DEF Confirm
      <3>4. JobType(d)'
        BY <3>1, <3>2 DEF JobType, TypeOK
      <3>5. job' \in [Devices -> Jobs] /\ \A e \in Devices : JobType(e)'
        BY <2>2, <3>1, <3>2, <3>3, <3>4, JobsOfOthers
      <3> QED BY <2>4, <2>9, <3>5 DEF Confirm, TypeOK, backup
    <2>10. CASE Cancel(d)
      <3>1. job' = [job EXCEPT ![d] = Idle] /\ UNCHANGED db
        BY <2>10 DEF Cancel
      <3>2. JobType(d)'
        BY <3>1, IdleType DEF JobType, TypeOK
      <3>3. job' \in [Devices -> Jobs] /\ \A e \in Devices : JobType(e)'
        BY <2>2, <3>1, <3>2, IdleType, JobsOfOthers
      <3> QED BY <2>4, <2>10, <3>3 DEF Cancel, TypeOK, backup
    <2>11. CASE Apply(d)
      <3>1. CASE ~StillCurrent(d, job[d].preview)
        <4>1. job' = [job EXCEPT ![d] = Idle] /\ UNCHANGED <<db, faults>>
          BY <2>11, <3>1 DEF Apply
        <4>2. JobType(d)'
          BY <4>1, IdleType DEF JobType, TypeOK
        <4>3. job' \in [Devices -> Jobs] /\ \A e \in Devices : JobType(e)'
          BY <2>2, <4>1, <4>2, IdleType, JobsOfOthers
        <4> QED BY <2>4, <2>11, <4>1, <4>3 DEF Apply, TypeOK, backup
      <3>2. CASE StillCurrent(d, job[d].preview)
        <4>1. PICK j : j = [phase |-> "publish", preview |-> None]
          OBVIOUS
        <4>2. /\ job' = [job EXCEPT ![d] = j] /\ OnlyOf(d) /\ db'[d].record \in Records
              /\ faults' \in Nat
          BY <2>11, <3>2, <4>1, ApplyEffect
        <4>3. j \in Jobs /\ j.phase = "publish"
          BY <4>1 DEF Phases
        <4>4. JobType(d)'
          BY <4>2, <4>3 DEF JobType, TypeOK
        <4>5. job' \in [Devices -> Jobs] /\ \A e \in Devices : JobType(e)'
          BY <4>2, <4>3, <4>4, JobsOfOthers
        <4> QED BY <2>4, <2>11, <4>2, <4>5 DEF Apply, TypeOK, backup, OnlyOf
      <3> QED BY <3>1, <3>2
    <2>12. CASE Reserve(d)
      <3>1. /\ OnlyOf(d) /\ db'[d].record \in Records
            /\ \/ job' = [job EXCEPT ![d] = Idle]
               \/ /\ job' = [job EXCEPT ![d] = [job[d] EXCEPT !.phase = "upload"]]
                  /\ db'[d].record.pending \in Publications
        <4>1. db[d].record \in Records
          BY <2>12, ReserveEffect
        <4>2. db[d].record.pending \in Publications \cup {None}
          BY <4>1 DEF Records
        <4> QED BY <2>2, <2>12, <4>1, <4>2, ReserveEffect
      <3>2. PICK j \in {Idle, [job[d] EXCEPT !.phase = "upload"]} : job' = [job EXCEPT ![d] = j]
              /\ (j # Idle => db'[d].record.pending \in Publications)
        BY <3>1
      <3>3. j \in Jobs /\ (j.phase = "idle" \/ (j # Idle /\ j.phase = "upload"))
        BY <2>3, <3>2, IdleType DEF Phases
      <3>4. JobType(d)'
        BY <3>1, <3>2, <3>3 DEF JobType, TypeOK
      <3>5. job' \in [Devices -> Jobs] /\ \A e \in Devices : JobType(e)'
        BY <3>1, <3>2, <3>3, <3>4, JobsOfOthers
      <3> QED BY <2>4, <2>12, <3>1, <3>5 DEF Reserve, TypeOK, backup, OnlyOf
    <2>13. CASE Upload(d)
      <3>1. PICK j \in {Idle, [job[d] EXCEPT !.phase = "register"]} : job' = [job EXCEPT ![d] = j]
        BY <2>13, UploadEffect
      <3>2. j \in Jobs /\ j.phase \in {"idle", "register"}
        BY <2>3, <3>1, IdleType DEF Phases
      <3>3. /\ UNCHANGED db /\ db[d].record \in Records /\ db[d].record.pending \in Publications
            /\ objects' \subseteq [id : Publications, whole : BOOLEAN] /\ IsFiniteSet(objects')
            /\ faults' \in Nat
        BY <2>13, UploadEffect DEF Upload
      <3>4. JobType(d)'
        BY <3>1, <3>2, <3>3 DEF JobType, TypeOK
      <3>5. job' \in [Devices -> Jobs] /\ \A e \in Devices : JobType(e)'
        BY <2>2, <3>1, <3>2, <3>3, <3>4, JobsOfOthers
      <3> QED BY <2>4, <2>13, <3>3, <3>5 DEF Upload, TypeOK, backup
    <2>14. CASE Register(d)
      <3>1. PICK j \in {Idle, [job[d] EXCEPT !.phase = "acknowledge"]} : job' = [job EXCEPT ![d] = j]
        BY <2>14 DEF Register
      <3>2. j \in Jobs /\ j.phase \in {"idle", "acknowledge"}
        BY <2>3, <3>1, IdleType DEF Phases
      <3>3. /\ UNCHANGED db /\ db[d].record \in Records /\ db[d].record.pending \in Publications
        BY <2>14 DEF Register, TypeOK
      <3>4. JobType(d)'
        BY <3>1, <3>2, <3>3 DEF JobType, TypeOK
      <3>5. job' \in [Devices -> Jobs] /\ \A e \in Devices : JobType(e)'
        BY <2>2, <3>1, <3>2, <3>3, <3>4, JobsOfOthers
      <3>6. registry' \subseteq Processes /\ faults' \in Nat
        BY <2>14, <3>3 DEF Register, TypeOK, Publications
      <3> QED BY <2>4, <2>14, <3>5, <3>6 DEF Register, TypeOK, backup
    <2>15. CASE Acknowledge(d)
      <3>1. PICK j : j = [job[d] EXCEPT !.phase = "publish"]
        OBVIOUS
      <3>2. j \in Jobs /\ j.phase = "publish"
        BY <2>3, <3>1 DEF Phases
      <3>3. job' = [job EXCEPT ![d] = j] /\ OnlyOf(d) /\ db'[d].record \in Records
        BY <2>15, <3>1, AcknowledgeEffect DEF Acknowledge
      <3>4. JobType(d)'
        BY <3>2, <3>3 DEF JobType, TypeOK
      <3>5. job' \in [Devices -> Jobs] /\ \A e \in Devices : JobType(e)'
        BY <3>2, <3>3, <3>4, JobsOfOthers
      <3> QED BY <2>4, <2>15, <3>3, <3>5 DEF Acknowledge, TypeOK, backup, OnlyOf
    <2>16. CASE Edit(d)
      <3>1. OnlyOf(d) /\ db'[d].record = db[d].record /\ UNCHANGED job
        BY <2>16, EditEffect DEF Edit
      <3>2. \A e \in Devices : db'[e].record = db[e].record
        BY <3>1 DEF OnlyOf
      <3>3. \A e \in Devices : JobType(e)'
        BY <2>1, <3>1, <3>2 DEF JobType
      <3> QED BY <2>4, <2>16, <3>1, <3>3, SMTT(30) DEF Edit, TypeOK, backup, OnlyOf
    <2>17. CASE TakeCopy(d)
      <3> QED BY <2>3, <2>17 DEF TakeCopy, TypeOK
    <2>18. ASSUME NextProcess(d), OnlyOf(d)
           PROVE  /\ job' \in [Devices -> Jobs] /\ \A e \in Devices : JobType(e)'
                  /\ process' \in [Devices -> Nat] /\ held' \in [Devices -> Previews \cup {None}]
      <3>1. job' = [job EXCEPT ![d] = Idle]
        BY <2>18 DEF NextProcess
      <3>2. JobType(d)'
        BY <3>1, IdleType DEF JobType, TypeOK
      <3>3. job' \in [Devices -> Jobs] /\ \A e \in Devices : JobType(e)'
        BY <2>18, <3>1, <3>2, IdleType, JobsOfOthers
      <3> QED BY <2>18, <3>3 DEF NextProcess, TypeOK
    <2>19. CASE Restart(d)
      BY <2>2, <2>4, <2>18, <2>19 DEF Restart, NextProcess, TypeOK, backup
    <2>20. CASE RestoreCopy(d)
      <3>1. OnlyOf(d)
        BY <2>20 DEF RestoreCopy, OnlyOf, TypeOK
      <3> QED BY <2>4, <2>18, <2>20, <3>1 DEF RestoreCopy, NextProcess, TypeOK, OnlyOf
    <2> QED BY <1>2, <2>5, <2>6, <2>7, <2>8, <2>9, <2>10, <2>11, <2>12, <2>13, <2>14, <2>15,
               <2>16, <2>17, <2>19, <2>20 DEF Operation
  <1> QED BY <1>1, <1>2 DEF Next

\* Type correctness for any number of devices: what is captured, merged,
\* materialized and deferred is always a state of the resource, a replica stays
\* finite, and an operation past its prepare has the preview, the record and the
\* pending publication its step reads (apply_and_publish, publish).
THEOREM SyncTypeCorrect == Spec => []TypeOK
  BY TypeInit, TypeStep, PTL DEF Spec

-----------------------------------------------------------------------------
(* Publication numbers.                                                    *)

\* The publication the database b has reserved and not acknowledged.
PendingIn(b, id) == b.record # None /\ b.record.pending = id

\* Every publication that exists somewhere: on the remote, or reserved in a
\* database or in the copy of one.
Issued ==
    {id \in Publications :
        \/ \E o \in objects : o.id = id
        \/ \E d \in Devices : PendingIn(db[d], id)
        \/ copy # None /\ PendingIn(copy, id)}

\* The process has been started.
Started(w) == w[2] <= process[w[1]]

OwnedRecord(b) == b.record # None => b.record.owner = b.record.writer /\ Started(b.record.owner)

\* A preview of d would leave the record with the running process, the numbers
\* going on where the record it was made from has them.
OwnPreview(d, p) ==
    /\ p.record.owner = Process(d) /\ p.record.writer = Process(d)
    /\ p.record.pending = IF p.expected = None THEN None ELSE p.expected.pending
    /\ p.expected # None /\ p.expected.owner = Process(d) => p.record.next = p.expected.next

Unique == \A p, q \in Issued : SameNumber(p, q) => p = q
IssuedByStarted == \A id \in Issued : Started(id.writer)
BelowNext ==
    \A id \in Issued, d \in Devices :
        id.writer = Process(d) => /\ db[d].record # None /\ db[d].record.owner = Process(d)
                                  /\ id.sequence < db[d].record.next
Owned == (\A d \in Devices : OwnedRecord(db[d])) /\ (copy # None => OwnedRecord(copy))
PreviewsOwn ==
    \A d \in Devices :
        /\ held[d] # None => OwnPreview(d, held[d])
        /\ job[d].phase \in {"confirm", "apply"} => OwnPreview(d, job[d].preview)
PublishesOwn ==
    \A d \in Devices :
        job[d].phase \notin {"idle", "confirm", "apply"} => db[d].record.owner = Process(d)

NumbersInv == Unique /\ IssuedByStarted /\ BelowNext /\ Owned /\ PreviewsOwn /\ PublishesOwn

\* What a step issues is the replica of a database's record.
OnlyReserved ==
    \A id \in Issued' :
        id \in Issued \/ \E d \in Devices : Recorded(d) /\ id.replica = db[d].record.replica

\* Nothing new is issued and no process starts: the numbers stay as they are when
\* every record stays with its process and its next number.
LEMMA NumbersKept ==
    ASSUME TypeOK, NumbersInv, Issued' \subseteq Issued, process' = process,
           \A d \in Devices : db[d].record # None /\ db[d].record.owner = Process(d) =>
              /\ db'[d].record # None /\ db'[d].record.owner = Process(d)
              /\ db'[d].record.next = db[d].record.next
    PROVE  Unique' /\ IssuedByStarted' /\ BelowNext'
  BY DEF NumbersInv, Unique, IssuedByStarted, BelowNext, Process, Started

\* The preview just made is the running process's own.
LEMMA PreviewOwn ==
    ASSUME TypeOK, NumbersInv, NEW d \in Devices
    PROVE  OwnPreview(d, Preview(d))
  <1>1. /\ Preview(d).expected = db[d].record
        /\ \A f \in {"writer", "owner", "next", "pending"} :
              Preview(d).record[f] = LoadedRecord(d)[f]
    BY PreviewType
  <1>2. CASE db[d].record = None
    <2>1. /\ LoadedRecord(d).writer = Process(d) /\ LoadedRecord(d).owner = Process(d)
          /\ LoadedRecord(d).pending = None
      BY <1>2 DEF LoadedRecord, NewRecord
    <2> QED BY <1>1, <1>2, <2>1 DEF OwnPreview
  <1>3. CASE db[d].record # None
    <2> DEFINE r == db[d].record
    <2>1. r \in Records /\ r.owner = r.writer /\ LoadedRecord(d) = Adopt(d, r)
      BY <1>3 DEF TypeOK, Databases, NumbersInv, Owned, OwnedRecord, LoadedRecord
    <2>2. /\ Adopt(d, r).writer = Process(d) /\ Adopt(d, r).owner = Process(d)
          /\ Adopt(d, r).pending = r.pending
          /\ r.owner = Process(d) => Adopt(d, r).next = r.next
      BY <2>1 DEF Adopt, Records
    <2> QED BY <1>1, <1>3, <2>1, <2>2 DEF OwnPreview
  <1> QED BY <1>2, <1>3

\* The initial state has no publication, record or preview.
LEMMA NumbersInit == Init => NumbersInv
  <1> SUFFICES ASSUME Init PROVE NumbersInv
    OBVIOUS
  <1>1. \A d \in Devices : db[d].record = None /\ held[d] = None /\ job[d].phase = "idle"
    BY IdleType DEF Init
  <1>2. Issued = {}
    BY <1>1 DEF Init, Issued, PendingIn
  <1> QED BY <1>1, <1>2 DEF Init, NumbersInv, Unique, IssuedByStarted, BelowNext, Owned,
                            OwnedRecord, PreviewsOwn, PublishesOwn

\* The steps before the transaction write no database and no object.
LEMMA NumbersBeforeApply ==
    ASSUME TypeOK, NumbersInv, NEW d \in Devices,
           AutoSync(d) \/ HoldPreview(d) \/ ResolveConflict(d) \/ ApplyHeld(d)
              \/ Confirm(d) \/ Cancel(d)
    PROVE  NumbersInv' /\ OnlyReserved
  <1>1. UNCHANGED <<db, process, objects, copy>>
    BY DEF AutoSync, HoldPreview, ResolveConflict, ApplyHeld, Confirm, Cancel, backup
  <1>2. Issued' = Issued /\ Owned'
    BY <1>1 DEF Issued, PendingIn, NumbersInv, Owned, OwnedRecord, Started
  <1>3. Unique' /\ IssuedByStarted' /\ BelowNext'
    BY <1>1, <1>2, NumbersKept
  <1>4. PublishesOwn'
    <2>1. \A e \in Devices : job'[e] = job[e] \/ job'[e].phase \in {"idle", "confirm", "apply"}
      BY IdleType DEF AutoSync, HoldPreview, ResolveConflict, ApplyHeld, Confirm, Cancel, TypeOK
    <2> QED BY <1>1, <2>1 DEF NumbersInv, PublishesOwn, Process
  <1>5. CASE AutoSync(d)
    <2>1. /\ \A e \in Devices \ {d} : job'[e] = job[e]
          /\ job'[d].preview = Preview(d) /\ held' = held
      BY <1>5 DEF AutoSync, TypeOK
    <2>2. OwnPreview(d, Preview(d))
      BY PreviewOwn
    <2>3. PreviewsOwn'
      BY <1>1, <2>1, <2>2 DEF PreviewsOwn, NumbersInv, OwnPreview, Process
    <2> QED BY <1>2, <1>3, <1>4, <2>3 DEF NumbersInv, OnlyReserved
  <1>6. CASE HoldPreview(d)
    <2>1. /\ \A e \in Devices \ {d} : held'[e] = held[e]
          /\ held'[d] = Preview(d) /\ job' = job
      BY <1>6 DEF HoldPreview, TypeOK
    <2>2. OwnPreview(d, Preview(d))
      BY PreviewOwn
    <2>3. PreviewsOwn'
      BY <1>1, <2>1, <2>2 DEF PreviewsOwn, NumbersInv, OwnPreview, Process
    <2> QED BY <1>2, <1>3, <1>4, <2>3 DEF NumbersInv, OnlyReserved
  <1>7. CASE ResolveConflict(d)
    <2>1. /\ \A e \in Devices \ {d} : held'[e] = held[e]
          /\ held[d] # None /\ held'[d].record = held[d].record
          /\ held'[d].expected = held[d].expected /\ job' = job
      BY <1>7, ResolveEffect DEF ResolveConflict
    <2>2. PreviewsOwn'
      BY <1>1, <2>1 DEF PreviewsOwn, NumbersInv, OwnPreview, Process
    <2> QED BY <1>2, <1>3, <1>4, <2>2 DEF NumbersInv, OnlyReserved
  <1>8. CASE ApplyHeld(d)
    <2>1. /\ \A e \in Devices \ {d} : held'[e] = held[e] /\ job'[e] = job[e]
          /\ held[d] # None /\ held'[d] = None /\ job'[d].preview = held[d]
      BY <1>8 DEF ApplyHeld, TypeOK
    <2>2. PreviewsOwn'
      BY <1>1, <2>1 DEF PreviewsOwn, NumbersInv, OwnPreview, Process
    <2> QED BY <1>2, <1>3, <1>4, <2>2 DEF NumbersInv, OnlyReserved
  <1>9. CASE Confirm(d) \/ Cancel(d)
    <2>1. /\ \A e \in Devices \ {d} : job'[e] = job[e]
          /\ job[d].phase = "confirm" /\ held' = held
          /\ job'[d].phase = "idle" \/ job'[d].preview = job[d].preview
      BY <1>9, IdleType DEF Confirm, Cancel, TypeOK
    <2>2. PreviewsOwn'
      BY <1>1, <2>1 DEF PreviewsOwn, NumbersInv, OwnPreview, Process
    <2> QED BY <1>2, <1>3, <1>4, <2>2 DEF NumbersInv, OnlyReserved
  <1> QED BY <1>5, <1>6, <1>7, <1>8, <1>9

\* The transaction of an apply leaves the record with the running process.
LEMMA NumbersApply ==
    ASSUME TypeOK, NumbersInv, NEW d \in Devices, Apply(d)
    PROVE  NumbersInv' /\ OnlyReserved
  <1> DEFINE p == job[d].preview
  <1>1. UNCHANGED <<process, objects, copy, held>>
    BY DEF Apply, backup
  <1>2. CASE ~StillCurrent(d, p)
    <2>1. job' = [job EXCEPT ![d] = Idle] /\ UNCHANGED db
      BY <1>2 DEF Apply
    <2>2. \A e \in Devices : job'[e] = job[e] \/ job'[e].phase = "idle"
      BY <2>1, IdleType DEF TypeOK
    <2>3. Issued' = Issued /\ Owned'
      BY <1>1, <2>1 DEF Issued, PendingIn, NumbersInv, Owned, OwnedRecord, Started
    <2>4. Unique' /\ IssuedByStarted' /\ BelowNext'
      BY <1>1, <2>1, <2>3, NumbersKept
    <2>5. PreviewsOwn' /\ PublishesOwn'
      BY <1>1, <2>1, <2>2 DEF NumbersInv, PreviewsOwn, PublishesOwn, OwnPreview, Process
    <2> QED BY <2>3, <2>4, <2>5 DEF NumbersInv, OnlyReserved
  <1>3. CASE StillCurrent(d, p)
    <2> DEFINE s == db'[d].record
    <2>1. /\ p \in Previews /\ OnlyOf(d) /\ s \in Records
          /\ job' = [job EXCEPT ![d] = [phase |-> "publish", preview |-> None]]
          /\ s.writer = p.record.writer /\ s.owner = p.record.owner /\ s.next = p.record.next
          /\ s.pending = p.record.pending
      BY <1>3, ApplyEffect
    <2>2. db[d].record = p.expected /\ OwnPreview(d, p)
      BY <1>3 DEF StillCurrent, NumbersInv, PreviewsOwn, Apply
    <2>3. /\ s # None /\ s.owner = Process(d) /\ s.writer = Process(d)
          /\ s.pending = IF db[d].record = None THEN None ELSE db[d].record.pending
          /\ db[d].record # None /\ db[d].record.owner = Process(d) => s.next = db[d].record.next
      BY <2>1, <2>2, SyncConstants DEF OwnPreview
    <2>4. \A e \in Devices \ {d} : db'[e] = db[e]
      BY <2>1 DEF OnlyOf
    <2>5. Issued' \subseteq Issued
      BY <1>1, <2>3, <2>4, SyncConstants DEF Issued, PendingIn
    <2>6. Unique' /\ IssuedByStarted' /\ BelowNext'
      BY <1>1, <2>3, <2>4, <2>5, NumbersKept
    <2>7. Started(Process(d)) /\ \A w : Started(w)' <=> Started(w)
      <3>1. process[d] \in Nat /\ process' = process
        BY <1>1 DEF TypeOK
      <3>2. <<d, process[d]>>[1] = d /\ <<d, process[d]>>[2] = process[d]
        OBVIOUS
      <3> QED BY <3>1, <3>2 DEF Started, Process
    <2>8. Owned'
      BY <1>1, <2>3, <2>4, <2>7 DEF NumbersInv, Owned, OwnedRecord
    <2>9. /\ \A e \in Devices \ {d} : job'[e] = job[e]
          /\ job'[d].phase = "publish"
      BY <2>1 DEF TypeOK
    <2>10. PreviewsOwn' /\ PublishesOwn'
      BY <1>1, <2>3, <2>4, <2>9 DEF NumbersInv, PreviewsOwn, PublishesOwn, OwnPreview, Process
    <2> QED BY <2>6, <2>8, <2>10, <2>5 DEF NumbersInv, OnlyReserved
  <1> QED BY <1>2, <1>3

\* A reservation takes the next number of the running process.
LEMMA NumbersReserve ==
    ASSUME TypeOK, NumbersInv, NEW d \in Devices, Reserve(d)
    PROVE  NumbersInv' /\ OnlyReserved
  <1> DEFINE r == db[d].record
             s == db'[d].record
             id == s.pending
  <1>1. UNCHANGED <<process, objects, copy, held>> /\ job[d].phase = "publish" /\ r \in Records
    BY ReserveEffect DEF Reserve, backup
  <1>2. r # None /\ r.owner = Process(d) /\ r.writer = Process(d)
    BY <1>1, SyncConstants DEF NumbersInv, PublishesOwn, Owned, OwnedRecord
  <1>3. /\ \A e \in Devices \ {d} : job'[e] = job[e]
        /\ job'[d].phase \in {"idle", "upload"}
    BY ReserveEffect, IdleType DEF TypeOK
  <1>4. CASE UNCHANGED db
    <2>1. Issued' = Issued /\ Owned'
      BY <1>1, <1>4 DEF Issued, PendingIn, NumbersInv, Owned, OwnedRecord, Started
    <2>2. Unique' /\ IssuedByStarted' /\ BelowNext'
      BY <1>1, <1>4, <2>1, NumbersKept
    <2>3. PreviewsOwn' /\ PublishesOwn'
      BY <1>1, <1>2, <1>3, <1>4 DEF NumbersInv, PreviewsOwn, PublishesOwn, OwnPreview, Process
    <2> QED BY <2>1, <2>2, <2>3 DEF NumbersInv, OnlyReserved
  <1>5. CASE ~UNCHANGED db
    <2>1. /\ OnlyOf(d) /\ s \in Records /\ id \in Publications /\ id.writer = r.writer
          /\ id.sequence = r.next /\ s.next = r.next + 1 /\ s.owner = r.owner
          /\ s.writer = r.writer /\ r.pending = None
      BY <1>5, ReserveEffect
    <2>2. s # None /\ r.next \in Nat /\ \A e \in Devices \ {d} : db'[e] = db[e]
      BY <1>1, <2>1, SyncConstants DEF OnlyOf, Records
    <2>3. Issued' \subseteq Issued \cup {id}
      BY <1>1, <2>1, <2>2 DEF Issued, PendingIn
    <2>4. \A q \in Issued : q.writer = Process(d) => q.sequence < r.next
      BY DEF NumbersInv, BelowNext
    <2>5. \A q \in Issued : q.sequence \in Nat
      BY DEF Issued, Publications
    <2>6. \A q \in Issued : ~SameNumber(q, id) /\ ~SameNumber(id, q)
      BY <1>2, <2>1, <2>2, <2>4, <2>5 DEF SameNumber
    <2>7. Unique'
      BY <2>3, <2>6 DEF NumbersInv, Unique
    <2>8. /\ Process(d)' = Process(d) /\ Started(r.owner)
          /\ \A w : Started(w)' <=> Started(w)
      BY <1>1, <1>2 DEF Process, Started, NumbersInv, Owned, OwnedRecord
    <2>9. IssuedByStarted'
      BY <1>2, <2>1, <2>3, <2>8 DEF NumbersInv, IssuedByStarted
    <2>10. BelowNext'
      <3> SUFFICES ASSUME NEW q \in Issued', NEW e \in Devices, q.writer = Process(e)'
                   PROVE  /\ db'[e].record # None /\ db'[e].record.owner = Process(e)'
                          /\ q.sequence < db'[e].record.next
        BY DEF BelowNext
      <3>1. Process(e)' = Process(e) /\ (Process(e) = Process(d) => e = d)
        BY <1>1 DEF Process
      <3>2. CASE e = d
        BY <1>2, <2>1, <2>2, <2>3, <2>4, <2>5, <2>8, <3>1, <3>2
      <3>3. CASE e # d
        <4>1. q \in Issued
          BY <1>2, <2>1, <2>3, <3>1, <3>3
        <4> QED BY <2>2, <3>1, <3>3, <4>1 DEF NumbersInv, BelowNext
      <3> QED BY <3>2, <3>3
    <2>11. Owned'
      BY <1>1, <1>2, <2>1, <2>2, <2>8 DEF NumbersInv, Owned, OwnedRecord
    <2>12. PreviewsOwn' /\ PublishesOwn'
      <3>1. PreviewsOwn /\ PublishesOwn
        BY DEF NumbersInv
      <3>2. PreviewsOwn'
        BY <1>1, <1>3, <3>1 DEF PreviewsOwn, OwnPreview, Process
      <3>3. PublishesOwn'
        BY <1>1, <1>2, <1>3, <2>1, <2>2, <3>1 DEF PublishesOwn, Process
      <3> QED BY <3>2, <3>3
    <2>13. OnlyReserved
      BY <1>2, <1>5, <2>3, ReserveEffect DEF OnlyReserved, Recorded
    <2> QED BY <2>7, <2>9, <2>10, <2>11, <2>12, <2>13 DEF NumbersInv
  <1> QED BY <1>4, <1>5

\* The remote writes and the acknowledgement issue nothing.
LEMMA NumbersPublish ==
    ASSUME TypeOK, NumbersInv, NEW d \in Devices, Upload(d) \/ Register(d) \/ Acknowledge(d)
    PROVE  NumbersInv' /\ OnlyReserved
  <1>1. UNCHANGED <<process, copy, held>>
        /\ job[d].phase \in {"upload", "register", "acknowledge"}
    BY DEF Upload, Register, Acknowledge, backup
  <1>2. db[d].record \in Records /\ db[d].record # None /\ db[d].record.pending \in Publications
    BY <1>1, SyncConstants DEF TypeOK
  <1>3. /\ \A e \in Devices \ {d} : job'[e] = job[e]
        /\ job'[d].phase \in {"idle", "register", "acknowledge", "publish"}
    <2>1. CASE Upload(d)
      <3>1. PICK j \in {Idle, [job[d] EXCEPT !.phase = "register"]} : job' = [job EXCEPT ![d] = j]
        BY <2>1, UploadEffect
      <3>2. j.phase \in {"idle", "register"}
        BY <3>1, IdleType DEF TypeOK
      <3> QED BY <3>1, <3>2 DEF TypeOK
    <2>2. CASE Register(d)
      BY <2>2, IdleType DEF TypeOK, Register
    <2>3. CASE Acknowledge(d)
      BY <2>3 DEF TypeOK, Acknowledge
    <2> QED BY <2>1, <2>2, <2>3
  <1>4. /\ \A e \in Devices \ {d} : db'[e] = db[e]
        /\ db'[d].record # None
        /\ \A f \in {"owner", "writer", "next"} : db'[d].record[f] = db[d].record[f]
        /\ db'[d].record.pending \in {None, db[d].record.pending}
    <2>1. CASE Upload(d) \/ Register(d)
      BY <1>2, <2>1 DEF Upload, Register
    <2>2. CASE Acknowledge(d)
      BY <1>2, <2>2, AcknowledgeEffect, SyncConstants DEF OnlyOf
    <2> QED BY <2>1, <2>2
  <1>5. \A o \in objects' : (\E x \in objects : x.id = o.id) \/ o.id = db[d].record.pending
    <2>1. CASE Upload(d)
      <3>1. \/ objects' = objects
            \/ \E w \in BOOLEAN : objects' = Store(db[d].record.pending, w)
        BY <2>1, UploadEffect
      <3> QED BY <3>1 DEF Store, Object
    <2>2. CASE Register(d) \/ Acknowledge(d)
      BY <2>2 DEF Register, Acknowledge
    <2> QED BY <2>1, <2>2
  <1>6. Issued' \subseteq Issued
    BY <1>1, <1>2, <1>4, <1>5, SyncConstants DEF Issued, PendingIn
  <1>7. Unique' /\ IssuedByStarted' /\ BelowNext'
    BY <1>1, <1>4, <1>6, NumbersKept
  <1>8. Owned'
    BY <1>1, <1>2, <1>4 DEF NumbersInv, Owned, OwnedRecord, Started
  <1>9. PreviewsOwn' /\ PublishesOwn'
    BY <1>1, <1>2, <1>3, <1>4 DEF NumbersInv, PreviewsOwn, PublishesOwn, OwnPreview, Process
  <1> QED BY <1>7, <1>8, <1>9, <1>6 DEF NumbersInv, OnlyReserved

\* The user and the file system: no process starts.
LEMMA NumbersUser ==
    ASSUME TypeOK, NumbersInv, NEW d \in Devices, Edit(d) \/ TakeCopy(d)
    PROVE  NumbersInv' /\ OnlyReserved
  <1>1. UNCHANGED <<process, held, job, objects>>
        /\ (copy' = copy \/ (copy' = db[d] /\ db[d].record # None))
    <2>1. CASE Edit(d)
      BY <2>1 DEF Edit, backup
    <2>2. CASE TakeCopy(d)
      BY <2>2 DEF TakeCopy
    <2> QED BY <2>1, <2>2
  <1>2. \A e \in Devices : db'[e].record = db[e].record
    <2>1. CASE Edit(d)
      BY <2>1, EditEffect DEF OnlyOf
    <2>2. CASE TakeCopy(d)
      BY <2>2 DEF TakeCopy
    <2> QED BY <2>1, <2>2
  <1>3. Issued' \subseteq Issued
    BY <1>1, <1>2 DEF Issued, PendingIn
  <1>4. Unique' /\ IssuedByStarted' /\ BelowNext'
    BY <1>1, <1>2, <1>3, NumbersKept
  <1>5. Owned'
    BY <1>1, <1>2 DEF NumbersInv, Owned, OwnedRecord, Started
  <1>6. PreviewsOwn' /\ PublishesOwn'
    BY <1>1, <1>2 DEF NumbersInv, PreviewsOwn, PublishesOwn, OwnPreview, Process
  <1> QED BY <1>4, <1>5, <1>6, <1>3 DEF NumbersInv, OnlyReserved

\* Another process has issued nothing, whatever database it finds.
LEMMA NumbersProcess ==
    ASSUME TypeOK, NumbersInv, NEW d \in Devices, Restart(d) \/ RestoreCopy(d)
    PROVE  NumbersInv' /\ OnlyReserved
  <1>1. /\ objects' = objects /\ NextProcess(d)
        /\ \A e \in Devices \ {d} : db'[e] = db[e] /\ process'[e] = process[e]
                                     /\ held'[e] = held[e] /\ job'[e] = job[e]
        /\ process'[d] = process[d] + 1 /\ held'[d] = None /\ job'[d].phase = "idle"
        /\ \A e \in Devices : process[e] \in Nat
    BY IdleType DEF Restart, RestoreCopy, NextProcess, TypeOK
  <1>2. \/ db' = db /\ copy' = copy
        \/ copy # None /\ db'[d] = copy /\ copy' = None
    BY DEF Restart, RestoreCopy, TypeOK, backup
  <1>3. Issued' \subseteq Issued
    BY <1>1, <1>2 DEF Issued, PendingIn
  <1>4. \A w \in Processes : Started(w) => Started(w)'
    BY <1>1 DEF Started, Processes
  <1>5. \A id \in Issued : id.writer \in Processes
    BY DEF Issued, Publications
  <1>6. Unique' /\ IssuedByStarted'
    BY <1>3, <1>4, <1>5 DEF NumbersInv, Unique, IssuedByStarted
  <1>7. BelowNext'
    <2> SUFFICES ASSUME NEW q \in Issued', NEW e \in Devices, q.writer = Process(e)'
                 PROVE  /\ db'[e].record # None /\ db'[e].record.owner = Process(e)'
                        /\ q.sequence < db'[e].record.next
      BY DEF BelowNext
    <2>1. q \in Issued /\ Started(q.writer)
      BY <1>3 DEF NumbersInv, IssuedByStarted
    <2>2. e # d
      BY <1>1, <2>1 DEF Started, Process
    <2>3. Process(e)' = Process(e) /\ db'[e] = db[e]
      BY <1>1, <2>2 DEF Process
    <2> QED BY <2>1, <2>3 DEF NumbersInv, BelowNext
  <1>8. Owned'
    <2>1. /\ \A e \in Devices : db[e].record # None => db[e].record.owner \in Processes
          /\ copy # None /\ copy.record # None => copy.record.owner \in Processes
      BY DEF TypeOK, Databases, Records
    <2> QED BY <1>1, <1>2, <1>4, <2>1 DEF NumbersInv, Owned, OwnedRecord
  <1>9. PreviewsOwn' /\ PublishesOwn'
    <2>1. \A e \in Devices \ {d} : Process(e)' = Process(e)
      BY <1>1 DEF Process
    <2> QED BY <1>1, <2>1 DEF NumbersInv, PreviewsOwn, PublishesOwn, OwnPreview
  <1> QED BY <1>6, <1>7, <1>8, <1>9, <1>3 DEF NumbersInv, OnlyReserved

\* Every step keeps the numbers and issues at most the replica of a record.
LEMMA NumbersStep == TypeOK /\ NumbersInv /\ [Next]_vars => NumbersInv' /\ OnlyReserved
  <1> SUFFICES ASSUME TypeOK, NumbersInv, [Next]_vars PROVE NumbersInv' /\ OnlyReserved
    OBVIOUS
  <1>1. CASE UNCHANGED vars
    <2>1. Issued' = Issued
      BY <1>1 DEF vars, Issued, PendingIn
    <2> QED BY <1>1, <2>1 DEF vars, NumbersInv, Unique, IssuedByStarted, BelowNext, Owned,
                  OwnedRecord, PreviewsOwn, PublishesOwn, OwnPreview, Started, Process,
                  OnlyReserved
  <1>2. CASE Next
    BY <1>2, NumbersBeforeApply, NumbersApply, NumbersReserve, NumbersPublish, NumbersUser,
       NumbersProcess DEF Next, Operation
  <1> QED BY <1>1, <1>2

\* A number of a writer names one publication, for any number of devices, crashes,
\* retries, copied and restored databases: load_v4_view gives every process a
\* writer of its own and publish persists a number before it uploads under it.
THEOREM NumbersNeverFork == Spec => []NoFork
  <1>1. TypeOK /\ NumbersInv => NoFork
    <2> SUFFICES ASSUME TypeOK, NumbersInv PROVE NoFork
      OBVIOUS
    <2>1. \A o \in objects : o.id \in Issued
      BY DEF TypeOK, Issued
    <2> QED BY <2>1 DEF NumbersInv, Unique, NoFork
  <1> QED BY <1>1, TypeInit, TypeStep, NumbersInit, NumbersStep, PTL DEF Spec

-----------------------------------------------------------------------------
(* Damaged publications.                                                   *)

\* A publication has one object; what is being registered or acknowledged is whole.
OneObject == \A o, p \in objects : o.id = p.id => o = p
RegistersWhole ==
    \A d \in Devices :
        job[d].phase \in {"register", "acknowledge"} => Object(db[d].record.pending, TRUE) \in objects

RepairInv == OneObject /\ RegistersWhole /\ DamageIsRepairable

LEMMA RepairInit == Init => RepairInv
  <1> SUFFICES ASSUME Init PROVE RepairInv
    OBVIOUS
  <1>1. \A d \in Devices : job[d].phase = "idle"
    BY IdleType DEF Init
  <1> QED BY <1>1 DEF Init, RepairInv, OneObject, RegistersWhole, DamageIsRepairable

\* A step that writes no object keeps it when no pending publication is dropped and
\* no operation comes to the registration.
LEMMA RepairKept ==
    ASSUME RepairInv, objects' = objects, restored => restored',
           \A e \in Devices : Recorded(e) =>
              Recorded(e)' /\ (\/ db'[e].record.pending = db[e].record.pending
                               \/ db[e].record.pending = None
                               \/ Object(db[e].record.pending, TRUE) \in objects),
           None \notin {o.id : o \in objects},
           \A e \in Devices : job'[e].phase \in {"register", "acknowledge"} =>
              /\ job[e].phase \in {"register", "acknowledge"}
              /\ db'[e].record.pending = db[e].record.pending
    PROVE  RepairInv'
  <1>1. OneObject' /\ RegistersWhole'
    BY DEF RepairInv, OneObject, RegistersWhole, Object
  <1>2. ASSUME ~restored', NEW o \in objects, ~o.whole
        PROVE  \E e \in Devices : Recorded(e)' /\ db'[e].record.pending = o.id
    <2>1. PICK e \in Devices : Recorded(e) /\ db[e].record.pending = o.id
      BY <1>2 DEF RepairInv, DamageIsRepairable
    <2>2. Object(o.id, TRUE) \notin objects
      BY <1>2 DEF RepairInv, OneObject, Object
    <2> QED BY <2>1, <2>2
  <1> QED BY <1>1, <1>2 DEF RepairInv, DamageIsRepairable

\* Every step keeps a damaged publication pending where it is repaired.
LEMMA RepairStep == TypeOK /\ NumbersInv /\ RepairInv /\ [Next]_vars => RepairInv'
  <1> SUFFICES ASSUME TypeOK, NumbersInv, RepairInv, [Next]_vars PROVE RepairInv'
    OBVIOUS
  <1>0. None \notin {o.id : o \in objects}
    BY SyncConstants DEF TypeOK
  <1>1. CASE UNCHANGED vars
    BY <1>1 DEF vars, RepairInv, OneObject, RegistersWhole, DamageIsRepairable, Recorded, Object
  <1>2. ASSUME NEW d \in Devices,
               Operation(d) \/ Edit(d) \/ TakeCopy(d) \/ Restart(d) \/ RestoreCopy(d)
        PROVE  RepairInv'
    <2>1. CASE AutoSync(d) \/ HoldPreview(d) \/ ResolveConflict(d) \/ ApplyHeld(d) \/ Confirm(d)
                  \/ Cancel(d)
      <3>1. UNCHANGED <<db, objects, restored>>
        BY <2>1 DEF AutoSync, HoldPreview, ResolveConflict, ApplyHeld, Confirm, Cancel, backup
      <3>2. \A e \in Devices : job'[e] = job[e] \/ job'[e].phase \in {"idle", "confirm", "apply"}
        BY <2>1, IdleType DEF AutoSync, HoldPreview, ResolveConflict, ApplyHeld, Confirm, Cancel, TypeOK
      <3> QED BY <1>0, <3>1, <3>2, RepairKept DEF Recorded
    <2>2. CASE Apply(d)
      <3>1. UNCHANGED <<objects, restored>>
        BY <2>2 DEF Apply, backup
      <3>2. CASE ~StillCurrent(d, job[d].preview)
        <4>1. job' = [job EXCEPT ![d] = Idle] /\ UNCHANGED db
          BY <2>2, <3>2 DEF Apply
        <4>2. \A e \in Devices : job'[e] = job[e] \/ job'[e].phase = "idle"
          BY <4>1, IdleType DEF TypeOK
        <4> QED BY <1>0, <3>1, <4>1, <4>2, RepairKept DEF Recorded
      <3>3. CASE StillCurrent(d, job[d].preview)
        <4> DEFINE p == job[d].preview
                   s == db'[d].record
        <4>1. /\ OnlyOf(d) /\ s \in Records /\ s.pending = p.record.pending
              /\ job' = [job EXCEPT ![d] = [phase |-> "publish", preview |-> None]]
          BY <2>2, <3>3, ApplyEffect
        <4>2. db[d].record = p.expected /\ OwnPreview(d, p)
          BY <2>2, <3>3 DEF StillCurrent, NumbersInv, PreviewsOwn, Apply
        <4>3. s # None /\ (db[d].record # None => s.pending = db[d].record.pending)
          BY <4>1, <4>2, SyncConstants DEF OwnPreview
        <4>4. \A e \in Devices \ {d} : db'[e] = db[e] /\ job'[e] = job[e]
          BY <4>1 DEF OnlyOf, TypeOK
        <4>5. job'[d].phase = "publish"
          BY <4>1 DEF TypeOK
        <4> QED BY <1>0, <3>1, <4>3, <4>4, <4>5, RepairKept DEF Recorded
      <3> QED BY <3>2, <3>3
    <2>3. CASE Reserve(d)
      <3>1. UNCHANGED <<objects, restored>>
        BY <2>3 DEF Reserve, backup
      <3>2. /\ \A e \in Devices \ {d} : db'[e] = db[e] /\ job'[e] = job[e]
            /\ job'[d].phase \in {"idle", "upload"}
        BY <2>3, ReserveEffect, IdleType DEF TypeOK, OnlyOf
      <3>3. /\ db'[d].record # None
            /\ db'[d].record.pending = db[d].record.pending \/ db[d].record.pending = None
        BY <2>3, ReserveEffect, SyncConstants
      <3> QED BY <1>0, <3>1, <3>2, <3>3, RepairKept DEF Recorded
    <2>4. CASE Upload(d)
      <3> DEFINE id == db[d].record.pending
      <3>1. UNCHANGED <<db, restored>> /\ Recorded(d)
        BY <2>4, UploadEffect, SyncConstants DEF Upload, backup, Recorded
      <3>2. \/ objects' = objects
            \/ /\ Object(id, TRUE) \notin objects
               /\ \E w \in BOOLEAN : objects' = Store(id, w)
        BY <2>4, UploadEffect
      <3>3. OneObject'
        BY <3>2 DEF RepairInv, OneObject, Store, Object
      <3>4. \A q : Object(q, TRUE) \in objects => Object(q, TRUE) \in objects'
        BY <3>2 DEF Store, Object
      <3>5. RegistersWhole'
        <4>1. \A e \in Devices \ {d} : job'[e] = job[e]
          BY <2>4, UploadEffect DEF TypeOK
        <4>2. job'[d].phase \in {"register", "acknowledge"} => Object(id, TRUE) \in objects'
          BY <2>4, UploadEffect, IdleType DEF TypeOK
        <4> QED BY <3>1, <3>4, <4>1, <4>2 DEF RepairInv, RegistersWhole, Object
      <3>6. \A o \in objects' : o \in objects \/ o.id = id
        BY <3>2 DEF Store, Object
      <3>7. DamageIsRepairable'
        BY <3>1, <3>6 DEF RepairInv, DamageIsRepairable, Recorded
      <3> QED BY <3>3, <3>5, <3>7 DEF RepairInv
    <2>5. CASE Register(d)
      <3>1. UNCHANGED <<db, objects, restored>> /\ job[d].phase = "register"
        BY <2>5 DEF Register, backup
      <3>2. \A e \in Devices \ {d} : job'[e] = job[e]
        BY <2>5 DEF Register, TypeOK
      <3> QED BY <1>0, <3>1, <3>2, RepairKept DEF Recorded
    <2>6. CASE Acknowledge(d)
      <3>1. UNCHANGED <<objects, restored>> /\ Object(db[d].record.pending, TRUE) \in objects
        BY <2>6 DEF Acknowledge, backup, RepairInv, RegistersWhole
      <3>2. /\ \A e \in Devices \ {d} : db'[e] = db[e] /\ job'[e] = job[e]
            /\ job'[d].phase = "publish" /\ db'[d].record # None
        <4>1. /\ OnlyOf(d) /\ db'[d].record \in Records
              /\ job' = [job EXCEPT ![d].phase = "publish"]
          BY <2>6, AcknowledgeEffect DEF Acknowledge
        <4> QED BY <4>1, SyncConstants DEF OnlyOf, TypeOK
      <3> QED BY <1>0, <3>1, <3>2, RepairKept DEF Recorded
    <2>7. CASE Edit(d)
      <3>1. UNCHANGED <<job, objects, restored>>
        BY <2>7 DEF Edit, backup
      <3>2. \A e \in Devices : db'[e].record = db[e].record
        BY <2>7, EditEffect DEF OnlyOf
      <3> QED BY <1>0, <3>1, <3>2, RepairKept DEF Recorded
    <2>8. CASE TakeCopy(d)
      BY <1>0, <2>8, RepairKept DEF TakeCopy, Recorded
    <2>9. CASE Restart(d)
      <3>1. UNCHANGED <<db, objects, restored>>
        BY <2>9 DEF Restart, NextProcess, backup
      <3>2. \A e \in Devices : job'[e] = job[e] \/ job'[e].phase = "idle"
        BY <2>9, IdleType DEF Restart, NextProcess, TypeOK
      <3> QED BY <1>0, <3>1, <3>2, RepairKept DEF Recorded
    <2>10. CASE RestoreCopy(d)
      <3>1. /\ restored' = TRUE /\ objects' = objects /\ job'[d].phase = "idle"
            /\ \A e \in Devices \ {d} : db'[e] = db[e] /\ job'[e] = job[e]
        BY <2>10, IdleType DEF RestoreCopy, NextProcess, TypeOK
      <3> QED BY <3>1 DEF RepairInv, OneObject, RegistersWhole, DamageIsRepairable, Object
    <2> QED BY <1>2, <2>1, <2>2, <2>3, <2>4, <2>5, <2>6, <2>7, <2>8, <2>9, <2>10 DEF Operation
  <1> QED BY <1>1, <1>2 DEF Next

\* A publication an interrupted upload left damaged stays pending in the database
\* that repairs it, however many operations, crashes and failed writes follow:
\* publish forgets a publication only after it has read the whole object back.
THEOREM DamageStaysRepairable == Spec => []DamageIsRepairable
  <1>1. RepairInv => DamageIsRepairable
    BY DEF RepairInv
  <1> QED BY <1>1, TypeInit, TypeStep, NumbersInit, NumbersStep, RepairInit, RepairStep, PTL DEF Spec

-----------------------------------------------------------------------------
(* What an apply replaces.                                                 *)

\* materialize: the local state gives way only to registers without doubt.
LEMMA MaterializeSupersedes ==
    ASSUME NEW local \in SyncValues, NEW doc \in Replicas, Materialize(local, doc) # local
    PROVE  Supersedes(local, Materialize(local, doc), doc)
  <1> DEFINE values == CandidateValues(doc, "value")
             presence == CandidateValues(doc, "$present")
             new == Materialize(local, doc)
  <1>1. values \subseteq Values \cup {"deleted"} /\ IsFiniteSet(values) /\ Cardinality(values) \in Nat
    BY CandidatesType, FS_CardinalityType DEF Fields
  <1>2. CASE presence = {"false"}
    <2>1. new = Nothing
      BY <1>2 DEF Materialize
    <2> QED BY <1>2, <2>1, SyncValueShape, SyncValueMembers DEF Supersedes, Present
  <1>3. CASE presence # {"false"}
    <2>1. presence = {"true"} /\ ("value" \in Conflicts(doc) => Present(local))
      BY <1>3 DEF Materialize
    <2>2. CASE values = {"deleted"}
      <3>1. new = Bare /\ Cardinality(values) = 1
        BY <1>3, <2>1, <2>2, FS_Singleton DEF Materialize
      <3>2. Present(local) => "value" \in DOMAIN local /\ local["value"] \in Values
        BY <3>1, SyncValueShape DEF Present, Fields
      <3> QED BY <2>1, <2>2, <3>1, <3>2, SyncValueMembers, SyncConstants DEF Supersedes
    <2>3. CASE values # {"deleted"} /\ Cardinality(values) = 1
      <3>1. PICK x : values = {x}
        BY <1>1, <2>3, FS_Singleton
      <3>2. x \in Values /\ new = Holding(x)
        BY <1>1, <1>3, <2>1, <2>3, <3>1 DEF Materialize
      <3>3. Present(local) =>
              (IF "value" \in DOMAIN local THEN local["value"] ELSE "deleted") # x
        BY <3>2, SyncValueShape, SyncConstants DEF Present, Fields
      <3> QED BY <2>1, <2>3, <3>1, <3>2, <3>3, SyncValueMembers DEF Supersedes
    <2>4. CASE values # {"deleted"} /\ Cardinality(values) # 1
      <3>1. ~Present(local) /\ new = Bare
        BY <1>3, <2>1, <2>4 DEF Materialize
      <3>2. Cardinality(values) <= 1
        BY <1>1, <2>1, <3>1 DEF Conflicts, Fields
      <3> QED BY <2>1, <3>1, <3>2, SyncValueMembers DEF Supersedes
    <2> QED BY <2>2, <2>3, <2>4
  <1> QED BY <1>2, <1>3

\* Every preview shows what its replica materializes to over the state it was made from.
Materialized(p) == p.effective = Materialize(p.local, p.doc)
PreviewsMaterialized ==
    \A d \in Devices :
        /\ held[d] # None => Materialized(held[d])
        /\ job[d].phase \in {"confirm", "apply"} => Materialized(job[d].preview)

\* A preview, resolved or not, is materialized when it comes to the transaction.
LEMMA MaterializedStep ==
    ASSUME TypeOK, PreviewsMaterialized, [Next]_vars
    PROVE  PreviewsMaterialized'
  <1>1. CASE UNCHANGED vars
    BY <1>1 DEF vars, PreviewsMaterialized
  <1>2. ASSUME NEW d \in Devices,
               Operation(d) \/ Edit(d) \/ TakeCopy(d) \/ Restart(d) \/ RestoreCopy(d)
        PROVE  PreviewsMaterialized'
    <2>1. CASE AutoSync(d)
      <3>1. /\ \A e \in Devices \ {d} : job'[e] = job[e]
            /\ job'[d].preview = Preview(d) /\ held' = held
        BY <2>1 DEF AutoSync, TypeOK
      <3>2. Materialized(Preview(d))
        BY PreviewType DEF Materialized
      <3> QED BY <3>1, <3>2 DEF PreviewsMaterialized
    <2>2. CASE HoldPreview(d)
      <3>1. /\ \A e \in Devices \ {d} : held'[e] = held[e]
            /\ held'[d] = Preview(d) /\ job' = job
        BY <2>2 DEF HoldPreview, TypeOK
      <3>2. Materialized(Preview(d))
        BY PreviewType DEF Materialized
      <3> QED BY <3>1, <3>2 DEF PreviewsMaterialized
    <2>3. CASE ResolveConflict(d)
      <3>1. /\ \A e \in Devices \ {d} : held'[e] = held[e]
            /\ job' = job /\ Materialized(held'[d])
        BY <2>3, ResolveEffect DEF ResolveConflict, Materialized
      <3> QED BY <3>1 DEF PreviewsMaterialized
    <2>4. CASE ApplyHeld(d)
      <3>1. /\ \A e \in Devices \ {d} : held'[e] = held[e] /\ job'[e] = job[e]
            /\ held[d] # None /\ held'[d] = None /\ job'[d].preview = held[d]
        BY <2>4 DEF ApplyHeld, TypeOK
      <3> QED BY <3>1 DEF PreviewsMaterialized
    <2>5. CASE Confirm(d) \/ Cancel(d)
      <3>1. /\ \A e \in Devices \ {d} : job'[e] = job[e]
            /\ job[d].phase = "confirm" /\ held' = held
            /\ job'[d].phase = "idle" \/ job'[d].preview = job[d].preview
        BY <2>5, IdleType DEF Confirm, Cancel, TypeOK
      <3> QED BY <3>1 DEF PreviewsMaterialized
    <2>6. CASE Apply(d) \/ Reserve(d) \/ Upload(d) \/ Register(d) \/ Acknowledge(d)
      <3>1. \A e \in Devices : job'[e] = job[e] \/ job'[e].phase \notin {"confirm", "apply"}
        <4>1. CASE Apply(d)
          <5>1. PICK j \in {Idle, [phase |-> "publish", preview |-> None]} :
                   job' = [job EXCEPT ![d] = j]
            BY <4>1 DEF Apply
          <5> QED BY <5>1, IdleType DEF TypeOK
        <4>2. CASE Reserve(d)
          BY <4>2, IdleType, ReserveEffect DEF TypeOK
        <4>3. CASE Upload(d)
          <5>1. PICK j \in {Idle, [job[d] EXCEPT !.phase = "register"]} : job' = [job EXCEPT ![d] = j]
            BY <4>3, UploadEffect
          <5> QED BY <5>1, IdleType DEF TypeOK
        <4>4. CASE Register(d)
          BY <4>4, IdleType DEF Register, TypeOK
        <4>5. CASE Acknowledge(d)
          BY <4>5 DEF Acknowledge, TypeOK
        <4> QED BY <2>6, <4>1, <4>2, <4>3, <4>4, <4>5
      <3>2. held' = held
        BY <2>6 DEF Apply, Reserve, Upload, Register, Acknowledge
      <3> QED BY <3>1, <3>2 DEF PreviewsMaterialized
    <2>7. CASE Edit(d) \/ TakeCopy(d)
      BY <2>7 DEF Edit, TakeCopy, PreviewsMaterialized
    <2>8. CASE Restart(d) \/ RestoreCopy(d)
      <3>1. /\ \A e \in Devices : job'[e] = job[e] \/ job'[e].phase = "idle"
            /\ \A e \in Devices : held'[e] = held[e] \/ held'[e] = None
        BY <2>8, IdleType DEF Restart, RestoreCopy, NextProcess, TypeOK
      <3> QED BY <3>1 DEF PreviewsMaterialized
    <2> QED BY <1>2, <2>1, <2>2, <2>3, <2>4, <2>5, <2>6, <2>7, <2>8 DEF Operation
  <1> QED BY <1>1, <1>2 DEF Next

\* An apply is the only step that goes from the transaction to the publication.
LEMMA ApplySupersedes ==
    ASSUME TypeOK, PreviewsMaterialized, [Next]_vars, NEW d \in Devices,
           job[d].phase = "apply", job'[d].phase = "publish", db[d].local # db'[d].local
    PROVE  Supersedes(db[d].local, db'[d].local, db'[d].record.replica)
  <1>1. PICK e \in Devices :
          Operation(e) \/ Edit(e) \/ TakeCopy(e) \/ Restart(e) \/ RestoreCopy(e)
    BY DEF Next, vars
  <1>2. CASE ~Apply(d)
    <2>1. job'[d] = job[d] \/ job'[d].phase = "idle"
      <3>1. CASE e # d /\ Operation(e)
        <4>1. \/ job' = job
              \/ \E j : job' = [job EXCEPT ![e] = j]
              \/ \E f : job' = [job EXCEPT ![e].phase = f]
          <5>1. CASE AutoSync(e) \/ HoldPreview(e) \/ ResolveConflict(e) \/ ApplyHeld(e)
            BY <5>1 DEF AutoSync, HoldPreview, ResolveConflict, ApplyHeld
          <5>2. CASE Confirm(e) \/ Cancel(e)
            BY <5>2 DEF Confirm, Cancel
          <5>3. CASE Apply(e)
            BY <5>3 DEF Apply
          <5>4. CASE Reserve(e)
            BY <5>4 DEF Reserve
          <5>5. CASE Upload(e)
            BY <5>5 DEF Upload
          <5>6. CASE Register(e) \/ Acknowledge(e)
            BY <5>6 DEF Register, Acknowledge
          <5> QED BY <3>1, <5>1, <5>2, <5>3, <5>4, <5>5, <5>6 DEF Operation
        <4> QED BY <3>1, <4>1 DEF TypeOK
      <3>2. CASE e = d /\ Operation(e)
        BY <1>2, <3>2 DEF Operation, AutoSync, HoldPreview, ResolveConflict, ApplyHeld,
           Confirm, Cancel, Reserve, Upload, Register, Acknowledge, Idle
      <3>3. CASE ~Operation(e)
        BY <1>1, <3>3, IdleType DEF Edit, TakeCopy, Restart, RestoreCopy, NextProcess, TypeOK
      <3> QED BY <3>1, <3>2, <3>3
    <2> QED BY <2>1
  <1>3. CASE Apply(d)
    <2> DEFINE p == job[d].preview
    <2>1. StillCurrent(d, p)
      BY <1>3, IdleType DEF Apply, TypeOK
    <2>2. p \in Previews /\ db'[d].local = p.effective /\ db'[d].record.replica = p.doc
      BY <1>3, <2>1, ApplyEffect
    <2>3. p.local = db[d].local /\ p.effective = Materialize(p.local, p.doc)
      BY <1>3, <2>1 DEF StillCurrent, PreviewsMaterialized, Materialized, Apply
    <2>4. p.local \in SyncValues /\ p.doc \in Replicas
      BY <2>2 DEF Previews
    <2> QED BY <2>2, <2>3, <2>4, MaterializeSupersedes
  <1> QED BY <1>2, <1>3

\* No apply of any device overwrites a concurrent value, deletes a resource whose
\* presence is in doubt or creates one with a register in doubt, for any replicas
\* and any order of their arrival (materialize, apply_core_plan).
THEOREM AppliesOnlyTheUndisputed == Spec => ReplacedWhenSuperseded
  <1>1. Init => PreviewsMaterialized
    BY IdleType DEF Init, PreviewsMaterialized
  <1>2. TypeOK /\ PreviewsMaterialized /\ [Next]_vars =>
          [\A d \in Devices :
              /\ job[d].phase = "apply" /\ job'[d].phase = "publish"
              /\ db[d].local # db'[d].local
              => Supersedes(db[d].local, db'[d].local, db'[d].record.replica)]_vars
    BY ApplySupersedes
  <1>3. TypeOK /\ PreviewsMaterialized /\ [Next]_vars => PreviewsMaterialized'
    BY MaterializedStep
  <1> QED BY <1>1, <1>2, <1>3, TypeInit, TypeStep, PTL DEF Spec, ReplacedWhenSuperseded

-----------------------------------------------------------------------------
(* Edits.                                                                  *)

\* What a sync of the database b starts from: the record, or a new one.
Baseline(b) == IF b.record = None THEN Nothing ELSE b.record.effective
OperationsIn(b) == IF b.record = None THEN {} ELSE b.record.replica
AppliedIn(b) == IF b.record = None THEN 0 ELSE b.record.applied

\* The next capture writes the state the resource has in b.
Uncaptured(b) ==
    \/ Present(b.local) # Present(Baseline(b))
    \/ Present(b.local) /\ At(b.local, "value") # At(Baseline(b), "value")
    \/ "value" \in DOMAIN b.local /\ b.journal["value"] > AppliedIn(b)

\* What the user wants is in the replica, or the next capture writes it.
Kept(b) ==
    \/ b.intent = None
    \/ Holds(OperationsIn(b), b.intent)
    \/ b.intent = b.local /\ Uncaptured(b)

\* A resource that is part of the baseline was written at some time.
BaselineWritten(b) == Present(Baseline(b)) => Holds(OperationsIn(b), Bare)

\* The journal knows what was edited since the last apply, and nothing else.
Tracked(b) ==
    /\ AppliedIn(b) <= b.generation /\ \A f \in Fields : b.journal[f] <= b.generation
    /\ b.record # None /\ ~b.touched =>
          b.local = b.record.effective /\ \A f \in Fields : b.journal[f] <= b.record.applied
    /\ /\ b.record # None /\ b.touched /\ b.local = b.record.effective
       /\ "value" \in DOMAIN b.local
       => b.journal["value"] > b.record.applied

\* The operations of a replica are numbered below its size, and so are its branches.
Numbered(doc) ==
    \A o \in doc : /\ o.n <= Cardinality(doc)
                   /\ o.writer \notin Processes => o.writer[3] < Cardinality(doc)

DatabaseInv(b) ==
    Kept(b) /\ BaselineWritten(b) /\ Tracked(b) /\ Numbered(OperationsIn(b))

\* A preview nobody edited after holds what the user wants.
PreviewInv(b, p) ==
    /\ p.generation <= b.generation
    /\ p.generation = b.generation => b.intent = None \/ Holds(p.doc, b.intent)
    /\ Present(p.local) => Holds(p.doc, Bare)
    /\ Numbered(p.doc)

EditsInv ==
    /\ \A d \in Devices : DatabaseInv(db[d])
    /\ copy # None => DatabaseInv(copy)
    /\ \A d \in Devices :
          /\ held[d] # None => PreviewInv(db[d], held[d])
          /\ job[d].phase \in {"confirm", "apply"} => PreviewInv(db[d], job[d].preview)
    /\ \A id \in Issued : Numbered(id.replica)

\* A larger replica holds what a smaller one does.
LEMMA HoldsMore ==
    ASSUME NEW doc, NEW more, doc \subseteq more, NEW s, Holds(doc, s)
    PROVE  Holds(more, s)
  BY DEF Holds

Counted(doc) == \A o \in doc : o.n <= Cardinality(doc)

\* An operation written to a replica is a new one of its writer.
LEMMA PutCounted ==
    ASSUME NEW doc \in Replicas, Counted(doc), NEW w \in Authors, NEW f \in Fields, NEW v,
           v \in IF f = "value" THEN Values \cup {"deleted"} ELSE {"true", "false"}
    PROVE  /\ Counted(Put(doc, w, f, v)) /\ Put(doc, w, f, v) # doc
           /\ Cardinality(Put(doc, w, f, v)) = Cardinality(doc) + 1
           /\ \A o \in Put(doc, w, f, v) : o \in doc \/ o.writer = w
  <1>1. PICK o \in Operations : /\ o.n = Cardinality(doc) + 1 /\ o.writer = w
                               /\ Put(doc, w, f, v) = doc \cup {o}
    BY PutType
  <1>2. IsFiniteSet(doc) /\ Cardinality(doc) \in Nat /\ \A p \in doc : p.n \in Nat
    BY FS_CardinalityType DEF Replicas, Operations, OperationsOn
  <1>3. o \notin doc
    BY <1>1, <1>2 DEF Counted
  <1>4. Cardinality(doc \cup {o}) = Cardinality(doc) + 1
    BY <1>2, <1>3, FS_AddElement
  <1> QED BY <1>1, <1>2, <1>3, <1>4 DEF Counted

\* Whether a capture writes anything.
Writes(baseline, current, edited) ==
    \/ Present(baseline) /\ ~Present(current)
    \/ \E f \in DOMAIN baseline \cup DOMAIN current :
          At(baseline, f) # At(current, f) \/ f \in edited

\* A capture writes new operations of the writer, or nothing.
LEMMA CaptureCounted ==
    ASSUME NEW doc \in Replicas, Counted(doc), NEW w \in Authors, NEW baseline \in SyncValues,
           NEW current \in SyncValues, NEW edited \in SUBSET Fields
    PROVE  LET C == Capture(doc, w, baseline, current, edited)
           IN /\ Counted(C) /\ Cardinality(doc) <= Cardinality(C)
              /\ \A o \in C : o \in doc \/ o.writer = w
              /\ C # doc <=> Writes(baseline, current, edited)
  <1> DEFINE value == IF "value" \in DOMAIN current THEN current["value"] ELSE "deleted"
             P == Put(doc, w, "value", value)
             D == Put(doc, w, "$present", "false")
             T == Put(doc, w, "$present", "true")
             Q == Put(P, w, "$present", "true")
             C == Capture(doc, w, baseline, current, edited)
             Fine(S) == /\ Counted(S) /\ Cardinality(doc) <= Cardinality(S)
                        /\ \A o \in S : o \in doc \/ o.writer = w
  <1>1. value \in Values \cup {"deleted"} /\ "value" \in Fields /\ "$present" \in Fields
    BY SyncValueShape DEF Nothing, Fields
  <1>2. Cardinality(doc) \in Nat
    BY FS_CardinalityType DEF Replicas
  <1>3. /\ P \in Replicas /\ doc \subseteq P
        /\ Counted(P) /\ P # doc /\ Cardinality(P) = Cardinality(doc) + 1
        /\ \A o \in P : o \in doc \/ o.writer = w
    BY <1>1, PutType, PutCounted
  <1>4. /\ Counted(D) /\ D # doc /\ Cardinality(D) = Cardinality(doc) + 1
        /\ \A o \in D : o \in doc \/ o.writer = w
    BY <1>1, PutCounted
  <1>5. /\ Counted(T) /\ T # doc /\ Cardinality(T) = Cardinality(doc) + 1
        /\ \A o \in T : o \in doc \/ o.writer = w
    BY <1>1, PutCounted
  <1>6. /\ Counted(Q) /\ Cardinality(Q) = Cardinality(doc) + 2
        /\ P \subseteq Q /\ \A o \in Q : o \in doc \/ o.writer = w
    <2> HIDE DEF P
    <2>1. /\ Counted(Q) /\ Cardinality(Q) = Cardinality(P) + 1
          /\ P \subseteq Q /\ \A o \in Q : o \in P \/ o.writer = w
      BY <1>1, <1>3, PutType, PutCounted
    <2> QED BY <1>2, <1>3, <2>1
  <1>7. Q # doc
    BY <1>3, <1>6
  <1>8. C = IF ~Writes(baseline, current, edited) THEN doc
            ELSE IF Present(baseline) /\ ~Present(current) THEN D
            ELSE IF /\ "value" \in DOMAIN baseline \cup DOMAIN current
                    /\ At(baseline, "value") # At(current, "value") \/ "value" \in edited
                 THEN Q ELSE T
    BY DEF Capture, Writes
  <1> HIDE DEF C, P, D, T, Q
  <1>9. Fine(D) /\ Fine(T) /\ Fine(Q) /\ Fine(doc)
    BY <1>2, <1>4, <1>5, <1>6
  <1>10. Fine(C) /\ (C # doc <=> Writes(baseline, current, edited))
    BY <1>4, <1>5, <1>7, <1>8, <1>9
  <1> QED BY <1>10 DEF C

\* What a capture writes of the current state.
LEMMA CaptureHolds ==
    ASSUME NEW doc \in Replicas, NEW w \in Authors, NEW baseline \in SyncValues,
           NEW current \in SyncValues, NEW edited \in SUBSET Fields
    PROVE  LET C == Capture(doc, w, baseline, current, edited)
           IN /\ Present(baseline) /\ ~Present(current) => Holds(C, current)
              /\ /\ "value" \in DOMAIN current
                 /\ At(baseline, "value") # At(current, "value") \/ "value" \in edited
                 => Holds(C, current)
              /\ Present(current) /\ Writes(baseline, current, edited) => Holds(C, Bare)
  <1> DEFINE value == IF "value" \in DOMAIN current THEN current["value"] ELSE "deleted"
             P == Put(doc, w, "value", value)
             D == Put(doc, w, "$present", "false")
             T == Put(doc, w, "$present", "true")
             Q == Put(P, w, "$present", "true")
             C == Capture(doc, w, baseline, current, edited)
  <1>1. value \in Values \cup {"deleted"} /\ "value" \in Fields /\ "$present" \in Fields
    BY SyncValueShape DEF Nothing, Fields
  <1>2. P \in Replicas /\ \E o \in P : o.field = "value" /\ o.value = value
    BY <1>1, PutType
  <1>3. \E o \in D : o.field = "$present" /\ o.value = "false"
    BY <1>1, PutType
  <1>4. \E o \in T : o.value = "true"
    BY <1>1, PutType
  <1>5. P \subseteq Q /\ \E o \in Q : o.value = "true"
    <2> HIDE DEF P
    <2> QED BY <1>1, <1>2, PutType
  <1>6. C = IF ~Writes(baseline, current, edited) THEN doc
            ELSE IF Present(baseline) /\ ~Present(current) THEN D
            ELSE IF /\ "value" \in DOMAIN baseline \cup DOMAIN current
                    /\ At(baseline, "value") # At(current, "value") \/ "value" \in edited
                 THEN Q ELSE T
    BY DEF Capture, Writes
  <1>7. /\ Present(Bare) /\ "value" \notin DOMAIN Bare
        /\ "value" \in DOMAIN current => Present(current)
        /\ ~Present(current) => "value" \notin DOMAIN current
    BY SyncValueShape DEF Present, Bare, Fields
  <1> HIDE DEF C, P, D, T, Q
  <1>8. Present(baseline) /\ ~Present(current) => Holds(C, current)
    BY <1>3, <1>6, <1>7 DEF Writes, Holds
  <1>9. /\ "value" \in DOMAIN current
        /\ At(baseline, "value") # At(current, "value") \/ "value" \in edited
        => Holds(C, current)
    BY <1>2, <1>5, <1>6, <1>7 DEF Writes, Holds
  <1>10. Present(current) /\ Writes(baseline, current, edited) => Holds(C, Bare)
    BY <1>4, <1>5, <1>6, <1>7 DEF Holds
  <1> QED BY <1>8, <1>9, <1>10 DEF C

\* The record a sync starts from has what the database has.
LEMMA LoadedFields ==
    ASSUME TypeOK, NEW d \in Devices
    PROVE  LET r == LoadedRecord(d)
               b == db[d]
           IN /\ r \in Records /\ r.writer \in Processes
              /\ r.replica \in Replicas /\ r.effective \in SyncValues /\ r.applied \in Nat
              /\ r.replica = OperationsIn(b) /\ r.effective = Baseline(b)
              /\ r.applied = AppliedIn(b)
              /\ b.local \in SyncValues /\ b.generation \in Nat /\ b.journal \in [Fields -> Nat]
  <1> DEFINE r == LoadedRecord(d)
             b == db[d]
  <1>1. r \in Records
    BY LoadedType
  <1>2. b.local \in SyncValues /\ b.generation \in Nat /\ b.journal \in [Fields -> Nat]
        /\ b.record \in Records \cup {None}
    BY DEF TypeOK, Databases
  <1>3. r.replica = OperationsIn(b) /\ r.effective = Baseline(b) /\ r.applied = AppliedIn(b)
    BY <1>2 DEF LoadedRecord, NewRecord, Adopt, Records, OperationsIn, Baseline, AppliedIn
  <1> QED BY <1>1, <1>2, <1>3 DEF Records

\* The branch of a resource without a baseline: new operations of a new writer.
LEMMA BranchCaptured ==
    ASSUME NEW doc \in Replicas, Numbered(doc), NEW w \in Processes, NEW local \in SyncValues,
           Present(local)
    PROVE  LET B == Capture({}, Branch(w, Cardinality(doc)), Nothing, local, {})
           IN /\ Numbered(doc \cup B) /\ doc \cup B # doc
              /\ Holds(B, local) /\ Holds(B, Bare)
  <1> DEFINE c == Cardinality(doc)
             v == Branch(w, c)
             B == Capture({}, v, Nothing, local, {})
  <1>1. IsFiniteSet(doc) /\ c \in Nat
    BY FS_CardinalityType DEF Replicas
  <1>2. v \in Authors /\ v \notin Processes /\ v[3] = c
    BY <1>1, NewReplica DEF Branch
  <1>3. {} \in Replicas /\ Counted({}) /\ Nothing \in SyncValues /\ {} \in SUBSET Fields
    BY NewReplica, SyncValueMembers DEF Counted
  <1>4. Writes(Nothing, local, {})
    BY SyncValueShape, SyncConstants DEF Writes, At, Present, Nothing, Fields
  <1> HIDE DEF v
  <1>5. B \in Replicas
    BY <1>2, <1>3, CaptureType
  <1>6. Counted(B) /\ B # {} /\ \A o \in B : o.writer = v
    <2>1. PICK e : e = {}
      OBVIOUS
    <2>2. e \in Replicas /\ Counted(e) /\ e \in SUBSET Fields
      BY <1>3, <2>1
    <2>3. /\ Counted(Capture(e, v, Nothing, local, e))
          /\ \A o \in Capture(e, v, Nothing, local, e) : o \in e \/ o.writer = v
          /\ Capture(e, v, Nothing, local, e) # e <=> Writes(Nothing, local, e)
      BY <1>2, <1>3, <2>2, CaptureCounted
    <2> QED BY <1>4, <2>1, <2>3
  <1>7. Holds(B, local) /\ Holds(B, Bare)
    <2>1. Holds(B, Bare)
      BY <1>2, <1>3, <1>4, CaptureHolds
    <2>2. CASE local = Bare
      BY <2>1, <2>2
    <2>3. CASE local # Bare
      <3>1. "value" \in DOMAIN local /\ At(Nothing, "value") # At(local, "value")
        BY <2>3, SyncValueShape, SyncConstants DEF At, Present, Nothing, Fields
      <3>2. Holds(B, local)
        BY <1>2, <1>3, <3>1, CaptureHolds
      <3> QED BY <2>1, <3>2
    <2> QED BY <2>2, <2>3
  <1> HIDE DEF B
  <1>8. IsFiniteSet(B) /\ Cardinality(B) \in Nat /\ Cardinality(B) # 0
    BY <1>5, <1>6, FS_CardinalityType, FS_EmptySet DEF Replicas
  <1>9. doc \cap B = {}
    BY <1>1, <1>2, <1>6 DEF Numbered
  <1>10. Cardinality(doc \cup B) = c + Cardinality(B)
    <2>1. Cardinality(doc \cap B) = 0
      BY <1>9, FS_EmptySet
    <2>2. Cardinality(doc \cup B) = Cardinality(doc) + Cardinality(B) - Cardinality(doc \cap B)
      BY <1>1, <1>8, FS_Union
    <2> QED BY <1>1, <1>8, <2>1, <2>2
  <1>11. ASSUME NEW o \in doc \cup B
         PROVE  /\ o.n <= c + Cardinality(B)
                /\ o.writer \notin Processes => o.writer[3] < c + Cardinality(B)
    <2>1. o.n \in Nat /\ (o.writer \notin Processes => o.writer[3] \in Nat)
      BY <1>5 DEF Replicas, Operations, OperationsOn, Authors
    <2>2. CASE o \in doc
      BY <1>1, <1>8, <2>1, <2>2 DEF Numbered
    <2>3. CASE o \in B
      BY <1>1, <1>2, <1>6, <1>8, <2>1, <2>3 DEF Counted
    <2> QED BY <2>2, <2>3
  <1>12. Numbered(doc \cup B)
    BY <1>10, <1>11 DEF Numbered
  <1>13. doc \cup B # doc
    BY <1>6, <1>9
  <1> QED BY <1>7, <1>12, <1>13 DEF B, v

\* Captures on the replica itself keep it numbered.
LEMMA CaptureNumbered ==
    ASSUME NEW doc \in Replicas, Numbered(doc), NEW w \in Processes, NEW baseline \in SyncValues,
           NEW current \in SyncValues, NEW edited \in SUBSET Fields
    PROVE  Numbered(Capture(doc, w, baseline, current, edited))
  <1> DEFINE C == Capture(doc, w, baseline, current, edited)
  <1>1. Counted(doc) /\ w \in Authors
    BY NewReplica DEF Numbered, Counted
  <1>2. /\ Counted(C) /\ Cardinality(doc) <= Cardinality(C) /\ C \in Replicas
        /\ \A o \in C : o \in doc \/ o.writer = w
    BY <1>1, CaptureCounted, CaptureType
  <1> HIDE DEF C
  <1>3. Cardinality(C) \in Nat /\ Cardinality(doc) \in Nat
    BY <1>2, FS_CardinalityType DEF Replicas
  <1>4. \A o \in doc : o.writer \notin Processes => o.writer[3] \in Nat
    BY DEF Replicas, Operations, OperationsOn, Authors
  <1>5. Numbered(C)
    BY <1>2, <1>3, <1>4 DEF Numbered, Counted
  <1> QED BY <1>5 DEF C

\* prepare: the capture of a database holds what the user wants, and is empty
\* exactly when nothing was edited.
LEMMA CapturedInv ==
    ASSUME TypeOK, NEW d \in Devices, DatabaseInv(db[d])
    PROVE  LET r == LoadedRecord(d)
               b == db[d]
               C == Captured(d, r)
           IN /\ b.intent = None \/ Holds(C, b.intent)
              /\ Present(b.local) => Holds(C, Bare)
              /\ Numbered(C)
              /\ b.record # None /\ C # r.replica => b.touched
              /\ /\ b.record # None /\ b.touched
                 /\ b.local # r.effective \/ "value" \in DOMAIN b.local
                 => C # r.replica
  <1> DEFINE r == LoadedRecord(d)
             b == db[d]
             C == Captured(d, r)
             E == Edited(d, r)
  <1>1. /\ r \in Records /\ r.writer \in Processes /\ r.replica \in Replicas
        /\ r.effective \in SyncValues /\ b.local \in SyncValues /\ r.applied \in Nat
        /\ b.journal \in [Fields -> Nat]
        /\ r.replica = OperationsIn(b) /\ r.effective = Baseline(b) /\ r.applied = AppliedIn(b)
    BY LoadedFields
  <1>2. r.replica \subseteq C /\ r.writer \in Authors
    BY <1>1, CapturedType, NewReplica
  <1>3. Kept(b) /\ BaselineWritten(b) /\ Tracked(b) /\ Numbered(r.replica)
    BY <1>1 DEF DatabaseInv
  <1>4. E = {f \in Fields : b.journal[f] > r.applied}
    BY DEF Edited
  <1> HIDE DEF r, E
  <1>5. b.record # None => r.effective = b.record.effective /\ r.applied = b.record.applied
    BY <1>1 DEF Baseline, AppliedIn
  <1>6. CASE Present(b.local) /\ ~Present(r.effective)
    <2> DEFINE B == Capture({}, Branch(r.writer, Cardinality(r.replica)), Nothing, b.local, {})
    <2>1. C = r.replica \cup B
      BY <1>6 DEF Captured
    <2>2. /\ Numbered(r.replica \cup B) /\ r.replica \cup B # r.replica
          /\ Holds(B, b.local) /\ Holds(B, Bare)
      BY <1>1, <1>3, <1>6, BranchCaptured
    <2> HIDE DEF B
    <2>3. Holds(C, b.local) /\ Holds(C, Bare)
      BY <2>1, <2>2, HoldsMore
    <2>4. b.intent = None \/ Holds(C, b.intent)
      BY <1>1, <1>2, <1>3, <2>3, HoldsMore DEF Kept
    <2>5. b.record # None => b.touched
      BY <1>3, <1>5, <1>6 DEF Tracked
    <2> HIDE DEF C
    <2> QED BY <2>1, <2>2, <2>3, <2>4, <2>5 DEF C, r
  <1>7. CASE ~(Present(b.local) /\ ~Present(r.effective))
    <2>1. C = Capture(r.replica, r.writer, r.effective, b.local, E)
      BY <1>7 DEF Captured, E
    <2>2. E \in SUBSET Fields
      BY <1>4
    <2>3. Numbered(C)
      BY <1>1, <1>3, <2>1, <2>2, CaptureNumbered
    <2>4. Counted(r.replica)
      BY <1>3 DEF Numbered, Counted
    <2>5. C # r.replica <=> Writes(r.effective, b.local, E)
      BY <1>1, <1>2, <2>1, <2>2, <2>4, CaptureCounted
    <2>6. /\ Present(r.effective) /\ ~Present(b.local) => Holds(C, b.local)
          /\ /\ "value" \in DOMAIN b.local
             /\ At(r.effective, "value") # At(b.local, "value") \/ "value" \in E
             => Holds(C, b.local)
          /\ Present(b.local) /\ Writes(r.effective, b.local, E) => Holds(C, Bare)
      BY <1>1, <1>2, <2>1, <2>2, CaptureHolds
    <2> HIDE DEF C
    <2>7. Present(b.local) => Holds(C, Bare)
      BY <1>1, <1>2, <1>3, <1>7, HoldsMore DEF BaselineWritten
    <2>8. ASSUME Uncaptured(b) PROVE Holds(C, b.local)
      <3>1. CASE ~Present(b.local)
        <4>1. Present(r.effective)
          BY <1>1, <2>8, <3>1, SyncValueShape DEF Uncaptured, Present, Fields
        <4> QED BY <2>6, <3>1, <4>1
      <3>2. CASE Present(b.local) /\ "value" \in DOMAIN b.local
        <4>1. At(r.effective, "value") # At(b.local, "value") \/ "value" \in E
          BY <1>1, <1>4, <1>7, <2>8, <3>2 DEF Uncaptured, Fields
        <4> QED BY <2>6, <3>2, <4>1
      <3>3. CASE Present(b.local) /\ "value" \notin DOMAIN b.local
        <4>1. b.local = Bare
          BY <1>1, <3>3, SyncValueShape DEF Present, Fields
        <4> QED BY <2>7, <3>3, <4>1
      <3> QED BY <3>1, <3>2, <3>3
    <2>9. b.intent = None \/ Holds(C, b.intent)
      BY <1>1, <1>2, <1>3, <2>8, HoldsMore DEF Kept
    <2>10. ASSUME b.record # None, ~b.touched PROVE C = r.replica
      <3>1. b.local = r.effective /\ E = {}
        BY <1>1, <1>3, <1>4, <1>5, <2>10 DEF Tracked
      <3>2. ~Writes(r.effective, b.local, E)
        BY <3>1 DEF Writes
      <3> QED BY <2>5, <3>2
    <2>11. ASSUME b.record # None, b.touched,
                  b.local # r.effective \/ "value" \in DOMAIN b.local
           PROVE  C # r.replica
      <3>1. CASE b.local # r.effective
        <4>1. Present(r.effective)
          BY <1>1, <1>7, <3>1, SyncValueShape DEF Present, Fields
        <4>2. CASE ~Present(b.local)
          BY <2>5, <4>1, <4>2 DEF Writes
        <4>3. CASE Present(b.local)
          <5>1. At(r.effective, "value") # At(b.local, "value")
            BY <1>1, <3>1, <4>1, <4>3, SyncValueAt
          <5>2. "value" \in DOMAIN r.effective \cup DOMAIN b.local
            BY <5>1 DEF At
          <5> QED BY <2>5, <5>1, <5>2 DEF Writes
        <4> QED BY <4>2, <4>3
      <3>2. CASE b.local = r.effective /\ "value" \in DOMAIN b.local
        <4>1. "value" \in E
          BY <1>3, <1>4, <1>5, <2>11, <3>2 DEF Tracked, Fields
        <4> QED BY <2>5, <3>2, <4>1 DEF Writes
      <3> QED BY <2>11, <3>1, <3>2
    <2> QED BY <2>3, <2>7, <2>9, <2>10, <2>11 DEF C, r
  <1> QED BY <1>6, <1>7

\* The preview just made holds what the user wants and what the others published.
LEMMA PreviewKeeps ==
    ASSUME TypeOK, EditsInv, NEW d \in Devices
    PROVE  PreviewInv(db[d], Preview(d))
  <1> DEFINE r == LoadedRecord(d)
             C == Captured(d, r)
             doc == Preview(d).doc
  <1>1. /\ db[d].intent = None \/ Holds(C, db[d].intent)
        /\ Present(db[d].local) => Holds(C, Bare)
        /\ Numbered(C)
    BY CapturedInv DEF EditsInv
  <1>2. /\ C \subseteq doc /\ Preview(d) \in Previews /\ Preview(d).generation = db[d].generation
        /\ Preview(d).local = db[d].local
    BY PreviewType
  <1>3. doc = C \cup UNION {p.replica : p \in News(r)}
    BY DEF Preview
  <1>4. C \in Replicas /\ doc \in Replicas
    BY <1>2, LoadedType, CapturedType DEF Previews
  <1>5. \A p \in News(r) : p \in Publications /\ Numbered(p.replica)
    <2>1. News(r) \subseteq Publications /\ News(r) \subseteq {o.id : o \in objects}
      BY NewsType
    <2>2. \A p \in News(r) : p \in Issued
      BY <2>1 DEF Issued
    <2> QED BY <2>1, <2>2 DEF EditsInv
  <1> HIDE DEF C, doc, r
  <1>6. ASSUME NEW part \in Replicas, part \subseteq doc, Numbered(part), NEW o \in part
        PROVE  /\ o.n <= Cardinality(doc)
               /\ o.writer \notin Processes => o.writer[3] < Cardinality(doc)
    <2>1. IsFiniteSet(doc) /\ Cardinality(part) <= Cardinality(doc)
      BY <1>4, <1>6, FS_Subset DEF Replicas
    <2>2. Cardinality(part) \in Nat /\ Cardinality(doc) \in Nat
      BY <1>4, <1>6, FS_CardinalityType DEF Replicas
    <2>3. o.n \in Nat /\ (o.writer \notin Processes => o.writer[3] \in Nat)
      BY <1>6 DEF Replicas, Operations, OperationsOn, Authors
    <2> QED BY <1>6, <2>1, <2>2, <2>3 DEF Numbered
  <1>7. Numbered(doc)
    <2> SUFFICES ASSUME NEW o \in doc
                 PROVE  /\ o.n <= Cardinality(doc)
                        /\ o.writer \notin Processes => o.writer[3] < Cardinality(doc)
      BY DEF Numbered
    <2>1. PICK part \in Replicas : part \subseteq doc /\ Numbered(part) /\ o \in part
      BY <1>1, <1>3, <1>4, <1>5 DEF Publications
    <2> QED BY <1>6, <2>1
  <1>8. /\ db[d].intent = None \/ Holds(doc, db[d].intent)
        /\ Present(db[d].local) => Holds(doc, Bare)
    BY <1>1, <1>2, HoldsMore
  <1>9. db[d].generation \in Nat
    BY DEF TypeOK, Databases
  <1> QED BY <1>2, <1>7, <1>8, <1>9 DEF PreviewInv, doc

\* Resolving a conflict adds one numbered operation.
LEMMA ResolveKeeps ==
    ASSUME TypeOK, EditsInv, NEW d \in Devices, ResolveConflict(d)
    PROVE  PreviewInv(db[d], held'[d]) /\ held[d] # None
  <1> DEFINE p == held[d]
             q == held'[d]
  <1>1. /\ p \in Previews /\ p # None /\ p.doc \subseteq q.doc
        /\ q.generation = p.generation /\ q.local = p.local
    BY ResolveEffect
  <1>2. PICK f \in Fields :
          \E v \in IF f = "value" THEN Values \cup {"deleted"} ELSE {"true", "false"} :
             q.doc = Put(p.doc, p.record.writer, f, v)
    BY ResolveEffect
  <1>3. PICK v \in IF f = "value" THEN Values \cup {"deleted"} ELSE {"true", "false"} :
          q.doc = Put(p.doc, p.record.writer, f, v)
    BY <1>2
  <1>4. PreviewInv(db[d], p)
    BY <1>1 DEF EditsInv
  <1>5. p.doc \in Replicas /\ p.record.writer \in Processes
    BY <1>1 DEF Previews, Records
  <1>6. Counted(p.doc) /\ Numbered(p.doc) /\ Cardinality(p.doc) \in Nat
    BY <1>4, <1>5, FS_CardinalityType DEF PreviewInv, Numbered, Counted, Replicas
  <1>7. /\ Counted(q.doc) /\ Cardinality(q.doc) = Cardinality(p.doc) + 1
        /\ \A o \in q.doc : o \in p.doc \/ o.writer = p.record.writer
    BY <1>3, <1>5, <1>6, NewReplica, PutCounted
  <1>8. \A o \in p.doc : o.writer \notin Processes => o.writer[3] \in Nat
    BY <1>5 DEF Replicas, Operations, OperationsOn, Authors
  <1>9. Numbered(q.doc)
    BY <1>5, <1>6, <1>7, <1>8 DEF Numbered, Counted
  <1> QED BY <1>1, <1>4, <1>9, HoldsMore DEF PreviewInv

\* The transaction of an apply leaves a database that holds what the user wants.
LEMMA ApplyKeeps ==
    ASSUME TypeOK, EditsInv, PreviewsMaterialized, NEW d \in Devices, Apply(d),
           StillCurrent(d, job[d].preview)
    PROVE  DatabaseInv(db'[d])
  <1> DEFINE p == job[d].preview
             b == db'[d]
  <1>1. /\ p \in Previews /\ b.local \in {db[d].local, p.effective} /\ b.intent = db[d].intent
        /\ b.touched = FALSE
        /\ b.generation = IF b.local = db[d].local THEN db[d].generation
                          ELSE db[d].generation + 1
        /\ b.journal = Journalled(db[d].journal, db[d].local, b.local, b.generation)
        /\ b.record \in Records /\ b.record.replica = p.doc
        /\ b.record.effective = b.local /\ b.record.applied = b.generation
    BY ApplyEffect
  <1>2. /\ p.local = db[d].local /\ p.generation = db[d].generation
        /\ p.effective = Materialize(p.local, p.doc) /\ PreviewInv(db[d], p)
    BY DEF StillCurrent, PreviewsMaterialized, Materialized, EditsInv, Apply
  <1>3. p.local \in SyncValues /\ p.doc \in Replicas
    BY <1>1 DEF Previews
  <1>4. b.record # None
    BY <1>1, SyncConstants
  <1>5. OperationsIn(b) = p.doc /\ Baseline(b) = b.local /\ AppliedIn(b) = b.generation
    BY <1>1, <1>4 DEF OperationsIn, Baseline, AppliedIn
  <1>6. Kept(b) /\ Numbered(OperationsIn(b))
    BY <1>1, <1>2, <1>5 DEF Kept, PreviewInv
  <1>7. BaselineWritten(b)
    <2>1. CASE b.local = p.local
      BY <1>2, <1>5, <2>1 DEF BaselineWritten, PreviewInv
    <2>2. CASE b.local # p.local
      <3>1. b.local = Materialize(p.local, p.doc) /\ Supersedes(p.local, b.local, p.doc)
        BY <1>1, <1>2, <1>3, <2>2, MaterializeSupersedes
      <3>2. Present(b.local) => "true" \in CandidateValues(p.doc, "$present")
        BY <3>1 DEF Supersedes
      <3>3. Present(b.local) => \E o \in p.doc : o.value = "true"
        BY <3>2 DEF CandidateValues, Candidates
      <3>4. "value" \notin DOMAIN Bare /\ Present(Bare)
        BY DEF Bare, Present
      <3> QED BY <1>5, <3>3, <3>4 DEF BaselineWritten, Holds
    <2> QED BY <2>1, <2>2
  <1>8. Tracked(b)
    <2>1. /\ db[d].generation \in Nat /\ db[d].journal \in [Fields -> Nat]
          /\ \A f \in Fields : db[d].journal[f] <= db[d].generation
      BY DEF TypeOK, Databases, EditsInv, DatabaseInv, Tracked
    <2>2. b.generation \in Nat /\ b.generation >= db[d].generation
      BY <1>1, <2>1
    <2>3. \A f \in Fields : b.journal[f] \in {b.generation, db[d].journal[f]}
      BY <1>1, <2>1, <2>2, JournalType
    <2>4. \A f \in Fields : b.journal[f] <= b.generation
      BY <2>1, <2>2, <2>3
    <2> QED BY <1>1, <1>4, <1>5, <2>2, <2>4 DEF Tracked
  <1> QED BY <1>6, <1>7, <1>8 DEF DatabaseInv

\* An edit leaves a database whose next capture writes it.
LEMMA EditKeeps ==
    ASSUME TypeOK, EditsInv, NEW d \in Devices, Edit(d)
    PROVE  DatabaseInv(db'[d]) /\ db'[d].generation = db[d].generation + 1
  <1> DEFINE b == db'[d]
             old == db[d]
  <1>1. /\ b.record = old.record
        /\ b.local \in SyncValues /\ b.local # old.local
        /\ b.intent = IF b.local = Nothing /\ ~Synced(d) THEN None ELSE b.local
        /\ b.touched = TRUE /\ b.generation = old.generation + 1
        /\ b.journal = Journalled(old.journal, old.local, b.local, b.generation)
    BY EditEffect
  <1>2. /\ old.local \in SyncValues /\ old.generation \in Nat /\ old.journal \in [Fields -> Nat]
        /\ AppliedIn(old) \in Nat /\ Baseline(old) \in SyncValues
    BY LoadedFields
  <1>3. DatabaseInv(old)
    BY DEF EditsInv
  <1>4. /\ OperationsIn(b) = OperationsIn(old) /\ Baseline(b) = Baseline(old)
        /\ AppliedIn(b) = AppliedIn(old)
    BY <1>1 DEF OperationsIn, Baseline, AppliedIn
  <1>5. /\ AppliedIn(old) <= old.generation
        /\ \A f \in Fields : old.journal[f] <= old.generation
    BY <1>3 DEF DatabaseInv, Tracked
  <1>6. \A f \in Fields : b.journal[f] = IF At(old.local, f) # At(b.local, f) THEN b.generation
                                         ELSE old.journal[f]
    BY <1>1, <1>2, JournalType
  <1>7. "value" \in DOMAIN b.local => b.journal["value"] > AppliedIn(b)
    <2> SUFFICES ASSUME "value" \in DOMAIN b.local
                 PROVE  b.journal["value"] > AppliedIn(b)
      OBVIOUS
    <2>1. At(old.local, "value") # At(b.local, "value") /\ "value" \in Fields
      BY <1>1, <1>2, SyncValueShape, SyncConstants DEF At, Fields
    <2> QED BY <1>1, <1>2, <1>4, <1>5, <1>6, <2>1
  <1>8. Kept(b)
    <2>1. CASE b.local = Nothing
      <3>1. ~Present(b.local)
        BY <2>1, SyncValueMembers
      <3>2. CASE Synced(d)
        <4>1. Present(Baseline(b))
          BY <1>4, <3>2 DEF Synced, Baseline
        <4> QED BY <1>1, <2>1, <3>1, <3>2, <4>1 DEF Kept, Uncaptured
      <3>3. CASE ~Synced(d)
        BY <1>1, <2>1, <3>3 DEF Kept
      <3> QED BY <3>2, <3>3
    <2>2. CASE b.local = Bare
      <3>1. b.intent = Bare /\ Present(b.local) /\ At(b.local, "value") = None /\ b.local # Nothing
        BY <1>1, <2>2, SyncValueMembers DEF At, Bare
      <3>2. CASE Present(Baseline(b))
        BY <1>3, <1>4, <3>1, <3>2 DEF DatabaseInv, BaselineWritten, Kept
      <3>3. CASE ~Present(Baseline(b))
        BY <2>2, <3>1, <3>3 DEF Kept, Uncaptured
      <3> QED BY <3>2, <3>3
    <2>3. CASE b.local \notin {Nothing, Bare}
      <3>1. "value" \in DOMAIN b.local
        BY <1>1, <2>3, SyncValueShape DEF Fields
      <3> QED BY <1>1, <1>7, <2>3, <3>1 DEF Kept, Uncaptured
    <2> QED BY <2>1, <2>2, <2>3
  <1>9. Tracked(b)
    <2>1. \A f \in Fields : b.journal[f] <= b.generation
      BY <1>1, <1>2, <1>5, <1>6
    <2>2. b.record # None => AppliedIn(b) = b.record.applied
      BY DEF AppliedIn
    <2> QED BY <1>1, <1>2, <1>4, <1>5, <1>7, <2>1, <2>2 DEF Tracked
  <1>10. BaselineWritten(b) /\ Numbered(OperationsIn(b))
    BY <1>3, <1>4 DEF DatabaseInv, BaselineWritten
  <1> QED BY <1>1, <1>8, <1>9, <1>10 DEF DatabaseInv

\* A database whose record has the same baseline is as good.
LEMMA DatabaseSame ==
    ASSUME NEW b, NEW c, DatabaseInv(b), b.record # None, c.record # None,
           c.local = b.local, c.intent = b.intent, c.touched = b.touched,
           c.generation = b.generation, c.journal = b.journal,
           c.record.replica = b.record.replica, c.record.effective = b.record.effective,
           c.record.applied = b.record.applied
    PROVE  DatabaseInv(c)
  <1>1. OperationsIn(c) = OperationsIn(b) /\ Baseline(c) = Baseline(b) /\ AppliedIn(c) = AppliedIn(b)
    BY DEF OperationsIn, Baseline, AppliedIn
  <1> QED BY <1>1 DEF DatabaseInv, Kept, Uncaptured, BaselineWritten, Tracked

\* The parts of EditsInv that a step of d leaves to prove.
LEMMA EditsKept ==
    ASSUME TypeOK, EditsInv, OnlyReserved, NEW d \in Devices,
           \A e \in Devices \ {d} : db'[e] = db[e] /\ held'[e] = held[e] /\ job'[e] = job[e],
           copy' \in {copy, None, db[d]},
           DatabaseInv(db'[d]),
           held'[d] # None => PreviewInv(db'[d], held'[d]),
           job'[d].phase \in {"confirm", "apply"} => PreviewInv(db'[d], job'[d].preview)
    PROVE  EditsInv'
  <1>1. \A e \in Devices : DatabaseInv(db'[e])
    BY DEF EditsInv
  <1>2. copy' # None => DatabaseInv(copy')
    BY DEF EditsInv
  <1>3. \A e \in Devices :
          /\ held'[e] # None => PreviewInv(db'[e], held'[e])
          /\ job'[e].phase \in {"confirm", "apply"} => PreviewInv(db'[e], job'[e].preview)
    BY DEF EditsInv, PreviewInv
  <1>4. \A id \in Issued' : Numbered(id.replica)
    BY DEF OnlyReserved, EditsInv, DatabaseInv, OperationsIn, Recorded
  <1> QED BY <1>1, <1>2, <1>3, <1>4 DEF EditsInv

\* No step of a device forgets or invents an edit.
LEMMA EditsStep ==
    ASSUME TypeOK, PreviewsMaterialized, EditsInv, OnlyReserved, [Next]_vars
    PROVE  EditsInv'
  <1>1. CASE UNCHANGED vars
    <2>1. Issued' = Issued
      BY <1>1 DEF vars, Issued, PendingIn
    <2> QED BY <1>1, <2>1 DEF vars, EditsInv
  <1>2. ASSUME NEW d \in Devices,
               Operation(d) \/ Edit(d) \/ TakeCopy(d) \/ Restart(d) \/ RestoreCopy(d)
        PROVE  EditsInv'
    <2>1. /\ DatabaseInv(db[d])
          /\ held[d] # None => PreviewInv(db[d], held[d])
          /\ job[d].phase \in {"confirm", "apply"} => PreviewInv(db[d], job[d].preview)
      BY DEF EditsInv
    <2>2. CASE AutoSync(d)
      <3>1. /\ \A e \in Devices \ {d} : job'[e] = job[e]
            /\ job'[d].preview = Preview(d) /\ UNCHANGED <<db, held, copy>>
        BY <2>2 DEF AutoSync, TypeOK, backup
      <3> QED BY <2>1, <3>1, PreviewKeeps, EditsKept
    <2>3. CASE HoldPreview(d)
      <3>1. /\ \A e \in Devices \ {d} : held'[e] = held[e]
            /\ held'[d] = Preview(d) /\ UNCHANGED <<db, job, copy>>
        BY <2>3 DEF HoldPreview, TypeOK, backup
      <3> QED BY <2>1, <3>1, PreviewKeeps, EditsKept
    <2>4. CASE ResolveConflict(d)
      <3>1. \A e \in Devices \ {d} : held'[e] = held[e]
        BY <2>4, ResolveEffect
      <3>2. UNCHANGED <<db, job, copy>>
        BY <2>4 DEF ResolveConflict, backup
      <3> QED BY <2>1, <2>4, <3>1, <3>2, ResolveKeeps, EditsKept
    <2>5. CASE ApplyHeld(d)
      <3>1. /\ \A e \in Devices \ {d} : held'[e] = held[e] /\ job'[e] = job[e]
            /\ held[d] # None /\ held'[d] = None /\ job'[d].preview = held[d]
            /\ UNCHANGED <<db, copy>>
        BY <2>5 DEF ApplyHeld, TypeOK, backup
      <3> QED BY <2>1, <3>1, EditsKept
    <2>6. CASE Confirm(d) \/ Cancel(d)
      <3>1. /\ \A e \in Devices \ {d} : job'[e] = job[e]
            /\ job[d].phase = "confirm" /\ UNCHANGED <<db, held, copy>>
            /\ job'[d].phase = "idle" \/ job'[d].preview = job[d].preview
        BY <2>6, IdleType DEF Confirm, Cancel, TypeOK, backup
      <3> QED BY <2>1, <3>1, EditsKept
    <2>7. CASE Apply(d) /\ ~StillCurrent(d, job[d].preview)
      <3>1. UNCHANGED <<db, held, copy>> /\ job' = [job EXCEPT ![d] = Idle]
        BY <2>7 DEF Apply, backup
      <3>2. job'[d].phase = "idle" /\ \A e \in Devices \ {d} : job'[e] = job[e]
        BY <3>1, IdleType DEF TypeOK
      <3> QED BY <2>1, <3>1, <3>2, EditsKept
    <2>8. CASE Apply(d) /\ StillCurrent(d, job[d].preview)
      <3>1. /\ OnlyOf(d) /\ db'[d].intent = db[d].intent
            /\ job' = [job EXCEPT ![d] = [phase |-> "publish", preview |-> None]]
            /\ db'[d].generation \in {db[d].generation, db[d].generation + 1}
        BY <2>8, ApplyEffect
      <3>2. UNCHANGED <<held, copy>>
        BY <2>8 DEF Apply, backup
      <3>3. /\ job'[d].phase = "publish"
            /\ \A e \in Devices \ {d} : db'[e] = db[e] /\ job'[e] = job[e]
        BY <3>1 DEF OnlyOf, TypeOK
      <3>4. DatabaseInv(db'[d])
        BY <2>8, ApplyKeeps
      <3>5. held[d] # None => PreviewInv(db'[d], held[d])
        <4>1. db[d].generation \in Nat /\ (held[d] # None => held[d].generation \in Nat)
          BY DEF TypeOK, Databases, Previews
        <4> QED BY <2>1, <3>1, <4>1 DEF PreviewInv
      <3> QED BY <3>2, <3>3, <3>4, <3>5, EditsKept
    <2>9. CASE Reserve(d) \/ Upload(d) \/ Register(d) \/ Acknowledge(d)
      <3>1. /\ \A e \in Devices \ {d} : db'[e] = db[e] /\ job'[e] = job[e]
            /\ job'[d].phase \notin {"confirm", "apply"}
            /\ UNCHANGED <<held, copy>>
        <4>1. CASE Reserve(d)
          <5>1. \A e \in Devices \ {d} : db'[e] = db[e]
            BY <4>1, ReserveEffect DEF OnlyOf
          <5>2. PICK j \in {Idle, [job[d] EXCEPT !.phase = "upload"]} : job' = [job EXCEPT ![d] = j]
            BY <4>1, ReserveEffect
          <5>3. UNCHANGED <<held, copy>>
            BY <4>1 DEF Reserve, backup
          <5> QED BY <5>1, <5>2, <5>3, IdleType DEF TypeOK
        <4>2. CASE Upload(d)
          <5>1. PICK j \in {Idle, [job[d] EXCEPT !.phase = "register"]} : job' = [job EXCEPT ![d] = j]
            BY <4>2, UploadEffect
          <5>2. UNCHANGED <<db, held, copy>>
            BY <4>2 DEF Upload, backup
          <5> QED BY <5>1, <5>2, IdleType DEF TypeOK
        <4>3. CASE Register(d)
          BY <4>3, IdleType DEF Register, TypeOK, backup
        <4>4. CASE Acknowledge(d)
          <5>1. OnlyOf(d) /\ job' = [job EXCEPT ![d].phase = "publish"] /\ UNCHANGED <<held, copy>>
            BY <4>4, AcknowledgeEffect DEF Acknowledge, backup
          <5> QED BY <5>1 DEF OnlyOf, TypeOK
        <4> QED BY <2>9, <4>1, <4>2, <4>3, <4>4
      <3>2. DatabaseInv(db'[d]) /\ (held[d] # None => PreviewInv(db'[d], held[d]))
        <4>1. CASE db' = db
          BY <2>1, <4>1
        <4>2. CASE ~(db' = db)
          <5>1. /\ \A f \in {"local", "intent", "touched", "generation", "journal"} :
                       db'[d][f] = db[d][f]
                /\ db[d].record \in Records /\ db'[d].record \in Records
                /\ \A f \in {"replica", "effective", "applied"} : db'[d].record[f] = db[d].record[f]
            <6>1. CASE Reserve(d)
              BY <4>2, <6>1, ReserveEffect
            <6>2. CASE Acknowledge(d)
              BY <6>2, AcknowledgeEffect
            <6> QED BY <2>9, <4>2, <6>1, <6>2 DEF Upload, Register
          <5>2. db[d].record # None /\ db'[d].record # None
            BY <5>1, SyncConstants
          <5>3. DatabaseInv(db'[d])
            BY <2>1, <5>1, <5>2, DatabaseSame
          <5> QED BY <2>1, <5>1, <5>3 DEF PreviewInv
        <4> QED BY <4>1, <4>2
      <3> QED BY <3>1, <3>2, EditsKept
    <2>10. CASE Edit(d)
      <3>1. OnlyOf(d) /\ DatabaseInv(db'[d]) /\ db'[d].generation = db[d].generation + 1
        BY <2>10, EditEffect, EditKeeps
      <3>2. UNCHANGED <<held, job, copy>>
        BY <2>10 DEF Edit, backup
      <3>3. \A p : PreviewInv(db[d], p) /\ p.generation \in Nat => PreviewInv(db'[d], p)
        BY <3>1 DEF PreviewInv, TypeOK, Databases
      <3>4. /\ held[d] # None => held[d].generation \in Nat
            /\ job[d].phase \in {"confirm", "apply"} => job[d].preview.generation \in Nat
        BY DEF TypeOK, Previews
      <3> QED BY <2>1, <3>1, <3>2, <3>3, <3>4, EditsKept DEF OnlyOf
    <2>11. CASE TakeCopy(d)
      <3>1. copy' = db[d] /\ UNCHANGED <<db, held, job>>
        BY <2>11 DEF TakeCopy
      <3> QED BY <2>1, <3>1, EditsKept
    <2>12. CASE Restart(d) \/ RestoreCopy(d)
      <3>1. /\ \A e \in Devices \ {d} : db'[e] = db[e] /\ held'[e] = held[e] /\ job'[e] = job[e]
            /\ held'[d] = None /\ job'[d].phase = "idle" /\ copy' \in {copy, None}
        BY <2>12, IdleType DEF Restart, RestoreCopy, NextProcess, TypeOK, backup
      <3>2. db'[d] = db[d] \/ (copy # None /\ db'[d] = copy)
        BY <2>12 DEF Restart, RestoreCopy, TypeOK
      <3>3. DatabaseInv(db'[d])
        BY <3>2 DEF EditsInv
      <3> QED BY <3>1, <3>3, EditsKept
    <2> QED BY <1>2, <2>2, <2>3, <2>4, <2>5, <2>6, <2>7, <2>8, <2>9, <2>10, <2>11, <2>12 DEF Operation
  <1> QED BY <1>1, <1>2 DEF Next

\* Nothing has been edited, published or previewed at first.
LEMMA EditsInit == Init => EditsInv
  <1> SUFFICES ASSUME Init PROVE EditsInv
    OBVIOUS
  <1>1. \A d \in Devices :
          /\ db[d].record = None /\ db[d].intent = None /\ db[d].generation = 0
          /\ \A f \in Fields : db[d].journal[f] = 0
          /\ held[d] = None /\ job[d].phase = "idle"
    BY IdleType DEF Init
  <1>2. Issued = {} /\ copy = None
    BY <1>1 DEF Init, Issued, PendingIn
  <1>3. \A d \in Devices : DatabaseInv(db[d])
    BY <1>1, SyncValueMembers DEF DatabaseInv, Kept, BaselineWritten, Tracked, Baseline, OperationsIn,
       AppliedIn, Numbered
  <1> QED BY <1>1, <1>2, <1>3 DEF EditsInv

\* The invariant says of every device what the properties say.
LEMMA EditsInvImplies == TypeOK /\ EditsInv => EditKept /\ CaptureIsEdits
  <1> SUFFICES ASSUME TypeOK, EditsInv PROVE EditKept /\ CaptureIsEdits
    OBVIOUS
  <1>1. EditKept
    <2> SUFFICES ASSUME NEW d \in Devices
                 PROVE  \/ db[d].intent \in {None, db[d].local}
                        \/ Recorded(d) /\ Holds(db[d].record.replica, db[d].intent)
      BY DEF EditKept
    <2>1. Kept(db[d])
      BY DEF EditsInv, DatabaseInv
    <2>2. ~Holds({}, db[d].intent)
      BY DEF Holds
    <2> QED BY <2>1, <2>2 DEF Kept, OperationsIn, Recorded
  <1>2. CaptureIsEdits
    <2> SUFFICES ASSUME NEW d \in Devices, Recorded(d)
                 PROVE  LET r == LoadedRecord(d)
                            local == db[d].local
                            captures == Captured(d, r) # r.replica
                        IN /\ captures => db[d].touched
                           /\ /\ db[d].touched
                              /\ local # r.effective \/ "value" \in DOMAIN local
                              => captures
      BY DEF CaptureIsEdits
    <2>1. DatabaseInv(db[d]) /\ db[d].record # None
      BY DEF EditsInv, Recorded
    <2> QED BY <2>1, CapturedInv
  <1> QED BY <1>1, <1>2

\* No apply of a preview, however old, on any device and after any crash, restart
\* or restored copy, overwrites an edit the replica does not know: the journal
\* makes the next capture write it, and the transaction refuses a preview made
\* before it (capture, apply_core_plan).
THEOREM EditsAreKept == Spec => []EditKept
  <1>1. Init => PreviewsMaterialized
    BY IdleType DEF Init, PreviewsMaterialized
  <1>2. TypeOK /\ PreviewsMaterialized /\ [Next]_vars => PreviewsMaterialized'
    BY MaterializedStep
  <1>3. TypeOK /\ PreviewsMaterialized /\ EditsInv /\ OnlyReserved /\ [Next]_vars => EditsInv'
    BY EditsStep
  <1>4. TypeOK /\ EditsInv => EditKept
    BY EditsInvImplies
  <1> QED BY <1>1, <1>2, <1>3, <1>4, TypeInit, TypeStep, NumbersInit, NumbersStep, EditsInit, PTL
             DEF Spec

\* Captures are edits, whatever was applied, deferred, restored or left in conflict,
\* and a value set again is captured (capture, track_edit, applied_generation).
THEOREM CapturesAreEdits == Spec => []CaptureIsEdits
  <1>1. Init => PreviewsMaterialized
    BY IdleType DEF Init, PreviewsMaterialized
  <1>2. TypeOK /\ PreviewsMaterialized /\ [Next]_vars => PreviewsMaterialized'
    BY MaterializedStep
  <1>3. TypeOK /\ PreviewsMaterialized /\ EditsInv /\ OnlyReserved /\ [Next]_vars => EditsInv'
    BY EditsStep
  <1>4. TypeOK /\ EditsInv => CaptureIsEdits
    BY EditsInvImplies
  <1> QED BY <1>1, <1>2, <1>3, <1>4, TypeInit, TypeStep, NumbersInit, NumbersStep, EditsInit, PTL
             DEF Spec

-----------------------------------------------------------------------------
(* Convergence.                                                            *)

\* Every register the state s has a value in was written at some time.
Covered(s, doc) == \A f \in DOMAIN s : \E o \in doc : o.field = f

\* An operation overwrote earlier ones of its register, which are in the replica.
Causal(doc) ==
    \A p \in doc : \A id \in p.overwrote :
        \E o \in doc : Id(o) = id /\ o.field = p.field /\ o.n < p.n

\* An identity names one operation.
OneName(S) == \A o, p \in S : Id(o) = Id(p) => o = p

\* A register that was written has a candidate: not everything is overwritten.
LEMMA WrittenHasCandidate ==
    ASSUME NEW doc \in Replicas, Counted(doc), Causal(doc), OneName(doc), NEW f,
           NEW x \in doc, x.field = f
    PROVE  Candidates(doc, f) # {}
  <1> DEFINE c == Cardinality(doc)
             P == {o \in doc : o.field = f}
             T == {k \in Nat : \E o \in P : k = c - o.n}
  <1>1. c \in Nat /\ \A o \in doc : o.n \in Nat /\ o.n <= c
    BY FS_CardinalityType DEF Replicas, Operations, OperationsOn, Counted
  <1>2. T \subseteq Nat /\ c - x.n \in T
    BY <1>1
  <1>3. PICK k \in T : \A m \in T : <<m, k>> \notin OpToRel(<, Nat)
    <2> HIDE DEF T
    <2> QED BY <1>2, NatLessThanWellFounded, WFMin
  <1>4. \A m \in T : ~(m < k)
    BY <1>2, <1>3 DEF OpToRel
  <1>5. PICK o \in P : k = c - o.n
    BY <1>3
  <1>6. ASSUME NEW p \in doc, Id(o) \in p.overwrote
        PROVE  FALSE
    <2>1. PICK q \in doc : Id(q) = Id(o) /\ q.field = p.field /\ q.n < p.n
      BY <1>6 DEF Causal
    <2>2. q = o
      BY <2>1 DEF OneName
    <2>3. p \in P /\ o.n < p.n
      BY <2>1, <2>2
    <2>4. c - p.n \in T /\ c - p.n < k
      BY <1>1, <1>5, <2>3
    <2> QED BY <1>4, <2>4
  <1>7. o \in Candidates(doc, f)
    BY <1>5, <1>6 DEF Candidates
  <1> QED BY <1>7

\* What a replica without conflicts materializes to does not depend on the device.
LEMMA MaterializeAgrees ==
    ASSUME NEW doc \in Replicas, Counted(doc), Causal(doc), OneName(doc), Conflicts(doc) = {},
           NEW s \in SyncValues, Covered(s, doc), NEW t \in SyncValues, Covered(t, doc)
    PROVE  Materialize(s, doc) = Materialize(t, doc)
  <1> DEFINE values == CandidateValues(doc, "value")
             presence == CandidateValues(doc, "$present")
  <1>1. /\ IsFiniteSet(values) /\ IsFiniteSet(presence) /\ presence \subseteq {"true", "false"}
        /\ Cardinality(values) \in Nat /\ Cardinality(presence) \in Nat
    BY CandidatesType, FS_CardinalityType DEF Fields
  <1>2. ASSUME values = {} PROVE "value" \notin DOMAIN s /\ "value" \notin DOMAIN t
    <2>1. Candidates(doc, "value") = {}
      BY <1>2 DEF CandidateValues
    <2> QED BY <2>1, WrittenHasCandidate DEF Covered
  <1>3. ASSUME presence = {} PROVE s = Nothing /\ t = Nothing
    <2>1. Candidates(doc, "$present") = {}
      BY <1>3 DEF CandidateValues
    <2>2. "$present" \notin DOMAIN s /\ "$present" \notin DOMAIN t
      BY <2>1, WrittenHasCandidate DEF Covered
    <2> QED BY <2>2, SyncValueShape DEF Fields
  <1>4. ~(Cardinality(presence) > 1)
    BY DEF Conflicts, Fields
  <1>5. presence = {} \/ presence = {"true"} \/ presence = {"false"}
    <2>1. CASE Cardinality(presence) = 0
      BY <1>1, <2>1, FS_EmptySet
    <2>2. CASE Cardinality(presence) = 1
      BY <1>1, <2>2, FS_Singleton
    <2> QED BY <1>1, <1>4, <2>1, <2>2
  <1>6. CASE presence = {}
    BY <1>3, <1>6
  <1>7. CASE presence = {"false"}
    BY <1>7 DEF Materialize
  <1>8. CASE presence = {"true"}
    <2>1. ~(Cardinality(values) > 1) /\ "value" \notin Conflicts(doc)
      BY <1>8 DEF Conflicts, Fields
    <2>2. CASE Cardinality(values) = 1
      BY <1>8, <2>1, <2>2 DEF Materialize
    <2>3. CASE Cardinality(values) # 1
      <3>1. values = {}
        BY <1>1, <2>1, <2>3, FS_EmptySet
      <3>2. /\ ~Present(s) \/ s = Bare
            /\ ~Present(t) \/ t = Bare
        BY <1>2, <3>1, SyncValueShape DEF Present, Fields
      <3> QED BY <1>8, <2>1, <2>3, <3>1, <3>2 DEF Materialize
    <2> QED BY <2>2, <2>3
  <1> QED BY <1>5, <1>6, <1>7, <1>8

\* What a replica materializes to was written.
LEMMA MaterializeCovered ==
    ASSUME NEW doc \in Replicas, NEW s \in SyncValues, Covered(s, doc)
    PROVE  Covered(Materialize(s, doc), doc)
  <1> DEFINE values == CandidateValues(doc, "value")
             presence == CandidateValues(doc, "$present")
             new == Materialize(s, doc)
  <1>1. new \in SyncValues
    BY MaterializeType
  <1>2. \/ new = s \/ new = Nothing
        \/ presence = {"true"} /\ (new = Bare \/ Cardinality(values) = 1)
    BY DEF Materialize
  <1>3. ASSUME presence = {"true"} PROVE \E o \in doc : o.field = "$present"
    BY <1>3 DEF CandidateValues, Candidates
  <1>4. ASSUME Cardinality(values) = 1 PROVE \E o \in doc : o.field = "value"
    <2>1. values # {}
      BY <1>4, FS_EmptySet
    <2> QED BY <2>1 DEF CandidateValues, Candidates
  <1>5. CASE new = Nothing
    BY <1>5 DEF Covered, Nothing
  <1>6. CASE presence = {"true"} /\ new = Bare
    BY <1>3, <1>6 DEF Covered, Bare
  <1>7. CASE presence = {"true"} /\ Cardinality(values) = 1
    <2>1. DOMAIN new \subseteq Fields
      BY <1>1, SyncValueShape DEF Fields
    <2> HIDE DEF new
    <2>2. Covered(new, doc)
      BY <1>3, <1>4, <1>7, <2>1 DEF Covered, Fields
    <2> QED BY <2>2 DEF new
  <1> QED BY <1>2, <1>5, <1>6, <1>7

\* The replica S goes on from doc with operations of w, numbered after those of doc.
Extends(doc, w, S) ==
    /\ S \in Replicas /\ doc \subseteq S /\ Counted(S) /\ Causal(S)
    /\ \A o \in S : o \in doc \/ (o.writer = w /\ o.n > Cardinality(doc))
    /\ \A o, p \in S : o \notin doc /\ p \notin doc /\ o.n = p.n => o = p

\* A write goes on from what the replica has.
LEMMA PutExtends ==
    ASSUME NEW doc \in Replicas, NEW w \in Authors, NEW S, Extends(doc, w, S), NEW f \in Fields,
           NEW v, v \in IF f = "value" THEN Values \cup {"deleted"} ELSE {"true", "false"}
    PROVE  /\ Extends(doc, w, Put(S, w, f, v))
           /\ S \subseteq Put(S, w, f, v)
           /\ \E o \in Put(S, w, f, v) : o.field = f
  <1> DEFINE over == {Id(x) : x \in Candidates(S, f)}
             o == [writer |-> w, n |-> Cardinality(S) + 1, field |-> f, value |-> v,
                   overwrote |-> over]
             P == Put(S, w, f, v)
  <1>1. S \in Replicas /\ Counted(S) /\ Causal(S) /\ doc \subseteq S
    BY DEF Extends
  <1>2. P = S \cup {o}
    BY DEF Put
  <1>3. P \in Replicas /\ Counted(P)
    BY <1>1, PutType, PutCounted
  <1>4. /\ Cardinality(S) \in Nat /\ Cardinality(doc) \in Nat /\ Cardinality(doc) <= Cardinality(S)
        /\ \A x \in S : x.n \in Nat /\ x.n <= Cardinality(S)
    BY <1>1, FS_CardinalityType, FS_Subset DEF Replicas, Operations, OperationsOn, Counted
  <1>5. /\ o.writer = w /\ o.n = Cardinality(S) + 1 /\ o.field = f /\ o.overwrote = over
    OBVIOUS
  <1>6. \A id \in over : \E x \in S : Id(x) = id /\ x.field = f
    BY DEF Candidates
  <1> HIDE DEF o, over, P
  <1>7. Causal(P)
    <2> SUFFICES ASSUME NEW p \in P, NEW id \in p.overwrote
                 PROVE  \E x \in P : Id(x) = id /\ x.field = p.field /\ x.n < p.n
      BY DEF Causal
    <2>1. CASE p = o
      <3>1. PICK x \in S : Id(x) = id /\ x.field = f
        BY <1>5, <1>6, <2>1
      <3> QED BY <1>2, <1>4, <1>5, <2>1, <3>1
    <2>2. CASE p \in S
      BY <1>1, <1>2, <2>2 DEF Causal
    <2> QED BY <1>2, <2>1, <2>2
  <1>8. \A x \in P : x \in doc \/ (x.writer = w /\ x.n > Cardinality(doc))
    BY <1>2, <1>4, <1>5 DEF Extends
  <1>9. \A x, p \in P : x \notin doc /\ p \notin doc /\ x.n = p.n => x = p
    BY <1>2, <1>4, <1>5 DEF Extends
  <1>10. Extends(doc, w, P) /\ S \subseteq P /\ \E x \in P : x.field = f
    BY <1>1, <1>2, <1>3, <1>5, <1>7, <1>8, <1>9 DEF Extends
  <1> QED BY <1>10 DEF P

\* A capture goes on from the replica, and writes what the state has in addition.
LEMMA CaptureExtends ==
    ASSUME NEW doc \in Replicas, Counted(doc), Causal(doc), NEW w \in Authors,
           NEW baseline \in SyncValues, NEW current \in SyncValues, NEW edited \in SUBSET Fields,
           Covered(baseline, doc)
    PROVE  LET C == Capture(doc, w, baseline, current, edited)
           IN Extends(doc, w, C) /\ Covered(current, C)
  <1> DEFINE value == IF "value" \in DOMAIN current THEN current["value"] ELSE "deleted"
             P == Put(doc, w, "value", value)
             D == Put(doc, w, "$present", "false")
             T == Put(doc, w, "$present", "true")
             Q == Put(P, w, "$present", "true")
             C == Capture(doc, w, baseline, current, edited)
             changes == /\ "value" \in DOMAIN baseline \cup DOMAIN current
                        /\ At(baseline, "value") # At(current, "value") \/ "value" \in edited
  <1>1. value \in Values \cup {"deleted"} /\ "value" \in Fields /\ "$present" \in Fields
    BY SyncValueShape DEF Nothing, Fields
  <1>2. Extends(doc, w, doc)
    BY DEF Extends
  <1>3. Extends(doc, w, P) /\ \E o \in P : o.field = "value"
    BY <1>1, <1>2, PutExtends
  <1>4. Extends(doc, w, D) /\ Extends(doc, w, T) /\ \E o \in T : o.field = "$present"
    BY <1>1, <1>2, PutExtends
  <1>5. Extends(doc, w, Q) /\ P \subseteq Q /\ \E o \in Q : o.field = "$present"
    <2> HIDE DEF P
    <2> QED BY <1>1, <1>3, PutExtends
  <1>6. C = IF ~Writes(baseline, current, edited) THEN doc
            ELSE IF Present(baseline) /\ ~Present(current) THEN D
            ELSE IF changes THEN Q ELSE T
    BY DEF Capture, Writes
  <1>7. /\ DOMAIN current \subseteq Fields
        /\ \A f \in DOMAIN current : At(baseline, f) = At(current, f) => f \in DOMAIN baseline
        /\ ~Present(current) => DOMAIN current = {}
    BY SyncValueShape, SyncConstants DEF At, Present, Fields
  <1> HIDE DEF C, P, D, T, Q
  <1>8. CASE ~Writes(baseline, current, edited)
    <2>1. C = doc /\ DOMAIN current \subseteq DOMAIN baseline
      BY <1>6, <1>7, <1>8 DEF Writes
    <2>2. Covered(current, C)
      BY <2>1 DEF Covered
    <2> QED BY <1>2, <2>1, <2>2 DEF C
  <1>9. CASE Present(baseline) /\ ~Present(current)
    <2>1. C = D
      BY <1>6, <1>9 DEF Writes
    <2>2. Covered(current, C)
      BY <1>7, <1>9 DEF Covered
    <2> QED BY <1>4, <2>1, <2>2 DEF C
  <1>10. CASE Writes(baseline, current, edited) /\ ~(Present(baseline) /\ ~Present(current)) /\ changes
    <2>1. C = Q
      BY <1>6, <1>10
    <2>2. Covered(current, C)
      BY <1>3, <1>5, <1>7, <2>1 DEF Covered, Fields
    <2> QED BY <1>5, <2>1, <2>2 DEF C
  <1>11. CASE Writes(baseline, current, edited) /\ ~(Present(baseline) /\ ~Present(current)) /\ ~changes
    <2>1. C = T
      BY <1>6, <1>11
    <2>2. "value" \in DOMAIN current => "value" \in DOMAIN baseline
      BY <1>7, <1>11
    <2>3. doc \subseteq T
      BY <1>4 DEF Extends
    <2>4. \A f \in DOMAIN current : \E o \in T : o.field = f
      <3> SUFFICES ASSUME NEW f \in DOMAIN current PROVE \E o \in T : o.field = f
        OBVIOUS
      <3>1. CASE f = "value"
        BY <2>2, <2>3, <3>1 DEF Covered
      <3>2. CASE f = "$present"
        BY <1>4, <3>2
      <3> QED BY <1>7, <3>1, <3>2 DEF Fields
    <2>5. Covered(current, C)
      BY <2>1, <2>4 DEF Covered
    <2> QED BY <1>4, <2>1, <2>5 DEF C
  <1> QED BY <1>8, <1>9, <1>10, <1>11

\* An operation that a process w adds to the replica doc, or to a branch of it.
Fresh(doc, w, o) ==
    \/ o.writer = w /\ o.n > Cardinality(doc)
    \/ o.writer = Branch(w, Cardinality(doc))

FreshOnce(doc, w, S) ==
    \A o, p \in S : Fresh(doc, w, o) /\ Fresh(doc, w, p) /\ Id(o) = Id(p) => o = p

\* The operations anybody can find: on the remote, in a database or in the copy of one.
Uploaded == UNION {x.id.replica : x \in objects}
Written ==
    Uploaded \cup (UNION {OperationsIn(db[d]) : d \in Devices})
        \cup (IF copy = None THEN {} ELSE OperationsIn(copy))

\* A process that runs has all its operations, and those of its branches, in its database.
Named(o) ==
    /\ o.writer[2] <= process[o.writer[1]]
    /\ \A d \in Devices :
          /\ o.writer = Process(d) => o \in OperationsIn(db[d])
          /\ \A k \in Nat : o.writer = Branch(Process(d), k) => k < Cardinality(OperationsIn(db[d]))

\* What a database shows, unless edited or deferred, is what its replica makes of a
\* state that was written.
Shown(b) ==
    b.record # None /\ ~b.touched /\ ~b.record.deferred =>
        \E s \in SyncValues :
            Covered(s, b.record.replica) /\ b.local = Materialize(s, b.record.replica)

PendingKnown(r) == r.pending # None => r.pending.replica \subseteq r.replica

History(b) ==
    /\ Causal(OperationsIn(b)) /\ Covered(Baseline(b), OperationsIn(b))
    /\ b.record # None => PendingKnown(b.record)
    /\ Shown(b)

\* Where the operations of a preview come from: the database, with the operations
\* ops, the remote, with the operations up, or the preview's own capture.
Sourced(ops, up, p) ==
    /\ p.record.replica = IF p.expected = None THEN {} ELSE p.expected.replica
    /\ p.record.replica \subseteq p.doc
    /\ \A o \in p.doc : o \in ops \/ o \in up \/ Fresh(p.record.replica, p.record.writer, o)
    /\ FreshOnce(p.record.replica, p.record.writer, p.doc)
    /\ Causal(p.doc) /\ Covered(p.local, p.doc) /\ PendingKnown(p.record)

ConvergenceInv ==
    /\ OneName(Written) /\ \A o \in Written : Named(o)
    /\ \A d \in Devices : History(db[d])
    /\ copy # None => History(copy)
    /\ \A id \in Issued : Causal(id.replica)
    /\ \A d \in Devices :
          /\ held[d] # None => Sourced(OperationsIn(db[d]), Uploaded, held[d])
          /\ job[d].phase \in {"confirm", "apply"} =>
                Sourced(OperationsIn(db[d]), Uploaded, job[d].preview)

\* What a numbered replica has is not fresh.
LEMMA OldNotFresh ==
    ASSUME NEW doc \in Replicas, Numbered(doc), NEW w \in Processes, NEW o \in doc
    PROVE  ~Fresh(doc, w, o)
  <1>1. Cardinality(doc) \in Nat /\ o.n \in Nat /\ o.n <= Cardinality(doc)
    BY FS_CardinalityType DEF Replicas, Operations, OperationsOn, Numbered
  <1>2. o.writer # Branch(w, Cardinality(doc))
    <2> SUFFICES ASSUME o.writer = Branch(w, Cardinality(doc)) PROVE FALSE
      OBVIOUS
    <2>1. o.writer \notin Processes
      BY <1>1, NewReplica
    <2>2. o.writer[3] = Cardinality(doc)
      BY DEF Branch
    <2> QED BY <1>1, <2>1, <2>2 DEF Numbered
  <1> QED BY <1>1, <1>2 DEF Fresh

\* Captures are causal, cover what the device shows and add fresh operations only.
LEMMA CapturedSources ==
    ASSUME TypeOK, NEW d \in Devices, DatabaseInv(db[d]), History(db[d])
    PROVE  LET r == LoadedRecord(d)
               C == Captured(d, r)
           IN /\ Causal(C) /\ Covered(db[d].local, C)
              /\ \A o \in C : o \in r.replica \/ Fresh(r.replica, r.writer, o)
              /\ FreshOnce(r.replica, r.writer, C)
  <1> DEFINE r == LoadedRecord(d)
             local == db[d].local
             C == Captured(d, r)
             E == Edited(d, r)
             c == Cardinality(r.replica)
  <1>1. /\ r \in Records /\ r.writer \in Processes /\ r.replica \in Replicas
        /\ r.effective \in SyncValues /\ local \in SyncValues
        /\ r.replica = OperationsIn(db[d]) /\ r.effective = Baseline(db[d])
    BY LoadedFields
  <1>2. E \in SUBSET Fields
    BY DEF Edited
  <1>3. Numbered(r.replica) /\ Causal(r.replica) /\ Covered(r.effective, r.replica)
    BY <1>1 DEF DatabaseInv, History
  <1>4. Counted(r.replica) /\ c \in Nat
    BY <1>1, <1>3, FS_CardinalityType DEF Numbered, Counted, Replicas
  <1>5. \A o \in r.replica : ~Fresh(r.replica, r.writer, o)
    BY <1>1, <1>3, OldNotFresh
  <1>6. r.writer \in Authors /\ Branch(r.writer, c) \in Authors
    BY <1>1, <1>4, NewReplica
  <1>7. C = IF Present(local) /\ ~Present(r.effective)
            THEN r.replica \cup Capture({}, Branch(r.writer, c), Nothing, local, {})
            ELSE Capture(r.replica, r.writer, r.effective, local, E)
    BY DEF Captured
  <1> HIDE DEF r, E, C, c
  <1>8. CASE Present(local) /\ ~Present(r.effective)
    <2> DEFINE v == Branch(r.writer, c)
               B == Capture({}, v, Nothing, local, {})
    <2>1. C = r.replica \cup B
      BY <1>7, <1>8
    <2>2. Extends({}, v, B) /\ Covered(local, B)
      <3>1. PICK e : e = {}
        OBVIOUS
      <3>2. /\ e \in Replicas /\ Counted(e) /\ Causal(e) /\ e \in SUBSET Fields
            /\ Nothing \in SyncValues /\ Covered(Nothing, e)
        BY <3>1, NewReplica, SyncValueMembers DEF Counted, Causal, Covered, Nothing
      <3>3. Extends(e, v, Capture(e, v, Nothing, local, e)) /\ Covered(local, Capture(e, v, Nothing, local, e))
        BY <1>1, <1>6, <3>2, CaptureExtends
      <3> QED BY <3>1, <3>3
    <2>3. /\ Causal(B) /\ \A o \in B : o.writer = v
          /\ \A o, p \in B : o.n = p.n => o = p
      BY <2>2 DEF Extends
    <2> HIDE DEF B
    <2>4. Causal(C) /\ Covered(local, C)
      BY <1>3, <2>1, <2>2, <2>3 DEF Causal, Covered
    <2>5. \A o \in B : Fresh(r.replica, r.writer, o)
      BY <2>3 DEF Fresh, c
    <2>6. FreshOnce(r.replica, r.writer, C)
      BY <1>5, <2>1, <2>3 DEF FreshOnce, Id
    <2> QED BY <2>1, <2>4, <2>5, <2>6 DEF C, r
  <1>9. CASE ~(Present(local) /\ ~Present(r.effective))
    <2>1. C = Capture(r.replica, r.writer, r.effective, local, E)
      BY <1>7, <1>9
    <2>2. Extends(r.replica, r.writer, C) /\ Covered(local, C)
      BY <1>1, <1>2, <1>3, <1>4, <1>6, <2>1, CaptureExtends
    <2>3. \A o \in C : o \in r.replica \/ Fresh(r.replica, r.writer, o)
      BY <2>2 DEF Extends, Fresh
    <2>4. FreshOnce(r.replica, r.writer, C)
      BY <1>5, <2>2 DEF FreshOnce, Id, Extends
    <2> QED BY <2>2, <2>3, <2>4 DEF Extends, C, r
  <1> QED BY <1>8, <1>9

\* Nothing that anybody can find is fresh to the process that runs on d.
LEMMA WrittenNotFresh ==
    ASSUME TypeOK, EditsInv, ConvergenceInv, NEW d \in Devices, NEW o \in Written
    PROVE  ~Fresh(OperationsIn(db[d]), Process(d), o)
  <1> DEFINE ops == OperationsIn(db[d])
  <1>1. ops \in Replicas /\ Cardinality(ops) \in Nat /\ Numbered(ops)
    BY LoadedFields, FS_CardinalityType DEF Replicas, EditsInv, DatabaseInv
  <1>2. Process(d) \in Processes /\ Named(o)
    BY DEF TypeOK, Process, Processes, ConvergenceInv
  <1>3. /\ o.writer = Process(d) => o \in ops
        /\ o.writer # Branch(Process(d), Cardinality(ops))
    BY <1>1, <1>2 DEF Named
  <1> QED BY <1>1, <1>2, <1>3, OldNotFresh DEF Fresh

\* The preview just made has its operations from the database, the remote and its capture.
LEMMA PreviewSources ==
    ASSUME TypeOK, NumbersInv, EditsInv, ConvergenceInv, NEW d \in Devices
    PROVE  Sourced(OperationsIn(db[d]), Uploaded, Preview(d))
  <1> DEFINE r == LoadedRecord(d)
             p == Preview(d)
             C == Captured(d, r)
             ops == OperationsIn(db[d])
  <1>1. /\ r \in Records /\ r.writer \in Processes /\ r.replica \in Replicas /\ r.replica = ops
    BY LoadedFields
  <1>2. /\ C \subseteq p.doc /\ p.local = db[d].local /\ p.expected = db[d].record
        /\ p.record.writer = r.writer /\ p.record.replica = r.replica /\ p.record.pending = r.pending
    BY PreviewType
  <1>3. p.doc = C \cup UNION {x.replica : x \in News(r)}
    BY DEF Preview
  <1>4. DatabaseInv(db[d]) /\ History(db[d])
    BY DEF EditsInv, ConvergenceInv
  <1>5. /\ Causal(C) /\ Covered(db[d].local, C)
        /\ \A o \in C : o \in r.replica \/ Fresh(r.replica, r.writer, o)
        /\ FreshOnce(r.replica, r.writer, C)
    BY <1>4, CapturedSources
  <1>6. r.replica \subseteq C
    BY <1>1, CapturedType
  <1>7. \A x \in News(r) : x \in Issued /\ x.replica \subseteq Uploaded
    BY NewsType DEF Issued, Uploaded
  <1>8. Numbered(ops) /\ r.writer = Process(d)
    BY <1>2, <1>4, PreviewOwn DEF DatabaseInv, OwnPreview
  <1>9. PendingKnown(r)
    <2>1. CASE db[d].record = None
      BY <2>1 DEF LoadedRecord, NewRecord, PendingKnown
    <2>2. CASE db[d].record # None
      <3>1. r.pending = db[d].record.pending /\ r.replica = db[d].record.replica
        BY <2>2 DEF LoadedRecord, Adopt, TypeOK, Databases, Records
      <3> QED BY <1>4, <2>2, <3>1 DEF History, PendingKnown
    <2> QED BY <2>1, <2>2
  <1> HIDE DEF r, p, C
  <1>10. Causal(p.doc)
    <2>1. \A x \in News(r) : Causal(x.replica)
      BY <1>7 DEF ConvergenceInv
    <2>2. ASSUME NEW q \in p.doc, NEW id \in q.overwrote
          PROVE  \E o \in p.doc : Id(o) = id /\ o.field = q.field /\ o.n < q.n
      <3>1. PICK S : Causal(S) /\ S \subseteq p.doc /\ q \in S
        BY <1>3, <1>5, <2>1
      <3> QED BY <2>2, <3>1 DEF Causal
    <2> QED BY <2>2 DEF Causal
  <1>11. Covered(p.local, p.doc)
    BY <1>2, <1>5 DEF Covered
  <1>12. \A o \in p.doc : o \in ops \/ o \in Uploaded \/ Fresh(r.replica, r.writer, o)
    BY <1>1, <1>3, <1>5, <1>7
  <1>13. \A o \in Uploaded : ~Fresh(r.replica, r.writer, o)
    BY <1>1, <1>8, WrittenNotFresh DEF Written
  <1>14. FreshOnce(r.replica, r.writer, p.doc)
    <2>1. \A o \in p.doc : Fresh(r.replica, r.writer, o) => o \in C
      BY <1>3, <1>7, <1>13
    <2> QED BY <1>5, <2>1 DEF FreshOnce
  <1>15. PendingKnown(p.record)
    BY <1>2, <1>9 DEF PendingKnown
  <1>16. p.record.replica = IF p.expected = None THEN {} ELSE p.expected.replica
    BY <1>1, <1>2 DEF OperationsIn
  <1>17. Sourced(ops, Uploaded, p)
    BY <1>1, <1>2, <1>6, <1>10, <1>11, <1>12, <1>14, <1>15, <1>16 DEF Sourced
  <1> QED BY <1>17 DEF p

\* A preview whose conflict the user resolves has one more fresh operation.
LEMMA ResolveSources ==
    ASSUME TypeOK, EditsInv, ConvergenceInv, NEW d \in Devices, ResolveConflict(d)
    PROVE  Sourced(OperationsIn(db[d]), Uploaded, held'[d])
  <1> DEFINE p == held[d]
             q == held'[d]
             w == p.record.writer
             base == p.record.replica
  <1>1. /\ p \in Previews /\ p # None /\ p.doc \subseteq q.doc
        /\ q.record = p.record /\ q.expected = p.expected /\ q.local = p.local
    BY ResolveEffect
  <1>2. PICK f \in Fields :
          \E v \in IF f = "value" THEN Values \cup {"deleted"} ELSE {"true", "false"} :
             q.doc = Put(p.doc, w, f, v)
    BY ResolveEffect
  <1>3. PICK v \in IF f = "value" THEN Values \cup {"deleted"} ELSE {"true", "false"} :
          q.doc = Put(p.doc, w, f, v)
    BY <1>2
  <1>4. Sourced(OperationsIn(db[d]), Uploaded, p) /\ Numbered(p.doc)
    BY <1>1 DEF ConvergenceInv, EditsInv, PreviewInv
  <1>5. p.doc \in Replicas /\ base \in Replicas /\ w \in Processes /\ w \in Authors
    BY <1>1, NewReplica DEF Previews, Records
  <1>6. Counted(p.doc) /\ Causal(p.doc) /\ base \subseteq p.doc /\ Covered(p.local, p.doc)
    BY <1>4 DEF Numbered, Counted, Sourced
  <1>7. Extends(p.doc, w, p.doc)
    BY <1>5, <1>6 DEF Extends
  <1>8. Extends(p.doc, w, q.doc)
    BY <1>3, <1>5, <1>7, PutExtends
  <1>9. /\ Cardinality(p.doc) \in Nat /\ Cardinality(base) \in Nat
        /\ Cardinality(base) <= Cardinality(p.doc)
        /\ \A o \in q.doc : o.n \in Nat
    BY <1>5, <1>6, <1>8, FS_CardinalityType, FS_Subset
       DEF Replicas, Extends, Operations, OperationsOn
  <1>10. \A o \in q.doc : o \in p.doc \/ (o.writer = w /\ o.n > Cardinality(p.doc))
    BY <1>8 DEF Extends
  <1>11. \A o \in q.doc : o \in p.doc \/ Fresh(base, w, o)
    BY <1>9, <1>10 DEF Fresh
  <1>12. FreshOnce(base, w, q.doc)
    <2> SUFFICES ASSUME NEW x \in q.doc, NEW y \in q.doc, Fresh(base, w, x), Fresh(base, w, y),
                        Id(x) = Id(y)
                 PROVE  x = y
      BY DEF FreshOnce
    <2>1. x.n = y.n
      BY DEF Id
    <2>2. CASE x \in p.doc /\ y \in p.doc
      BY <1>4, <2>2 DEF Sourced, FreshOnce
    <2>3. CASE x \notin p.doc /\ y \notin p.doc
      BY <1>8, <2>1, <2>3 DEF Extends
    <2>4. (x \in p.doc) <=> (y \in p.doc)
      BY <1>6, <1>9, <1>10, <2>1 DEF Counted
    <2> QED BY <2>2, <2>3, <2>4
  <1>13. Causal(q.doc) /\ Covered(p.local, q.doc)
    BY <1>1, <1>6, <1>8 DEF Extends, Covered
  <1> QED BY <1>1, <1>4, <1>11, <1>12, <1>13 DEF Sourced

\* A preview stays sourced while the database and the remote gain operations.
LEMMA SourcedMore ==
    ASSUME NEW ops, NEW more, ops \subseteq more, NEW up, NEW upmore, up \subseteq upmore,
           NEW p, Sourced(ops, up, p)
    PROVE  Sourced(more, upmore, p)
  BY DEF Sourced

\* What is left to prove of a step of d, once the names are known to be unique.
LEMMA ConvergenceKept ==
    ASSUME TypeOK, ConvergenceInv, OnlyReserved, NEW d \in Devices,
           \A e \in Devices \ {d} : db'[e] = db[e] /\ held'[e] = held[e] /\ job'[e] = job[e],
           copy' \in {copy, None, db[d]}, Uploaded \subseteq Uploaded',
           History(db'[d]),
           held'[d] # None => Sourced(OperationsIn(db'[d]), Uploaded', held'[d]),
           job'[d].phase \in {"confirm", "apply"} =>
              Sourced(OperationsIn(db'[d]), Uploaded', job'[d].preview),
           OneName(Written'), \A o \in Written' : Named(o)'
    PROVE  ConvergenceInv'
  <1>1. \A e \in Devices : History(db'[e])
    BY DEF ConvergenceInv
  <1>2. copy' # None => History(copy')
    BY DEF ConvergenceInv
  <1>3. \A e \in Devices :
          /\ held'[e] # None => Sourced(OperationsIn(db'[e]), Uploaded', held'[e])
          /\ job'[e].phase \in {"confirm", "apply"} =>
                Sourced(OperationsIn(db'[e]), Uploaded', job'[e].preview)
    BY SourcedMore DEF ConvergenceInv
  <1>4. \A id \in Issued' : Causal(id.replica)
    BY DEF OnlyReserved, ConvergenceInv, History, OperationsIn, Recorded
  <1> QED BY <1>1, <1>2, <1>3, <1>4 DEF ConvergenceInv

\* No operation is new, and every process goes on with its database.
LEMMA NamesKept ==
    ASSUME ConvergenceInv, Written' \subseteq Written, process' = process,
           \A e \in Devices : OperationsIn(db'[e]) = OperationsIn(db[e])
    PROVE  OneName(Written') /\ \A o \in Written' : Named(o)'
  <1>1. OneName(Written')
    BY DEF ConvergenceInv, OneName
  <1>2. \A e \in Devices : Process(e)' = Process(e)
    BY DEF Process
  <1>3. ASSUME NEW o \in Written' PROVE Named(o)'
    <2>1. Named(o)
      BY <1>3 DEF ConvergenceInv
    <2> QED BY <1>2, <2>1 DEF Named
  <1> QED BY <1>1, <1>3

\* What anybody can find is operations.
LEMMA WrittenType ==
    ASSUME TypeOK
    PROVE  Written \subseteq Operations
  <1>1. \A x \in objects : x.id.replica \subseteq Operations
    BY DEF TypeOK, Publications, Replicas
  <1>2. \A b \in Databases : OperationsIn(b) \subseteq Operations
    BY DEF Databases, OperationsIn, Records, Replicas
  <1>3. (\A d \in Devices : db[d] \in Databases) /\ (copy # None => copy \in Databases)
    BY DEF TypeOK
  <1>4. Uploaded \subseteq Operations
    BY <1>1 DEF Uploaded
  <1>5. (UNION {OperationsIn(db[d]) : d \in Devices}) \subseteq Operations
    BY <1>2, <1>3
  <1>6. (IF copy = None THEN {} ELSE OperationsIn(copy)) \subseteq Operations
    BY <1>2, <1>3
  <1> QED BY <1>4, <1>5, <1>6 DEF Written

\* A process that starts has no operations yet.
LEMMA NamesOfNewProcess ==
    ASSUME TypeOK, ConvergenceInv, NEW d \in Devices, Written' \subseteq Written,
           process' = [process EXCEPT ![d] = @ + 1],
           \A e \in Devices \ {d} : db'[e] = db[e]
    PROVE  OneName(Written') /\ \A o \in Written' : Named(o)'
  <1>1. OneName(Written')
    BY DEF ConvergenceInv, OneName
  <1>2. /\ process[d] \in Nat /\ process'[d] = process[d] + 1
        /\ \A e \in Devices \ {d} : process'[e] = process[e]
    BY DEF TypeOK
  <1>3. ASSUME NEW o \in Written' PROVE Named(o)'
    <2>1. Named(o) /\ o.writer \in Authors
      <3>1. o \in Operations
        BY <1>3, WrittenType
      <3> QED BY <1>3, <3>1 DEF ConvergenceInv, Operations, OperationsOn
    <2>2. o.writer[1] \in Devices /\ o.writer[2] \in Nat
      BY <2>1 DEF Authors, Processes
    <2>3. process[o.writer[1]] \in Nat /\ o.writer[2] <= process[o.writer[1]]
      BY <2>1, <2>2 DEF Named, TypeOK
    <2>4. o.writer[2] <= process'[o.writer[1]]
      BY <1>2, <2>2, <2>3
    <2>5. ~(o.writer[1] = d /\ o.writer[2] = process'[d])
      BY <1>2, <2>3
    <2>6. o.writer # Process(d)' /\ \A k \in Nat : o.writer # Branch(Process(d)', k)
      BY <2>5 DEF Process, Branch
    <2>7. \A e \in Devices \ {d} : Process(e)' = Process(e) /\ OperationsIn(db'[e]) = OperationsIn(db[e])
      BY <1>2 DEF Process
    <2> QED BY <2>1, <2>4, <2>6, <2>7 DEF Named
  <1> QED BY <1>1, <1>3

\* The transaction of an apply adds the fresh operations of its preview, under new names.
LEMMA NamesOfApply ==
    ASSUME TypeOK, NumbersInv, EditsInv, ConvergenceInv, NEW d \in Devices, Apply(d),
           StillCurrent(d, job[d].preview)
    PROVE  OneName(Written') /\ \A o \in Written' : Named(o)'
  <1> DEFINE p == job[d].preview
             ops == OperationsIn(db[d])
             w == Process(d)
             new == OperationsIn(db'[d])
  <1>1. /\ p \in Previews /\ p.doc \in Replicas /\ OnlyOf(d)
        /\ db'[d].record \in Records /\ db'[d].record.replica = p.doc
    BY ApplyEffect
  <1>2. UNCHANGED <<process, objects, copy>>
    BY DEF Apply, backup
  <1>3. new = p.doc
    BY <1>1, SyncConstants DEF OperationsIn
  <1>4. Sourced(ops, Uploaded, p) /\ p.record.writer = w
    BY DEF Apply, ConvergenceInv, NumbersInv, PreviewsOwn, OwnPreview
  <1>5. p.record.replica = ops /\ ops \subseteq p.doc
    BY <1>4 DEF Sourced, StillCurrent, OperationsIn
  <1>6. /\ \A o \in p.doc : o \in ops \/ o \in Uploaded \/ Fresh(ops, w, o)
        /\ FreshOnce(ops, w, p.doc)
    BY <1>4, <1>5 DEF Sourced
  <1>7. \A o \in Written : ~Fresh(ops, w, o)
    BY WrittenNotFresh
  <1>8. \A e \in Devices \ {d} : OperationsIn(db'[e]) = OperationsIn(db[e])
    BY <1>1 DEF OnlyOf
  <1>9. \A o \in Written' : o \in Written \/ (o \in p.doc /\ Fresh(ops, w, o))
    <2>1. Uploaded' = Uploaded
      BY <1>2 DEF Uploaded
    <2>2. ASSUME NEW o \in Written' PROVE o \in Written \/ o \in p.doc
      <3>1. CASE \E e \in Devices : o \in OperationsIn(db'[e])
        BY <1>3, <1>8, <3>1 DEF Written
      <3>2. CASE o \in Uploaded' \/ (copy' # None /\ o \in OperationsIn(copy'))
        BY <1>2, <2>1, <3>2 DEF Written
      <3> QED BY <2>2, <3>1, <3>2 DEF Written
    <2>3. ops \subseteq Written /\ Uploaded \subseteq Written
      BY DEF Written
    <2> QED BY <1>6, <2>2, <2>3
  <1>10. OneName(Written')
    <2> SUFFICES ASSUME NEW x \in Written', NEW y \in Written', Id(x) = Id(y) PROVE x = y
      BY DEF OneName
    <2>1. Fresh(ops, w, x) <=> Fresh(ops, w, y)
      BY DEF Fresh, Id
    <2>2. CASE Fresh(ops, w, x)
      BY <1>6, <1>7, <1>9, <2>1, <2>2 DEF FreshOnce
    <2>3. CASE ~Fresh(ops, w, x)
      BY <1>9, <2>1, <2>3 DEF ConvergenceInv, OneName
    <2> QED BY <2>2, <2>3
  <1>11. /\ ops \in Replicas /\ Cardinality(ops) \in Nat /\ Cardinality(p.doc) \in Nat
         /\ Cardinality(ops) <= Cardinality(p.doc)
         /\ Cardinality(ops) = Cardinality(p.doc) => ops = p.doc
    <2>1. ops \in Replicas
      BY LoadedFields
    <2>2. IsFiniteSet(ops) /\ IsFiniteSet(p.doc)
      BY <1>1, <2>1 DEF Replicas
    <2> QED BY <1>5, <2>1, <2>2, FS_CardinalityType, FS_Subset
  <1>12. \A e \in Devices : Process(e)' = Process(e) /\ Process(e) = <<e, process[e]>>
    BY <1>2 DEF Process
  <1>13. ASSUME NEW o \in Written' PROVE Named(o)'
    <2>1. CASE o \in Written
      <3>1. Named(o)
        BY <2>1 DEF ConvergenceInv
      <3>2. \A e \in Devices :
              /\ o.writer = Process(e) => o \in OperationsIn(db'[e])
              /\ \A k \in Nat : o.writer = Branch(Process(e), k) => k < Cardinality(OperationsIn(db'[e]))
        BY <1>3, <1>5, <1>8, <1>11, <3>1 DEF Named
      <3> QED BY <1>2, <1>12, <3>1, <3>2 DEF Named
    <2>2. CASE o \notin Written
      <3>1. o \in p.doc /\ Fresh(ops, w, o) /\ o \notin ops
        BY <1>9, <2>2 DEF Written
      <3>2. Cardinality(ops) < Cardinality(p.doc)
        BY <1>11, <3>1
      <3>3. o.writer[1] = d /\ o.writer[2] = process[d]
        BY <3>1 DEF Fresh, Process, Branch
      <3>4. process[d] \in Nat
        BY DEF TypeOK
      <3>5. ASSUME NEW e \in Devices, o.writer = Process(e) \/ \E k \in Nat : o.writer = Branch(Process(e), k)
            PROVE  e = d
        BY <3>3, <3>5 DEF Process, Branch
      <3>6. ASSUME NEW k \in Nat, o.writer = Branch(w, k) PROVE k < Cardinality(p.doc)
        <4>1. w \in Processes
          BY <3>4 DEF Process, Processes
        <4>2. o.writer # w
          BY <3>6, <4>1, NewReplica
        <4>3. Branch(w, k) = Branch(w, Cardinality(ops))
          BY <3>1, <3>6, <4>2 DEF Fresh
        <4>4. k = Cardinality(ops)
          BY <4>3 DEF Branch
        <4> QED BY <3>2, <4>4
      <3>7. \A e \in Devices :
              /\ o.writer = Process(e) => o \in OperationsIn(db'[e])
              /\ \A k \in Nat : o.writer = Branch(Process(e), k) => k < Cardinality(OperationsIn(db'[e]))
        BY <1>3, <3>1, <3>5, <3>6
      <3> QED BY <1>2, <1>12, <3>3, <3>4, <3>7 DEF Named
    <2> QED BY <2>1, <2>2
  <1> QED BY <1>10, <1>13

\* The transaction leaves a database that shows what its replica makes of it.
LEMMA HistoryOfApply ==
    ASSUME TypeOK, PreviewsMaterialized, ConvergenceInv, NEW d \in Devices, Apply(d),
           StillCurrent(d, job[d].preview)
    PROVE  History(db'[d])
  <1> DEFINE p == job[d].preview
             b == db'[d]
  <1>1. /\ p \in Previews /\ p.doc \in Replicas /\ b.local \in {db[d].local, p.effective}
        /\ b.record \in Records /\ b.record.replica = p.doc /\ b.record.effective = b.local
        /\ b.record.pending = p.record.pending
        /\ ~b.record.deferred => b.local = p.effective
    BY ApplyEffect
  <1>2. p.local = db[d].local /\ p.effective = Materialize(p.local, p.doc)
    BY DEF Apply, StillCurrent, PreviewsMaterialized, Materialized
  <1>3. Sourced(OperationsIn(db[d]), Uploaded, p) /\ p.local \in SyncValues
    BY <1>1 DEF Apply, ConvergenceInv, Previews
  <1>4. b.record # None /\ OperationsIn(b) = p.doc /\ Baseline(b) = b.local
    BY <1>1, SyncConstants DEF OperationsIn, Baseline
  <1>5. Covered(p.local, p.doc) /\ Causal(p.doc)
    BY <1>3 DEF Sourced
  <1>6. Covered(b.local, p.doc)
    BY <1>1, <1>2, <1>3, <1>5, MaterializeCovered
  <1>7. PendingKnown(b.record)
    BY <1>1, <1>3 DEF Sourced, PendingKnown
  <1>8. Shown(b)
    BY <1>1, <1>2, <1>3, <1>5 DEF Shown
  <1> QED BY <1>4, <1>5, <1>6, <1>7, <1>8 DEF History

\* The parts of the operations that anybody can find.
LEMMA WrittenMembers ==
    ASSUME NEW S, Uploaded' \subseteq S, \A e \in Devices : OperationsIn(db'[e]) \subseteq S,
           copy' # None => OperationsIn(copy') \subseteq S
    PROVE  Written' \subseteq S
  BY DEF Written

\* A database whose record has the same replica and baseline is as good.
LEMMA HistorySame ==
    ASSUME NEW b, NEW c, History(b), b.record # None, c.record # None,
           c.local = b.local, c.touched = b.touched,
           c.record.replica = b.record.replica, c.record.effective = b.record.effective,
           c.record.deferred = b.record.deferred, PendingKnown(c.record)
    PROVE  History(c)
  <1>1. OperationsIn(c) = OperationsIn(b) /\ Baseline(c) = Baseline(b)
    BY DEF OperationsIn, Baseline
  <1> QED BY <1>1 DEF History, Shown

\* An upload adds the operations of the pending publication to the remote, at most.
LEMMA UploadAdds ==
    ASSUME TypeOK, NEW d \in Devices, Upload(d)
    PROVE  /\ Uploaded \subseteq Uploaded'
           /\ Uploaded' \subseteq Uploaded \cup db[d].record.pending.replica
  <1> DEFINE id == db[d].record.pending
  <1>1. CASE objects' = objects
    BY <1>1 DEF Uploaded
  <1>2. CASE objects' # objects
    <2>1. PICK w \in BOOLEAN : objects' = {o \in objects : o.id # id} \cup {Object(id, w)}
      BY <1>2, UploadEffect DEF Store
    <2>2. \A w2 : Object(id, w2).id = id
      BY DEF Object
    <2>3. \A x \in objects : \E y \in objects' : y.id = x.id
      BY <2>1, <2>2
    <2>4. \A y \in objects' : y.id = id \/ \E x \in objects : x.id = y.id
      BY <2>1, <2>2
    <2> QED BY <2>3, <2>4 DEF Uploaded
  <1> QED BY <1>1, <1>2

\* No step of a device breaks the history of operations.
LEMMA ConvergenceStep ==
    ASSUME TypeOK, NumbersInv, PreviewsMaterialized, EditsInv, ConvergenceInv, OnlyReserved,
           [Next]_vars
    PROVE  ConvergenceInv'
  <1>1. CASE UNCHANGED vars
    <2>1. Issued' = Issued /\ Uploaded' = Uploaded
      BY <1>1 DEF vars, Issued, PendingIn, Uploaded
    <2>2. Written' = Written /\ \A o : Named(o)' <=> Named(o)
      BY <1>1, <2>1 DEF vars, Written, Named, Process
    <2> QED BY <1>1, <2>1, <2>2 DEF vars, ConvergenceInv
  <1>2. ASSUME NEW d \in Devices,
               Operation(d) \/ Edit(d) \/ TakeCopy(d) \/ Restart(d) \/ RestoreCopy(d)
        PROVE  ConvergenceInv'
    <2> DEFINE ops == OperationsIn(db[d])
    <2>1. /\ History(db[d])
          /\ held[d] # None => Sourced(ops, Uploaded, held[d])
          /\ job[d].phase \in {"confirm", "apply"} => Sourced(ops, Uploaded, job[d].preview)
      BY DEF ConvergenceInv
    <2>2. /\ Uploaded \subseteq Written /\ \A e \in Devices : OperationsIn(db[e]) \subseteq Written
          /\ copy # None => OperationsIn(copy) \subseteq Written
      BY DEF Written
    <2>3. ASSUME UNCHANGED <<db, objects, copy, process>>
          PROVE  /\ Uploaded' = Uploaded /\ OneName(Written') /\ \A o \in Written' : Named(o)'
                 /\ OperationsIn(db'[d]) = ops /\ History(db'[d])
      <3>1. Uploaded' = Uploaded /\ Written' = Written
        BY <2>3 DEF Uploaded, Written
      <3> QED BY <2>1, <2>3, <3>1, NamesKept
    <2>4. CASE AutoSync(d)
      <3>1. /\ \A e \in Devices \ {d} : job'[e] = job[e]
            /\ job'[d].preview = Preview(d) /\ UNCHANGED <<db, held, copy, objects, process>>
        BY <2>4 DEF AutoSync, TypeOK, backup
      <3> QED BY <2>1, <2>3, <3>1, PreviewSources, ConvergenceKept
    <2>5. CASE HoldPreview(d)
      <3>1. /\ \A e \in Devices \ {d} : held'[e] = held[e]
            /\ held'[d] = Preview(d) /\ UNCHANGED <<db, job, copy, objects, process>>
        BY <2>5 DEF HoldPreview, TypeOK, backup
      <3> QED BY <2>1, <2>3, <3>1, PreviewSources, ConvergenceKept
    <2>6. CASE ResolveConflict(d)
      <3>1. \A e \in Devices \ {d} : held'[e] = held[e]
        BY <2>6, ResolveEffect
      <3>2. UNCHANGED <<db, job, copy, objects, process>>
        BY <2>6 DEF ResolveConflict, backup
      <3> QED BY <2>1, <2>3, <2>6, <3>1, <3>2, ResolveSources, ConvergenceKept
    <2>7. CASE ApplyHeld(d)
      <3>1. /\ \A e \in Devices \ {d} : held'[e] = held[e] /\ job'[e] = job[e]
            /\ held[d] # None /\ held'[d] = None /\ job'[d].preview = held[d]
            /\ UNCHANGED <<db, copy, objects, process>>
        BY <2>7 DEF ApplyHeld, TypeOK, backup
      <3> QED BY <2>1, <2>3, <3>1, ConvergenceKept
    <2>8. CASE Confirm(d) \/ Cancel(d)
      <3>1. /\ \A e \in Devices \ {d} : job'[e] = job[e]
            /\ job[d].phase = "confirm" /\ UNCHANGED <<db, held, copy, objects, process>>
            /\ job'[d].phase = "idle" \/ job'[d].preview = job[d].preview
        BY <2>8, IdleType DEF Confirm, Cancel, TypeOK, backup
      <3> QED BY <2>1, <2>3, <3>1, ConvergenceKept
    <2>9. CASE Apply(d) /\ ~StillCurrent(d, job[d].preview)
      <3>1. UNCHANGED <<db, held, copy, objects, process>> /\ job' = [job EXCEPT ![d] = Idle]
        BY <2>9 DEF Apply, backup
      <3>2. job'[d].phase = "idle" /\ \A e \in Devices \ {d} : job'[e] = job[e]
        BY <3>1, IdleType DEF TypeOK
      <3> QED BY <2>1, <2>3, <3>1, <3>2, ConvergenceKept
    <2>10. CASE Apply(d) /\ StillCurrent(d, job[d].preview)
      <3> DEFINE p == job[d].preview
      <3>1. /\ OnlyOf(d) /\ db'[d].record \in Records /\ db'[d].record.replica = p.doc
            /\ job' = [job EXCEPT ![d] = [phase |-> "publish", preview |-> None]]
        BY <2>10, ApplyEffect
      <3>2. UNCHANGED <<held, copy, objects>>
        BY <2>10 DEF Apply, backup
      <3>3. /\ job'[d].phase = "publish"
            /\ \A e \in Devices \ {d} : db'[e] = db[e] /\ job'[e] = job[e]
        BY <3>1 DEF OnlyOf, TypeOK
      <3>4. History(db'[d])
        BY <2>10, HistoryOfApply
      <3>5. OneName(Written') /\ \A o \in Written' : Named(o)'
        BY <2>10, NamesOfApply
      <3>6. Uploaded' = Uploaded
        BY <3>2 DEF Uploaded
      <3>7. ops \subseteq OperationsIn(db'[d])
        <4>1. OperationsIn(db'[d]) = p.doc
          BY <3>1, SyncConstants DEF OperationsIn
        <4>2. ops = p.record.replica /\ p.record.replica \subseteq p.doc
          BY <2>1, <2>10 DEF Apply, Sourced, StillCurrent, OperationsIn
        <4> QED BY <4>1, <4>2
      <3>8. held[d] # None => Sourced(OperationsIn(db'[d]), Uploaded', held[d])
        BY <2>1, <3>6, <3>7, SourcedMore
      <3> QED BY <3>2, <3>3, <3>4, <3>5, <3>6, <3>8, ConvergenceKept
    <2>11. CASE Reserve(d) \/ Acknowledge(d)
      <3>1. UNCHANGED <<held, copy, objects, process>>
        BY <2>11 DEF Reserve, Acknowledge, backup
      <3>2. /\ \A e \in Devices \ {d} : db'[e] = db[e] /\ job'[e] = job[e]
            /\ job'[d].phase \notin {"confirm", "apply"}
        <4>1. CASE Reserve(d)
          <5>1. \A e \in Devices \ {d} : db'[e] = db[e]
            BY <4>1, ReserveEffect DEF OnlyOf
          <5>2. PICK j \in {Idle, [job[d] EXCEPT !.phase = "upload"]} : job' = [job EXCEPT ![d] = j]
            BY <4>1, ReserveEffect
          <5> QED BY <5>1, <5>2, IdleType DEF TypeOK
        <4>2. CASE Acknowledge(d)
          <5>1. OnlyOf(d) /\ job' = [job EXCEPT ![d].phase = "publish"]
            BY <4>2, AcknowledgeEffect DEF Acknowledge
          <5> QED BY <5>1 DEF OnlyOf, TypeOK
        <4> QED BY <2>11, <4>1, <4>2
      <3>3. History(db'[d]) /\ OperationsIn(db'[d]) = ops
        <4>1. CASE db' = db
          BY <2>1, <4>1
        <4>2. CASE db' # db
          <5>1. /\ db'[d].local = db[d].local /\ db'[d].touched = db[d].touched
                /\ db[d].record \in Records /\ db'[d].record \in Records
                /\ \A f \in {"replica", "effective", "deferred"} :
                      db'[d].record[f] = db[d].record[f]
                /\ \/ db'[d].record.pending = None
                   \/ db'[d].record.pending.replica = db[d].record.replica
            <6>1. CASE Reserve(d)
              BY <4>2, <6>1, ReserveEffect
            <6>2. CASE Acknowledge(d)
              BY <6>2, AcknowledgeEffect
            <6> QED BY <2>11, <6>1, <6>2
          <5>2. db[d].record # None /\ db'[d].record # None
            BY <5>1, SyncConstants
          <5>3. PendingKnown(db'[d].record)
            BY <5>1 DEF PendingKnown
          <5> QED BY <2>1, <5>1, <5>2, <5>3, HistorySame DEF OperationsIn
        <4> QED BY <4>1, <4>2
      <3>4. Uploaded' = Uploaded
        BY <3>1 DEF Uploaded
      <3>5. \A e \in Devices : OperationsIn(db'[e]) = OperationsIn(db[e])
        BY <3>2, <3>3
      <3>6. Written' \subseteq Written
        BY <2>2, <3>1, <3>4, <3>5, WrittenMembers
      <3>7. OneName(Written') /\ \A o \in Written' : Named(o)'
        BY <3>1, <3>5, <3>6, NamesKept
      <3> QED BY <2>1, <3>1, <3>2, <3>3, <3>4, <3>7, ConvergenceKept
    <2>12. CASE Upload(d)
      <3>1. UNCHANGED <<db, held, copy, process>>
        BY <2>12 DEF Upload, backup
      <3>2. PICK j \in {Idle, [job[d] EXCEPT !.phase = "register"]} : job' = [job EXCEPT ![d] = j]
        BY <2>12, UploadEffect
      <3>3. /\ \A e \in Devices \ {d} : job'[e] = job[e]
            /\ job'[d].phase \notin {"confirm", "apply"}
        BY <3>2, IdleType DEF TypeOK
      <3>4. /\ Uploaded \subseteq Uploaded'
            /\ Uploaded' \subseteq Uploaded \cup db[d].record.pending.replica
        BY <2>12, UploadAdds
      <3>5. db[d].record # None /\ db[d].record.pending # None
        BY <2>12, UploadEffect, SyncConstants
      <3>6. db[d].record.pending.replica \subseteq ops
        BY <2>1, <3>5 DEF History, PendingKnown, OperationsIn
      <3>7. Written' \subseteq Written
        BY <2>2, <3>1, <3>4, <3>6, WrittenMembers
      <3>8. OneName(Written') /\ \A o \in Written' : Named(o)'
        BY <3>1, <3>7, NamesKept
      <3>9. held[d] # None => Sourced(ops, Uploaded', held[d])
        BY <2>1, <3>4, SourcedMore
      <3> QED BY <2>1, <3>1, <3>3, <3>4, <3>8, <3>9, ConvergenceKept
    <2>13. CASE Register(d)
      <3>1. /\ \A e \in Devices \ {d} : job'[e] = job[e]
            /\ job'[d].phase \notin {"confirm", "apply"}
            /\ UNCHANGED <<db, held, copy, objects, process>>
        BY <2>13, IdleType DEF Register, TypeOK, backup
      <3> QED BY <2>1, <2>3, <3>1, ConvergenceKept
    <2>14. CASE Edit(d)
      <3>1. OnlyOf(d) /\ db'[d].record = db[d].record /\ db'[d].touched = TRUE
        BY <2>14, EditEffect
      <3>2. UNCHANGED <<held, job, copy, objects, process>>
        BY <2>14 DEF Edit, backup
      <3>3. \A e \in Devices : OperationsIn(db'[e]) = OperationsIn(db[e])
        BY <3>1 DEF OnlyOf, OperationsIn
      <3>4. Uploaded' = Uploaded
        BY <3>2 DEF Uploaded
      <3>5. Written' \subseteq Written
        BY <2>2, <3>2, <3>3, <3>4, WrittenMembers
      <3>6. OneName(Written') /\ \A o \in Written' : Named(o)'
        BY <3>2, <3>3, <3>5, NamesKept
      <3>7. History(db'[d])
        BY <2>1, <3>1, <3>3 DEF History, Shown, Baseline
      <3> QED BY <2>1, <3>1, <3>2, <3>3, <3>4, <3>6, <3>7, ConvergenceKept DEF OnlyOf
    <2>15. CASE TakeCopy(d)
      <3>1. copy' = db[d] /\ UNCHANGED <<db, held, job, objects, process>>
        BY <2>15 DEF TakeCopy
      <3>2. Uploaded' = Uploaded
        BY <3>1 DEF Uploaded
      <3>3. Written' \subseteq Written
        BY <2>2, <3>1, <3>2, WrittenMembers
      <3>4. OneName(Written') /\ \A o \in Written' : Named(o)'
        BY <3>1, <3>3, NamesKept
      <3> QED BY <2>1, <3>1, <3>2, <3>4, ConvergenceKept
    <2>16. CASE Restart(d) \/ RestoreCopy(d)
      <3>1. /\ \A e \in Devices \ {d} : db'[e] = db[e] /\ held'[e] = held[e] /\ job'[e] = job[e]
            /\ held'[d] = None /\ job'[d].phase = "idle" /\ copy' \in {copy, None}
            /\ objects' = objects /\ process' = [process EXCEPT ![d] = @ + 1]
        BY <2>16, IdleType DEF Restart, RestoreCopy, NextProcess, TypeOK, backup
      <3>2. db'[d] = db[d] \/ (copy # None /\ db'[d] = copy)
        BY <2>16 DEF Restart, RestoreCopy, TypeOK
      <3>3. History(db'[d]) /\ OperationsIn(db'[d]) \subseteq Written
        BY <2>2, <3>2 DEF ConvergenceInv
      <3>4. Uploaded' = Uploaded
        BY <3>1 DEF Uploaded
      <3>5. Written' \subseteq Written
        BY <2>2, <3>1, <3>3, <3>4, WrittenMembers
      <3>6. OneName(Written') /\ \A o \in Written' : Named(o)'
        BY <3>1, <3>5, NamesOfNewProcess
      <3> QED BY <3>1, <3>3, <3>4, <3>6, ConvergenceKept
    <2> QED BY <1>2, <2>4, <2>5, <2>6, <2>7, <2>8, <2>9, <2>10, <2>11, <2>12, <2>13, <2>14,
               <2>15, <2>16 DEF Operation
  <1> QED BY <1>1, <1>2 DEF Next

\* Nobody has written an operation at first.
LEMMA ConvergenceInit == Init => ConvergenceInv
  <1> SUFFICES ASSUME Init PROVE ConvergenceInv
    OBVIOUS
  <1>1. \A d \in Devices : db[d].record = None /\ held[d] = None /\ job[d].phase = "idle"
    BY IdleType DEF Init
  <1>2. Issued = {} /\ copy = None /\ objects = {}
    BY <1>1 DEF Init, Issued, PendingIn
  <1>3. Written = {}
    BY <1>1, <1>2 DEF Written, Uploaded, OperationsIn
  <1>4. \A d \in Devices : History(db[d])
    BY <1>1 DEF History, Causal, Covered, Baseline, OperationsIn, Shown, Nothing
  <1> QED BY <1>1, <1>2, <1>3, <1>4 DEF ConvergenceInv, OneName

\* Settled devices with the same replica made the same of it.
LEMMA ConvergenceImplies == TypeOK /\ EditsInv /\ ConvergenceInv => Converged
  <1> SUFFICES ASSUME TypeOK, EditsInv, ConvergenceInv, NEW d \in Devices, NEW e \in Devices,
                      Settled(d), Settled(e), db[d].record.replica = db[e].record.replica,
                      Conflicts(db[d].record.replica) = {}
               PROVE  db[d].local = db[e].local
    BY DEF Converged
  <1> DEFINE doc == db[d].record.replica
  <1>1. /\ db[d].record # None /\ ~db[d].touched /\ ~db[d].record.deferred
        /\ db[e].record # None /\ ~db[e].touched /\ ~db[e].record.deferred
    BY DEF Settled, Recorded
  <1>2. doc = OperationsIn(db[d]) /\ doc \in Replicas
    BY <1>1, LoadedFields DEF OperationsIn
  <1>3. Counted(doc) /\ Causal(doc) /\ OneName(doc)
    BY <1>2 DEF EditsInv, DatabaseInv, Numbered, Counted, ConvergenceInv, History, OneName, Written
  <1>4. PICK s \in SyncValues : Covered(s, doc) /\ db[d].local = Materialize(s, doc)
    BY <1>1 DEF ConvergenceInv, History, Shown
  <1>5. PICK t \in SyncValues : Covered(t, doc) /\ db[e].local = Materialize(t, doc)
    BY <1>1 DEF ConvergenceInv, History, Shown
  <1> QED BY <1>2, <1>3, <1>4, <1>5, MaterializeAgrees

\* Devices that have exchanged everything and have no conflict show the same, for any
\* number of devices and in whatever order edits, deletions, publications, crashes and
\* restored copies came (capture, merge, materialize, apply_core_plan).
THEOREM DevicesConverge == Spec => []Converged
  <1>1. Init => PreviewsMaterialized
    BY IdleType DEF Init, PreviewsMaterialized
  <1>2. TypeOK /\ PreviewsMaterialized /\ [Next]_vars => PreviewsMaterialized'
    BY MaterializedStep
  <1>3. TypeOK /\ PreviewsMaterialized /\ EditsInv /\ OnlyReserved /\ [Next]_vars => EditsInv'
    BY EditsStep
  <1>4. /\ TypeOK /\ NumbersInv /\ PreviewsMaterialized /\ EditsInv /\ ConvergenceInv
        /\ OnlyReserved /\ [Next]_vars
        => ConvergenceInv'
    BY ConvergenceStep
  <1>5. TypeOK /\ EditsInv /\ ConvergenceInv => Converged
    BY ConvergenceImplies
  <1> QED BY <1>1, <1>2, <1>3, <1>4, <1>5, TypeInit, TypeStep, NumbersInit, NumbersStep,
             EditsInit, ConvergenceInit, PTL DEF Spec
=============================================================================
