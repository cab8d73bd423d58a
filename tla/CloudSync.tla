------------------------------ MODULE CloudSync ------------------------------
(***************************************************************************)
(* Cloud Sync V4: devices that keep the same configuration in their own    *)
(* databases and exchange replicas through a directory in the cloud.       *)
(* nyaterm-sync (engine.rs, protocol.rs, application.rs), the store's      *)
(* transactions (nyaterm-store storage/cloud_sync_v4.rs) and the desktop's *)
(* orchestration (features/sync/cloud_sync_v4.rs).                         *)
(*                                                                         *)
(* One resource with its presence and one field stands for the catalogue:  *)
(* registers of different resources do not interact in the engine.  A      *)
(* replica is a set of operations, each naming the ones it overwrote       *)
(* (Automerge); an encrypted publication is the replica it holds.          *)
(*                                                                         *)
(* A sync operation of a device runs under the process-wide operation lock:*)
(* prepare, confirm, apply, publish.  A preview the user looks at is held  *)
(* outside the lock.  The user edits at any time; a process may die at any *)
(* step; a database may be put back from a copy; a remote write may fail   *)
(* before, in the middle of or after taking effect.                        *)
(***************************************************************************)
EXTENDS Integers, Sequences, FiniteSets, FiniteSetsExt

CONSTANTS
    Devices,
    Values,         \* values of the field
    None,           \* no record, no publication, no preview
    MaxEdits,       \* bound: edits by users
    MaxPrepares,    \* bound: previews and automatic syncs
    MaxFaults       \* bound: crashes, failed writes and refused applications

VARIABLES
    db,         \* db[d]: the database of the device
    process,    \* process[d]: which process runs on the device (PROCESS_ACTOR)
    held,       \* held[d]: the preview the user looks at
    job,        \* job[d]: the operation that holds the lock
    objects,    \* the publications on the remote, whole or damaged
    registry,   \* writers in the registry directory
    copy,       \* a copy of some database, taken earlier and not yet put back
    restored,   \* a database was put back from a copy
    edits, prepares, faults

backup == <<copy, restored>>
vars == <<db, process, held, job, objects, registry, copy, restored, edits, prepares, faults>>

-----------------------------------------------------------------------------
(* What the databases and replicas hold.                                   *)

Fields == {"$present", "value"}

Nothing == [f \in {} |-> "true"]
Bare == [f \in {"$present"} |-> "true"]
Holding(v) == [f \in Fields |-> IF f = "value" THEN v ELSE "true"]

\* SyncValues of the resource: absent, without a value, or with one.
SyncValues == {Nothing, Bare} \cup {Holding(v) : v \in Values}

\* A process of a device is a writer; a branch of its replica has a number too.
Processes == Devices \X Nat
Authors == Processes \cup (Devices \X Nat \X Nat)
Branch(w, n) == <<w[1], w[2], n>>

\* An operation of a replica: a presence, or the value of the field.
OperationsOn(field, values) ==
    [writer : Authors, n : Nat, field : {field}, value : values,
     overwrote : SUBSET (Authors \X Nat)]

Operations ==
    OperationsOn("$present", {"true", "false"}) \cup OperationsOn("value", Values \cup {"deleted"})

Replicas == {doc \in SUBSET Operations : IsFiniteSet(doc)}

\* PublicationId with the replica its bytes encode
Publications == [writer : Processes, sequence : Nat \ {0}, replica : Replicas]

\* LocalReplica: what a database keeps for the destination
Records ==
    [writer : Processes, owner : Processes, next : Nat \ {0},
     replica : Replicas, effective : SyncValues, applied : Nat,
     pending : Publications \cup {None}, published : Replicas \cup {None},
     observed : SUBSET Publications, deferred : BOOLEAN]

ASSUME SyncConstants ==
    /\ MaxEdits \in Nat /\ MaxPrepares \in Nat /\ MaxFaults \in Nat
    /\ {"true", "false", "deleted"} \cap Values = {}
    /\ None \notin Values \cup {"true", "false", "deleted"}
    /\ None \notin Publications /\ None \notin Records

Present(s) == "$present" \in DOMAIN s
At(s, f) == IF f \in DOMAIN s THEN s[f] ELSE None

Id(o) == <<o.writer, o.n>>

\* SyncReplica::candidates: what no other operation of the replica overwrote
Candidates(doc, f) ==
    LET overwritten == UNION {p.overwrote : p \in doc}
    IN {o \in doc : o.field = f /\ Id(o) \notin overwritten}

CandidateValues(doc, f) == {o.value : o \in Candidates(doc, f)}

\* SyncReplica::write and delete_field
Put(doc, w, f, v) ==
    doc \cup {[writer |-> w, n |-> Cardinality(doc) + 1, field |-> f, value |-> v,
               overwrote |-> {Id(o) : o \in Candidates(doc, f)}]}

\* SyncReplica::capture.  A deletion is one write; a change writes the changed
\* field and confirms the presence.
Capture(doc, w, baseline, current, edited) ==
    LET changed == {f \in DOMAIN baseline \cup DOMAIN current :
                       At(baseline, f) # At(current, f) \/ f \in edited}
        value == IF "value" \in DOMAIN current THEN current["value"] ELSE "deleted"
        written == IF "value" \in changed THEN Put(doc, w, "value", value) ELSE doc
    IN IF Present(baseline) /\ ~Present(current)
       THEN Put(doc, w, "$present", "false")
       ELSE IF changed = {} THEN doc
       ELSE Put(written, w, "$present", "true")

\* SyncReplica::conflicts: a presence in doubt hides the field.
Conflicts(doc) ==
    {f \in Fields :
        /\ Cardinality(CandidateValues(doc, f)) > 1
        /\ f = "value" => CandidateValues(doc, "$present") = {"true"}}

\* Variant of Materialize: a conflict goes to one of its candidates.
MaterializeWinner(local, doc) ==
    IF Candidates(doc, "$present") = {} THEN local
    ELSE IF (CHOOSE o \in Candidates(doc, "$present") : TRUE).value = "false" THEN Nothing
    ELSE IF Candidates(doc, "value") = {} THEN Bare
    ELSE LET v == (CHOOSE o \in Candidates(doc, "value") : TRUE).value
         IN IF v = "deleted" THEN Bare ELSE Holding(v)

\* Variant of Materialize: a value the device has stays.
MaterializeNew(local, doc) ==
    LET values == CandidateValues(doc, "value") \ {"deleted"}
    IN IF CandidateValues(doc, "$present") = {"false"} THEN Nothing
       ELSE IF CandidateValues(doc, "$present") # {"true"} \/ Present(local) THEN local
       ELSE IF Cardinality(values) = 1 THEN Holding(CHOOSE v \in values : TRUE)
       ELSE IF "value" \in Conflicts(doc) THEN local
       ELSE Bare

\* SyncReplica::materialize: a register with several values leaves the local
\* one alone, and a new resource waits until none of its registers has.
Materialize(local, doc) ==
    LET values == CandidateValues(doc, "value")
        presence == CandidateValues(doc, "$present")
    IN IF presence = {"false"} THEN Nothing
       ELSE IF presence # {"true"} THEN local
       ELSE IF "value" \in Conflicts(doc) /\ ~Present(local) THEN local
       ELSE IF values = {"deleted"} THEN Bare
       ELSE IF Cardinality(values) = 1 THEN Holding(CHOOSE v \in values : TRUE)
       ELSE IF Present(local) THEN local
       ELSE Bare

-----------------------------------------------------------------------------
(* The record a database keeps for the destination: LocalReplica.          *)

Process(d) == <<d, process[d]>>

FirstSequence == 1

NewRecord(d) ==
    [writer |-> Process(d), owner |-> Process(d), next |-> FirstSequence,
     replica |-> {}, effective |-> Nothing, applied |-> 0, pending |-> None,
     published |-> None, observed |-> {},
     deferred |-> FALSE]

\* Variant of Adopt: a database goes on with the writer it has.
AdoptWriter(d, r) == [r EXCEPT !.owner = Process(d)]

\* load_v4_view: never author with the writer of another process.
Adopt(d, r) ==
    IF r.owner = Process(d) THEN r
    ELSE [r EXCEPT !.writer = Process(d), !.next = FirstSequence, !.owner = Process(d)]

LoadedRecord(d) == IF db[d].record = None THEN NewRecord(d) ELSE Adopt(d, db[d].record)

Edited(d, r) == {f \in Fields : db[d].journal[f] > r.applied}

-----------------------------------------------------------------------------
(* Prepare: prepare_remote_with_view.                                      *)

\* The publications a device finds: of registered writers, of the writers it
\* knows, and its own pending one.
Listed(r) ==
    LET known == {p.writer : p \in r.observed}
                 \cup (IF r.pending = None THEN {} ELSE {r.pending.writer})
    IN {o \in objects : o.id.writer \in registry \cup known}

SameNumber(p, q) == p.writer = q.writer /\ p.sequence = q.sequence

\* Two publications of one writer with one number.
ForkIn(ids) == \E p, q \in ids : SameNumber(p, q) /\ p # q

\* The error returns of prepare: a writer identity fork, or a damaged object
\* that is not the device's own pending one.
Readable(r) ==
    /\ ~ForkIn(r.observed \cup {o.id : o \in Listed(r)})
    /\ \A o \in Listed(r) : o.whole \/ o.id \in r.observed \/ o.id = r.pending

News(r) == {o.id : o \in {x \in Listed(r) : x.whole}} \ r.observed

\* prepare: what the device changed since its last apply, branched before it
\* sees anything new.  A resource it never had a baseline for goes on a branch
\* of its own.
Captured(d, r) ==
    LET local == db[d].local
    IN IF Present(local) /\ ~Present(r.effective)
       THEN r.replica \cup Capture({}, Branch(r.writer, Cardinality(r.replica)),
                                   Nothing, local, {})
       ELSE Capture(r.replica, r.writer, r.effective, local, Edited(d, r))

Preview(d) ==
    LET r == LoadedRecord(d)
        doc == Captured(d, r) \cup UNION {p.replica : p \in News(r)}
    IN [record |-> [r EXCEPT !.observed = @ \cup News(r)],
        expected |-> db[d].record, generation |-> db[d].generation,
        local |-> db[d].local, doc |-> doc, effective |-> Materialize(db[d].local, doc)]

Idle == [phase |-> "idle", preview |-> None]

\* preview_manual
HoldPreview(d) ==
    /\ job[d] = Idle
    /\ prepares < MaxPrepares
    /\ prepares' = prepares + 1
    /\ Readable(LoadedRecord(d))
    /\ held' = [held EXCEPT ![d] = Preview(d)]
    /\ UNCHANGED <<db, process, job, objects, registry, backup, edits, faults>>

\* Nothing to do for an automatic sync; what was deferred is tried again only
\* when the database has changed since.
Skips(p) ==
    /\ p.expected # None
    /\ p.doc = p.record.replica /\ p.record.published = p.doc
    /\ p.record.pending = None
    /\ ~p.record.deferred \/ p.record.applied = p.generation

\* run_auto_sync: prepares and confirms under one lock.  When it refuses (a migration,
\* a pull that is not safe, a direction that is switched off) it changes nothing: a
\* step that leaves all variables as they are.
AutoSync(d) ==
    /\ job[d] = Idle
    /\ prepares < MaxPrepares
    /\ prepares' = prepares + 1
    /\ Readable(LoadedRecord(d))
    /\ LET p == Preview(d)
       IN ~Skips(p) /\ job' = [job EXCEPT ![d] = [phase |-> "confirm", preview |-> p]]
    /\ UNCHANGED <<db, process, held, objects, registry, backup, edits, faults>>

\* Preview::resolve: the user picks a candidate of a conflict in the preview.
ResolveConflict(d) ==
    /\ job[d] = Idle
    /\ held[d] # None
    /\ \E f \in Conflicts(held[d].doc) : \E v \in CandidateValues(held[d].doc, f) :
          LET doc == Put(held[d].doc, held[d].record.writer, f, v)
          IN held' = [held EXCEPT ![d].doc = doc,
                                  ![d].effective = Materialize(held[d].local, doc)]
    /\ UNCHANGED <<db, process, job, objects, registry, backup, edits, prepares, faults>>

\* The user applies the preview: it is taken into an operation.
ApplyHeld(d) ==
    /\ job[d] = Idle
    /\ held[d] # None
    /\ job' = [job EXCEPT ![d] = [phase |-> "confirm", preview |-> held[d]]]
    /\ held' = [held EXCEPT ![d] = None]
    /\ UNCHANGED <<db, process, objects, registry, backup, edits, prepares, faults>>

-----------------------------------------------------------------------------
(* Confirm and apply: apply_and_publish, apply_core_plan.                  *)

\* Nothing to commit on either side.
Unchanged(d, p) ==
    /\ p.expected # None
    /\ p.record.pending = None /\ ~p.record.deferred
    /\ p.record.effective = p.local /\ p.effective = p.local
    /\ Edited(d, p.record) = {}
    /\ p.doc = p.record.replica /\ p.record.published = p.doc
    /\ p.record.observed = p.expected.observed

\* A preview that missed a publication or an edit is not applied; a cancelled
\* operation ends here too (begin_commit).
Confirm(d) ==
    /\ job[d].phase = "confirm"
    /\ LET p == job[d].preview
           fresh == Preview(d)
           confirmed == /\ Readable(LoadedRecord(d))
                        /\ fresh.record.observed = p.record.observed
                        /\ fresh.expected = p.expected
                        /\ fresh.generation = p.generation
                        /\ ~Unchanged(d, p)
       IN job' = [job EXCEPT ![d] = IF confirmed THEN [@ EXCEPT !.phase = "apply"]
                                                 ELSE Idle]
    /\ UNCHANGED <<db, process, held, objects, registry, backup, edits, prepares, faults>>

Cancel(d) ==
    /\ job[d].phase = "confirm"
    /\ job' = [job EXCEPT ![d] = Idle]
    /\ UNCHANGED <<db, process, held, objects, registry, backup, edits, prepares, faults>>

\* Variant of StillCurrent: edits since the preview are not looked for.
RecordStillCurrent(d, p) == db[d].record = p.expected

\* The compare-and-swap of the apply transaction.
StillCurrent(d, p) ==
    /\ db[d].record = p.expected
    /\ db[d].generation = p.generation
    /\ db[d].local = p.local

\* Variant of AppliedGeneration: as it was before the transaction's writes.
GenerationOfPlan(p, written) == p.generation

\* The transaction's own writes are journalled like edits; the generation is
\* read after them.
AppliedGeneration(p, written) == written

Journalled(journal, before, after, generation) ==
    [f \in Fields |-> IF At(before, f) # At(after, f) THEN generation ELSE journal[f]]

\* apply_core_plan, one transaction.  constrain_application may leave out what
\* the local catalogue cannot take; that part is deferred.  The baseline of later
\* captures is what the transaction really wrote.
Apply(d) ==
    /\ job[d].phase = "apply"
    /\ LET p == job[d].preview
       IN IF ~StillCurrent(d, p)
          THEN /\ job' = [job EXCEPT ![d] = Idle]
               /\ UNCHANGED <<db, faults>>
          ELSE \E deferred \in IF faults < MaxFaults /\ p.effective # p.local
                                 THEN BOOLEAN ELSE {FALSE} :
                 LET applied == IF deferred THEN db[d].local ELSE p.effective
                     g == IF applied = db[d].local THEN db[d].generation
                          ELSE db[d].generation + 1
                 IN /\ db' = [db EXCEPT
                         ![d].local = applied,
                         ![d].touched = FALSE,
                         ![d].generation = g,
                         ![d].journal = Journalled(@, db[d].local, applied, g),
                         ![d].record = [p.record EXCEPT
                                          !.replica = p.doc,
                                          !.effective = applied,
                                          !.deferred = deferred,
                                          !.applied = AppliedGeneration(p, g)]]
                    /\ job' = [job EXCEPT ![d] = [phase |-> "publish", preview |-> None]]
                    /\ faults' = IF deferred THEN faults + 1 ELSE faults
    /\ UNCHANGED <<process, held, objects, registry, backup, edits, prepares>>

-----------------------------------------------------------------------------
(* Publish: publish and publish_bytes.  The operation lock keeps every     *)
(* other writer of the record away, so the record in memory is the durable *)
(* one and its receipt stays valid.                                        *)

NeedsPublication(r) == r.published # r.replica

\* Persist the exact bytes before they are uploaded; a pending publication is
\* retried before another one is reserved.
Reserve(d) ==
    /\ job[d].phase = "publish"
    /\ LET r == db[d].record
       IN IF r.pending = None /\ ~NeedsPublication(r)
          THEN /\ job' = [job EXCEPT ![d] = Idle]
               /\ UNCHANGED db
          ELSE /\ job' = [job EXCEPT ![d].phase = "upload"]
               /\ IF r.pending # None
                  THEN UNCHANGED db
                  ELSE db' = [db EXCEPT ![d].record =
                           [r EXCEPT !.next = @ + 1,
                                     !.pending = [writer |-> r.writer, sequence |-> r.next,
                                                  replica |-> r.replica]]]
    /\ UNCHANGED <<process, held, objects, registry, backup, edits, prepares, faults>>

Object(id, whole) == [id |-> id, whole |-> whole]
Store(id, whole) == {o \in objects : o.id # id} \cup {Object(id, whole)}

\* Variant of Verified: the object is not read back.
UploadedUnread(id, remote) == \E o \in remote : o.id = id

\* The read-back at the end of the upload.
Verified(id, remote) == Object(id, TRUE) \in remote

\* What a write may leave behind: with a fault, nothing, part of the object or
\* all of it.  A whole object is left alone, a damaged one is repaired.
AfterWrite(id) ==
    IF Object(id, TRUE) \in objects THEN {objects}
    ELSE {Store(id, TRUE)} \cup (IF faults < MaxFaults THEN {objects, Store(id, FALSE)} ELSE {})

\* Whether the write is answered or reports an error is not tied to its effect.
Upload(d) ==
    /\ job[d].phase = "upload"
    /\ LET id == db[d].record.pending
       IN \E after \in AfterWrite(id), answered \in IF faults < MaxFaults THEN BOOLEAN ELSE {TRUE} :
            /\ objects' = after
            /\ job' = [job EXCEPT ![d] = IF answered /\ Verified(id, after)
                                         THEN [@ EXCEPT !.phase = "register"] ELSE Idle]
            /\ faults' = IF answered /\ Object(id, TRUE) \in after THEN faults ELSE faults + 1
    /\ UNCHANGED <<db, process, held, registry, backup, edits, prepares>>

Register(d) ==
    /\ job[d].phase = "register"
    /\ \E ok \in IF faults < MaxFaults THEN BOOLEAN ELSE {TRUE} :
          /\ registry' \in {registry \cup {db[d].record.pending.writer}}
                           \cup (IF ok THEN {} ELSE {registry})
          /\ job' = [job EXCEPT ![d] = IF ok THEN [@ EXCEPT !.phase = "acknowledge"]
                                             ELSE Idle]
          /\ faults' = IF ok THEN faults ELSE faults + 1
    /\ UNCHANGED <<db, process, held, objects, backup, edits, prepares>>

Acknowledge(d) ==
    /\ job[d].phase = "acknowledge"
    /\ LET r == db[d].record
       IN db' = [db EXCEPT ![d].record =
                    [r EXCEPT !.published = r.pending.replica,
                              !.observed = @ \cup {r.pending},
                              !.pending = None]]
    /\ job' = [job EXCEPT ![d].phase = "publish"]
    /\ UNCHANGED <<process, held, objects, registry, backup, edits, prepares, faults>>

-----------------------------------------------------------------------------
(* The user, and what happens to a device.                                 *)

\* The resource is part of the device's baseline.
Synced(d) == db[d].record # None /\ Present(db[d].record.effective)

\* A business transaction and its journal: track_edit.  `intent' remembers what
\* the user wanted last of the synchronized resource, `touched' that it was after the last apply.
Edit(d) ==
    /\ edits < MaxEdits
    /\ \E s \in SyncValues \ {db[d].local} :
          LET g == db[d].generation + 1
          IN db' = [db EXCEPT ![d].local = s,
                              ![d].intent = IF s = Nothing /\ ~Synced(d) THEN None ELSE s,
                              ![d].touched = TRUE,
                              ![d].generation = g,
                              ![d].journal = Journalled(@, db[d].local, s, g)]
    /\ edits' = edits + 1
    /\ UNCHANGED <<process, held, job, objects, registry, backup, prepares, faults>>

\* The fault that puts the copy back is counted when it is taken.
TakeCopy(d) ==
    /\ copy = None /\ db[d].record # None
    /\ faults < MaxFaults
    /\ faults' = faults + 1
    /\ copy' = db[d]
    /\ UNCHANGED <<db, process, held, job, objects, registry, restored, edits, prepares>>

\* A process dies and another one starts.
NextProcess(d) ==
    /\ process' = [process EXCEPT ![d] = @ + 1]
    /\ held' = [held EXCEPT ![d] = None]
    /\ job' = [job EXCEPT ![d] = Idle]
    /\ UNCHANGED <<objects, registry, edits, prepares>>

Restart(d) ==
    /\ faults < MaxFaults
    /\ faults' = faults + 1
    /\ NextProcess(d)
    /\ UNCHANGED <<db, backup>>

\* It starts with a copy in the place of its database.
RestoreCopy(d) ==
    /\ copy # None
    /\ db' = [db EXCEPT ![d] = copy]
    /\ copy' = None /\ restored' = TRUE
    /\ NextProcess(d)
    /\ UNCHANGED faults

-----------------------------------------------------------------------------
Init ==
    /\ \E s \in [Devices -> {Nothing} \cup {Holding(v) : v \in Values}] :
          db = [d \in Devices |->
                  [local |-> s[d], intent |-> None, touched |-> FALSE,
                   generation |-> 0,
                   journal |-> [f \in Fields |-> 0], record |-> None]]
    /\ process = [d \in Devices |-> 0]
    /\ held = [d \in Devices |-> None]
    /\ job = [d \in Devices |-> Idle]
    /\ objects = {} /\ registry = {} /\ copy = None /\ restored = FALSE
    /\ edits = 0 /\ prepares = 0 /\ faults = 0

Operation(d) ==
    \/ AutoSync(d) \/ HoldPreview(d) \/ ResolveConflict(d) \/ ApplyHeld(d)
    \/ Confirm(d) \/ Cancel(d) \/ Apply(d)
    \/ Reserve(d) \/ Upload(d) \/ Register(d) \/ Acknowledge(d)

Next == \E d \in Devices : Operation(d) \/ Edit(d) \/ TakeCopy(d) \/ Restart(d) \/ RestoreCopy(d)

Spec == Init /\ [][Next]_vars

-----------------------------------------------------------------------------
(* Properties.                                                             *)

Recorded(d) == db[d].record # None

Databases ==
    [local : SyncValues, intent : SyncValues \cup {None}, touched : BOOLEAN,
     generation : Nat, journal : [Fields -> Nat], record : Records \cup {None}]

Previews ==
    [record : Records, expected : Records \cup {None}, generation : Nat,
     local : SyncValues, doc : Replicas, effective : SyncValues]

Phases == {"idle", "confirm", "apply", "publish", "upload", "register", "acknowledge"}

\* No deletion, conflict or deferral leaves a state of the resource or an operation
\* on the wrong register, and an operation past prepare has its preview or record.
TypeOK ==
    /\ db \in [Devices -> Databases] /\ copy \in Databases \cup {None}
    /\ process \in [Devices -> Nat]
    /\ held \in [Devices -> Previews \cup {None}]
    /\ job \in [Devices -> [phase : Phases, preview : Previews \cup {None}]]
    /\ \A d \in Devices :
          /\ job[d].phase \in {"confirm", "apply"} => job[d].preview \in Previews
          /\ job[d].phase \notin {"idle", "confirm", "apply"} => db[d].record \in Records
          /\ job[d].phase \in {"upload", "register", "acknowledge"} =>
                db[d].record.pending \in Publications
    /\ objects \subseteq [id : Publications, whole : BOOLEAN] /\ IsFiniteSet(objects)
    /\ registry \subseteq Processes /\ restored \in BOOLEAN
    /\ edits \in Nat /\ prepares \in Nat /\ faults \in Nat

\* A number of a writer names one publication: no restart, retry, restored or
\* copied database makes two devices, or two processes of one, publish different
\* replicas under one identity (load_v4_view, publish).
NoFork == \A o, p \in objects : SameNumber(o.id, p.id) => o.id = p.id

\* A publication an interrupted upload left damaged, which stops every other
\* device, is pending in the database of the device that repairs it, whatever
\* crashed in between (unless a database was put back from a copy).
DamageIsRepairable ==
    ~restored =>
        \A o \in objects : o.whole \/ \E d \in Devices : Recorded(d) /\ db[d].record.pending = o.id

\* The replica holds the state s of the resource among its operations.
Holds(doc, s) ==
    \E o \in doc :
        IF "value" \in DOMAIN s THEN o.field = "value" /\ o.value = s["value"]
        ELSE IF Present(s) THEN o.value \in {"true", "deleted"}
        ELSE o.field = "$present" /\ o.value = "false"

\* What the user set last is what the device holds, or it is in the replica and
\* subject to the causal order there: no apply of a preview, however old,
\* overwrites an edit the replica does not know (apply_core_plan).
EditKept ==
    \A d \in Devices :
        \/ db[d].intent \in {None, db[d].local}
        \/ Recorded(d) /\ Holds(db[d].record.replica, db[d].intent)

\* A sync writes operations of its own only when the user edited since the last
\* apply: applied, deferred and conflicting remote values are never taken for
\* edits.  And it writes whenever the user left the resource different or set the
\* value again, to the same one even (capture, the edit journal and
\* applied_generation).
CaptureIsEdits ==
    \A d \in Devices : Recorded(d) =>
        LET r == LoadedRecord(d)
            local == db[d].local
            captures == Captured(d, r) # r.replica
        IN /\ captures => db[d].touched
           /\ db[d].touched /\ (local # r.effective \/ "value" \in DOMAIN local) => captures

\* The state `old' of the resource gives way to `new' in the replica doc.
Supersedes(old, new, doc) ==
    LET values == CandidateValues(doc, "value")
        ValueIn(s) == IF "value" \in DOMAIN s THEN s["value"] ELSE "deleted"
    IN /\ CandidateValues(doc, "$present") = IF Present(new) THEN {"true"} ELSE {"false"}
       /\ Present(old) /\ Present(new) => ValueIn(old) \notin values
       /\ ~Present(old) => Cardinality(values) <= 1

\* An apply replaces a local value only when no candidate of the register has it
\* any more, and creates the resource only when none of its registers is in
\* doubt: a concurrent value is a conflict for the user, never a silent winner
\* (materialize).
ReplacedWhenSuperseded ==
    [][\A d \in Devices :
          /\ job[d].phase = "apply" /\ job'[d].phase = "publish"
          /\ db[d].local # db'[d].local
          => Supersedes(db[d].local, db'[d].local, db'[d].record.replica)]_vars

\* A device with nothing left to capture, apply or publish.
Settled(d) ==
    /\ Recorded(d) /\ ~db[d].touched
    /\ ~db[d].record.deferred
    /\ db[d].record.pending = None

\* Devices that have exchanged everything and have no conflict agree on the
\* configuration, in whatever order edits, deletions and publications arrived.
Converged ==
    \A d, e \in Devices :
        /\ Settled(d) /\ Settled(e)
        /\ db[d].record.replica = db[e].record.replica
        /\ Conflicts(db[d].record.replica) = {}
        => db[d].local = db[e].local
=============================================================================
