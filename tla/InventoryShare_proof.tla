----------------------- MODULE InventoryShare_proof -----------------------
(***************************************************************************)
(* Proofs about InventoryShare: its types, the custody invariant, that no  *)
(* player acts on two servers, and that the servers implement Custody.     *)
(***************************************************************************)
EXTENDS InventoryShareProps, FiniteSetTheorems, TLAPS

----------------------------------------------------------------------------
(* Jobs and queues.                                                        *)

(* The initial states have the types of TypeOK.                            *)
LEMMA InitType == Init => TypeOK
  BY StoreAssumption, IncidentAssumption, SMTT(30)
  DEF Init, TypeOK, Row, Snap, Stamp, Token, Job, Task, Phases

(* The kind of a job says which of the five job records it is.             *)
LEMMA JobKinds ==
  ASSUME NEW j \in Job
  PROVE  /\ j.kind = "load" => j \in LoadJob
         /\ j.kind = "persist" => j \in PersistJob
         /\ j.kind = "recover" => j \in RecoverJob
         /\ j.kind = "batch" => j \in BatchJob
         /\ j.kind = "legacy" => j \in LegacyJob
  BY DEF Job, LoadJob, PersistJob, RecoverJob, BatchJob, LegacyJob

(* What a worker step may use of the job at the head of its queue.         *)
LEMMA HeadJob ==
  ASSUME TypeOK, NEW s \in Servers, NEW K, NEW step, At(s, K, step)
  PROVE  /\ queue[s] \in Seq(Job) /\ queue[s] # << >>
         /\ Head(queue[s]) \in Job /\ Tail(queue[s]) \in Seq(Job)
         /\ Head(queue[s]).kind \in K
  BY DEF TypeOK, At

(* The load that is about to claim.                                        *)
LEMMA ClaimHead ==
  ASSUME TypeOK, NEW s \in Servers, Claim(s)
  PROVE  /\ At(s, {"load"}, "claim") /\ Head(queue[s]) \in LoadJob
         /\ Head(queue[s]).token \in Token /\ Head(queue[s]).token.xuid \in Players
<1>1. At(s, {"load"}, "claim")
  BY DEF Claim
<1>2. PICK j \in Job : j = Head(queue[s]) /\ j.kind = "load"
  BY <1>1, HeadJob
<1>3. j \in LoadJob
  BY <1>2, JobKinds
<1>4. j.token \in Token
  BY <1>3 DEF LoadJob
<1>5. j.token.xuid \in Players
  BY <1>4 DEF Token
<1> QED BY <1>1, <1>2, <1>3, <1>4, <1>5

(* The token, snapshot and release flag of the snapshot job at the head    *)
(* of a queue.                                                             *)
LEMMA SnapshotJob ==
  ASSUME TypeOK, NEW s \in Servers, NEW step,
         At(s, {"persist", "recover"}, step)
  PROVE  /\ Head(queue[s]).token \in Token
         /\ Head(queue[s]).snap \in Snap
         /\ Head(queue[s]).release \in BOOLEAN
<1> DEFINE job == Head(queue[s])
<1>1. job \in PersistJob \/ job \in RecoverJob
  BY HeadJob, JobKinds
<1>2. CASE job \in PersistJob
  BY <1>2 DEF PersistJob
<1>3. CASE job \in RecoverJob
  BY <1>3 DEF RecoverJob
<1> QED BY <1>1, <1>2, <1>3

(* The job that _begin_join and retry() submit is a job.                   *)
LEMMA MakeLoad ==
  ASSUME NEW t \in Token, NEW n \in 0 .. MaxTries
  PROVE  Load(t, n) \in Job
  BY DEF Load, Job, LoadJob

(* The job that _queue_snapshot submits is a job.                          *)
LEMMA MakePersist ==
  ASSUME NEW t \in Token, NEW snap \in Snap, NEW r \in BOOLEAN, NEW a \in BOOLEAN
  PROVE  Persist(t, snap, r, a) \in Job
  BY DEF Persist, Job, PersistJob

(* One entry of a recovery, with the entries after it, is a job.           *)
LEMMA MakeRecover ==
  ASSUME NEW e \in Entry, NEW es \in SUBSET Entry, NEW f \in BOOLEAN
  PROVE  Recover(e, es, f) \in Job
  BY DEF Recover, Job, RecoverJob, Entry

(* A recovery of any set of journal entries is a job.                      *)
LEMMA MakeBatch ==
  ASSUME NEW es \in SUBSET Entry, NEW f \in BOOLEAN
  PROVE  Batch(es, f) \in Job
  BY DEF Batch, Job, BatchJob

(* The job of the recoverlegacy command is a job.                          *)
LEMMA MakeLegacy ==
  ASSUME NEW x \in Players
  PROVE  [kind |-> "legacy", xuid |-> x] \in Job
  BY DEF Job, LegacyJob

(* The ways the actions extend a queue by one job.                         *)
LEMMA SeqType ==
  ASSUME NEW q \in Seq(Job), NEW j \in Job
  PROVE  /\ Append(q, j) \in Seq(Job)
         /\ <<j>> \o q \in Seq(Job)
         /\ <<j>> \in Seq(Job)
  OBVIOUS

(* A function on 1 .. n, such as the snapshots of CaptureAll, is a         *)
(* sequence.                                                               *)
LEMMA FunctionSeq ==
  ASSUME NEW S, NEW n \in Nat, NEW f \in [1 .. n -> S]
  PROVE  f \in Seq(S)
  OBVIOUS

(* SnapshotJournal.entries returns tokens with their payloads.             *)
LEMMA EntriesType ==
  ASSUME TypeOK, NEW s \in Servers, NEW except
  PROVE  Entries(s, except) \in SUBSET Entry
  BY DEF TypeOK, Entries, Entry

(* _queue_inactive_recovery leaves a queue of jobs.                        *)
LEMMA WithRecoveryType ==
  ASSUME TypeOK, NEW s \in Servers
  PROVE  WithRecovery(s) \in Seq(Job)
<1> DEFINE es == Entries(s, ActiveTokens(s))
<1>1. Batch(es, FALSE) \in Job
  BY EntriesType, MakeBatch
<1>2. queue[s] \in Seq(Job)
  BY DEF TypeOK
<1>3. Append(queue[s], Batch(es, FALSE)) \in Seq(Job)
  BY <1>1, <1>2, SeqType
<1> QED BY <1>2, <1>3 DEF WithRecovery

(* The payload that _finish_session reads back, and its blocked form, are  *)
(* snapshots.                                                              *)
LEMMA PayloadType ==
  ASSUME TypeOK, NEW t \in Token
  PROVE  /\ Payload(t) \in Snap
         /\ Blocked(Payload(t)) \in Snap
<1>1. Marker \in Snap
  BY StoreAssumption DEF Marker, Snap, Stamp
<1>2. Payload(t) \in Snap
  BY <1>1 DEF Payload, TypeOK
<1>3. \A snap \in Snap : Blocked(snap) \in Snap
  BY DEF Blocked, Snap
<1> QED BY <1>2, <1>3

(* _extract_player_data returns a snapshot.                                *)
LEMMA CaptureType ==
  ASSUME TypeOK, NEW s \in Servers, NEW x \in Players
  PROVE  Capture(s, x) \in Snap
  BY StoreAssumption DEF TypeOK, Capture, Snap, Stamp

(* The number of incidents keeps its bound.                                *)
LEMMA IncidentType ==
  ASSUME TypeOK, NEW k, Incident(k)
  PROVE  incidents' \in 0 .. MaxIncidents
  BY IncidentAssumption DEF TypeOK, Incident

(* claim() and save() leave a row.                                         *)
LEMMA RowTypes ==
  ASSUME NEW r \in Row, NEW t \in Token, NEW snap \in Snap, NEW b \in BOOLEAN
  PROVE  /\ Claimed(r, t) \in Row
         /\ Saved(r, snap, b) \in Row
  BY DEF Row, Snap, Claimed, Saved

(* release_legacy() leaves a row with the same owner and inventory.        *)
LEMMA LegacyRowType ==
  ASSUME NEW r \in Row
  PROVE  /\ LegacyReleased(r) \in Row
         /\ LegacyReleased(r).owner = r.owner
         /\ LegacyReleased(r).inv = r.inv
  BY DEF Row, LegacyReleased

----------------------------------------------------------------------------
(* Type correctness.                                                       *)

(* A worker step that keeps the types of the variables it assigns keeps    *)
(* TypeOK.                                                                 *)
LEMMA WorkerTypeFrame ==
  ASSUME TypeOK, WorkerFrame,
         db' \in [Players -> Row], journal' \in [Token -> Snap \cup {None}],
         phase' \in [Servers -> Phases], queue' \in [Servers -> Seq(Job)],
         pc' \in [Servers -> {"idle", "claim", "save", "remove"}],
         tasks' \in [Servers -> SUBSET Task], incidents' \in 0 .. MaxIncidents
  PROVE  TypeOK'
  BY DEF TypeOK, WorkerFrame

(* Drop and GiveUp, the two ways a worker ends a job.                      *)
LEMMA DropType ==
  ASSUME TypeOK, NEW s \in Servers, NEW K, NEW step, At(s, K, step), Drop(s)
  PROVE  /\ queue' \in [Servers -> Seq(Job)]
         /\ pc' \in [Servers -> {"idle", "claim", "save", "remove"}]
<1>1. Tail(queue[s]) \in Seq(Job)
  BY HeadJob
<1> QED BY <1>1 DEF TypeOK, Drop, Goto

(* The end of a snapshot job keeps the types of the queue and of the       *)
(* worker.                                                                 *)
LEMMA EndSnapshotType ==
  ASSUME TypeOK, NEW s \in Servers, NEW step,
         At(s, {"persist", "recover"}, step),
         NEW rest, NEW fails \in BOOLEAN,
         Head(queue[s]).kind = "recover" => rest \in SUBSET Entry,
         EndSnapshot(s, rest, fails)
  PROVE  /\ queue' \in [Servers -> Seq(Job)]
         /\ pc' \in [Servers -> {"idle", "claim", "save", "remove"}]
<1> DEFINE job == Head(queue[s])
<1>1. job \in Job /\ Tail(queue[s]) \in Seq(Job)
  BY HeadJob
<1>2. CASE job.kind = "recover"
  <2>1. Batch(rest, job.failed \/ fails) \in Job
    BY <1>1, <1>2, JobKinds, MakeBatch DEF RecoverJob
  <2>2. <<Batch(rest, job.failed \/ fails)>> \o Tail(queue[s]) \in Seq(Job)
    BY <1>1, <2>1
  <2> QED BY <1>2, <2>2 DEF TypeOK, EndSnapshot, Goto
<1>3. CASE job.kind # "recover"
  BY <1>1, <1>3 DEF TypeOK, EndSnapshot, Goto
<1> QED BY <1>2, <1>3

(* So does a snapshot job that is given up.                                *)
LEMMA GiveUpType ==
  ASSUME TypeOK, NEW s \in Servers, NEW step,
         At(s, {"persist", "recover"}, step), GiveUp(s)
  PROVE  /\ queue' \in [Servers -> Seq(Job)]
         /\ pc' \in [Servers -> {"idle", "claim", "save", "remove"}]
<1>1. Head(queue[s]).kind = "recover" => Head(queue[s]).todo \in SUBSET Entry
  BY HeadJob, JobKinds DEF RecoverJob
<1> QED BY <1>1, EndSnapshotType DEF GiveUp

(* A scheduled callback keeps the type of the scheduler's tasks.           *)
LEMMA ScheduleType ==
  ASSUME TypeOK, NEW s \in Servers, NEW k \in Task, Schedule(s, k)
  PROVE  tasks' \in [Servers -> SUBSET Task]
  BY DEF TypeOK, Schedule

(* The error path of load_inventory_task keeps the types of what it        *)
(* assigns.                                                                *)
LEMMA LoadFailsType ==
  ASSUME TypeOK, NEW s \in Servers, At(s, {"load"}, "claim"),
         NEW r \in BOOLEAN, LoadFails(s, r)
  PROVE  /\ queue' \in [Servers -> Seq(Job)]
         /\ pc' \in [Servers -> {"idle", "claim", "save", "remove"}]
         /\ tasks' \in [Servers -> SUBSET Task]
<1> DEFINE job == Head(queue[s])
<1>1. job \in LoadJob
  BY HeadJob, JobKinds
<1>2. Drop(s)
  BY DEF LoadFails
<1>3. [kind |-> "kick", token |-> job.token] \in Task
  BY <1>1 DEF LoadJob, Task, KickTask
<1>4. job.tries < MaxTries =>
        [kind |-> "retry", token |-> job.token, tries |-> job.tries + 1] \in Task
  BY <1>1, IncidentAssumption DEF LoadJob, Task, RetryTask
<1>5. tasks' \in [Servers -> SUBSET Task]
  BY <1>3, <1>4, ScheduleType DEF LoadFails
<1> QED BY <1>2, <1>5, DropType

(* Every step of the worker keeps TypeOK.                                  *)
LEMMA WorkerType ==
  ASSUME TypeOK, NEW s \in Servers, Worker(s)
  PROVE  TypeOK'
<1>1. CASE TakeLoad(s)
  <2>1. /\ queue' \in [Servers -> Seq(Job)]
        /\ pc' \in [Servers -> {"idle", "claim", "save", "remove"}]
    BY <1>1, DropType DEF TakeLoad, TypeOK, Goto
  <2> QED BY <1>1, <2>1, WorkerTypeFrame DEF TakeLoad, TypeOK
<1>2. CASE Claim(s)
  <2> DEFINE t == Head(queue[s]).token
             x == t.xuid
             claimed == [db EXCEPT ![x] = Claimed(db[x], t)]
  <2>1. At(s, {"load"}, "claim") /\ Head(queue[s]) \in LoadJob
    BY <1>2, ClaimHead
  <2>2. t \in Token /\ x \in Players /\ db[x] \in Row
    BY <2>1 DEF LoadJob, Token, TypeOK
  <2>3. claimed \in [Players -> Row]
    <3>1. Claimed(db[x], t) \in Row
      BY <2>2 DEF Claimed, Row
    <3> QED BY <3>1, <2>2 DEF TypeOK
  <2>4. db' \in [Players -> Row]
    BY <1>2, <2>3 DEF Claim, TypeOK
  <2>5. [kind |-> "apply", token |-> t, inv |-> db[x].inv] \in Task
    BY <2>2 DEF Row, Task, ApplyTask
  <2>6. /\ queue' \in [Servers -> Seq(Job)]
        /\ pc' \in [Servers -> {"idle", "claim", "save", "remove"}]
        /\ tasks' \in [Servers -> SUBSET Task]
    BY <1>2, <2>1, <2>5, DropType, ScheduleType, LoadFailsType DEF Claim
  <2>7. incidents' \in 0 .. MaxIncidents
    BY <1>2, IncidentType DEF Claim, TypeOK
  <2> QED BY <1>2, <2>4, <2>6, <2>7, WorkerTypeFrame DEF Claim, TypeOK
<1>3. CASE CheckStorage(s)
  <2>1. /\ queue' \in [Servers -> Seq(Job)]
        /\ pc' \in [Servers -> {"idle", "claim", "save", "remove"}]
    BY <1>3, GiveUpType DEF CheckStorage, TypeOK, Goto
  <2>2. incidents' \in 0 .. MaxIncidents
    BY <1>3, IncidentType DEF CheckStorage, TypeOK
  <2> QED BY <1>3, <2>1, <2>2, WorkerTypeFrame DEF CheckStorage, TypeOK
<1>4. CASE Save(s)
  <2> DEFINE job == Head(queue[s])
             x == job.token.xuid
             saved == [db EXCEPT ![x] = Saved(db[x], job.snap, job.release)]
  <2>0. At(s, {"persist", "recover"}, "save")
    BY <1>4 DEF Save
  <2>1. job.token \in Token /\ job.snap \in Snap /\ job.release \in BOOLEAN
    BY <2>0, SnapshotJob
  <2>2. x \in Players /\ db[x] \in Row
    BY <2>1 DEF Token, TypeOK
  <2>3. saved \in [Players -> Row]
    BY <2>1, <2>2, RowTypes DEF TypeOK
  <2>4. db' \in [Players -> Row]
    BY <1>4, <2>3 DEF Save, TypeOK
  <2>5. /\ queue' \in [Servers -> Seq(Job)]
        /\ pc' \in [Servers -> {"idle", "claim", "save", "remove"}]
    BY <1>4, <2>0, DropType, GiveUpType DEF Save, TypeOK, Goto
  <2>6. incidents' \in 0 .. MaxIncidents
    BY <1>4, IncidentType DEF Save, TypeOK
  <2> QED BY <1>4, <2>4, <2>5, <2>6, WorkerTypeFrame DEF Save, TypeOK
<1>5. CASE RemoveRow(s)
  <2> DEFINE job == Head(queue[s])
  <2>1. /\ At(s, {"persist", "recover"}, "remove")
        /\ job.kind = "recover" => job.todo \in SUBSET Entry
    BY <1>5, HeadJob, JobKinds DEF RemoveRow, RecoverJob
  <2>2. /\ queue' \in [Servers -> Seq(Job)]
        /\ pc' \in [Servers -> {"idle", "claim", "save", "remove"}]
    BY <1>5, <2>1, EndSnapshotType DEF RemoveRow
  <2>3. journal' \in [Token -> Snap \cup {None}]
    BY <1>5 DEF RemoveRow, TypeOK
  <2>4. incidents' \in 0 .. MaxIncidents
    BY <1>5, IncidentType DEF RemoveRow, TypeOK
  <2> QED BY <1>5, <2>2, <2>3, <2>4, WorkerTypeFrame DEF RemoveRow, TypeOK
<1>6. CASE RecoverNext(s)
  <2> DEFINE job == Head(queue[s])
  <2>1. job \in BatchJob /\ Tail(queue[s]) \in Seq(Job)
    BY <1>6, HeadJob, JobKinds DEF RecoverNext
  <2>2. PICK e \in job.todo :
          queue' = [queue EXCEPT ![s] =
            <<Recover(e, job.todo \ {e}, job.failed)>> \o Tail(queue[s])]
    BY <1>6 DEF RecoverNext
  <2>3. Recover(e, job.todo \ {e}, job.failed) \in Job
    BY <2>1, MakeRecover DEF BatchJob
  <2>4. queue' \in [Servers -> Seq(Job)]
    BY <2>1, <2>2, <2>3 DEF TypeOK
  <2> QED BY <1>6, <2>4, WorkerTypeFrame DEF RecoverNext, TypeOK
<1>7. CASE RecoverDone(s)
  <2>1. phase' \in [Servers -> Phases]
    BY <1>7 DEF RecoverDone, TypeOK, Phases
  <2>2. /\ queue' \in [Servers -> Seq(Job)]
        /\ pc' \in [Servers -> {"idle", "claim", "save", "remove"}]
    BY <1>7, DropType DEF RecoverDone
  <2> QED BY <1>7, <2>1, <2>2, WorkerTypeFrame DEF RecoverDone, TypeOK
<1>8. CASE ReleaseLegacy(s)
  <2> DEFINE x == Head(queue[s]).xuid
             released == [db EXCEPT ![x] = LegacyReleased(db[x])]
  <2>1. x \in Players
    BY <1>8, HeadJob, JobKinds DEF ReleaseLegacy, LegacyJob
  <2>2. released \in [Players -> Row]
    BY <2>1, LegacyRowType DEF TypeOK
  <2>3. db' \in [Players -> Row]
    BY <1>8, <2>2 DEF ReleaseLegacy, TypeOK
  <2>4. /\ queue' \in [Servers -> Seq(Job)]
        /\ pc' \in [Servers -> {"idle", "claim", "save", "remove"}]
    BY <1>8, DropType DEF ReleaseLegacy
  <2>5. incidents' \in 0 .. MaxIncidents
    BY <1>8, IncidentType DEF ReleaseLegacy, TypeOK
  <2> QED BY <1>8, <2>3, <2>4, <2>5, WorkerTypeFrame DEF ReleaseLegacy, TypeOK
<1> QED BY <1>1, <1>2, <1>3, <1>4, <1>5, <1>6, <1>7, <1>8 DEF Worker

(* Handlers of the main thread that touch one server's session state.      *)
LEMMA QueueAppendType ==
  ASSUME TypeOK, NEW s \in Servers, NEW q \in Seq(Job), NEW j \in Job,
         queue' = [queue EXCEPT ![s] = Append(q, j)]
  PROVE  queue' \in [Servers -> Seq(Job)]
<1>1. Append(q, j) \in Seq(Job)
  BY SeqType
<1> QED BY <1>1 DEF TypeOK

(* _finish_session, well or not, keeps the types of what it assigns.       *)
LEMMA FinishType ==
  ASSUME TypeOK, NEW s \in Servers, NEW x \in Players,
         sess[s][x] \in Token, Finish(s, x) \/ FinishRaises(s, x)
  PROVE  /\ journal' \in [Token -> Snap \cup {None}]
         /\ queue' \in [Servers -> Seq(Job)]
         /\ left' \in [Token -> Stamp]
         /\ incidents' \in 0 .. MaxIncidents
<1> DEFINE t == sess[s][x]
<1>1. /\ Capture(s, x) \in Snap /\ Payload(t) \in Snap
      /\ Blocked(Payload(t)) \in Snap
  BY CaptureType, PayloadType
<1>2. /\ Persist(t, Capture(s, x), TRUE, FALSE) \in Job
      /\ Persist(t, Payload(t), TRUE, FALSE) \in Job
  BY <1>1, MakePersist
<1>3. queue' \in [Servers -> Seq(Job)]
  <2>1. queue[s] \in Seq(Job)
    BY DEF TypeOK
  <2>2. /\ Append(queue[s], Persist(t, Capture(s, x), TRUE, FALSE)) \in Seq(Job)
        /\ Append(queue[s], Persist(t, Payload(t), TRUE, FALSE)) \in Seq(Job)
    BY <1>2, <2>1, SeqType
  <2>3. queue' = queue \/ \E q \in Seq(Job) : queue' = [queue EXCEPT ![s] = q]
    BY <2>2 DEF Finish, FinishRaises
  <2> QED BY <2>3 DEF TypeOK
<1>4. world[s][x] \in Stamp
  BY StoreAssumption DEF TypeOK, Stamp
<1>5. left' \in [Token -> Stamp]
  <2>1. left' = left \/ left' = [left EXCEPT ![t] = world[s][x]]
    BY DEF Finish, FinishRaises
  <2> QED BY <1>4, <2>1 DEF TypeOK
<1>6. journal' \in [Token -> Snap \cup {None}]
  <2>1. \/ journal' = journal \/ journal' = [journal EXCEPT ![t] = Capture(s, x)]
        \/ journal' = [journal EXCEPT ![t] = Blocked(Payload(t))]
    BY DEF Finish, FinishRaises
  <2>2. journal \in [Token -> Snap \cup {None}]
    BY DEF TypeOK
  <2>3. \A snap \in Snap : [journal EXCEPT ![t] = snap] \in [Token -> Snap \cup {None}]
    BY <2>2
  <2> QED BY <1>1, <2>1, <2>2, <2>3
<1>7. incidents' \in 0 .. MaxIncidents
  BY IncidentType DEF TypeOK, Finish, FinishRaises
<1> QED BY <1>3, <1>5, <1>6, <1>7

(* The snapshots of autosave and stop keep the types of journal and        *)
(* queue.                                                                  *)
LEMMA CaptureAllType ==
  ASSUME TypeOK, NEW s \in Servers, NEW who \in SUBSET Players,
         NEW auto \in BOOLEAN, NEW before \in Seq(Job),
         \A x \in who : sess[s][x] \in Token,
         CaptureAll(s, who, auto, before)
  PROVE  /\ journal' \in [Token -> Snap \cup {None}]
         /\ queue' \in [Servers -> Seq(Job)]
         /\ incidents' \in 0 .. MaxIncidents
<1>1. PICK lost \in SUBSET who :
        /\ IF lost = {} THEN UNCHANGED incidents ELSE Incident("snapshot")
        /\ journal' = [t \in Token |->
             IF \E x \in who \ lost : sess[s][x] = t THEN Capture(s, t.xuid)
                                                    ELSE journal[t]]
        /\ \E o \in Orders(who \ lost) :
             queue' = [queue EXCEPT ![s] = before \o
               [i \in 1 .. Cardinality(who \ lost) |->
                  Persist(sess[s][o[i]], Capture(s, o[i]), FALSE, auto)]]
  BY DEF CaptureAll
<1>2. incidents' \in 0 .. MaxIncidents
  BY <1>1, IncidentType DEF TypeOK
<1>3. journal' \in [Token -> Snap \cup {None}]
  <2>1. \A t \in Token : Capture(s, t.xuid) \in Snap
    BY CaptureType DEF Token
  <2> QED BY <1>1, <2>1 DEF TypeOK
<1>4. queue' \in [Servers -> Seq(Job)]
  <2> DEFINE n == Cardinality(who \ lost)
  <2>1. PICK o \in Orders(who \ lost) :
          queue' = [queue EXCEPT ![s] = before \o
            [i \in 1 .. n |->
               Persist(sess[s][o[i]], Capture(s, o[i]), FALSE, auto)]]
    BY <1>1
  <2> DEFINE jobs == [i \in 1 .. n |->
               Persist(sess[s][o[i]], Capture(s, o[i]), FALSE, auto)]
  <2>2. n \in Nat
    <3>1. IsFiniteSet(who \ lost)
      BY StoreAssumption, FS_Subset
    <3> QED BY <3>1, FS_CardinalityType
  <2>3. \A i \in 1 .. n : o[i] \in who
    BY <2>1 DEF Orders
  <2>4. \A i \in 1 .. n :
          Persist(sess[s][o[i]], Capture(s, o[i]), FALSE, auto) \in Job
    BY <2>3, CaptureType, MakePersist
  <2>5. jobs \in Seq(Job)
    <3>1. jobs \in [1 .. n -> Job]
      BY <2>4
    <3> HIDE DEF n, jobs
    <3> QED BY <2>2, <3>1, FunctionSeq
  <2>6. before \o jobs \in Seq(Job)
    <3> HIDE DEF jobs
    <3> QED BY <2>5
  <2> QED BY <2>1, <2>6 DEF TypeOK
<1> QED BY <1>2, <1>3, <1>4

(* A connected player has a session.                                       *)
LEMMA TokenOfPlayer ==
  ASSUME TypeOK, SessionsAreLocal, NEW s \in Servers, NEW x \in online[s]
  PROVE  x \in Players /\ sess[s][x] \in Token
  BY DEF TypeOK, SessionsAreLocal

(* A set-valued variable of the servers, changed at one of them.           *)
LEMMA SetUpdate ==
  ASSUME NEW S, NEW f \in [Servers -> SUBSET S], NEW s \in Servers,
         NEW v \in SUBSET S
  PROVE  [f EXCEPT ![s] = v] \in [Servers -> SUBSET S]
  OBVIOUS

(* The quit handler keeps TypeOK.                                          *)
LEMMA LeaveType ==
  ASSUME TypeOK, SessionsAreLocal, NEW s \in Servers, NEW x \in online[s],
         Leave(s, x), tasks' \in [Servers -> SUBSET Task]
  PROVE  TypeOK'
<1>1. x \in Players /\ sess[s][x] \in Token
  BY TokenOfPlayer
<1>2. /\ journal' \in [Token -> Snap \cup {None}]
      /\ queue' \in [Servers -> Seq(Job)]
      /\ left' \in [Token -> Stamp]
      /\ incidents' \in 0 .. MaxIncidents
  BY <1>1, FinishType DEF Leave
<1>3. /\ ready' \in [Servers -> SUBSET Token]
      /\ loading' \in [Servers -> SUBSET Players]
      /\ online' \in [Servers -> SUBSET Players]
      /\ sess' \in [Servers -> [Players -> Token \cup {None}]]
  <2>1. /\ ready[s] \ {sess[s][x]} \in SUBSET Token
        /\ loading[s] \ {x} \in SUBSET Players
        /\ online[s] \ {x} \in SUBSET Players
    BY DEF TypeOK
  <2>a. /\ ready \in [Servers -> SUBSET Token]
        /\ loading \in [Servers -> SUBSET Players]
    BY DEF TypeOK
  <2>b. /\ [ready EXCEPT ![s] = @ \ {sess[s][x]}] \in [Servers -> SUBSET Token]
        /\ [loading EXCEPT ![s] = @ \ {x}] \in [Servers -> SUBSET Players]
    BY <2>a, <2>1, SetUpdate
  <2>2. /\ ready' \in [Servers -> SUBSET Token]
        /\ loading' \in [Servers -> SUBSET Players]
    BY <2>a, <2>b DEF Leave
  <2>3. online' \in [Servers -> SUBSET Players]
    BY <2>1 DEF Leave, TypeOK
  <2>4. sess' \in [Servers -> [Players -> Token \cup {None}]]
    BY <1>1 DEF Leave, TypeOK
  <2> QED BY <2>2, <2>3, <2>4
<1> QED BY <1>2, <1>3 DEF Leave, TypeOK

(* The end of a server process keeps TypeOK.                               *)
LEMMA ResetType ==
  ASSUME TypeOK, NEW s \in Servers, Reset(s), incidents' \in 0 .. MaxIncidents
  PROVE  TypeOK'
<1>1. << >> \in Seq(Job)
  OBVIOUS
<1>2. queue' \in [Servers -> Seq(Job)]
  BY <1>1 DEF Reset, TypeOK
<1>3. phase' \in [Servers -> Phases]
  BY DEF Reset, TypeOK, Phases
<1> QED BY <1>2, <1>3 DEF Reset, TypeOK, durable

(* Every callback of the scheduler keeps TypeOK.                           *)
LEMMA TickType ==
  ASSUME TypeOK, SessionsAreLocal, NEW s \in Servers, Tick(s)
  PROVE  TypeOK'
<1>1. CASE Apply(s)
  <2>1. PICK k \in tasks[s] :
          /\ k.kind = "apply"
          /\ \/ /\ world' = IF k.inv = 0 THEN world
                             ELSE [world EXCEPT ![s][k.token.xuid] = k.inv]
                /\ ready' = [ready EXCEPT ![s] = @ \cup {k.token}]
                /\ loading' = [loading EXCEPT ![s] = @ \ {k.token.xuid}]
                /\ tasks' = [tasks EXCEPT ![s] = @ \ {k}]
                /\ UNCHANGED incidents
             \/ /\ Incident("data")
                /\ world' \in {world, IF k.inv = 0 THEN world
                                ELSE [world EXCEPT ![s][k.token.xuid] = k.inv]}
                /\ tasks' = [tasks EXCEPT ![s] = (@ \ {k}) \cup
                                 {[kind |-> "kick", token |-> k.token]}]
                /\ UNCHANGED <<ready, loading>>
             \/ /\ Incident("invalid")
                /\ tasks' = [tasks EXCEPT ![s] = @ \ {k}]
                /\ UNCHANGED <<world, ready, loading>>
    BY <1>1 DEF Apply
  <2>2. k \in ApplyTask
    BY <2>1 DEF TypeOK, Task, ApplyTask, RetryTask, KickTask
  <2>3. k.token \in Token /\ k.token.xuid \in Players /\ k.inv \in 0 .. MaxStamp
    BY <2>2 DEF ApplyTask, Token, Stamp
  <2>4. [kind |-> "kick", token |-> k.token] \in Task
    BY <2>3 DEF Task, KickTask
  <2>5. world' \in [Servers -> [Players -> 1 .. MaxStamp]]
    <3>1. k.inv # 0 => k.inv \in 1 .. MaxStamp
      BY <2>3, StoreAssumption
    <3>2. k.inv # 0 => [world EXCEPT ![s][k.token.xuid] = k.inv]
                         \in [Servers -> [Players -> 1 .. MaxStamp]]
      BY <2>3, <3>1 DEF TypeOK
    <3>3. world \in [Servers -> [Players -> 1 .. MaxStamp]]
      BY DEF TypeOK
    <3> QED BY <2>1, <3>2, <3>3
  <2>6. tasks' \in [Servers -> SUBSET Task]
    <3>1. /\ tasks[s] \ {k} \in SUBSET Task
          /\ (tasks[s] \ {k}) \cup {[kind |-> "kick", token |-> k.token]}
               \in SUBSET Task
      BY <2>4 DEF TypeOK
    <3> QED BY <2>1, <3>1 DEF TypeOK
  <2>7. /\ ready' \in [Servers -> SUBSET Token]
        /\ loading' \in [Servers -> SUBSET Players]
    <3>1. /\ ready[s] \cup {k.token} \in SUBSET Token
          /\ loading[s] \ {k.token.xuid} \in SUBSET Players
      BY <2>3 DEF TypeOK
    <3>2. /\ ready \in [Servers -> SUBSET Token]
          /\ loading \in [Servers -> SUBSET Players]
      BY DEF TypeOK
    <3>3. /\ [ready EXCEPT ![s] = @ \cup {k.token}] \in [Servers -> SUBSET Token]
          /\ [loading EXCEPT ![s] = @ \ {k.token.xuid}]
               \in [Servers -> SUBSET Players]
      BY <3>1, <3>2, SetUpdate
    <3> QED BY <2>1, <3>2, <3>3
  <2>8. incidents' \in 0 .. MaxIncidents
    BY <2>1, IncidentType DEF TypeOK
  <2> QED BY <1>1, <2>5, <2>6, <2>7, <2>8 DEF Apply, TypeOK
<1>2. CASE Retry(s)
  <2>1. PICK k \in tasks[s] :
          /\ k.kind = "retry"
          /\ \/ queue' = queue
             \/ queue' = [queue EXCEPT ![s] =
                            Append(WithRecovery(s), Load(k.token, k.tries))]
          /\ tasks' = [tasks EXCEPT ![s] = @ \ {k}] \/
             tasks' = [tasks EXCEPT ![s] =
                         (@ \ {k}) \cup {[kind |-> "kick", token |-> k.token]}]
          /\ incidents' = incidents \/ Incident("journal")
    BY <1>2 DEF Retry
  <2>2. k \in RetryTask
    BY <2>1 DEF TypeOK, Task, ApplyTask, RetryTask, KickTask
  <2>3. k.token \in Token /\ k.tries \in 0 .. MaxTries
    BY <2>2, IncidentAssumption DEF RetryTask
  <2>4. queue' \in [Servers -> Seq(Job)]
    <3>1. CASE queue' = queue
      BY <3>1 DEF TypeOK
    <3>2. CASE queue' # queue
      BY <2>1, <2>3, <3>2, MakeLoad, WithRecoveryType, QueueAppendType
    <3> QED BY <3>1, <3>2
  <2>5. tasks' \in [Servers -> SUBSET Task]
    <3>1. [kind |-> "kick", token |-> k.token] \in Task
      BY <2>3 DEF Task, KickTask
    <3>2. /\ tasks[s] \ {k} \in SUBSET Task
          /\ (tasks[s] \ {k}) \cup {[kind |-> "kick", token |-> k.token]}
               \in SUBSET Task
      BY <3>1 DEF TypeOK
    <3> QED BY <2>1, <3>2 DEF TypeOK
  <2>6. incidents' \in 0 .. MaxIncidents
    BY <2>1, IncidentType DEF TypeOK
  <2> QED BY <1>2, <2>4, <2>5, <2>6 DEF Retry, TypeOK
<1>3. CASE DropTask(s)
  BY <1>3 DEF DropTask, TypeOK
<1>4. CASE Kick(s)
  <2>1. PICK k \in tasks[s] : /\ k.token.xuid \in online[s]
                              /\ Leave(s, k.token.xuid)
                              /\ tasks' = [tasks EXCEPT ![s] = @ \ {k}]
    BY <1>4 DEF Kick
  <2>2. tasks' \in [Servers -> SUBSET Task]
    BY <2>1 DEF TypeOK
  <2> QED BY <2>1, <2>2, LeaveType
<1> QED BY <1>1, <1>2, <1>3, <1>4 DEF Tick

(* The players whom autosave and stop capture are connected and have       *)
(* sessions.                                                               *)
LEMMA ReadyTokens ==
  ASSUME TypeOK, NEW s \in Servers
  PROVE  /\ ReadyPlayers(s) \in SUBSET Players
         /\ \A x \in ReadyPlayers(s) : x \in online[s] /\ sess[s][x] \in Token
  BY DEF TypeOK, ReadyPlayers

(* The recovery of on_enable and on_disable is a queue of one job.         *)
LEMMA RecoveryOfAll ==
  ASSUME TypeOK, NEW s \in Servers
  PROVE  <<Batch(Entries(s, {}), FALSE)>> \in Seq(Job)
<1>1. Batch(Entries(s, {}), FALSE) \in Job
  BY EntriesType, MakeBatch
<1>2. << >> \in Seq(Job)
  OBVIOUS
<1> QED BY <1>1, <1>2, SeqType

(* Every step of the main thread keeps TypeOK.                             *)
LEMMA MainType ==
  ASSUME TypeOK, SessionsAreLocal, NEW s \in Servers, Main(s)
  PROVE  TypeOK'
<1>1. CASE Tick(s)
  BY <1>1, TickType
<1>2. CASE Autosave(s)
  <2> DEFINE due == {x \in ReadyPlayers(s) : ~AutosavePending(s, sess[s][x])}
  <2>1. /\ due \in SUBSET Players
        /\ \A x \in due : sess[s][x] \in Token
    BY ReadyTokens
  <2>2. CaptureAll(s, due, TRUE, WithRecovery(s))
    BY <1>2 DEF Autosave
  <2> HIDE DEF due
  <2>3. /\ journal' \in [Token -> Snap \cup {None}]
        /\ queue' \in [Servers -> Seq(Job)]
        /\ incidents' \in 0 .. MaxIncidents
    BY <2>1, <2>2, WithRecoveryType, CaptureAllType
  <2> QED BY <1>2, <2>3 DEF Autosave, TypeOK
<1>3. CASE \E refused \in BOOLEAN : StopCommand(s, refused)
  <2>1. PICK refused \in BOOLEAN : StopCommand(s, refused)
    BY <1>3
  <2>2. CaptureAll(s, ReadyPlayers(s), FALSE, queue[s])
    BY <2>1 DEF StopCommand
  <2>3. queue[s] \in Seq(Job)
    BY DEF TypeOK
  <2>4. /\ journal' \in [Token -> Snap \cup {None}]
        /\ queue' \in [Servers -> Seq(Job)]
        /\ incidents' \in 0 .. MaxIncidents
    BY <2>2, <2>3, ReadyTokens, CaptureAllType
  <2>5. left' \in [Token -> Stamp]
    <3>1. \A t \in Token : world[s][t.xuid] \in Stamp
      BY StoreAssumption DEF TypeOK, Token, Stamp
    <3> QED BY <2>1, <3>1 DEF StopCommand, TypeOK
  <2>6. phase' \in [Servers -> Phases]
    BY <2>1 DEF StopCommand, TypeOK, Phases
  <2> QED BY <2>1, <2>4, <2>5, <2>6 DEF StopCommand, TypeOK
<1>4. CASE Vanish(s)
  <2>1. incidents' \in 0 .. MaxIncidents
    BY <1>4, IncidentType DEF Vanish
  <2> QED BY <1>4, <2>1 DEF Vanish, TypeOK, durable
<1>5. CASE Disable(s)
  <2>1. phase' \in [Servers -> Phases]
    BY <1>5 DEF Disable, TypeOK, Phases
  <2> QED BY <1>5, <2>1 DEF Disable, TypeOK, durable
<1>6. CASE DisableFinish(s)
  <2>1. PICK x \in online[s] :
          /\ Finish(s, x) \/ FinishRaises(s, x)
          /\ online' \in {[online EXCEPT ![s] = @ \ {x}],
                          [online EXCEPT ![s] = {}]}
          /\ phase' \in {phase, [phase EXCEPT ![s] = "aborting"]}
          /\ sess' = [sess EXCEPT ![s][x] = None]
    BY <1>6 DEF DisableFinish
  <2>2. x \in Players /\ sess[s][x] \in Token
    BY TokenOfPlayer
  <2>3. /\ journal' \in [Token -> Snap \cup {None}]
        /\ queue' \in [Servers -> Seq(Job)]
        /\ left' \in [Token -> Stamp]
        /\ incidents' \in 0 .. MaxIncidents
    BY <2>1, <2>2, FinishType
  <2>4. online' \in [Servers -> SUBSET Players]
    <3>1. online \in [Servers -> SUBSET Players]
      BY DEF TypeOK
    <3>2. online[s] \ {x} \in SUBSET Players
      BY <3>1
    <3>3. /\ [online EXCEPT ![s] = @ \ {x}] \in [Servers -> SUBSET Players]
          /\ [online EXCEPT ![s] = {}] \in [Servers -> SUBSET Players]
      BY <3>1, <3>2, SetUpdate
    <3> QED BY <2>1, <3>3
  <2>5. phase' \in [Servers -> Phases]
    BY <2>1 DEF TypeOK, Phases
  <2>6. sess' \in [Servers -> [Players -> Token \cup {None}]]
    BY <2>1, <2>2 DEF TypeOK
  <2> QED BY <1>6, <2>3, <2>4, <2>5, <2>6 DEF DisableFinish, TypeOK
<1>7. CASE DisableFlush(s)
  <2>1. phase' \in [Servers -> Phases]
    BY <1>7 DEF DisableFlush, TypeOK, Phases
  <2>2. queue' \in [Servers -> Seq(Job)]
    BY <1>7, RecoveryOfAll DEF DisableFlush, TypeOK
  <2> QED BY <1>7, <2>1, <2>2 DEF DisableFlush, TypeOK, durable
<1>8. CASE Exit(s)
  BY <1>8, ResetType DEF Exit, TypeOK
<1>9. CASE Crash(s)
  BY <1>9, ResetType, IncidentType DEF Crash
<1>10. CASE Boot(s)
  <2>1. phase' \in [Servers -> Phases]
    BY <1>10 DEF Boot, TypeOK, Phases
  <2>2. queue' \in [Servers -> Seq(Job)]
    <3>1. queue \in [Servers -> Seq(Job)]
      BY DEF TypeOK
    <3>2. [queue EXCEPT ![s] = <<Batch(Entries(s, {}), FALSE)>>]
            \in [Servers -> Seq(Job)]
      BY <3>1, RecoveryOfAll
    <3> QED BY <1>10, <3>1, <3>2 DEF Boot
  <2>3. incidents' \in 0 .. MaxIncidents
    BY <1>10, IncidentType DEF Boot, TypeOK
  <2> QED BY <1>10, <2>1, <2>2, <2>3 DEF Boot, TypeOK, durable
<1> QED BY <1>1, <1>2, <1>3, <1>4, <1>5, <1>6, <1>7, <1>8, <1>9, <1>10 DEF Main

(* A drawn token is a token while the bound on sessions is not reached.    *)
LEMMA NewTokenType ==
  ASSUME TypeOK, NEW s \in Servers, NEW x \in Players,
         issued[s][x] < MaxSessions
  PROVE  NewToken(s, x) \in Token
  BY StoreAssumption DEF TypeOK, NewToken, Token

(* Every step of a player, the operator or the backpacks keeps TypeOK.     *)
LEMMA ClientType ==
  ASSUME TypeOK, SessionsAreLocal, NEW s \in Servers, NEW x \in Players,
         Client(s, x)
  PROVE  TypeOK'
<1>1. CASE BeginJoin(s, x)
  <2> DEFINE t == NewToken(s, x)
  <2>1. t \in Token
    BY <1>1, NewTokenType DEF BeginJoin
  <2>2. issued' \in [Servers -> [Players -> 0 .. MaxSessions]]
    <3>1. issued[s][x] + 1 \in 0 .. MaxSessions
      BY <1>1, StoreAssumption DEF BeginJoin, TypeOK
    <3> QED BY <1>1, <3>1 DEF BeginJoin, TypeOK
  <2>3. Marker \in Snap
    BY StoreAssumption DEF Marker, Snap, Stamp
  <2>4. journal' \in [Token -> Snap \cup {None}]
    BY <1>1, <2>1, <2>3 DEF BeginJoin, TypeOK
  <2>5. queue' \in [Servers -> Seq(Job)]
    <3>1. 0 \in 0 .. MaxTries
      BY IncidentAssumption
    <3>2. Load(t, 0) \in Job
      BY <2>1, <3>1, MakeLoad
    <3>3. queue' = [queue EXCEPT ![s] = Append(WithRecovery(s), Load(t, 0))]
      BY <1>1 DEF BeginJoin
    <3> QED BY <3>2, <3>3, WithRecoveryType, QueueAppendType
  <2>6. sess' \in [Servers -> [Players -> Token \cup {None}]]
    BY <1>1, <2>1 DEF BeginJoin, TypeOK
  <2>7. /\ online' \in [Servers -> SUBSET Players]
        /\ loading' \in [Servers -> SUBSET Players]
    <3>1. /\ online[s] \cup {x} \in SUBSET Players
          /\ loading[s] \cup {x} \in SUBSET Players
          /\ online \in [Servers -> SUBSET Players]
          /\ loading \in [Servers -> SUBSET Players]
      BY DEF TypeOK
    <3>2. /\ [online EXCEPT ![s] = @ \cup {x}] \in [Servers -> SUBSET Players]
          /\ [loading EXCEPT ![s] = @ \cup {x}] \in [Servers -> SUBSET Players]
      BY <3>1, SetUpdate
    <3> QED BY <1>1, <3>2 DEF BeginJoin
  <2> QED BY <1>1, <2>2, <2>4, <2>5, <2>6, <2>7 DEF BeginJoin, TypeOK
<1>2. CASE JoinUnjournaled(s, x)
  <2>1. queue' \in [Servers -> Seq(Job)]
    <3>1. queue \in [Servers -> Seq(Job)]
      BY DEF TypeOK
    <3>2. [queue EXCEPT ![s] = WithRecovery(s)] \in [Servers -> Seq(Job)]
      BY <3>1, WithRecoveryType
    <3> QED BY <1>2, <3>1, <3>2 DEF JoinUnjournaled
  <2>2. incidents' \in 0 .. MaxIncidents
    BY <1>2, IncidentType DEF JoinUnjournaled
  <2> QED BY <1>2, <2>1, <2>2 DEF JoinUnjournaled, TypeOK
<1>3. CASE Quit(s, x)
  <2>1. /\ x \in online[s] /\ Leave(s, x)
        /\ tasks' \in [Servers -> SUBSET Task]
    BY <1>3 DEF Quit, TypeOK
  <2> QED BY <2>1, LeaveType
<1>4. CASE Play(s, x)
  BY <1>4, StoreAssumption DEF Play, TypeOK, durable, volatile
<1>5. CASE PackPending(s, x)
  <2>1. incidents' \in 0 .. MaxIncidents
    BY <1>5, IncidentType DEF PackPending
  <2>2. packs' \in [Servers -> [Players -> SUBSET Packs]]
    BY <1>5 DEF PackPending, TypeOK
  <2> QED BY <1>5, <2>1, <2>2 DEF PackPending, TypeOK, volatile
<1>6. CASE PackRecovered(s, x)
  <2>1. packs' \in [Servers -> [Players -> SUBSET Packs]]
    BY <1>6 DEF PackRecovered, TypeOK
  <2> QED BY <1>6, <2>1 DEF PackRecovered, TypeOK, volatile
<1>7. CASE LegacyCommand(s, x)
  <2>1. queue' \in [Servers -> Seq(Job)]
    <3>1. queue[s] \in Seq(Job)
      BY DEF TypeOK
    <3>2. queue' = [queue EXCEPT ![s] =
                      Append(queue[s], [kind |-> "legacy", xuid |-> x])]
      BY <1>7 DEF LegacyCommand
    <3> QED BY <3>1, <3>2, MakeLegacy, QueueAppendType
  <2>2. incidents' \in 0 .. MaxIncidents
    BY <1>7, IncidentType DEF LegacyCommand
  <2> QED BY <1>7, <2>1, <2>2 DEF LegacyCommand, TypeOK, durable
<1>8. CASE PlayUnmanaged(s, x)
  <2>1. incidents' \in 0 .. MaxIncidents
    BY <1>8, IncidentType DEF PlayUnmanaged
  <2> QED BY <1>8, <2>1, StoreAssumption DEF PlayUnmanaged, TypeOK, durable, volatile
<1> QED BY <1>1, <1>2, <1>3, <1>4, <1>5, <1>6, <1>7, <1>8 DEF Client

(* Every step keeps TypeOK, given that sessions are local.                 *)
LEMMA TypeStep ==
  ASSUME TypeOK, SessionsAreLocal, [Next]_vars
  PROVE  TypeOK'
<1>1. CASE Next
  BY <1>1, WorkerType, MainType, ClientType DEF Next
<1>2. CASE UNCHANGED vars
  BY <1>2 DEF vars, durable, volatile, TypeOK
<1> QED BY <1>1, <1>2

----------------------------------------------------------------------------
(* The queues stay safe: a job that is safe stays so while tokens remain   *)
(* drawn and no known token comes to life (Aged).                          *)

Aged ==
  \A t \in Token : /\ Known(t) => Known(t)'
                   /\ Known(t) /\ Live(t)' => Live(t)

(* The jobs that will be safe on server s in the next state.               *)
SafeNext(s) == {j \in Job : JobIsSafe(s, j)'}

(* A safe job stays safe in a step that ages the sessions.                 *)
LEMMA JobAges ==
  ASSUME Aged, NEW s \in Servers, NEW j \in Job, JobIsSafe(s, j)
  PROVE  j \in SafeNext(s)
<1>1. ASSUME j.kind \in {"load", "persist", "recover"}
      PROVE  j.token.home = s /\ Known(j.token)'
  <2>1. j.token \in Token
    BY <1>1, JobKinds DEF LoadJob, PersistJob, RecoverJob
  <2> QED BY <1>1, <2>1 DEF JobIsSafe, Aged
<1>2. ASSUME NEW t \in Token, Releasing(j, t)
      PROVE  t.home = s /\ Known(t)' /\ ~Live(t)'
  BY <1>2 DEF JobIsSafe, Aged
<1>3. \A t \in Token : Releasing(j, t)' <=> Releasing(j, t)
  BY DEF Releasing
<1>4. JobIsSafe(s, j)'
  BY <1>1, <1>2, <1>3 DEF JobIsSafe
<1> QED BY <1>4 DEF SafeNext

(* So does a whole queue of them.                                          *)
LEMMA QueuesAge ==
  ASSUME TypeOK, QueuesAreSafe, Aged, NEW s \in Servers
  PROVE  queue[s] \in Seq(SafeNext(s))
<1>1. queue[s] \in Seq(Job)
  BY DEF TypeOK
<1>2. \A i \in 1 .. Len(queue[s]) : queue[s][i] \in Job
  BY <1>1
<1>3. \A i \in 1 .. Len(queue[s]) : queue[s][i] \in SafeNext(s)
  BY <1>2, JobAges DEF QueuesAreSafe
<1> QED BY <1>1, <1>3

(* Queues of jobs that are safe in the next state are QueuesAreSafe        *)
(* there.                                                                  *)
LEMMA QueuesSafeNext ==
  ASSUME \A s \in Servers : queue'[s] \in Seq(SafeNext(s))
  PROVE  QueuesAreSafe'
<1>1. ASSUME NEW s \in Servers, NEW i \in 1 .. Len(queue'[s])
      PROVE  JobIsSafe(s, queue[s][i])'
  <2>1. queue'[s][i] \in SafeNext(s)
    BY <1>1
  <2> QED BY <2>1 DEF SafeNext, JobIsSafe, Known, Live, Current, Releasing
<1> QED BY <1>1 DEF QueuesAreSafe

(* Sequences over any set, extended or shortened by one element, stay in   *)
(* it.                                                                     *)
LEMMA SafeSeq ==
  ASSUME NEW S, NEW q \in Seq(S)
  PROVE  /\ \A j \in S : Append(q, j) \in Seq(S) /\ <<j>> \o q \in Seq(S)
         /\ q # << >> => Head(q) \in S /\ Tail(q) \in Seq(S)
  OBVIOUS

(* A batch of safe entries is safe.                                        *)
LEMMA SafeBatch ==
  ASSUME NEW s \in Servers, NEW es \in SUBSET Entry, NEW f \in BOOLEAN,
         \A e \in es : e.token.home = s /\ Known(e.token)' /\ ~Live(e.token)'
  PROVE  Batch(es, f) \in SafeNext(s)
<1> DEFINE j == Batch(es, f)
<1>1. j \in Job
  BY MakeBatch
<1>2. j.kind = "batch" /\ j.todo = es
  BY DEF Batch
<1>3. ASSUME NEW t \in Token, Releasing(j, t)'
      PROVE  t.home = s /\ Known(t)' /\ ~Live(t)'
  <2>1. PICK e \in es : e.token = t
    BY <1>2, <1>3 DEF Releasing
  <2> QED BY <2>1
<1> HIDE DEF j
<1>4. JobIsSafe(s, j)'
  BY <1>2, <1>3 DEF JobIsSafe
<1> QED BY <1>1, <1>4 DEF SafeNext, j

(* A queued snapshot is safe if it releases only a session without a       *)
(* player.                                                                 *)
LEMMA SafePersist ==
  ASSUME NEW s \in Servers, NEW t \in Token, NEW snap \in Snap,
         NEW r \in BOOLEAN, NEW a \in BOOLEAN,
         t.home = s, Known(t)', r => ~Live(t)'
  PROVE  Persist(t, snap, r, a) \in SafeNext(s)
<1> DEFINE j == Persist(t, snap, r, a)
<1>1. j \in Job
  BY MakePersist
<1>2. j.kind = "persist" /\ j.token = t /\ j.release = r
  BY DEF Persist
<1>3. ASSUME NEW u \in Token, Releasing(j, u)'
      PROVE  u.home = s /\ Known(u)' /\ ~Live(u)'
  BY <1>2, <1>3 DEF Releasing
<1> HIDE DEF j
<1>4. JobIsSafe(s, j)'
  BY <1>2, <1>3 DEF JobIsSafe
<1> QED BY <1>1, <1>4 DEF SafeNext, j

(* A queued load of a known session of the server is safe.                 *)
LEMMA SafeLoad ==
  ASSUME NEW s \in Servers, NEW t \in Token, NEW n \in 0 .. MaxTries,
         t.home = s, Known(t)'
  PROVE  Load(t, n) \in SafeNext(s)
<1> DEFINE j == Load(t, n)
<1>1. j \in Job
  BY MakeLoad
<1>2. j.kind = "load" /\ j.token = t
  BY DEF Load
<1> HIDE DEF j
<1>3. JobIsSafe(s, j)'
  BY <1>2 DEF JobIsSafe, Releasing
<1> QED BY <1>1, <1>3 DEF SafeNext, j

(* The job of the legacy command is safe: it releases no session.          *)
LEMMA SafeLegacy ==
  ASSUME NEW s \in Servers, NEW x \in Players
  PROVE  [kind |-> "legacy", xuid |-> x] \in SafeNext(s)
  BY MakeLegacy DEF SafeNext, JobIsSafe, Releasing

(* What _queue_inactive_recovery adds.                                     *)
LEMMA EntriesKnown ==
  ASSUME TypeOK, JournalIsKnown, NEW s \in Servers, NEW except,
         NEW e \in Entries(s, except)
  PROVE  /\ e.token \in Token /\ e.token.home = s /\ e.token \notin except
         /\ Known(e.token)
  BY DEF Entries, JournalIsKnown

(* _queue_inactive_recovery queues a safe recovery: it leaves out the      *)
(* active tokens.                                                          *)
LEMMA WithRecoverySafe ==
  ASSUME TypeOK, JournalIsKnown, QueuesAreSafe, Aged, NEW s \in Servers
  PROVE  WithRecovery(s) \in Seq(SafeNext(s))
<1> DEFINE es == Entries(s, ActiveTokens(s))
<1>1. es \in SUBSET Entry
  BY EntriesType
<1>2. ASSUME NEW e \in es
      PROVE  e.token.home = s /\ Known(e.token)' /\ ~Live(e.token)'
  <2>1. /\ e.token \in Token /\ e.token.home = s /\ Known(e.token)
        /\ e.token \notin ActiveTokens(s)
    BY EntriesKnown
  <2>2. ~Live(e.token)
    BY <2>1 DEF Live, Current, ActiveTokens, Token
  <2> QED BY <2>1, <2>2 DEF Aged
<1> HIDE DEF es
<1>3. Batch(es, FALSE) \in SafeNext(s)
  BY <1>1, <1>2, SafeBatch
<1>4. queue[s] \in Seq(SafeNext(s))
  BY QueuesAge
<1>5. Append(queue[s], Batch(es, FALSE)) \in Seq(SafeNext(s))
  BY <1>3, <1>4, SafeSeq
<1> QED BY <1>4, <1>5 DEF WithRecovery, es

----------------------------------------------------------------------------
(* The custody invariant through the worker's steps.                       *)

(* No live session loses its row in this step.                             *)
OwnersKept == \A t \in Token : Live(t) /\ db[t.xuid].owner = t => db'[t.xuid].owner = t

(* No worker step touches the sessions, the players or their worlds.       *)
LEMMA WorkerFrames ==
  ASSUME NEW s \in Servers, Worker(s)
  PROVE  WorkerFrame
  BY DEF Worker, TakeLoad, Claim, CheckStorage, Save, RemoveRow, RecoverNext,
         RecoverDone, ReleaseLegacy

(* Every worker step ages the sessions.                                    *)
LEMMA WorkerAges ==
  ASSUME NEW s \in Servers, Worker(s)
  PROVE  Aged
<1>1. WorkerFrame
  BY WorkerFrames
<1> QED BY <1>1 DEF WorkerFrame, Aged, Known, Live, Current

(* No worker step takes a row away from a session that still has a         *)
(* player.                                                                 *)
LEMMA WorkerOwners ==
  ASSUME TypeOK, QueuesAreSafe, NEW s \in Servers, Worker(s)
  PROVE  OwnersKept
<1> SUFFICES ASSUME NEW t \in Token, Live(t), db[t.xuid].owner = t
             PROVE  db'[t.xuid].owner = t
  BY DEF OwnersKept
<1>0. t.xuid \in Players /\ db[t.xuid] \in Row /\ t # None
  BY StoreAssumption DEF Token, TypeOK
<1>1. CASE Claim(s)
  <2> DEFINE u == Head(queue[s]).token
  <2>1. u \in Token /\ u.xuid \in Players
    BY <1>1, ClaimHead
  <2>2. db' = db \/ (Claimable(db[u.xuid], u) /\
                     db' = [db EXCEPT ![u.xuid] = Claimed(db[u.xuid], u)])
    BY <1>1 DEF Claim
  <2>3. CASE db' # db /\ u.xuid = t.xuid
    <3>1. u = t
      BY <2>2, <2>3, <1>0 DEF Claimable
    <3>2. Claimed(db[u.xuid], u).owner = u
      BY <2>1 DEF Claimed, TypeOK, Row
    <3> HIDE DEF u
    <3> QED BY <2>1, <2>2, <2>3, <3>1, <3>2 DEF TypeOK
  <2>4. CASE db' # db /\ u.xuid # t.xuid
    <3> HIDE DEF u
    <3> QED BY <1>0, <2>1, <2>2, <2>4 DEF TypeOK
  <2> QED BY <2>3, <2>4
<1>2. CASE Save(s)
  <2> DEFINE job == Head(queue[s])
             u == job.token
  <2>1. At(s, {"persist", "recover"}, "save")
    BY <1>2 DEF Save, Holds
  <2>2. u \in Token /\ u.xuid \in Players /\ job.snap \in Snap /\ job.release \in BOOLEAN
    BY <2>1, SnapshotJob DEF Token
  <2>3. db' = db \/ (db[u.xuid].owner = u /\
          db' = [db EXCEPT ![u.xuid] = Saved(db[u.xuid], job.snap, job.release)])
    BY <1>2 DEF Save, Holds
  <2>4. CASE db' # db /\ u.xuid = t.xuid
    <3>1. u = t
      BY <2>3, <2>4
    <3>2. JobIsSafe(s, job) /\ job.kind \in {"persist", "recover"}
      BY <2>1, HeadJob DEF QueuesAreSafe
    <3>3. ~job.release
      BY <3>1, <3>2 DEF JobIsSafe, Releasing
    <3>4. Saved(db[u.xuid], job.snap, job.release).owner = t
      BY <3>1, <3>3 DEF Saved
    <3> HIDE DEF job, u
    <3> QED BY <2>2, <2>3, <2>4, <3>4 DEF TypeOK
  <2>5. CASE db' # db /\ u.xuid # t.xuid
    <3> HIDE DEF job, u
    <3> QED BY <1>0, <2>2, <2>3, <2>5 DEF TypeOK
  <2> QED BY <2>4, <2>5
<1>3. CASE ReleaseLegacy(s)
  <2> DEFINE x == Head(queue[s]).xuid
  <2>1. db' \in {db, [db EXCEPT ![x] = LegacyReleased(db[x])]}
    BY <1>3 DEF ReleaseLegacy
  <2>2. LegacyReleased(db[t.xuid]).owner = t
    BY <1>0, LegacyRowType
  <2> HIDE DEF x
  <2> QED BY <1>0, <2>1, <2>2 DEF TypeOK
<1>4. CASE TakeLoad(s) \/ CheckStorage(s) \/ RemoveRow(s) \/ RecoverNext(s) \/ RecoverDone(s)
  BY <1>4 DEF TakeLoad, CheckStorage, RemoveRow, RecoverNext, RecoverDone
<1> QED BY <1>1, <1>2, <1>3, <1>4 DEF Worker

(* Every worker step leaves safe jobs in every queue.                      *)
LEMMA WorkerQueues ==
  ASSUME TypeOK, QueuesAreSafe, NEW s \in Servers, Worker(s), NEW r \in Servers
  PROVE  queue'[r] \in Seq(SafeNext(r))
<1>0. Aged /\ queue \in [Servers -> Seq(Job)]
  BY WorkerAges DEF TypeOK
<1>1. queue[r] \in Seq(SafeNext(r)) /\ queue[s] \in Seq(SafeNext(s))
  BY <1>0, QueuesAge
<1> DEFINE rest == Tail(queue[s])
<1>2. queue[s] # << >>
  BY DEF Worker, TakeLoad, Claim, CheckStorage, Save, RemoveRow, RecoverNext,
         RecoverDone, ReleaseLegacy, At
<1>a. rest \in Seq(SafeNext(s)) /\ Head(queue[s]) \in SafeNext(s)
  BY <1>1, <1>2, SafeSeq
<1>b. PICK job \in SafeNext(s) : job = Head(queue[s])
  BY <1>a
<1>3. /\ job \in Job /\ job \in SafeNext(s) /\ rest \in Seq(SafeNext(s))
      /\ JobIsSafe(s, job)'
  BY <1>a, <1>b DEF SafeNext
<1>4. ASSUME NEW es \in SUBSET Entry, NEW f \in BOOLEAN,
             job.kind \in {"batch", "recover"}, es \subseteq job.todo
      PROVE  <<Batch(es, f)>> \o rest \in Seq(SafeNext(s))
  <2>1. ASSUME NEW e \in es
        PROVE  e.token.home = s /\ Known(e.token)' /\ ~Live(e.token)'
    <3>1. e.token \in Token /\ Releasing(job, e.token)'
      BY <1>4 DEF Releasing, Entry
    <3> QED BY <1>3, <3>1 DEF JobIsSafe
  <2>2. Batch(es, f) \in SafeNext(s)
    BY <2>1, SafeBatch
  <2> HIDE DEF rest
  <2> QED BY <1>3, <2>2, SafeSeq
<1>5. ASSUME queue' \in {queue, [queue EXCEPT ![s] = rest]}
      PROVE  queue'[r] \in Seq(SafeNext(r))
  <2> HIDE DEF rest
  <2> QED BY <1>0, <1>1, <1>3, <1>5
<1>6. ASSUME NEW todo, NEW f \in BOOLEAN, EndSnapshot(s, todo, f),
             job.kind = "recover" => todo \in SUBSET job.todo
      PROVE  queue'[r] \in Seq(SafeNext(r))
  <2>1. CASE job.kind = "recover"
    <3>1. job.failed \in BOOLEAN /\ job.todo \in SUBSET Entry
      BY <1>3, <2>1, JobKinds DEF RecoverJob
    <3>2. <<Batch(todo, job.failed \/ f)>> \o rest \in Seq(SafeNext(s))
      BY <1>4, <1>6, <2>1, <3>1
    <3>3. queue' = [queue EXCEPT ![s] = <<Batch(todo, job.failed \/ f)>> \o rest]
      BY <1>b, <1>6, <2>1 DEF EndSnapshot
    <3> HIDE DEF rest
    <3> QED BY <1>0, <1>1, <3>2, <3>3
  <2>2. CASE job.kind # "recover"
    BY <1>b, <1>5, <1>6, <2>2 DEF EndSnapshot
  <2> QED BY <2>1, <2>2
<1>7. CASE TakeLoad(s) \/ Claim(s) \/ RecoverDone(s) \/ ReleaseLegacy(s)
  BY <1>5, <1>7 DEF TakeLoad, Claim, RecoverDone, ReleaseLegacy, Drop, LoadFails
<1>8. CASE CheckStorage(s) \/ Save(s)
  <2>1. queue' = queue \/ Drop(s) \/ GiveUp(s)
    BY <1>8 DEF CheckStorage, Save
  <2> QED BY <1>b, <1>5, <1>6, <2>1 DEF Drop, GiveUp
<1>9. CASE RemoveRow(s)
  BY <1>b, <1>6, <1>9 DEF RemoveRow
<1>10. CASE RecoverNext(s)
  <2>1. PICK e \in job.todo :
          queue' = [queue EXCEPT ![s] =
            <<Recover(e, job.todo \ {e}, job.failed)>> \o rest]
    BY <1>b, <1>10 DEF RecoverNext
  <2> DEFINE new == Recover(e, job.todo \ {e}, job.failed)
  <2>2. job.kind = "batch" /\ job.todo \in SUBSET Entry /\ job.failed \in BOOLEAN
    BY <1>b, <1>3, <1>10, HeadJob, JobKinds DEF RecoverNext, BatchJob
  <2>3. new \in Job
    BY <2>2, MakeRecover
  <2>4. /\ new.kind = "recover" /\ new.token = e.token
        /\ new.todo = job.todo \ {e}
    BY DEF Recover
  <2>5. e.token \in Token
    BY <2>1, <2>2 DEF Entry
  <2>6. \A t \in Token : Releasing(new, t)' => Releasing(job, t)'
    <3> HIDE DEF new
    <3> QED BY <2>1, <2>2, <2>4 DEF Releasing
  <2>7. Releasing(job, e.token)'
    BY <2>1, <2>2 DEF Releasing
  <2>8. JobIsSafe(s, new)'
    <3> HIDE DEF new
    <3> QED BY <1>3, <2>4, <2>5, <2>6, <2>7 DEF JobIsSafe
  <2>9. new \in SafeNext(s)
    BY <2>3, <2>8 DEF SafeNext
  <2>10. <<new>> \o rest \in Seq(SafeNext(s))
    <3> HIDE DEF new, rest
    <3> QED BY <1>3, <2>9, SafeSeq
  <2> HIDE DEF rest
  <2> QED BY <1>0, <1>1, <2>1, <2>10
<1> QED BY <1>7, <1>8, <1>9, <1>10 DEF Worker

(* What a claim or its failure may hand to the scheduler.                  *)
LEMMA WorkerTasks ==
  ASSUME TypeOK, QueuesAreSafe, NEW s \in Servers, Worker(s),
         NEW r \in Servers, NEW k \in tasks'[r], k \notin tasks[r]
  PROVE  /\ k.token.home = r /\ Known(k.token)
         /\ k.kind = "apply" => db'[k.token.xuid].owner = k.token
<1>1. Claim(s)
  BY DEF Worker, TakeLoad, Claim, CheckStorage, Save, RemoveRow, RecoverNext,
         RecoverDone, ReleaseLegacy
<1> DEFINE t == Head(queue[s]).token
           Apply1 == [kind |-> "apply", token |-> t, inv |-> db[t.xuid].inv]
<1>2. /\ t \in Token /\ t.xuid \in Players /\ t.home = s /\ Known(t)
  <2>1. At(s, {"load"}, "claim")
    BY <1>1 DEF Claim
  <2>2. JobIsSafe(s, Head(queue[s])) /\ Head(queue[s]).kind = "load"
    BY <2>1, HeadJob DEF QueuesAreSafe
  <2>3. t \in Token
    BY <2>1, HeadJob, JobKinds DEF LoadJob
  <2> QED BY <2>2, <2>3 DEF JobIsSafe, Token
<1>3. r = s
  BY <1>1 DEF Claim, Schedule, LoadFails, TypeOK
<1>4. \/ k = [kind |-> "kick", token |-> t]
      \/ \E n : k = [kind |-> "retry", token |-> t, tries |-> n]
      \/ k = Apply1 /\ db' = [db EXCEPT ![t.xuid] = Claimed(db[t.xuid], t)]
  <2>1. \A z : Schedule(s, z) => k = z
    BY <1>3 DEF Schedule, TypeOK
  <2>2. \/ Schedule(s, Apply1) /\ db' = [db EXCEPT ![t.xuid] = Claimed(db[t.xuid], t)]
        \/ LoadFails(s, TRUE) \/ LoadFails(s, FALSE)
    BY <1>1 DEF Claim
  <2>3. LoadFails(s, TRUE) \/ LoadFails(s, FALSE) =>
          \/ Schedule(s, [kind |-> "kick", token |-> t])
          \/ \E n : Schedule(s, [kind |-> "retry", token |-> t, tries |-> n])
    BY DEF LoadFails
  <2> HIDE DEF Apply1, t
  <2> QED BY <2>1, <2>2, <2>3
<1>5. Claimed(db[t.xuid], t).owner = t
  BY <1>2 DEF Claimed, TypeOK, Row
<1>6. k.token = t /\ (k.kind = "apply" => k = Apply1)
  BY <1>4
<1> HIDE DEF t
<1> QED BY <1>2, <1>3, <1>4, <1>5, <1>6 DEF TypeOK

(* Every worker step keeps CustodyInv.                                     *)
LEMMA WorkerCustody ==
  ASSUME TypeOK, CustodyInv, NEW s \in Servers, Worker(s)
  PROVE  CustodyInv'
<1>1. /\ SessionsAreLocal /\ OnlineWhileEnabled /\ JournalIsKnown
      /\ QueuesAreSafe /\ TasksAreKnown /\ RestoreOwns /\ PlayersOwn
  BY DEF CustodyInv
<1>2. WorkerFrame /\ Aged /\ OwnersKept
  BY <1>1, WorkerFrames, WorkerAges, WorkerOwners
<1>3. SessionsAreLocal'
  BY <1>1, <1>2 DEF SessionsAreLocal, WorkerFrame, Known
<1>4. OnlineWhileEnabled'
  <2>1. phase' = phase \/ (phase[s] = "booting" /\ \E p : phase' = [phase EXCEPT ![s] = p])
    BY DEF Worker, TakeLoad, Claim, CheckStorage, Save, RemoveRow, RecoverNext,
           RecoverDone, ReleaseLegacy
  <2> QED BY <1>1, <1>2, <2>1 DEF OnlineWhileEnabled, WorkerFrame, TypeOK
<1>5. JournalIsKnown'
  <2>1. \A t \in Token : journal'[t] # None => journal[t] # None
    BY DEF Worker, TakeLoad, Claim, CheckStorage, Save, RemoveRow, RecoverNext,
           RecoverDone, ReleaseLegacy, TypeOK
  <2> QED BY <1>1, <1>2, <2>1 DEF JournalIsKnown, WorkerFrame, Known
<1>6. QueuesAreSafe'
  BY <1>1, WorkerQueues, QueuesSafeNext
<1>7. ASSUME NEW r \in Servers, NEW k \in tasks'[r]
      PROVE  /\ k.token.home = r /\ Known(k.token)'
             /\ k.kind = "apply" /\ Live(k.token)' =>
                  db'[k.token.xuid].owner = k.token
  <2>1. CASE k \in tasks[r]
    <3>1. k.token \in Token
      BY <2>1 DEF TypeOK, Task, ApplyTask, RetryTask, KickTask
    <3>2. k.token.home = r /\ Known(k.token)
      BY <1>1, <2>1 DEF TasksAreKnown
    <3>3. k.kind = "apply" /\ Live(k.token) => db[k.token.xuid].owner = k.token
      BY <1>1, <2>1 DEF RestoreOwns
    <3> QED BY <1>2, <3>1, <3>2, <3>3 DEF Aged, OwnersKept
  <2>2. CASE k \notin tasks[r]
    <3>1. /\ k.token.home = r /\ Known(k.token)
          /\ k.kind = "apply" => db'[k.token.xuid].owner = k.token
      BY <1>1, <2>2, WorkerTasks
    <3> QED BY <1>2, <3>1 DEF WorkerFrame, Known
  <2> QED BY <2>1, <2>2
<1>8. TasksAreKnown' /\ RestoreOwns'
  BY <1>7 DEF TasksAreKnown, RestoreOwns
<1>9. PlayersOwn'
  <2> SUFFICES ASSUME NEW r \in Servers, NEW x \in Players, Playing(r, x)'
               PROVE  db'[x].owner = sess'[r][x]
    BY DEF PlayersOwn
  <2>1. Playing(r, x) /\ sess' = sess
    BY <1>2 DEF Playing, WorkerFrame
  <2>2. db[x].owner = sess[r][x] /\ sess[r][x] \in Token
        /\ sess[r][x].home = r /\ sess[r][x].xuid = x
    BY <1>1, <2>1 DEF PlayersOwn, SessionsAreLocal, Playing, TypeOK
  <2>3. Live(sess[r][x])
    BY <2>1, <2>2 DEF Live, Current, Playing
  <2> QED BY <1>2, <2>1, <2>2, <2>3 DEF OwnersKept
<1> QED BY <1>3, <1>4, <1>5, <1>6, <1>8, <1>9 DEF CustodyInv

----------------------------------------------------------------------------
(* The custody invariant through the main thread and the players.          *)

(* A callback is carried over, or turned into a kick of the same session.  *)
TasksCarried ==
  \A r \in Servers : \A k \in tasks'[r] :
    k \in tasks[r] \/
    (k.kind # "apply" /\ \E l \in tasks[r] : k.token = l.token)

(* The callback k is done, or fail_join schedules a kick in its place.      *)
LEMMA CallbackCarried ==
  ASSUME TypeOK, NEW s \in Servers, NEW k \in tasks[s],
         \/ tasks' = [tasks EXCEPT ![s] = @ \ {k}]
         \/ tasks' = [tasks EXCEPT ![s] =
                        (@ \ {k}) \cup {[kind |-> "kick", token |-> k.token]}]
  PROVE  TasksCarried
<1>1. PICK kick : kick = [kind |-> "kick", token |-> k.token]
  OBVIOUS
<1>2. kick.kind # "apply" /\ kick.token = k.token
  BY <1>1
<1>3. \A r \in Servers : \A z \in tasks'[r] :
        z \in tasks[r] \/ (r = s /\ z = kick)
  BY <1>1 DEF TypeOK
<1> QED BY <1>2, <1>3 DEF TasksCarried

(* Every step but a claim and a save leaves the owners alone.              *)
LEMMA CarryOver ==
  ASSUME TypeOK, CustodyInv, Aged,
         \A x \in Players : db'[x].owner = db[x].owner,
         \A r \in Servers : queue'[r] \in Seq(SafeNext(r)),
         TasksCarried
  PROVE  QueuesAreSafe' /\ TasksAreKnown' /\ RestoreOwns'
<1>1. QueuesAreSafe'
  BY QueuesSafeNext
<1>2. ASSUME NEW r \in Servers, NEW k \in tasks'[r]
      PROVE  /\ k.token.home = r /\ Known(k.token)'
             /\ k.kind = "apply" /\ Live(k.token)' =>
                  db'[k.token.xuid].owner = k.token
  <2>1. PICK l \in tasks[r] : k.token = l.token /\ (k.kind = "apply" => k = l)
    BY <1>2 DEF TasksCarried
  <2>2. l.token \in Token /\ l.token.xuid \in Players
    BY <2>1 DEF TypeOK, Task, ApplyTask, RetryTask, KickTask, Token
  <2>3. l.token.home = r /\ Known(l.token)
    BY <2>1 DEF CustodyInv, TasksAreKnown
  <2>4. l.kind = "apply" /\ Live(l.token) => db[l.token.xuid].owner = l.token
    BY <2>1 DEF CustodyInv, RestoreOwns
  <2> QED BY <2>1, <2>2, <2>3, <2>4 DEF Aged
<1>3. TasksAreKnown' /\ RestoreOwns'
  BY <1>2 DEF TasksAreKnown, RestoreOwns
<1> QED BY <1>1, <1>3

(* BeginJoin draws a token that nothing knows yet.                         *)
LEMMA FreshToken ==
  ASSUME TypeOK, NEW s \in Servers, NEW x \in Players, BeginJoin(s, x),
         NEW t, t = NewToken(s, x)
  PROVE  /\ t \in Token /\ t.home = s /\ t.xuid = x
         /\ ~Known(t) /\ Known(t)'
<1>1. t \in Token
  BY NewTokenType DEF BeginJoin
<1>2. t.home = s /\ t.xuid = x /\ t.n = issued[s][x] + 1
  BY DEF NewToken
<1>3. issued[s][x] \in Nat
  BY StoreAssumption DEF TypeOK
<1>4. issued'[s][x] = issued[s][x] + 1
  BY DEF BeginJoin, TypeOK
<1>5. ~Known(t)
  BY <1>2, <1>3 DEF Known
<1>6. Known(t)'
  BY <1>2, <1>3, <1>4 DEF Known
<1> QED BY <1>1, <1>2, <1>5, <1>6

(* A login ages the other sessions: its token is new, so that no job can   *)
(* name it.                                                                *)
LEMMA BeginJoinAged ==
  ASSUME TypeOK, CustodyInv, NEW s \in Servers, NEW x \in Players,
         BeginJoin(s, x)
  PROVE  Aged
<1> SUFFICES ASSUME NEW u \in Token, Known(u)
             PROVE  Known(u)' /\ (Live(u)' => Live(u))
  BY DEF Aged
<1>0. u.home \in Servers /\ u.xuid \in Players /\ u.n \in Nat
  BY StoreAssumption DEF Token
<1>1. issued \in [Servers -> [Players -> Nat]]
  BY StoreAssumption DEF TypeOK
<1>a. PICK n \in Nat : n = issued[u.home][u.xuid]
  BY <1>0, <1>1
<1>b. issued'[u.home][u.xuid] \in {n, n + 1}
  BY <1>0, <1>1, <1>a DEF BeginJoin
<1>2. Known(u)'
  BY <1>0, <1>a, <1>b DEF Known
<1>3. PICK t : t = NewToken(s, x)
  OBVIOUS
<1>4. u # t
  BY <1>3, FreshToken
<1>5. ASSUME Live(u)'
      PROVE  Live(u)
  <2>1. sess'[u.home][u.xuid] = u /\ u.xuid \in online'[u.home]
    BY <1>5 DEF Live, Current
  <2>2. sess' = [sess EXCEPT ![s][x] = t]
    BY <1>3 DEF BeginJoin
  <2>3. CASE u.home = s /\ u.xuid = x
    BY <1>4, <2>1, <2>2, <2>3 DEF TypeOK
  <2>4. CASE ~(u.home = s /\ u.xuid = x)
    <3>1. sess[u.home][u.xuid] = u
      BY <1>0, <2>1, <2>2, <2>4 DEF TypeOK
    <3>2. u.xuid \in online[u.home]
      BY <1>0, <2>1, <2>4 DEF TypeOK, BeginJoin
    <3> QED BY <3>1, <3>2 DEF Live, Current
  <2> QED BY <2>3, <2>4
<1> QED BY <1>2, <1>5

(* A login keeps CustodyInv.                                               *)
LEMMA BeginJoinCustody ==
  ASSUME TypeOK, CustodyInv, NEW s \in Servers, NEW x \in Players,
         BeginJoin(s, x)
  PROVE  CustodyInv'
<1>1. /\ SessionsAreLocal /\ OnlineWhileEnabled /\ JournalIsKnown
      /\ QueuesAreSafe /\ TasksAreKnown /\ RestoreOwns /\ PlayersOwn
  BY DEF CustodyInv
<1>2. PICK t : t = NewToken(s, x)
  OBVIOUS
<1>3. t \in Token /\ t.home = s /\ t.xuid = x /\ Known(t)' /\ t # None
  BY <1>2, FreshToken, StoreAssumption
<1>4. Aged
  BY BeginJoinAged
<1>5. \A r \in Servers : queue'[r] \in Seq(SafeNext(r))
  <2>1. WithRecovery(s) \in Seq(SafeNext(s))
    BY <1>1, <1>4, WithRecoverySafe
  <2>2. Load(t, 0) \in SafeNext(s)
    <3>1. 0 \in 0 .. MaxTries
      BY IncidentAssumption
    <3> QED BY <1>3, <3>1, SafeLoad
  <2>3. Append(WithRecovery(s), Load(t, 0)) \in Seq(SafeNext(s))
    BY <2>1, <2>2, SafeSeq
  <2>4. \A r \in Servers : queue[r] \in Seq(SafeNext(r))
    BY <1>1, <1>4, QueuesAge
  <2>5. queue' = [queue EXCEPT ![s] = Append(WithRecovery(s), Load(t, 0))]
    BY <1>2 DEF BeginJoin
  <2> QED BY <2>3, <2>4, <2>5 DEF TypeOK
<1>6. QueuesAreSafe' /\ TasksAreKnown' /\ RestoreOwns'
  BY <1>4, <1>5, CarryOver DEF BeginJoin, TasksCarried
<1>7. SessionsAreLocal'
  <2>1. ASSUME NEW r \in Servers, NEW y \in Players
        PROVE  /\ sess'[r][y] # None =>
                    /\ sess'[r][y].home = r /\ sess'[r][y].xuid = y
                    /\ Known(sess[r][y])'
               /\ y \in online'[r] => sess'[r][y] # None
    <3>1. CASE r = s /\ y = x
      <4>1. sess'[r][y] = t
        BY <1>2, <3>1 DEF BeginJoin, TypeOK
      <4>2. Known(sess[r][y])'
        BY <1>3, <4>1 DEF Known
      <4> QED BY <1>3, <3>1, <4>1, <4>2
    <3>2. CASE ~(r = s /\ y = x)
      <4>1. PICK u : u = sess[r][y]
        OBVIOUS
      <4>2. sess'[r][y] = u /\ (y \in online'[r] => y \in online[r])
        BY <3>2, <4>1 DEF BeginJoin, TypeOK
      <4>3. u # None => u \in Token /\ u.home = r /\ u.xuid = y /\ Known(u)
        BY <1>1, <4>1 DEF SessionsAreLocal, TypeOK
      <4>4. u # None => Known(u)'
        BY <1>4, <4>3 DEF Aged
      <4>5. u # None => Known(sess[r][y])'
        BY <4>2, <4>4 DEF Known
      <4>6. y \in online[r] => u # None
        BY <1>1, <4>1 DEF SessionsAreLocal
      <4> QED BY <4>2, <4>3, <4>5, <4>6
    <3> QED BY <3>1, <3>2
  <2> QED BY <2>1 DEF SessionsAreLocal
<1>8. OnlineWhileEnabled'
  BY <1>1 DEF OnlineWhileEnabled, BeginJoin, TypeOK
<1>9. JournalIsKnown'
  <2> SUFFICES ASSUME NEW u \in Token, journal'[u] # None
               PROVE  Known(u)'
    BY DEF JournalIsKnown
  <2>1. journal' = [journal EXCEPT ![t] = Marker]
    BY <1>2 DEF BeginJoin
  <2> QED BY <1>1, <1>3, <1>4, <2>1 DEF TypeOK, JournalIsKnown, Aged
<1>10. PlayersOwn'
  <2> SUFFICES ASSUME NEW r \in Servers, NEW y \in Players, Playing(r, y)'
               PROVE  db'[y].owner = sess'[r][y]
    BY DEF PlayersOwn
  <2>1. ~(r = s /\ y = x)
    BY DEF Playing, BeginJoin, TypeOK
  <2>2. Playing(r, y) /\ sess'[r][y] = sess[r][y] /\ db' = db
    BY <2>1 DEF Playing, BeginJoin, TypeOK
  <2> QED BY <1>1, <2>2 DEF PlayersOwn
<1> QED BY <1>6, <1>7, <1>8, <1>9, <1>10 DEF CustodyInv

(* Every other step: sessions and players only disappear.                  *)
Retires ==
  /\ UNCHANGED issued
  /\ \A x \in Players : db'[x].owner = db[x].owner
  /\ \A r \in Servers, y \in Players :
       /\ sess'[r][y] = sess[r][y] \/ sess'[r][y] = None
       /\ y \in online'[r] => y \in online[r] /\ sess'[r][y] = sess[r][y]
       /\ Playing(r, y)' => Playing(r, y) \/ db[y].owner = sess[r][y]

(* A step that only ends sessions ages them.                               *)
LEMMA RetiresAged ==
  ASSUME Retires
  PROVE  Aged
<1> SUFFICES ASSUME NEW u \in Token
             PROVE  /\ Known(u) => Known(u)'
                    /\ Live(u)' => Live(u)
  BY DEF Aged
<1>1. u.home \in Servers /\ u.xuid \in Players
  BY DEF Token
<1>2. Known(u) => Known(u)'
  BY DEF Retires, Known
<1>3. Live(u)' => Live(u)
  BY <1>1 DEF Retires, Live, Current
<1> QED BY <1>2, <1>3

(* A step that only ends sessions keeps CustodyInv, given safe queues.     *)
LEMMA RetiresCustody ==
  ASSUME TypeOK, CustodyInv, Retires, JournalIsKnown', OnlineWhileEnabled',
         \A r \in Servers : queue'[r] \in Seq(SafeNext(r)),
         TasksCarried
  PROVE  CustodyInv'
<1>1. SessionsAreLocal /\ PlayersOwn
  BY DEF CustodyInv
<1>2. QueuesAreSafe' /\ TasksAreKnown' /\ RestoreOwns'
  BY RetiresAged, CarryOver DEF Retires
<1>3. SessionsAreLocal'
  <2>1. ASSUME NEW r \in Servers, NEW y \in Players
        PROVE  /\ sess'[r][y] # None =>
                    /\ sess'[r][y].home = r /\ sess'[r][y].xuid = y
                    /\ Known(sess[r][y])'
               /\ y \in online'[r] => sess'[r][y] # None
    <3>1. sess'[r][y] = sess[r][y] \/ sess'[r][y] = None
      BY DEF Retires
    <3>2. y \in online'[r] => y \in online[r] /\ sess'[r][y] = sess[r][y]
      BY DEF Retires
    <3>3. sess[r][y] # None => sess[r][y].home = r /\ sess[r][y].xuid = y
                               /\ Known(sess[r][y])
      BY <1>1 DEF SessionsAreLocal
    <3>4. sess'[r][y] # None => Known(sess[r][y])'
      BY <3>1, <3>3 DEF Known, Retires
    <3> QED BY <1>1, <3>1, <3>2, <3>3, <3>4 DEF SessionsAreLocal
  <2> QED BY <2>1 DEF SessionsAreLocal
<1>4. PlayersOwn'
  <2> SUFFICES ASSUME NEW r \in Servers, NEW y \in Players, Playing(r, y)'
               PROVE  db'[y].owner = sess'[r][y]
    BY DEF PlayersOwn
  <2>1. y \in online'[r]
    BY DEF Playing
  <2>2. db'[y].owner = db[y].owner /\ sess'[r][y] = sess[r][y]
    BY <2>1 DEF Retires
  <2>3. db[y].owner = sess[r][y]
    BY <1>1 DEF Retires, PlayersOwn
  <2> QED BY <2>2, <2>3
<1> QED BY <1>2, <1>3, <1>4 DEF CustodyInv

(* The journal stays known if only rows of known sessions are written.     *)
LEMMA JournalStaysKnown ==
  ASSUME CustodyInv, UNCHANGED issued,
         \A t \in Token : journal'[t] # None => journal[t] # None \/ Known(t)
  PROVE  JournalIsKnown'
  BY DEF CustodyInv, JournalIsKnown, Known

(* A step that leaves players, sessions, guards, owners and journals alone  *)
(* keeps the invariant if the jobs it queues are safe.                     *)
Quiet == UNCHANGED <<issued, journal, phase, online, sess, loading>>

(* A step that leaves the sessions and the owners alone ends none.         *)
LEMMA QuietRetires ==
  ASSUME Quiet, \A x \in Players : db'[x].owner = db[x].owner
  PROVE  Retires
<1>1. \A r \in Servers, y \in Players : Playing(r, y)' => Playing(r, y)
  BY DEF Quiet, Playing
<1> QED BY <1>1 DEF Quiet, Retires

(* Such a step keeps CustodyInv if it queues only safe jobs.               *)
LEMMA QuietCustody ==
  ASSUME TypeOK, CustodyInv, Quiet, UNCHANGED db,
         NEW s \in Servers, NEW q \in Seq(SafeNext(s)),
         queue' = queue \/ queue' = [queue EXCEPT ![s] = q],
         TasksCarried
  PROVE  CustodyInv'
<1>1. Retires
  BY QuietRetires
<1>2. JournalIsKnown'
  BY JournalStaysKnown DEF Quiet
<1>3. OnlineWhileEnabled'
  BY DEF CustodyInv, OnlineWhileEnabled, Quiet
<1>4. \A r \in Servers : queue[r] \in Seq(SafeNext(r))
  BY <1>1, RetiresAged, QueuesAge DEF CustodyInv
<1>5. \A r \in Servers : queue'[r] \in Seq(SafeNext(r))
  BY <1>4 DEF TypeOK
<1> QED BY <1>1, <1>2, <1>3, <1>5, RetiresCustody

(* What players other than a quitting one, the operator and the backpacks  *)
(* do keeps CustodyInv.                                                    *)
LEMMA ClientCustody ==
  ASSUME TypeOK, CustodyInv, NEW s \in Servers, NEW x \in Players,
         Client(s, x), ~Quit(s, x)
  PROVE  CustodyInv'
<1>1. CASE BeginJoin(s, x)
  BY <1>1, BeginJoinCustody
<1>2. CASE JoinUnjournaled(s, x)
  <2>1. Quiet /\ UNCHANGED <<db, tasks>>
    BY <1>2 DEF JoinUnjournaled, Quiet
  <2>2. WithRecovery(s) \in Seq(SafeNext(s))
    BY <2>1, QuietRetires, RetiresAged, WithRecoverySafe DEF CustodyInv
  <2>3. queue' = queue \/ queue' = [queue EXCEPT ![s] = WithRecovery(s)]
    BY <1>2 DEF JoinUnjournaled
  <2> QED BY <2>1, <2>2, <2>3, QuietCustody DEF TasksCarried
<1>3. CASE Play(s, x) \/ PlayUnmanaged(s, x) \/ PackPending(s, x)
           \/ PackRecovered(s, x)
  <2>1. Quiet /\ UNCHANGED <<db, tasks, queue>>
    BY <1>3 DEF Play, PlayUnmanaged, PackPending, PackRecovered, Quiet,
                durable, volatile
  <2>2. << >> \in Seq(SafeNext(s))
    OBVIOUS
  <2> QED BY <2>1, <2>2, QuietCustody DEF TasksCarried
<1>4. CASE LegacyCommand(s, x)
  <2> DEFINE job == [kind |-> "legacy", xuid |-> x]
  <2>1. Quiet /\ UNCHANGED <<db, tasks>>
    BY <1>4 DEF LegacyCommand, Quiet, durable
  <2>2. queue[s] \in Seq(SafeNext(s))
    BY <2>1, QuietRetires, RetiresAged, QueuesAge DEF CustodyInv
  <2>3. job \in SafeNext(s)
    BY SafeLegacy
  <2>4. queue' = [queue EXCEPT ![s] = Append(queue[s], job)]
    BY <1>4 DEF LegacyCommand
  <2> HIDE DEF job
  <2>5. Append(queue[s], job) \in Seq(SafeNext(s))
    BY <2>2, <2>3, SafeSeq
  <2> QED BY <2>1, <2>4, <2>5, QuietCustody DEF TasksCarried
<1> QED BY <1>1, <1>2, <1>3, <1>4 DEF Client

(* What _finish_session queues releases only the session that just ended.  *)
LEMMA FinishSafe ==
  ASSUME TypeOK, CustodyInv, Aged, UNCHANGED issued,
         NEW s \in Servers, NEW x \in online[s],
         Finish(s, x) \/ FinishRaises(s, x), sess'[s][x] = None
  PROVE  /\ \A r \in Servers : queue'[r] \in Seq(SafeNext(r))
         /\ JournalIsKnown'
<1>1. PICK t \in Token : t = sess[s][x]
  BY TokenOfPlayer DEF CustodyInv
<1>0. x \in Players
  BY DEF TypeOK
<1>2. t.home = s /\ t.xuid = x /\ Known(t) /\ t # None
  <2>1. t # None
    BY StoreAssumption
  <2> QED BY <1>0, <1>1, <2>1 DEF CustodyInv, SessionsAreLocal
<1>3. Known(t)' /\ ~Live(t)'
  BY <1>2 DEF Known, Live, Current
<1>4. Capture(s, x) \in Snap /\ Payload(t) \in Snap
  BY TokenOfPlayer, CaptureType, PayloadType DEF CustodyInv
<1>5. ASSUME NEW snap \in Snap
      PROVE  Append(queue[s], Persist(t, snap, TRUE, FALSE)) \in Seq(SafeNext(s))
  <2>1. Persist(t, snap, TRUE, FALSE) \in SafeNext(s)
    BY <1>2, <1>3, SafePersist
  <2>2. queue[s] \in Seq(SafeNext(s))
    BY QueuesAge DEF CustodyInv
  <2> QED BY <2>1, <2>2, SafeSeq
<1>6. \/ queue' = queue
      \/ \E snap \in Snap :
           queue' = [queue EXCEPT ![s] = Append(queue[s], Persist(t, snap, TRUE, FALSE))]
  BY <1>1, <1>4 DEF Finish, FinishRaises
<1>7. \A r \in Servers : queue[r] \in Seq(SafeNext(r))
  BY QueuesAge DEF CustodyInv
<1>8. \A r \in Servers : queue'[r] \in Seq(SafeNext(r))
  <2>1. queue \in [Servers -> Seq(Job)]
    BY DEF TypeOK
  <2>2. CASE queue' = queue
    BY <1>7, <2>2
  <2>3. CASE \E snap \in Snap :
               queue' = [queue EXCEPT ![s] = Append(queue[s], Persist(t, snap, TRUE, FALSE))]
    <3>1. PICK q \in Seq(SafeNext(s)) : queue' = [queue EXCEPT ![s] = q]
      BY <1>5, <2>3
    <3> QED BY <1>7, <2>1, <3>1
  <2> QED BY <1>6, <2>2, <2>3
<1>9. \A u \in Token : journal'[u] # None => journal[u] # None \/ u = t
  BY <1>1 DEF Finish, FinishRaises, TypeOK
<1>10. JournalIsKnown'
  BY <1>2, <1>9, JournalStaysKnown
<1> QED BY <1>8, <1>10

(* The quit handler keeps CustodyInv: the session ends in the step that    *)
(* queues its release.                                                     *)
LEMMA LeaveCustody ==
  ASSUME TypeOK, CustodyInv, NEW s \in Servers, NEW x \in online[s],
         Leave(s, x), \A r \in Servers : tasks'[r] \subseteq tasks[r]
  PROVE  CustodyInv'
<1>1. /\ online' = [online EXCEPT ![s] = @ \ {x}]
      /\ sess' = [sess EXCEPT ![s][x] = None]
      /\ UNCHANGED <<db, issued, phase>>
  BY DEF Leave
<1>2. x \in Players
  BY DEF TypeOK
<1>3. \A r \in Servers, y \in Players :
        /\ sess'[r][y] = sess[r][y] \/ sess'[r][y] = None
        /\ y \in online'[r] => y \in online[r] /\ sess'[r][y] = sess[r][y]
  BY <1>1, <1>2 DEF TypeOK
<1>4. \A r \in Servers, y \in Players : Playing(r, y)' => Playing(r, y)
  <2>1. loading' = loading \/ loading' = [loading EXCEPT ![s] = @ \ {x}]
    BY DEF Leave
  <2>2. ASSUME NEW r \in Servers, NEW y \in Players, y \in online'[r]
        PROVE  y \in loading[r] => y \in loading'[r]
    BY <1>1, <2>1, <2>2 DEF TypeOK
  <2> QED BY <1>3, <2>2 DEF Playing
<1>5. Retires
  BY <1>1, <1>3, <1>4 DEF Retires
<1>6. Aged
  BY <1>5, RetiresAged
<1>7. Finish(s, x) \/ FinishRaises(s, x)
  BY DEF Leave
<1>8. sess'[s][x] = None
  BY <1>1, <1>2 DEF TypeOK
<1>9. (\A r \in Servers : queue'[r] \in Seq(SafeNext(r))) /\ JournalIsKnown'
  BY <1>1, <1>6, <1>7, <1>8, FinishSafe
<1>10. OnlineWhileEnabled'
  BY <1>1 DEF CustodyInv, OnlineWhileEnabled, TypeOK
<1> QED BY <1>5, <1>9, <1>10, RetiresCustody DEF TasksCarried

(* Every callback of the scheduler keeps CustodyInv: a restore runs only   *)
(* for a session that owns its row.                                        *)
LEMMA TickCustody ==
  ASSUME TypeOK, CustodyInv, NEW s \in Servers, Tick(s)
  PROVE  CustodyInv'
<1>1. CASE Apply(s)
  <2>1. PICK k \in tasks[s] :
          /\ k.kind = "apply" /\ Current(k.token) /\ k.token.xuid \in online[s]
          /\ \/ UNCHANGED loading
             \/ loading' = [loading EXCEPT ![s] = @ \ {k.token.xuid}]
          /\ tasks' = [tasks EXCEPT ![s] = @ \ {k}] \/
             tasks' = [tasks EXCEPT ![s] =
                         (@ \ {k}) \cup {[kind |-> "kick", token |-> k.token]}]
          /\ UNCHANGED <<db, journal, issued, phase, online, sess, queue>>
    BY <1>1 DEF Apply
  <2>2. PICK t : t = k.token
    OBVIOUS
  <2>3. t \in Token /\ t.home = s /\ t.xuid \in Players
    <3>1. k \in Task
      BY <2>1 DEF TypeOK
    <3>2. t \in Token
      BY <2>2, <3>1 DEF Task, ApplyTask, RetryTask, KickTask
    <3> QED BY <2>1, <2>2, <3>2 DEF CustodyInv, TasksAreKnown, Token
  <2>4. db[t.xuid].owner = t /\ sess[s][t.xuid] = t
    <3>1. Current(t) /\ Live(t)
      BY <2>1, <2>2, <2>3 DEF Live
    <3>2. db[t.xuid].owner = t
      BY <2>1, <2>2, <3>1 DEF CustodyInv, RestoreOwns
    <3> QED BY <2>3, <3>1, <3>2 DEF Current
  <2>5. Retires
    <3>1. ASSUME NEW r \in Servers, NEW y \in Players, Playing(r, y)'
          PROVE  Playing(r, y) \/ db[y].owner = sess[r][y]
      <4>1. y \in online[r] /\ y \notin loading'[r]
        BY <2>1, <3>1 DEF Playing
      <4>2. y \notin loading[r] \/ (r = s /\ y = t.xuid)
        BY <2>1, <2>2, <4>1 DEF TypeOK
      <4> QED BY <2>4, <4>1, <4>2 DEF Playing
    <3> QED BY <2>1, <3>1 DEF Retires
  <2>6. TasksCarried
    BY <2>1, CallbackCarried
  <2>7. \A r \in Servers : queue'[r] \in Seq(SafeNext(r))
    BY <2>1, <2>5, RetiresAged, QueuesAge DEF CustodyInv
  <2>8. JournalIsKnown'
    BY <2>1, JournalStaysKnown
  <2>9. OnlineWhileEnabled'
    BY <2>1 DEF CustodyInv, OnlineWhileEnabled
  <2> QED BY <2>5, <2>6, <2>7, <2>8, <2>9, RetiresCustody DEF TasksCarried
<1>2. CASE Retry(s)
  <2>1. PICK k \in tasks[s] :
          /\ k.kind = "retry"
          /\ \/ queue' = queue
             \/ queue' = [queue EXCEPT ![s] =
                            Append(WithRecovery(s), Load(k.token, k.tries))]
          /\ tasks' = [tasks EXCEPT ![s] = @ \ {k}] \/
             tasks' = [tasks EXCEPT ![s] =
                         (@ \ {k}) \cup {[kind |-> "kick", token |-> k.token]}]
    BY <1>2 DEF Retry
  <2>2. Quiet /\ UNCHANGED db
    BY <1>2 DEF Retry, Quiet
  <2>3. Aged
    BY <2>2, QuietRetires, RetiresAged
  <2>4. WithRecovery(s) \in Seq(SafeNext(s))
    BY <2>3, WithRecoverySafe DEF CustodyInv
  <2>5. Load(k.token, k.tries) \in SafeNext(s)
    <3>1. k.token \in Token /\ k.tries \in 0 .. MaxTries
      <4>1. k \in Task
        BY <2>1 DEF TypeOK
      <4> QED BY <2>1, <4>1, IncidentAssumption
              DEF Task, ApplyTask, RetryTask, KickTask
    <3>2. PICK t \in Token, n \in 0 .. MaxTries : t = k.token /\ n = k.tries
      BY <3>1
    <3>3. t.home = s /\ Known(t)
      BY <2>1, <3>2 DEF CustodyInv, TasksAreKnown
    <3>4. Known(t)'
      BY <2>3, <3>3 DEF Aged
    <3> QED BY <3>2, <3>3, <3>4, SafeLoad
  <2>6. Append(WithRecovery(s), Load(k.token, k.tries)) \in Seq(SafeNext(s))
    BY <2>4, <2>5, SafeSeq
  <2>7. TasksCarried
    BY <2>1, CallbackCarried
  <2> QED BY <2>1, <2>2, <2>6, <2>7, QuietCustody
<1>3. CASE DropTask(s)
  <2>1. Quiet /\ UNCHANGED <<db, queue>>
    BY <1>3 DEF DropTask, Quiet
  <2>2. << >> \in Seq(SafeNext(s))
    OBVIOUS
  <2>3. \A r \in Servers : tasks'[r] \subseteq tasks[r]
    BY <1>3 DEF DropTask, TypeOK
  <2> QED BY <2>1, <2>2, <2>3, QuietCustody DEF TasksCarried
<1>4. CASE Kick(s)
  <2>1. PICK k \in tasks[s] :
          /\ k.token.xuid \in online[s] /\ Leave(s, k.token.xuid)
          /\ tasks' = [tasks EXCEPT ![s] = @ \ {k}]
    BY <1>4 DEF Kick
  <2>2. \A r \in Servers : tasks'[r] \subseteq tasks[r]
    BY <2>1 DEF TypeOK
  <2> QED BY <2>1, <2>2, LeaveCustody
<1> QED BY <1>1, <1>2, <1>3, <1>4 DEF Tick

(* The snapshots that autosave or a stop command queues release nothing.   *)
LEMMA CaptureAllSafe ==
  ASSUME TypeOK, CustodyInv, Aged, UNCHANGED issued, NEW s \in Servers,
         NEW who \in SUBSET online[s], NEW auto \in BOOLEAN,
         NEW before \in Seq(SafeNext(s)),
         CaptureAll(s, who, auto, before)
  PROVE  /\ \A r \in Servers : queue'[r] \in Seq(SafeNext(r))
         /\ JournalIsKnown'
<1>1. PICK lost \in SUBSET who :
        /\ journal' = [t \in Token |->
             IF \E x \in who \ lost : sess[s][x] = t THEN Capture(s, t.xuid)
                                                    ELSE journal[t]]
        /\ \E o \in Orders(who \ lost) :
             queue' = [queue EXCEPT ![s] = before \o
               [i \in 1 .. Cardinality(who \ lost) |->
                  Persist(sess[s][o[i]], Capture(s, o[i]), FALSE, auto)]]
  BY DEF CaptureAll
<1>2. ASSUME NEW x \in who
      PROVE  /\ x \in Players /\ sess[s][x] \in Token
             /\ sess[s][x].home = s /\ Known(sess[s][x])
  <2>1. x \in online[s] /\ x \in Players
    BY DEF TypeOK
  <2>2. sess[s][x] \in Token /\ sess[s][x] # None
    BY <2>1, TokenOfPlayer, StoreAssumption DEF CustodyInv
  <2> QED BY <2>1, <2>2 DEF CustodyInv, SessionsAreLocal
<1>3. JournalIsKnown'
  <2>1. ASSUME NEW t \in Token, journal'[t] # None
        PROVE  journal[t] # None \/ Known(t)
    <3>1. CASE \E x \in who : sess[s][x] = t
      BY <1>2, <3>1
    <3>2. CASE ~\E x \in who : sess[s][x] = t
      BY <1>1, <2>1, <3>2
    <3> QED BY <3>1, <3>2
  <2> QED BY <2>1, JournalStaysKnown
<1>4. \A r \in Servers : queue'[r] \in Seq(SafeNext(r))
  <2> DEFINE n == Cardinality(who \ lost)
  <2>1. PICK o \in Orders(who \ lost) :
          queue' = [queue EXCEPT ![s] = before \o
            [i \in 1 .. n |->
               Persist(sess[s][o[i]], Capture(s, o[i]), FALSE, auto)]]
    BY <1>1
  <2> DEFINE jobs == [i \in 1 .. n |->
               Persist(sess[s][o[i]], Capture(s, o[i]), FALSE, auto)]
  <2>2. n \in Nat
    <3>1. IsFiniteSet(who \ lost)
      BY <1>2, StoreAssumption, FS_Subset
    <3> QED BY <3>1, FS_CardinalityType
  <2>3. \A i \in 1 .. n : o[i] \in who
    BY <2>1 DEF Orders
  <2>4. ASSUME NEW x \in who
        PROVE  Persist(sess[s][x], Capture(s, x), FALSE, auto) \in SafeNext(s)
    <3>1. PICK t \in Token : t = sess[s][x]
      BY <1>2
    <3>2. t.home = s /\ Known(t)'
      BY <1>2, <3>1 DEF Known
    <3>3. Capture(s, x) \in Snap
      BY <1>2, CaptureType
    <3>4. Persist(t, Capture(s, x), FALSE, auto) \in SafeNext(s)
      BY <3>2, <3>3, SafePersist
    <3> QED BY <3>1, <3>4
  <2>5. jobs \in Seq(SafeNext(s))
    <3>1. jobs \in [1 .. n -> SafeNext(s)]
      BY <2>3, <2>4
    <3> HIDE DEF n, jobs
    <3> QED BY <2>2, <3>1, FunctionSeq
  <2>6. before \o jobs \in Seq(SafeNext(s))
    <3> HIDE DEF jobs
    <3> QED BY <2>5
  <2>7. \A r \in Servers : queue[r] \in Seq(SafeNext(r))
    BY QueuesAge DEF CustodyInv
  <2> QED BY <2>1, <2>6, <2>7 DEF TypeOK
<1> QED BY <1>3, <1>4

(* A replay of the whole journal is safe while nobody is connected.        *)
LEMMA ReplaySafe ==
  ASSUME TypeOK, CustodyInv, Aged, NEW s \in Servers, online[s] = {}
  PROVE  <<Batch(Entries(s, {}), FALSE)>> \in Seq(SafeNext(s))
<1> DEFINE es == Entries(s, {})
<1>1. es \in SUBSET Entry
  BY EntriesType
<1>2. ASSUME NEW e \in es
      PROVE  e.token.home = s /\ Known(e.token)' /\ ~Live(e.token)'
  <2>1. e.token \in Token /\ e.token.home = s /\ Known(e.token)
    BY EntriesKnown DEF CustodyInv
  <2>2. ~Live(e.token)
    BY <2>1 DEF Live
  <2> QED BY <2>1, <2>2 DEF Aged
<1> HIDE DEF es
<1>3. Batch(es, FALSE) \in SafeNext(s)
  BY <1>1, <1>2, SafeBatch
<1>4. PICK job \in SafeNext(s) : job = Batch(es, FALSE)
  BY <1>3
<1>5. <<job>> \in Seq(SafeNext(s))
  OBVIOUS
<1> QED BY <1>4, <1>5 DEF es

(* Every step of the main thread keeps CustodyInv.                         *)
LEMMA MainCustody ==
  ASSUME TypeOK, CustodyInv, NEW s \in Servers, Main(s)
  PROVE  CustodyInv'
<1>0. /\ SessionsAreLocal /\ OnlineWhileEnabled /\ QueuesAreSafe
      /\ TasksAreKnown /\ JournalIsKnown
  BY DEF CustodyInv
<1>1. CASE Tick(s)
  BY <1>1, TickCustody
<1>2. CASE Autosave(s)
  <2> DEFINE due == {x \in ReadyPlayers(s) : ~AutosavePending(s, sess[s][x])}
  <2>1. UNCHANGED <<db, issued, phase, online, sess, loading, tasks>>
    BY <1>2 DEF Autosave
  <2>2. Retires
    BY <2>1 DEF Retires, Playing
  <2>3. Aged
    BY <2>2, RetiresAged
  <2>4. due \in SUBSET online[s]
    BY DEF ReadyPlayers
  <2>5. CaptureAll(s, due, TRUE, WithRecovery(s))
    BY <1>2 DEF Autosave
  <2>6. WithRecovery(s) \in Seq(SafeNext(s))
    BY <1>0, <2>3, WithRecoverySafe
  <2> HIDE DEF due
  <2>7. (\A r \in Servers : queue'[r] \in Seq(SafeNext(r))) /\ JournalIsKnown'
    BY <2>1, <2>3, <2>4, <2>5, <2>6, CaptureAllSafe
  <2>8. OnlineWhileEnabled'
    BY <1>0, <2>1 DEF OnlineWhileEnabled
  <2> QED BY <2>1, <2>2, <2>7, <2>8, RetiresCustody DEF TasksCarried
<1>3. CASE \E refused \in BOOLEAN : StopCommand(s, refused)
  <2>0. PICK refused \in BOOLEAN : StopCommand(s, refused)
    BY <1>3
  <2>1. UNCHANGED <<db, issued, online, sess, loading, tasks>>
    BY <2>0 DEF StopCommand
  <2>2. Retires
    BY <2>1 DEF Retires, Playing
  <2>3. Aged
    BY <2>2, RetiresAged
  <2>4. ReadyPlayers(s) \in SUBSET online[s]
    BY DEF ReadyPlayers
  <2>5. CaptureAll(s, ReadyPlayers(s), FALSE, queue[s])
    BY <2>0 DEF StopCommand
  <2>6. queue[s] \in Seq(SafeNext(s))
    BY <1>0, <2>3, QueuesAge
  <2>7. (\A r \in Servers : queue'[r] \in Seq(SafeNext(r))) /\ JournalIsKnown'
    BY <2>1, <2>3, <2>4, <2>5, <2>6, CaptureAllSafe
  <2>8. OnlineWhileEnabled'
    BY <1>0, <2>0, <2>1 DEF OnlineWhileEnabled, StopCommand, TypeOK
  <2> QED BY <2>1, <2>2, <2>7, <2>8, RetiresCustody DEF TasksCarried
<1>4. CASE Vanish(s)
  <2>1. /\ online' = [online EXCEPT ![s] = {}]
        /\ UNCHANGED <<db, journal, issued, phase, sess, loading, queue, tasks>>
    BY <1>4 DEF Vanish, durable
  <2>2. Retires
    BY <2>1 DEF Retires, Playing, TypeOK
  <2>3. \A r \in Servers : queue'[r] \in Seq(SafeNext(r))
    BY <1>0, <2>1, <2>2, RetiresAged, QueuesAge
  <2>4. JournalIsKnown'
    BY <2>1, JournalStaysKnown
  <2>5. OnlineWhileEnabled'
    BY <1>0, <2>1 DEF OnlineWhileEnabled, TypeOK
  <2> QED BY <2>1, <2>2, <2>3, <2>4, <2>5, RetiresCustody DEF TasksCarried
<1>5. CASE Disable(s)
  <2>1. UNCHANGED <<db, journal, issued, online, sess, loading, queue, tasks>>
    BY <1>5 DEF Disable, durable
  <2>2. Retires
    BY <2>1 DEF Retires, Playing
  <2>3. \A r \in Servers : queue'[r] \in Seq(SafeNext(r))
    BY <1>0, <2>1, <2>2, RetiresAged, QueuesAge
  <2>4. JournalIsKnown'
    BY <2>1, JournalStaysKnown
  <2>5. OnlineWhileEnabled'
    BY <1>0, <1>5, <2>1 DEF OnlineWhileEnabled, TypeOK, Disable
  <2> QED BY <2>1, <2>2, <2>3, <2>4, <2>5, RetiresCustody DEF TasksCarried
<1>6. CASE DisableFinish(s)
  <2>1. PICK x \in online[s] :
          /\ phase[s] = "disabling"
          /\ \/ /\ Finish(s, x)
                /\ online' = [online EXCEPT ![s] = @ \ {x}] /\ UNCHANGED phase
             \/ /\ FinishRaises(s, x)
                /\ online' = [online EXCEPT ![s] = {}]
                /\ phase' = [phase EXCEPT ![s] = "aborting"]
          /\ sess' = [sess EXCEPT ![s][x] = None]
    BY <1>6 DEF DisableFinish
  <2>2. UNCHANGED <<db, issued, loading, tasks>>
    BY <1>6 DEF DisableFinish
  <2>3. x \in Players
    BY DEF TypeOK
  <2>4. \A r \in Servers, y \in Players :
          /\ sess'[r][y] = sess[r][y] \/ sess'[r][y] = None
          /\ y \in online'[r] => y \in online[r] /\ sess'[r][y] = sess[r][y]
    BY <2>1, <2>3 DEF TypeOK
  <2>5. Retires
    BY <2>2, <2>4 DEF Retires, Playing
  <2>6. Aged
    BY <2>5, RetiresAged
  <2>7. sess'[s][x] = None
    BY <2>1, <2>3 DEF TypeOK
  <2>8. (\A r \in Servers : queue'[r] \in Seq(SafeNext(r))) /\ JournalIsKnown'
    BY <2>1, <2>2, <2>6, <2>7, FinishSafe
  <2>9. OnlineWhileEnabled'
    BY <1>0, <2>1 DEF OnlineWhileEnabled, TypeOK
  <2> QED BY <2>2, <2>5, <2>8, <2>9, RetiresCustody DEF TasksCarried
<1>7. CASE DisableFlush(s) \/ Boot(s)
  <2>1. /\ online[s] = {}
        /\ queue' = queue \/
           queue' = [queue EXCEPT ![s] = <<Batch(Entries(s, {}), FALSE)>>]
        /\ UNCHANGED <<db, journal, issued, online, sess, loading, tasks>>
    BY <1>0, <1>7 DEF DisableFlush, Boot, durable, OnlineWhileEnabled
  <2>2. Retires
    BY <2>1 DEF Retires, Playing
  <2>3. Aged
    BY <2>2, RetiresAged
  <2>4. \A r \in Servers : queue'[r] \in Seq(SafeNext(r))
    <3>1. \A r \in Servers : queue[r] \in Seq(SafeNext(r))
      BY <1>0, <2>3, QueuesAge
    <3>2. <<Batch(Entries(s, {}), FALSE)>> \in Seq(SafeNext(s))
      BY <2>1, <2>3, ReplaySafe
    <3> QED BY <2>1, <3>1, <3>2 DEF TypeOK
  <2>5. JournalIsKnown'
    BY <2>1, JournalStaysKnown
  <2>6. OnlineWhileEnabled'
    <3>1. \A r \in Servers : online'[r] # {} => phase'[r] = phase[r]
      BY <1>7, <2>1 DEF DisableFlush, Boot, TypeOK
    <3> QED BY <1>0, <2>1, <3>1 DEF OnlineWhileEnabled
  <2> QED BY <2>1, <2>2, <2>4, <2>5, <2>6, RetiresCustody DEF TasksCarried
<1>8. CASE Exit(s) \/ Crash(s)
  <2>1. Reset(s)
    BY <1>8 DEF Exit, Crash
  <2>2. /\ UNCHANGED <<db, journal, issued>>
        /\ online' = [online EXCEPT ![s] = {}]
        /\ sess' = [sess EXCEPT ![s] = [x \in Players |-> None]]
        /\ loading' = [loading EXCEPT ![s] = {}]
        /\ queue' = [queue EXCEPT ![s] = << >>]
        /\ tasks' = [tasks EXCEPT ![s] = {}]
        /\ phase' = [phase EXCEPT ![s] = "down"]
    BY <2>1 DEF Reset, durable
  <2>3. \A r \in Servers, y \in Players :
          /\ sess'[r][y] = sess[r][y] \/ sess'[r][y] = None
          /\ y \in online'[r] => r # s /\ y \in online[r]
          /\ r # s => sess'[r][y] = sess[r][y] /\ loading'[r] = loading[r]
    BY <2>2 DEF TypeOK
  <2>4. Retires
    BY <2>2, <2>3 DEF Retires, Playing
  <2>5. \A r \in Servers : queue'[r] \in Seq(SafeNext(r))
    <3>1. \A r \in Servers : queue[r] \in Seq(SafeNext(r))
      BY <1>0, <2>4, RetiresAged, QueuesAge
    <3>2. << >> \in Seq(SafeNext(s))
      OBVIOUS
    <3> QED BY <2>2, <3>1, <3>2 DEF TypeOK
  <2>6. JournalIsKnown'
    BY <2>2, JournalStaysKnown
  <2>7. OnlineWhileEnabled'
    BY <1>0, <2>2 DEF OnlineWhileEnabled, TypeOK
  <2>8. \A r \in Servers : tasks'[r] \subseteq tasks[r]
    BY <2>2 DEF TypeOK
  <2> QED BY <2>4, <2>5, <2>6, <2>7, <2>8, RetiresCustody DEF TasksCarried
<1> QED BY <1>1, <1>2, <1>3, <1>4, <1>5, <1>6, <1>7, <1>8 DEF Main

(* Every step keeps CustodyInv.                                            *)
LEMMA CustodyStep ==
  ASSUME TypeOK, CustodyInv, [Next]_vars
  PROVE  CustodyInv'
<1>1. CASE UNCHANGED vars
  <2>1. UNCHANGED <<db, issued, journal, phase, online, sess, loading, queue, tasks>>
    BY <1>1 DEF vars, durable, volatile
  <2> QED BY <2>1 DEF CustodyInv, SessionsAreLocal, OnlineWhileEnabled,
                      JournalIsKnown, QueuesAreSafe, TasksAreKnown, RestoreOwns,
                      PlayersOwn, JobIsSafe, Releasing, Known, Live, Current,
                      Playing
<1>2. ASSUME NEW s \in Servers, NEW x \in Players, Quit(s, x)
      PROVE  CustodyInv'
  <2>1. x \in online[s] /\ Leave(s, x)
    BY <1>2 DEF Quit
  <2>2. \A r \in Servers : tasks'[r] \subseteq tasks[r]
    BY <1>2 DEF Quit
  <2> QED BY <2>1, <2>2, LeaveCustody
<1> QED BY <1>1, <1>2, WorkerCustody, MainCustody, ClientCustody DEF Next

(* CustodyInv holds initially: nobody is connected and nothing is queued.  *)
LEMMA InitCustody == Init => CustodyInv
<1> SUFFICES ASSUME Init
             PROVE  CustodyInv
  OBVIOUS
<1>1. SessionsAreLocal /\ OnlineWhileEnabled /\ JournalIsKnown
  BY DEF Init, SessionsAreLocal, OnlineWhileEnabled, JournalIsKnown
<1>2. QueuesAreSafe /\ TasksAreKnown /\ RestoreOwns /\ PlayersOwn
  BY DEF Init, QueuesAreSafe, TasksAreKnown, RestoreOwns, PlayersOwn, Playing
<1> QED BY <1>1, <1>2 DEF CustodyInv

----------------------------------------------------------------------------
(* On every server the tables, queues and journals always have their types *)
(* and the custody invariant holds, whatever fails and whoever crashes.    *)
THEOREM CustodyInvariant == Spec => [](TypeOK /\ CustodyInv)
<1>1. Init => TypeOK /\ CustodyInv
  BY InitType, InitCustody
<1>2. TypeOK /\ CustodyInv /\ [Next]_vars => (TypeOK /\ CustodyInv)'
  <2> SUFFICES ASSUME TypeOK, CustodyInv, [Next]_vars
               PROVE  TypeOK' /\ CustodyInv'
    OBVIOUS
  <2>1. SessionsAreLocal
    BY DEF CustodyInv
  <2> QED BY <2>1, TypeStep, CustodyStep
<1> QED BY <1>1, <1>2, PTL DEF Spec

(* The variables of the plugin always hold what their code can put there:  *)
(* the type invariant for any number of servers, players and sessions.     *)
THEOREM TypeCorrect == Spec => []TypeOK
  BY CustodyInvariant, PTL

(* No player can ever act on two servers at once: the loading guards are   *)
(* lifted only where the database row names that server's own session.     *)
THEOREM Exclusive == Spec => []ExclusivePlay
<1>1. CustodyInv => ExclusivePlay
  <2> SUFFICES ASSUME CustodyInv, NEW x \in Players,
                      NEW s1 \in Servers, NEW s2 \in Servers,
                      Playing(s1, x), Playing(s2, x)
               PROVE  s1 = s2
    BY DEF ExclusivePlay
  <2>1. sess[s1][x] = db[x].owner /\ sess[s2][x] = db[x].owner
    BY DEF CustodyInv, PlayersOwn
  <2>2. sess[s1][x].home = s1 /\ sess[s2][x].home = s2
    BY DEF CustodyInv, SessionsAreLocal, Playing
  <2> QED BY <2>1, <2>2
<1> QED BY <1>1, CustodyInvariant, PTL

----------------------------------------------------------------------------
(* The servers implement Custody.  All steps but a claim, a save and an    *)
(* applied restore leave the rows' owners and fields alone and let nobody  *)
(* new act.                                                                *)
Retreats ==
  /\ \A x \in Players : db'[x].owner = db[x].owner /\ db'[x].inv = db[x].inv
  /\ \A r \in Servers, y \in Players :
       Playing(r, y)' => Playing(r, y) /\ sess'[r][y] = sess[r][y]

(* Such a step is a Stop of Custody.                                       *)
LEMMA RetreatStops ==
  ASSUME Retreats
  PROVE  C!Stop
<1>1. Acting' \subseteq Acting
  BY DEF Retreats, Acting, Current, Token
<1>2. /\ [x \in Players |-> db'[x].owner] = [x \in Players |-> db[x].owner]
      /\ [x \in Players |-> db'[x].inv] = [x \in Players |-> db[x].inv]
  BY DEF Retreats
<1> QED BY <1>1, <1>2 DEF C!Stop

(* A player who quits stops acting, and nobody starts.                     *)
LEMMA LeaveRetreats ==
  ASSUME TypeOK, NEW s \in Servers, NEW x \in online[s], Leave(s, x)
  PROVE  Retreats
<1>1. /\ online' = [online EXCEPT ![s] = @ \ {x}]
      /\ sess' = [sess EXCEPT ![s][x] = None]
      /\ loading' = loading \/ loading' = [loading EXCEPT ![s] = @ \ {x}]
      /\ UNCHANGED db
  BY DEF Leave
<1>2. ASSUME NEW r \in Servers, NEW y \in Players, y \in online'[r]
      PROVE  /\ y \in online[r] /\ sess'[r][y] = sess[r][y]
             /\ y \in loading[r] => y \in loading'[r]
  BY <1>1, <1>2 DEF TypeOK
<1> QED BY <1>1, <1>2 DEF Retreats, Playing

(* The player who joins waits behind the guards.                           *)
LEMMA ClientRetreats ==
  ASSUME TypeOK, NEW s \in Servers, NEW x \in Players, Client(s, x)
  PROVE  Retreats
<1>1. CASE BeginJoin(s, x)
  <2>1. ASSUME NEW r \in Servers, NEW y \in Players, Playing(r, y)'
        PROVE  Playing(r, y) /\ sess'[r][y] = sess[r][y]
    <3>1. ~(r = s /\ y = x)
      BY <1>1, <2>1 DEF BeginJoin, Playing, TypeOK
    <3> QED BY <1>1, <2>1, <3>1 DEF BeginJoin, Playing, TypeOK
  <2> QED BY <1>1, <2>1 DEF BeginJoin, Retreats
<1>2. CASE Quit(s, x)
  <2>1. Leave(s, x) /\ x \in online[s]
    BY <1>2 DEF Quit
  <2> QED BY <2>1, LeaveRetreats
<1>3. CASE Client(s, x) /\ ~BeginJoin(s, x) /\ ~Quit(s, x)
  <2>1. UNCHANGED <<db, online, loading, sess>>
    BY <1>3 DEF Client, JoinUnjournaled, Play, PlayUnmanaged, PackPending, PackRecovered,
                LegacyCommand, durable, volatile
  <2> QED BY <2>1 DEF Retreats, Playing
<1> QED BY <1>1, <1>2, <1>3

(* On the main thread only a restore lets a player act.                    *)
LEMMA MainRetreats ==
  ASSUME TypeOK, CustodyInv, NEW s \in Servers, Main(s), ~Apply(s)
  PROVE  Retreats
<1>1. CASE Kick(s)
  <2>1. PICK k \in tasks[s] :
          k.token.xuid \in online[s] /\ Leave(s, k.token.xuid)
    BY <1>1 DEF Kick
  <2> QED BY <2>1, LeaveRetreats
<1>2. CASE Retry(s) \/ DropTask(s) \/ Autosave(s) \/ Boot(s) \/ Disable(s)
           \/ DisableFlush(s) \/ \E refused \in BOOLEAN : StopCommand(s, refused)
  <2>1. UNCHANGED <<db, online, loading, sess>>
    BY <1>2 DEF Retry, DropTask, Autosave, Boot, Disable, DisableFlush,
                StopCommand, durable
  <2> QED BY <2>1 DEF Retreats, Playing
<1>3. CASE Vanish(s) \/ DisableFinish(s)
  <2>1. UNCHANGED <<db, loading>>
    BY <1>3 DEF Vanish, DisableFinish, durable
  <2>2. \A r \in Servers, y \in Players : y \in online'[r] =>
          y \in online[r] /\ sess'[r][y] = sess[r][y]
    <3>1. CASE Vanish(s)
      BY <3>1 DEF Vanish, TypeOK
    <3>2. CASE DisableFinish(s)
      <4>1. PICK x \in online[s] :
              /\ \/ online' = [online EXCEPT ![s] = @ \ {x}]
                 \/ online' = [online EXCEPT ![s] = {}]
              /\ sess' = [sess EXCEPT ![s][x] = None]
        BY <3>2 DEF DisableFinish
      <4>2. x \in Players
        BY DEF TypeOK
      <4> QED BY <4>1, <4>2 DEF TypeOK
    <3> QED BY <1>3, <3>1, <3>2
  <2> QED BY <2>1, <2>2 DEF Retreats, Playing
<1>4. CASE Exit(s) \/ Crash(s)
  <2>1. Reset(s)
    BY <1>4 DEF Exit, Crash
  <2>2. UNCHANGED db
    BY <2>1 DEF Reset, durable
  <2>3. \A r \in Servers, y \in Players : y \in online'[r] =>
          /\ y \in online[r] /\ loading'[r] = loading[r]
          /\ sess'[r][y] = sess[r][y]
    BY <2>1 DEF Reset, TypeOK
  <2> QED BY <2>2, <2>3 DEF Retreats, Playing
<1> QED BY <1>1, <1>2, <1>3, <1>4 DEF Main, Tick

(* A restore that is applied starts the session that owns the row; one     *)
(* that fails leaves its player behind the guards.                         *)
LEMMA ApplyStarts ==
  ASSUME TypeOK, CustodyInv, NEW s \in Servers, Apply(s)
  PROVE  C!Stop \/ \E t \in Token : C!Start(t)
<1>1. UNCHANGED <<db, online, sess>>
  BY DEF Apply
<1>2. CASE UNCHANGED loading
  BY <1>1, <1>2, RetreatStops DEF Retreats, Playing
<1>3. CASE loading' # loading
  <2>1. PICK k \in tasks[s] :
          /\ k.kind = "apply" /\ Current(k.token) /\ k.token.xuid \in online[s]
          /\ loading' = [loading EXCEPT ![s] = @ \ {k.token.xuid}]
    BY <1>3 DEF Apply
  <2>2. PICK t : t = k.token
    OBVIOUS
  <2>3. t \in Token /\ t.home = s /\ t.xuid \in Players
    <3>1. k \in Task
      BY <2>1 DEF TypeOK
    <3>2. t \in Token
      BY <2>2, <3>1 DEF Task, ApplyTask, RetryTask, KickTask
    <3> QED BY <2>1, <2>2, <3>2 DEF CustodyInv, TasksAreKnown, Token
  <2>4. Current(t) /\ t.xuid \in online[s]
    BY <2>1, <2>2
  <2>5. db[t.xuid].owner = t
    BY <2>1, <2>2, <2>3, <2>4 DEF Live, CustodyInv, RestoreOwns
  <2>6. ASSUME NEW u \in Token
        PROVE  u \in Acting' <=> u \in Acting \/ u = t
    <3>1. u.home \in Servers /\ u.xuid \in Players
      BY DEF Token
    <3>2. Current(u)' <=> Current(u)
      BY <1>1 DEF Current
    <3>3. CASE u.home = s /\ u.xuid = t.xuid
      <4>1. Playing(u.home, u.xuid)'
        BY <1>1, <2>1, <2>2, <2>4, <3>1, <3>3 DEF Playing, TypeOK
      <4>2. Current(u) <=> u = t
        BY <2>3, <2>4, <3>3 DEF Current
      <4> QED BY <3>2, <4>1, <4>2 DEF Acting
    <3>4. CASE ~(u.home = s /\ u.xuid = t.xuid)
      <4>1. Playing(u.home, u.xuid)' <=> Playing(u.home, u.xuid)
        BY <1>1, <2>1, <2>2, <3>1, <3>4 DEF Playing, TypeOK
      <4>2. u # t
        BY <2>3, <3>4
      <4> QED BY <3>2, <4>1, <4>2 DEF Acting
    <3> QED BY <3>3, <3>4
  <2>7. Acting' = Acting \cup {t}
    BY <2>3, <2>6 DEF Acting
  <2>8. C!Start(t)
    BY <1>1, <2>3, <2>5, <2>7 DEF C!Start
  <2> QED BY <2>3, <2>8
<1> QED BY <1>2, <1>3

(* A claim takes the row, a save writes it or gives it back.               *)
LEMMA WorkerKeepsCustody ==
  ASSUME TypeOK, CustodyInv, NEW s \in Servers, Worker(s)
  PROVE  C!Next
<1>0. WorkerFrame /\ Acting' = Acting
  <2>1. WorkerFrame
    BY WorkerFrames
  <2> QED BY <2>1 DEF WorkerFrame, Acting, Playing, Current
<1>1. ASSUME NEW t \in Token, NEW row \in Row,
             db' = [db EXCEPT ![t.xuid] = row]
      PROVE  /\ [x \in Players |-> db'[x].owner] =
                  [[x \in Players |-> db[x].owner] EXCEPT ![t.xuid] = row.owner]
             /\ [x \in Players |-> db'[x].inv] =
                  [[x \in Players |-> db[x].inv] EXCEPT ![t.xuid] = row.inv]
             /\ (row.owner = db[t.xuid].owner =>
                  [x \in Players |-> db'[x].owner] = [x \in Players |-> db[x].owner])
             /\ (row.inv = db[t.xuid].inv =>
                  [x \in Players |-> db'[x].inv] = [x \in Players |-> db[x].inv])
             /\ [u \in Token |-> u.xuid][t] = t.xuid
             /\ [x \in Players |-> db[x].owner][t.xuid] = db[t.xuid].owner
  <2>1. t.xuid \in Players /\ \A x \in Players : x # t.xuid => db'[x] = db[x]
    BY <1>1 DEF TypeOK, Token
  <2>2. db'[t.xuid] = row
    BY <1>1, <2>1 DEF TypeOK
  <2> QED BY <2>1, <2>2
<1>2. ASSUME Retreats
      PROVE  C!Next
  BY <1>2, RetreatStops DEF C!Next
<1>3. CASE db' = db
  <2>1. Retreats
    BY <1>0, <1>3 DEF Retreats, WorkerFrame, Playing
  <2> QED BY <1>2, <2>1
<1>4. CASE Claim(s) /\ db' # db
  <2>1. PICK t : t = Head(queue[s]).token
    OBVIOUS
  <2>2. t \in Token /\ t.xuid \in Players
    BY <1>4, <2>1, ClaimHead
  <2>3. /\ Claimable(db[t.xuid], t)
        /\ db' = [db EXCEPT ![t.xuid] = Claimed(db[t.xuid], t)]
    BY <1>4, <2>1 DEF Claim
  <2>4. PICK row \in Row : row = Claimed(db[t.xuid], t)
    <3>1. db[t.xuid] \in Row
      BY <2>2 DEF TypeOK
    <3>2. Claimed(db[t.xuid], t) \in Row
      BY <2>2, <3>1 DEF Claimed, Row
    <3> QED BY <3>2
  <2>5. row.owner = t /\ row.inv = db[t.xuid].inv
    BY <2>2, <2>4 DEF Claimed, TypeOK, Row
  <2>6. CASE db[t.xuid].owner = t
    <3>1. Retreats
      BY <1>0, <2>2, <2>3, <2>4, <2>5, <2>6
         DEF Retreats, WorkerFrame, Playing, TypeOK
    <3> QED BY <1>2, <3>1
  <2>7. CASE db[t.xuid].owner = None
    <3>1. C!Take(t)
      <4>1. db' = [db EXCEPT ![t.xuid] = row]
        BY <2>3, <2>4
      <4>2. /\ [x \in Players |-> db'[x].owner] =
                  [[x \in Players |-> db[x].owner] EXCEPT ![t.xuid] = t]
            /\ [x \in Players |-> db'[x].inv] = [x \in Players |-> db[x].inv]
            /\ [u \in Token |-> u.xuid][t] = t.xuid
            /\ [x \in Players |-> db[x].owner][t.xuid] = None
        BY <1>1, <2>2, <2>5, <2>7, <4>1
      <4> QED BY <1>0, <4>2 DEF C!Take
    <3> QED BY <2>2, <3>1 DEF C!Next
  <2> QED BY <2>3, <2>6, <2>7 DEF Claimable
<1>5. CASE Save(s) /\ db' # db
  <2>0. PICK job : job = Head(queue[s])
    OBVIOUS
  <2>1. At(s, {"persist", "recover"}, "save")
    BY <1>5 DEF Save
  <2>2. PICK t : t = job.token
    OBVIOUS
  <2>3. /\ t \in Token /\ t.xuid \in Players /\ job.snap \in Snap
        /\ job.release \in BOOLEAN /\ job.kind \in {"persist", "recover"}
    BY <2>0, <2>1, <2>2, SnapshotJob, HeadJob DEF Token
  <2>4. /\ db[t.xuid].owner = t
        /\ db' = [db EXCEPT ![t.xuid] = Saved(db[t.xuid], job.snap, job.release)]
    BY <1>5, <2>0, <2>2 DEF Save, Holds
  <2>5. PICK row \in Row : row = Saved(db[t.xuid], job.snap, job.release)
    BY <2>3, RowTypes DEF TypeOK
  <2>6. row.owner = (IF job.release THEN None ELSE t) /\ row.inv \in Stamp
    BY <2>4, <2>5 DEF Saved, Row
  <2>7. CASE job.release
    <3>1. ~Live(t)
      <4>1. JobIsSafe(s, job)
        BY <2>0, <2>1, HeadJob DEF CustodyInv, QueuesAreSafe
      <4> QED BY <2>2, <2>3, <2>7, <4>1 DEF JobIsSafe, Releasing
    <3>2. t \notin Acting
      BY <3>1 DEF Acting, Playing, Live
    <3>3. C!GiveBack(t, row.inv)
      <4>1. db' = [db EXCEPT ![t.xuid] = row] /\ row.owner = None
        <5>1. row.owner = None
          BY <2>6, <2>7
        <5> QED BY <2>4, <2>5, <5>1
      <4>2. /\ [x \in Players |-> db'[x].owner] =
                  [[x \in Players |-> db[x].owner] EXCEPT ![t.xuid] = None]
            /\ [x \in Players |-> db'[x].inv] =
                  [[x \in Players |-> db[x].inv] EXCEPT ![t.xuid] = row.inv]
            /\ [u \in Token |-> u.xuid][t] = t.xuid
            /\ [x \in Players |-> db[x].owner][t.xuid] = t
        BY <1>1, <2>3, <2>4, <4>1
      <4> QED BY <1>0, <3>2, <4>2 DEF C!GiveBack
    <3> QED BY <2>3, <2>6, <3>3 DEF C!Next
  <2>8. CASE ~job.release
    <3>1. C!Write(t, row.inv)
      <4>1. db' = [db EXCEPT ![t.xuid] = row] /\ row.owner = db[t.xuid].owner
        <5>1. row.owner = t
          BY <2>6, <2>8
        <5> QED BY <2>4, <2>5, <5>1
      <4>2. /\ [x \in Players |-> db'[x].owner] = [x \in Players |-> db[x].owner]
            /\ [x \in Players |-> db'[x].inv] =
                  [[x \in Players |-> db[x].inv] EXCEPT ![t.xuid] = row.inv]
            /\ [u \in Token |-> u.xuid][t] = t.xuid
            /\ [x \in Players |-> db[x].owner][t.xuid] = t
        BY <1>1, <2>3, <2>4, <4>1
      <4> QED BY <1>0, <4>2 DEF C!Write
    <3> QED BY <2>3, <2>6, <3>1 DEF C!Next
  <2> QED BY <2>7, <2>8
<1>6. CASE ReleaseLegacy(s)
  <2>1. \A x \in Players : LegacyReleased(db[x]).owner = db[x].owner
                           /\ LegacyReleased(db[x]).inv = db[x].inv
    BY LegacyRowType DEF TypeOK
  <2>2. \A x \in Players : db'[x].owner = db[x].owner /\ db'[x].inv = db[x].inv
    BY <1>6, <2>1 DEF ReleaseLegacy, TypeOK
  <2>3. Retreats
    BY <1>0, <2>2 DEF Retreats, WorkerFrame, Playing
  <2> QED BY <1>2, <2>3
<1>7. CASE TakeLoad(s) \/ CheckStorage(s) \/ RemoveRow(s) \/ RecoverNext(s)
           \/ RecoverDone(s)
  BY <1>3, <1>7 DEF TakeLoad, CheckStorage, RemoveRow, RecoverNext, RecoverDone
<1> QED BY <1>3, <1>4, <1>5, <1>6, <1>7 DEF Worker

(* The servers, with their queues, journals, retries, replays and crashes, *)
(* implement Custody: a player's row passes from one session to the next   *)
(* only when the session that had it acts no more.                         *)
THEOREM Refinement == Spec => KeepsCustody
<1>1. Init => C!Init
  <2> SUFFICES ASSUME Init
               PROVE  C!Init
    OBVIOUS
  <2>1. \A x \in Players : db[x] \in Row /\ db[x].owner = None
    BY DEF Init
  <2>2. \A x \in Players : db[x].inv \in Stamp
    BY <2>1 DEF Row
  <2>3. Acting = {}
    BY DEF Init, Acting, Playing, Token
  <2> QED BY <2>1, <2>2, <2>3 DEF C!Init
<1>2. TypeOK /\ CustodyInv /\ [Next]_vars => [C!Next]_C!vars
  <2> SUFFICES ASSUME TypeOK, CustodyInv, [Next]_vars
               PROVE  [C!Next]_C!vars
    OBVIOUS
  <2>1. ASSUME NEW s \in Servers, NEW x \in Players, Client(s, x)
        PROVE  C!Next
    BY <2>1, ClientRetreats, RetreatStops DEF C!Next
  <2>2. ASSUME NEW s \in Servers, Main(s)
        PROVE  C!Next
    BY <2>2, MainRetreats, RetreatStops, ApplyStarts DEF C!Next
  <2>3. CASE UNCHANGED vars
    <3>1. Retreats
      BY <2>3 DEF vars, durable, volatile, Retreats, Playing
    <3> QED BY <3>1, RetreatStops DEF C!Next
  <2> QED BY <2>1, <2>2, <2>3, WorkerKeepsCustody DEF Next
<1> QED BY <1>1, <1>2, CustodyInvariant, PTL DEF Spec, KeepsCustody, C!Spec
=============================================================================
