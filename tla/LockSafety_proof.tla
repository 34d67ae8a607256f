-------------------------- MODULE LockSafety_proof --------------------------
(***************************************************************************)
(* Proofs about InventoryShare: a lock can always be given back, and it is *)
(* given back together with the newest payload of its session.             *)
(***************************************************************************)
EXTENDS InventoryShare_proof

----------------------------------------------------------------------------
(* The queues stay settled: what is over stays over, and so do the last    *)
(* payload and the readiness of what was queued (Settles).                 *)

Settles ==
  \A t \in Token :
    /\ Over(t) => Over(t)' \/ (~Known(t) /\ journal'[t] # None)
    /\ Known(t) /\ Over(t) => journal'[t] \in {journal[t], None}
    /\ t \in ready[t.home] => t \in ready'[t.home] \/ Over(t)'

(* The jobs that will be settled in the next state.                        *)
SettledNext == {j \in Job : Settled(j)'}

(* What a job releases is a journal entry of a session.                    *)
LEMMA ReleasedType ==
  ASSUME NEW j \in Job, NEW e \in Released(j)
  PROVE  e \in Entry /\ e.token \in Token /\ Releasing(j, e.token)
<1>1. CASE j.kind = "persist"
  <2>1. e = [token |-> j.token, snap |-> j.snap] /\ j.release
    BY <1>1 DEF Released
  <2>2. j.token \in Token /\ j.snap \in Snap
    BY <1>1, JobKinds DEF PersistJob
  <2> QED BY <1>1, <2>1, <2>2 DEF Entry, Releasing
<1>2. CASE j.kind = "recover"
  <2>1. e = [token |-> j.token, snap |-> j.snap] \/ e \in j.todo
    BY <1>2 DEF Released
  <2>2. j.token \in Token /\ j.snap \in Snap /\ j.release /\ j.todo \in SUBSET Entry
    BY <1>2, JobKinds DEF RecoverJob
  <2> QED BY <1>2, <2>1, <2>2 DEF Entry, Releasing
<1>3. CASE j.kind = "batch"
  <2>1. e \in j.todo /\ j.todo \in SUBSET Entry
    BY <1>3, JobKinds DEF Released, BatchJob
  <2> QED BY <1>3, <2>1 DEF Entry, Releasing
<1>4. CASE j.kind \notin {"persist", "recover", "batch"}
  BY <1>4 DEF Released
<1> QED BY <1>1, <1>2, <1>3, <1>4

(* A settled job of a known session stays settled in a step that settles.  *)
LEMMA JobSettles ==
  ASSUME Settles, NEW s \in Servers, NEW j \in Job, JobIsSafe(s, j), Settled(j)
  PROVE  j \in SettledNext
<1>1. ASSUME NEW e \in Released(j)
      PROVE  Over(e.token)' /\ journal'[e.token] \in {None, e.snap}
  <2>1. e.token \in Token /\ Known(e.token)
    BY ReleasedType DEF JobIsSafe
  <2>2. Over(e.token) /\ journal[e.token] \in {None, e.snap}
    BY DEF Settled
  <2> QED BY <2>1, <2>2 DEF Settles
<1>2. ASSUME j.kind = "persist", ~j.release
      PROVE  j.token \in ready'[j.token.home] \/ Over(j.token)'
  <2>1. j.token \in Token /\ Known(j.token)
    BY <1>2, JobKinds DEF PersistJob, JobIsSafe
  <2>2. j.token \in ready[j.token.home] \/ Over(j.token)
    BY <1>2 DEF Settled
  <2> QED BY <2>1, <2>2 DEF Settles
<1>3. Settled(j)'
  BY <1>1, <1>2 DEF Settled, Released
<1> QED BY <1>3 DEF SettledNext

(* So does a whole queue of them.                                          *)
LEMMA QueuesSettle ==
  ASSUME TypeOK, QueuesAreSafe, QueuesAreSettled, Settles, NEW s \in Servers
  PROVE  queue[s] \in Seq(SettledNext)
<1>1. queue[s] \in Seq(Job)
  BY DEF TypeOK
<1>2. \A i \in 1 .. Len(queue[s]) : queue[s][i] \in Job
  BY <1>1
<1>3. \A i \in 1 .. Len(queue[s]) : queue[s][i] \in SettledNext
  BY <1>2, JobSettles DEF QueuesAreSafe, QueuesAreSettled
<1> QED BY <1>1, <1>3

(* Queues of jobs that are settled in the next state are QueuesAreSettled  *)
(* there.                                                                  *)
LEMMA QueuesSettledNext ==
  ASSUME \A s \in Servers : queue'[s] \in Seq(SettledNext)
  PROVE  QueuesAreSettled'
<1>1. ASSUME NEW s \in Servers, NEW i \in 1 .. Len(queue'[s])
      PROVE  Settled(queue[s][i])'
  <2>1. queue'[s][i] \in SettledNext
    BY <1>1
  <2> QED BY <2>1 DEF SettledNext, Settled, Released, Over, Current
<1> QED BY <1>1 DEF QueuesAreSettled

(* A batch of the last payloads of sessions that are over is settled.      *)
LEMMA SettledBatch ==
  ASSUME NEW es \in SUBSET Entry, NEW f \in BOOLEAN,
         \A e \in es : Over(e.token)' /\ journal'[e.token] \in {None, e.snap}
  PROVE  Batch(es, f) \in SettledNext
<1> DEFINE j == Batch(es, f)
<1>1. j \in Job
  BY MakeBatch
<1>2. j.kind = "batch" /\ j.todo = es
  BY DEF Batch
<1> HIDE DEF j
<1>3. Settled(j)'
  BY <1>2 DEF Settled, Released
<1> QED BY <1>1, <1>3 DEF SettledNext, j

(* So is a snapshot: of a session that is over if it releases, of one that *)
(* is ready if it does not.                                                *)
LEMMA SettledPersist ==
  ASSUME NEW t \in Token, NEW snap \in Snap, NEW r \in BOOLEAN, NEW a \in BOOLEAN,
         r => Over(t)' /\ journal'[t] \in {None, snap},
         r \/ t \in ready'[t.home] \/ Over(t)'
  PROVE  Persist(t, snap, r, a) \in SettledNext
<1> DEFINE j == Persist(t, snap, r, a)
<1>1. j \in Job
  BY MakePersist
<1>2. j.kind = "persist" /\ j.token = t /\ j.release = r /\ j.snap = snap
  BY DEF Persist
<1> HIDE DEF j
<1>3. \A e \in Released(j)' : r /\ e.token = t /\ e.snap = snap
  BY <1>2 DEF Released
<1>4. Settled(j)'
  BY <1>2, <1>3 DEF Settled
<1> QED BY <1>1, <1>4 DEF SettledNext, j

(* A load or a legacy release is settled: it saves nothing of a session.   *)
LEMMA SettledOther ==
  ASSUME NEW j \in Job, j.kind \in {"load", "legacy"}
  PROVE  j \in SettledNext
<1>1. Settled(j)'
  BY DEF Settled, Released
<1> QED BY <1>1 DEF SettledNext

(* _queue_inactive_recovery queues a settled recovery: it reads the last   *)
(* payloads and leaves out the active tokens.                              *)
LEMMA SettledRecovery ==
  ASSUME TypeOK, CustodyInv, QueuesAreSettled, Settles, NEW s \in Servers
  PROVE  WithRecovery(s) \in Seq(SettledNext)
<1> DEFINE es == Entries(s, ActiveTokens(s))
<1>1. es \in SUBSET Entry
  BY EntriesType
<1>2. ASSUME NEW e \in es
      PROVE  Over(e.token)' /\ journal'[e.token] \in {None, e.snap}
  <2>1. /\ e.token \in Token /\ e.token.home = s /\ Known(e.token)
        /\ e.token \notin ActiveTokens(s)
    BY EntriesKnown DEF CustodyInv
  <2>2. Over(e.token)
    BY <2>1 DEF Over, Current, ActiveTokens, Token
  <2>3. journal[e.token] = e.snap
    BY DEF Entries
  <2> QED BY <2>1, <2>2, <2>3 DEF Settles
<1> HIDE DEF es
<1>3. Batch(es, FALSE) \in SettledNext
  BY <1>1, <1>2, SettledBatch
<1>4. queue[s] \in Seq(SettledNext)
  BY QueuesSettle DEF CustodyInv
<1>5. Append(queue[s], Batch(es, FALSE)) \in Seq(SettledNext)
  BY <1>3, <1>4, SafeSeq
<1> QED BY <1>4, <1>5 DEF WithRecovery, es
----------------------------------------------------------------------------
(* LockInv through the worker's steps.                                     *)

(* The job of a worker step is safe and settled.                           *)
LEMMA HeadSettled ==
  ASSUME QueuesAreSafe, QueuesAreSettled, TypeOK, NEW s \in Servers,
         queue[s] # << >>
  PROVE  Head(queue[s]) \in Job /\ JobIsSafe(s, Head(queue[s])) /\ Settled(Head(queue[s]))
  BY DEF QueuesAreSafe, QueuesAreSettled, TypeOK

(* What a snapshot job releases itself is over.                            *)
LEMMA ReleaseIsOver ==
  ASSUME NEW j \in Job, Settled(j), j.kind \in {"persist", "recover"}, j.release
  PROVE  Over(j.token) /\ journal[j.token] \in {None, j.snap}
<1> DEFINE e == [token |-> j.token, snap |-> j.snap]
<1>1. e \in Released(j)
  BY DEF Released
<1>2. e.token = j.token /\ e.snap = j.snap
  OBVIOUS
<1> HIDE DEF e
<1>3. Over(e.token) /\ journal[e.token] \in {None, e.snap}
  BY <1>1 DEF Settled
<1> QED BY <1>2, <1>3

(* A worker step changes the owner of a row only by a claim of a free row  *)
(* or by the releasing save of its owner.                                  *)
LEMMA WorkerRows ==
  ASSUME TypeOK, NEW s \in Servers, Worker(s), NEW x \in Players,
         db'[x].owner # db[x].owner
  PROVE  /\ Head(queue[s]).token \in Token /\ Head(queue[s]).token.xuid = x
         /\ \/ /\ Claim(s) /\ db[x].owner = None
               /\ db'[x].owner = Head(queue[s]).token
            \/ /\ Save(s) /\ db[x].owner = Head(queue[s]).token
               /\ Head(queue[s]).release
               /\ db'[x] = Saved(db[x], Head(queue[s]).snap, TRUE)
<1> DEFINE job == Head(queue[s])
<1>0. db \in [Players -> Row]
  BY DEF TypeOK
<1>1. CASE Claim(s)
  <2>1. job.token \in Token /\ job.token.xuid \in Players
    BY <1>1, HeadJob, JobKinds DEF Claim, LoadJob, Token
  <2>2. /\ Claimable(db[job.token.xuid], job.token)
        /\ db' = [db EXCEPT ![job.token.xuid] = Claimed(db[job.token.xuid], job.token)]
    BY <1>1 DEF Claim
  <2>3. x = job.token.xuid
    BY <1>0, <2>1, <2>2
  <2>4. db[x] \in Row /\ Claimed(db[x], job.token).owner = job.token
    BY <1>0 DEF Claimed, Row
  <2> QED BY <1>0, <1>1, <2>1, <2>2, <2>3, <2>4 DEF Claimable
<1>2. CASE Save(s)
  <2>1. /\ job.token \in Token /\ job.token.xuid \in Players
        /\ job.snap \in Snap /\ job.release \in BOOLEAN
    BY <1>2, SnapshotJob DEF Save, Token
  <2>2. /\ db[job.token.xuid].owner = job.token
        /\ db' = [db EXCEPT ![job.token.xuid] =
                    Saved(db[job.token.xuid], job.snap, job.release)]
    BY <1>2 DEF Save, Holds
  <2>3. x = job.token.xuid /\ db'[x] = Saved(db[x], job.snap, job.release)
    BY <1>0, <2>1, <2>2
  <2>4. job.release
    BY <2>1, <2>3 DEF Saved
  <2>5. job.release = TRUE
    BY <2>1, <2>4
  <2> QED BY <1>2, <2>1, <2>2, <2>3, <2>5
<1>3. CASE ReleaseLegacy(s)
  <2>1. PICK y : db' \in {db, [db EXCEPT ![y] = LegacyReleased(db[y])]}
    BY <1>3 DEF ReleaseLegacy
  <2>2. LegacyReleased(db[x]).owner = db[x].owner
    BY <1>0, LegacyRowType
  <2> QED BY <1>0, <2>1, <2>2
<1>4. CASE TakeLoad(s) \/ CheckStorage(s) \/ RemoveRow(s) \/ RecoverNext(s) \/ RecoverDone(s)
  BY <1>4 DEF TakeLoad, CheckStorage, RemoveRow, RecoverNext, RecoverDone
<1> QED BY <1>1, <1>2, <1>3, <1>4 DEF Worker

(* Only RemoveRow deletes a row of the journal: that of its own job.       *)
LEMMA WorkerJournal ==
  ASSUME TypeOK, NEW s \in Servers, Worker(s), NEW t \in Token,
         journal'[t] # journal[t]
  PROVE  /\ RemoveRow(s) /\ t = Head(queue[s]).token /\ journal'[t] = None
<1>1. RemoveRow(s)
  BY DEF Worker, TakeLoad, Claim, CheckStorage, Save, RemoveRow, RecoverNext,
         RecoverDone, ReleaseLegacy
<1>2. journal' = [journal EXCEPT ![Head(queue[s]).token] = None]
  BY <1>1 DEF RemoveRow
<1> QED BY <1>1, <1>2 DEF TypeOK

(* A worker step ends no session, and starts none.                         *)
LEMMA WorkerSettles ==
  ASSUME TypeOK, NEW s \in Servers, Worker(s)
  PROVE  Settles
<1> SUFFICES ASSUME NEW t \in Token
             PROVE  /\ Over(t) => Over(t)'
                    /\ journal'[t] \in {journal[t], None}
                    /\ t \in ready[t.home] => t \in ready'[t.home]
  BY DEF Settles
<1>1. WorkerFrame
  BY WorkerFrames
<1>2. phase' = phase \/ (phase[s] = "booting" /\ \E p : phase' = [phase EXCEPT ![s] = p])
  BY DEF Worker, TakeLoad, Claim, CheckStorage, Save, RemoveRow, RecoverNext,
         RecoverDone, ReleaseLegacy
<1>3. phase[t.home] = "flushing" => phase'[t.home] = "flushing"
  BY <1>2 DEF TypeOK, Token
<1>4. journal'[t] \in {journal[t], None}
  BY WorkerJournal
<1> QED BY <1>1, <1>3, <1>4 DEF WorkerFrame, Over, Current

(* Every worker step leaves in its queue jobs of a set that the splitting  *)
(* of a recovery into its entries does not leave.                          *)
LEMMA WorkerQueuesIn ==
  ASSUME TypeOK, NEW s \in Servers, Worker(s), NEW S,
         \A r \in Servers : queue[r] \in Seq(S),
         \A j \in S : j.kind \in {"batch", "recover"} =>
           \A es \in SUBSET j.todo, f \in BOOLEAN : Batch(es, f) \in S,
         \A j \in S : j.kind = "batch" =>
           \A e \in j.todo : Recover(e, j.todo \ {e}, j.failed) \in S
  PROVE  \A r \in Servers : queue'[r] \in Seq(S)
<1> DEFINE rest == Tail(queue[s])
<1>1. queue[s] # << >>
  BY DEF Worker, TakeLoad, Claim, CheckStorage, Save, RemoveRow, RecoverNext,
         RecoverDone, ReleaseLegacy, At
<1>2. PICK job \in S : job = Head(queue[s])
  BY <1>1
<1>3. rest \in Seq(S) /\ queue \in [Servers -> Seq(Job)]
  BY <1>1 DEF TypeOK
<1>4. ASSUME queue' = queue \/ queue' = [queue EXCEPT ![s] = rest]
      PROVE  \A r \in Servers : queue'[r] \in Seq(S)
  <2> HIDE DEF rest
  <2> QED BY <1>3, <1>4
<1>5. ASSUME NEW todo, NEW f \in BOOLEAN, EndSnapshot(s, todo, f),
             job.kind = "recover" => todo \subseteq job.todo
      PROVE  \A r \in Servers : queue'[r] \in Seq(S)
  <2>1. CASE job.kind = "recover"
    <3>1. Head(queue[s]) \in Job
      BY <1>1 DEF TypeOK
    <3>2. job.failed \in BOOLEAN
      BY <1>2, <2>1, <3>1, JobKinds DEF RecoverJob
    <3>3. Batch(todo, job.failed \/ f) \in S
      <4>1. PICK b \in BOOLEAN : b = (job.failed \/ f)
        BY <3>2
      <4>2. todo \in SUBSET job.todo
        BY <1>5, <2>1
      <4>3. Batch(todo, b) \in S
        BY <2>1, <4>2
      <4> QED BY <4>1, <4>3
    <3>4. queue' = [queue EXCEPT ![s] = <<Batch(todo, job.failed \/ f)>> \o rest]
      BY <1>2, <1>5, <2>1 DEF EndSnapshot
    <3> HIDE DEF rest
    <3>5. <<Batch(todo, job.failed \/ f)>> \o rest \in Seq(S)
      BY <1>3, <3>3, SafeSeq
    <3> QED BY <1>3, <3>4, <3>5
  <2>2. CASE job.kind # "recover"
    BY <1>2, <1>4, <1>5, <2>2 DEF EndSnapshot
  <2> QED BY <2>1, <2>2
<1>6. CASE TakeLoad(s) \/ Claim(s) \/ RecoverDone(s) \/ ReleaseLegacy(s)
  BY <1>4, <1>6 DEF TakeLoad, Claim, RecoverDone, ReleaseLegacy, Drop, LoadFails
<1>7. CASE CheckStorage(s) \/ Save(s)
  <2>1. queue' = queue \/ Drop(s) \/ GiveUp(s)
    BY <1>7 DEF CheckStorage, Save
  <2> QED BY <1>2, <1>4, <1>5, <2>1 DEF Drop, GiveUp
<1>8. CASE RemoveRow(s)
  BY <1>2, <1>5, <1>8 DEF RemoveRow
<1>9. CASE RecoverNext(s)
  <2>1. PICK e \in job.todo :
          queue' = [queue EXCEPT ![s] =
            <<Recover(e, job.todo \ {e}, job.failed)>> \o rest]
    BY <1>2, <1>9 DEF RecoverNext
  <2>2. Recover(e, job.todo \ {e}, job.failed) \in S
    <3>1. job.kind = "batch"
      BY <1>2, <1>9 DEF RecoverNext, At
    <3> QED BY <2>1, <3>1
  <2> HIDE DEF rest
  <2>3. <<Recover(e, job.todo \ {e}, job.failed)>> \o rest \in Seq(S)
    BY <1>3, <2>2, SafeSeq
  <2> QED BY <1>3, <2>1, <2>3
<1> QED BY <1>6, <1>7, <1>8, <1>9 DEF Worker

(* Every worker step leaves settled jobs in every queue.                   *)
LEMMA WorkerSettled ==
  ASSUME TypeOK, QueuesAreSafe, QueuesAreSettled, NEW s \in Servers, Worker(s)
  PROVE  \A r \in Servers : queue'[r] \in Seq(SettledNext)
<1>1. \A r \in Servers : queue[r] \in Seq(SettledNext)
  BY WorkerSettles, QueuesSettle
<1>2. ASSUME NEW j \in SettledNext, j.kind \in {"batch", "recover"}
      PROVE  /\ j \in Job /\ j.todo \in SUBSET Entry
             /\ \A e \in j.todo : Over(e.token)' /\ journal'[e.token] \in {None, e.snap}
  <2>1. j \in Job /\ Settled(j)'
    BY DEF SettledNext
  <2>2. j.todo \in SUBSET Entry
    BY <1>2, <2>1, JobKinds DEF BatchJob, RecoverJob
  <2>3. j.todo \subseteq Released(j)'
    BY <1>2 DEF Released
  <2> QED BY <2>1, <2>2, <2>3 DEF Settled
<1>3. ASSUME NEW j \in SettledNext, j.kind \in {"batch", "recover"},
             NEW es \in SUBSET j.todo, NEW f \in BOOLEAN
      PROVE  Batch(es, f) \in SettledNext
  BY <1>2, <1>3, SettledBatch
<1>4. ASSUME NEW j \in SettledNext, j.kind = "batch", NEW e \in j.todo
      PROVE  Recover(e, j.todo \ {e}, j.failed) \in SettledNext
  <2> DEFINE new == Recover(e, j.todo \ {e}, j.failed)
  <2>1. /\ j \in Job /\ j.todo \in SUBSET Entry
        /\ \A d \in j.todo : Over(d.token)' /\ journal'[d.token] \in {None, d.snap}
    BY <1>2, <1>4
  <2>2. new \in Job
    BY <1>4, <2>1, JobKinds, MakeRecover DEF BatchJob
  <2>3. /\ new.kind = "recover" /\ new.token = e.token /\ new.snap = e.snap
        /\ new.todo = j.todo \ {e}
    BY DEF Recover
  <2> HIDE DEF new
  <2>4. ASSUME NEW d \in Released(new)'
        PROVE  Over(d.token)' /\ journal'[d.token] \in {None, d.snap}
    <3>1. CASE d \in j.todo
      BY <2>1, <3>1
    <3>2. CASE d \notin j.todo
      <4>1. d.token = e.token /\ d.snap = e.snap
        BY <2>3, <2>4, <3>2 DEF Released
      <4> QED BY <1>4, <2>1, <4>1
    <3> QED BY <3>1, <3>2
  <2>5. Settled(new)'
    BY <2>3, <2>4 DEF Settled
  <2> QED BY <2>2, <2>5 DEF SettledNext, new
<1> QED BY <1>1, <1>3, <1>4, WorkerQueuesIn

(* The worker comes to "save" only with a complete payload and to "remove" *)
(* only when the row is not the session's and nothing more is captured of  *)
(* it; it claims only for a session that has its journal row.              *)
LEMMA WorkerStandsOwn ==
  ASSUME TypeOK, CustodyInv, LockInv, NEW s \in Servers, Worker(s),
         NEW job, job = Head(queue[s])
  PROVE  \/ pc'[s] = "idle"
         \/ /\ pc'[s] \in {"claim", "save", "remove"}
            /\ queue' = queue /\ queue[s] # << >>
            /\ pc'[s] = "claim" => job.kind = "load" /\ journal'[job.token] # None
            /\ pc'[s] \in {"save", "remove"} => job.kind \in {"persist", "recover"}
            /\ pc'[s] = "save" => ~job.snap.failed
            /\ pc'[s] = "remove" =>
                 db'[job.token.xuid].owner # job.token /\ Over(job.token)'
<1>0. db \in [Players -> Row] /\ pc \in [Servers -> {"idle", "claim", "save", "remove"}]
  BY DEF TypeOK
<1>1. CASE TakeLoad(s)
  <2>1. /\ job.kind = "load" /\ queue[s] # << >> /\ journal' = journal
        /\ pc'[s] = "idle" \/ (pc'[s] = "claim" /\ ~Stopping(s)
                               /\ Current(job.token) /\ queue' = queue)
    BY <1>0, <1>1 DEF TakeLoad, At, Goto, Drop
  <2>2. job.token \in Token /\ job.token.home = s
    BY <2>1, HeadSettled, JobKinds DEF CustodyInv, LockInv, JobIsSafe, LoadJob
  <2>3. ~Stopping(s) /\ Current(job.token) => journal[job.token] # None
    BY <2>2 DEF LockInv, CurrentIsJournaled, Over, Stopping
  <2> QED BY <2>1, <2>3
<1>2. CASE CheckStorage(s)
  BY <1>0, <1>2 DEF CheckStorage, At, Goto, GiveUp, EndSnapshot, Complete
<1>3. CASE Save(s)
  <2>1. /\ job.kind \in {"persist", "recover"} /\ queue[s] # << >>
        /\ UNCHANGED <<phase, sess>>
        /\ pc'[s] = "idle" \/ (pc'[s] = "remove" /\ queue' = queue /\
             \/ db[job.token.xuid].owner # job.token /\ db' = db
             \/ /\ db[job.token.xuid].owner = job.token /\ job.release
                /\ db' = [db EXCEPT ![job.token.xuid] =
                            Saved(db[job.token.xuid], job.snap, job.release)])
    BY <1>0, <1>3 DEF Save, At, Goto, Drop, GiveUp, EndSnapshot, Holds, WorkerFrame
  <2>2. job.token \in Token /\ job.token.xuid \in Players /\ job.release \in BOOLEAN
    BY <1>3, SnapshotJob DEF Save, Token
  <2>3. job \in Job /\ Settled(job)
    BY <2>1, HeadSettled DEF CustodyInv, LockInv
  <2>4. job.release => Over(job.token)
    BY <2>1, <2>3, ReleaseIsOver
  <2>5. ~job.release /\ db[job.token.xuid].owner # job.token => Over(job.token)
    <3>1. job.kind = "recover" => job.release
      BY <2>3, JobKinds DEF RecoverJob
    <3>2. job.token \in ready[job.token.home] => db[job.token.xuid].owner = job.token
                                                 \/ Over(job.token)
      BY <2>2 DEF LockInv, ReadyOwns, Token
    <3> QED BY <2>1, <2>3, <3>1, <3>2 DEF Settled
  <2>6. Over(job.token) => Over(job.token)'
    BY <2>1, WorkerFrames DEF Over, Current
  <2>7. pc'[s] = "remove" => db'[job.token.xuid].owner # job.token
    <3>1. Saved(db[job.token.xuid], job.snap, TRUE).owner # job.token
      BY <2>2, StoreAssumption DEF Saved
    <3>2. job.release => job.release = TRUE
      BY <2>2
    <3> QED BY <1>0, <2>1, <2>2, <3>1, <3>2
  <2> QED BY <2>1, <2>4, <2>5, <2>6, <2>7
<1>4. CASE Claim(s) \/ RemoveRow(s) \/ RecoverNext(s) \/ RecoverDone(s) \/ ReleaseLegacy(s)
  BY <1>0, <1>4 DEF Claim, RemoveRow, RecoverNext, RecoverDone, ReleaseLegacy, At,
                    LoadFails, EndSnapshot, Drop, Goto
<1> QED BY <1>1, <1>2, <1>3, <1>4 DEF Worker

(* No worker step disturbs the worker of another server: it claims and     *)
(* removes rows only for tokens of its own.                                *)
LEMMA WorkerStandsOthers ==
  ASSUME TypeOK, CustodyInv, LockInv, NEW s \in Servers, Worker(s),
         NEW r \in Servers, r # s, NEW job, job = Head(queue[r])
  PROVE  /\ queue'[r] = queue[r] /\ pc'[r] = pc[r]
         /\ pc[r] = "claim" => job.kind = "load" /\ journal'[job.token] # None
         /\ pc[r] = "remove" =>
              db'[job.token.xuid].owner # job.token /\ Over(job.token)'
<1>1. queue'[r] = queue[r] /\ pc'[r] = pc[r]
  BY DEF Worker, TakeLoad, Claim, CheckStorage, Save, RemoveRow, RecoverNext,
         RecoverDone, ReleaseLegacy, LoadFails, GiveUp, EndSnapshot, Drop, Goto, TypeOK
<1>2. pc[r] # "idle" => queue[r] # << >> /\ job.kind \in {"load", "persist", "recover"}
  BY DEF LockInv, WorkerStands, Stands, TypeOK
<1>3. pc[r] # "idle" => job \in Job /\ job.token \in Token /\ job.token.home = r
                        /\ Known(job.token)
  <2>1. queue[r] # << >> => job \in Job /\ JobIsSafe(r, job)
    BY HeadSettled DEF CustodyInv, LockInv
  <2> QED BY <1>2, <2>1, JobKinds DEF JobIsSafe, LoadJob, PersistJob, RecoverJob
<1>4. pc[r] = "claim" => journal'[job.token] # None
  <2> SUFFICES ASSUME pc[r] = "claim", journal'[job.token] = None
               PROVE  FALSE
    OBVIOUS
  <2>1. journal[job.token] # None
    BY DEF LockInv, WorkerStands, Stands
  <2>2. RemoveRow(s) /\ job.token = Head(queue[s]).token
    BY <1>3, <2>1, WorkerJournal
  <2>3. At(s, {"persist", "recover"}, "remove")
    BY <2>2 DEF RemoveRow
  <2>4. JobIsSafe(s, Head(queue[s]))
    BY <2>3, HeadSettled DEF At, CustodyInv, LockInv
  <2>5. Head(queue[s]).token.home = s
    BY <2>3, <2>4 DEF At, JobIsSafe
  <2> QED BY <1>3, <2>2, <2>5
<1>5. pc[r] = "remove" => db'[job.token.xuid].owner # job.token /\ Over(job.token)'
  <2> SUFFICES ASSUME pc[r] = "remove"
               PROVE  db'[job.token.xuid].owner # job.token /\ Over(job.token)'
    OBVIOUS
  <2>1. db[job.token.xuid].owner # job.token /\ Over(job.token)
    BY DEF LockInv, WorkerStands, Stands
  <2>2. job.token.xuid \in Players
    BY <1>3 DEF Token
  <2>3. CASE db'[job.token.xuid].owner # db[job.token.xuid].owner
    <3>1. PICK own : own = Head(queue[s])
      OBVIOUS
    <3>2. \/ Claim(s) /\ db'[job.token.xuid].owner = own.token
          \/ db'[job.token.xuid] = Saved(db[job.token.xuid], own.snap, TRUE)
      <4>1. PICK x \in Players : x = job.token.xuid
        BY <2>2
      <4>2. db'[x].owner # db[x].owner
        BY <2>3, <4>1
      <4>3. \/ Claim(s) /\ db'[x].owner = own.token
            \/ db'[x] = Saved(db[x], own.snap, TRUE)
        BY <3>1, <4>2, WorkerRows
      <4> QED BY <4>1, <4>3
    <3>3. Claim(s) => own.token.home = s
      <4>1. Claim(s) => At(s, {"load"}, "claim")
        BY DEF Claim
      <4> QED BY <3>1, <4>1, HeadSettled DEF At, CustodyInv, LockInv, JobIsSafe
    <3>4. job.token # None
      BY <1>3, StoreAssumption
    <3> QED BY <1>3, <2>1, <3>2, <3>3, <3>4, WorkerSettles DEF Saved, Settles
  <2>4. Over(job.token)'
    BY <1>3, <2>1, WorkerSettles DEF Settles
  <2> QED BY <2>1, <2>3, <2>4
<1> QED BY <1>1, <1>2, <1>4, <1>5 DEF LockInv, WorkerStands, Stands

(* Every worker step keeps LockInv.                                        *)
LEMMA WorkerLock ==
  ASSUME TypeOK, CustodyInv, LockInv, NEW s \in Servers, Worker(s)
  PROVE  LockInv'
<1>1. /\ OwnersAreLocal /\ BootStartsEmpty /\ CurrentIsJournaled
      /\ QueuesAreSettled /\ ReadyIsKnown /\ ReadyOwns /\ WorkerStands
      /\ OwnedRowRecoverable /\ QueuesAreSafe
  BY DEF LockInv, CustodyInv
<1>2. WorkerFrame /\ Settles
  BY WorkerFrames, WorkerSettles
<1> DEFINE job == Head(queue[s])
<1>3. ASSUME NEW x \in Players, db'[x].owner # db[x].owner
      PROVE  \/ /\ job.token.xuid = x /\ db'[x].owner = job.token
                /\ db[x].owner = None /\ journal'[job.token] # None
             \/ db'[x].owner = None /\ Over(db[x].owner)
  <2>1. CASE Claim(s) /\ db'[x].owner = job.token
    <3>1. job.token.xuid = x /\ db[x].owner = None
      BY <1>3, <2>1, WorkerRows DEF Claim, Save, At
    <3>2. pc[s] = "claim" /\ journal' = journal
      BY <2>1 DEF Claim, At
    <3> QED BY <1>1, <2>1, <3>1, <3>2 DEF WorkerStands, Stands
  <2>2. CASE Save(s) /\ job.release /\ db[x].owner = job.token
             /\ db'[x] = Saved(db[x], job.snap, TRUE)
    <3>1. job \in Job /\ Settled(job) /\ job.kind \in {"persist", "recover"}
      BY <1>1, <2>2, HeadSettled DEF Save, At
    <3>2. Over(job.token)
      BY <2>2, <3>1, ReleaseIsOver
    <3> QED BY <2>2, <3>2 DEF Saved
  <2> QED BY <1>3, <2>1, <2>2, WorkerRows
<1>4. ASSUME NEW t \in Token, journal'[t] = None, journal[t] # None
      PROVE  db[t.xuid].owner # t /\ Over(t)
  <2>1. RemoveRow(s) /\ t = job.token
    BY <1>4, WorkerJournal
  <2> QED BY <1>1, <2>1 DEF RemoveRow, At, WorkerStands, Stands
<1> HIDE DEF job
<1>5. OwnersAreLocal'
  BY <1>1, <1>3 DEF OwnersAreLocal
<1>6. BootStartsEmpty'
  <2>1. phase' = phase \/ (phase[s] = "booting" /\ \E p : phase' = [phase EXCEPT ![s] = p])
    BY DEF Worker, TakeLoad, Claim, CheckStorage, Save, RemoveRow, RecoverNext,
           RecoverDone, ReleaseLegacy
  <2>2. queue[s] # << >>
    BY DEF Worker, TakeLoad, Claim, CheckStorage, Save, RemoveRow, RecoverNext,
           RecoverDone, ReleaseLegacy, At
  <2>3. \A r \in Servers : r # s => queue'[r] = queue[r]
    BY WorkerStandsOthers
  <2>4. phase[s] # "down" /\ phase \in [Servers -> Phases] /\ sess' = sess
    BY <1>1, <1>2, <2>2 DEF BootStartsEmpty, WorkerFrame, TypeOK
  <2>5. ASSUME NEW r \in Servers
        PROVE  /\ phase'[r] = "down" => queue'[r] = << >>
               /\ phase'[r] \in {"down", "booting"} => \A x \in Players : sess'[r][x] = None
    <3>1. CASE r # s
      BY <1>1, <2>1, <2>3, <2>4, <3>1 DEF BootStartsEmpty
    <3>2. CASE r = s
      <4>1. phase'[s] # "down"
        BY <2>4 DEF Worker, TakeLoad, Claim, CheckStorage, Save, RemoveRow,
               RecoverNext, RecoverDone, ReleaseLegacy
      <4>2. phase'[s] = phase[s] \/ phase[s] = "booting"
        BY <2>1
      <4> QED BY <1>1, <2>4, <3>2, <4>1, <4>2 DEF BootStartsEmpty
    <3> QED BY <3>1, <3>2
  <2> QED BY <2>5 DEF BootStartsEmpty
<1>7. CurrentIsJournaled'
  <2> SUFFICES ASSUME NEW t \in Token, journal'[t] = None
               PROVE  Over(t)'
    BY DEF CurrentIsJournaled
  <2>1. Over(t)
    BY <1>1, <1>4 DEF CurrentIsJournaled
  <2> QED BY <1>2, <2>1 DEF Settles
<1>8. QueuesAreSettled'
  BY <1>1, WorkerSettled, QueuesSettledNext
<1>9. ReadyIsKnown'
  BY <1>1, <1>2 DEF ReadyIsKnown, WorkerFrame, Known
<1>10. ReadyOwns'
  <2> SUFFICES ASSUME NEW r \in Servers, NEW t \in ready'[r]
               PROVE  db'[t.xuid].owner = t \/ Over(t)'
    BY DEF ReadyOwns
  <2>1. t \in ready[r] /\ t \in Token /\ t.xuid \in Players /\ t # None
    BY <1>2, StoreAssumption DEF WorkerFrame, TypeOK, Token
  <2>2. Known(t) /\ (db[t.xuid].owner = t \/ Over(t))
    BY <1>1, <2>1 DEF ReadyIsKnown, ReadyOwns
  <2>3. db[t.xuid].owner = t => db'[t.xuid].owner = t \/ Over(t)
    BY <1>3, <2>1
  <2> QED BY <1>2, <2>1, <2>2, <2>3 DEF Settles
<1>11. WorkerStands'
  <2> SUFFICES ASSUME NEW r \in Servers
               PROVE  Stands(r, Head(queue[r]))'
    BY DEF WorkerStands
  <2>1. PICK j : j = Head(queue[r])
    OBVIOUS
  <2>2. Stands(r, j)
    BY <1>1, <2>1 DEF WorkerStands
  <2>3. CASE r = s
    <3>1. pc'[r] = "idle" \/ (queue'[r] = queue[r] /\ Stands(r, j)')
      BY <2>1, <2>3, WorkerStandsOwn DEF Stands
    <3>2. CASE pc'[r] = "idle"
      BY <3>2 DEF Stands
    <3>3. CASE queue'[r] = queue[r] /\ Stands(r, j)'
      BY <2>1, <3>3 DEF Stands, Over, Current
    <3> QED BY <3>1, <3>2, <3>3
  <2>4. CASE r # s
    <3>1. queue'[r] = queue[r] /\ Stands(r, j)'
      BY <2>1, <2>2, <2>4, WorkerStandsOthers DEF Stands
    <3> QED BY <2>1, <3>1 DEF Stands, Over, Current
  <2> QED BY <2>3, <2>4
<1>12. OwnedRowRecoverable'
  <2> SUFFICES ASSUME NEW x \in Players, db'[x].owner # None
               PROVE  journal'[db'[x].owner] # None
    BY DEF OwnedRowRecoverable
  <2>1. CASE db'[x].owner = db[x].owner
    <3>1. PICK t \in Token : t = db[x].owner
      BY <2>1 DEF TypeOK, Row
    <3>2. journal[t] # None /\ t.xuid = x
      BY <1>1, <2>1, <3>1 DEF OwnedRowRecoverable, OwnersAreLocal
    <3> QED BY <1>4, <2>1, <3>1, <3>2
  <2>2. CASE db'[x].owner # db[x].owner
    BY <1>3, <2>2
  <2> QED BY <2>1, <2>2
<1> QED BY <1>5, <1>6, <1>7, <1>8, <1>9, <1>10, <1>11, <1>12 DEF LockInv

----------------------------------------------------------------------------
(* LockInv through the main thread and the players.                        *)

(* What their steps have in common: no row changes, no journal row is      *)
(* deleted, the job in progress stays at the head of its queue, and who    *)
(* becomes ready owns its row.                                             *)
Handles ==
  /\ UNCHANGED db
  /\ \A t \in Token : /\ journal'[t] = None => journal[t] = None
                      /\ Known(t) => Known(t)'
  /\ \A r \in Servers :
       /\ \/ pc'[r] = "idle"
          \/ pc'[r] = pc[r] /\ (queue[r] # << >> => queue'[r] # << >>
                                /\ Head(queue'[r]) = Head(queue[r]))
       /\ \A t \in ready'[r] : \/ t \in ready[r]
                               \/ t.home = r /\ Known(t) /\ db[t.xuid].owner = t

(* Such a step keeps LockInv if it settles, queues only settled jobs and   *)
(* starts servers empty.                                                   *)
LEMMA HandlesLock ==
  ASSUME TypeOK, CustodyInv, LockInv, TypeOK', Handles, Settles, BootStartsEmpty',
         \A r \in Servers : queue'[r] \in Seq(SettledNext)
  PROVE  LockInv'
<1>1. /\ OwnersAreLocal /\ CurrentIsJournaled /\ QueuesAreSettled /\ ReadyIsKnown
      /\ ReadyOwns /\ WorkerStands /\ OwnedRowRecoverable /\ QueuesAreSafe
  BY DEF LockInv, CustodyInv
<1>2. OwnersAreLocal'
  BY <1>1 DEF OwnersAreLocal, Handles
<1>3. CurrentIsJournaled'
  BY <1>1 DEF CurrentIsJournaled, Handles, Settles
<1>4. QueuesAreSettled'
  BY QueuesSettledNext
<1>5. ASSUME NEW r \in Servers, NEW t \in ready'[r]
      PROVE  t.home = r /\ Known(t)' /\ (db'[t.xuid].owner = t \/ Over(t)')
  <2>1. t \in Token
    BY DEF TypeOK
  <2>2. CASE t \in ready[r]
    <3>1. t.home = r /\ Known(t) /\ (db[t.xuid].owner = t \/ Over(t))
      BY <1>1, <2>2 DEF ReadyIsKnown, ReadyOwns
    <3> QED BY <2>1, <3>1 DEF Handles, Settles
  <2>3. CASE t \notin ready[r]
    BY <1>5, <2>1, <2>3 DEF Handles
  <2> QED BY <2>2, <2>3
<1>6. ReadyIsKnown' /\ ReadyOwns'
  BY <1>5 DEF ReadyIsKnown, ReadyOwns
<1>7. WorkerStands'
  <2> SUFFICES ASSUME NEW r \in Servers
               PROVE  Stands(r, Head(queue[r]))'
    BY DEF WorkerStands
  <2>1. CASE pc'[r] = "idle"
    BY <2>1 DEF Stands
  <2>2. CASE pc'[r] # "idle"
    <3>1. PICK j : j = Head(queue[r])
      OBVIOUS
    <3>2. Stands(r, j)
      BY <1>1, <3>1 DEF WorkerStands
    <3>3. /\ pc'[r] = pc[r] /\ queue[r] # << >> /\ queue'[r] # << >>
          /\ Head(queue'[r]) = j
      BY <2>2, <3>1, <3>2 DEF Handles, Stands
    <3>4. j.kind \in {"load", "persist", "recover"} =>
            j.token \in Token /\ Known(j.token)
      <4>1. j \in Job /\ JobIsSafe(r, j)
        BY <1>1, <3>1, <3>3, HeadSettled
      <4> QED BY <4>1, JobKinds DEF JobIsSafe, LoadJob, PersistJob, RecoverJob
    <3>5. Stands(r, j)'
      BY <3>2, <3>3, <3>4 DEF Stands, Handles, Settles
    <3> QED BY <3>3, <3>5 DEF Stands, Over, Current
  <2> QED BY <2>1, <2>2
<1>8. OwnedRowRecoverable'
  <2> SUFFICES ASSUME NEW x \in Players, db[x].owner # None
               PROVE  journal'[db[x].owner] # None
    BY DEF OwnedRowRecoverable, Handles
  <2>1. db[x].owner \in Token
    BY DEF TypeOK, Row
  <2> QED BY <1>1, <2>1 DEF OwnedRowRecoverable, Handles
<1> QED BY <1>2, <1>3, <1>4, <1>6, <1>7, <1>8 DEF LockInv

(* The ways in which these steps extend a queue keep its head.             *)
LEMMA AppendKeepsHead ==
  ASSUME NEW q \in Seq(Job), NEW j \in Job
  PROVE  Append(q, j) # << >> /\ (q # << >> => Head(Append(q, j)) = Head(q))
<1>1. Len(Append(q, j)) = Len(q) + 1 /\ Len(q) \in Nat
  OBVIOUS
<1>2. Append(q, j) # << >>
  BY <1>1
<1>3. q # << >> => Append(q, j)[1] = q[1]
  OBVIOUS
<1> QED BY <1>2, <1>3

(* So does _queue_inactive_recovery.                                       *)
LEMMA RecoveryKeepsHead ==
  ASSUME TypeOK, NEW s \in Servers
  PROVE  queue[s] # << >> =>
           WithRecovery(s) # << >> /\ Head(WithRecovery(s)) = Head(queue[s])
<1>1. Batch(Entries(s, ActiveTokens(s)), FALSE) \in Job
  BY EntriesType, MakeBatch
<1>2. queue[s] \in Seq(Job)
  BY DEF TypeOK
<1> QED BY <1>1, <1>2, AppendKeepsHead DEF WithRecovery

(* A step that leaves sessions, readiness and journals alone settles.      *)
LEMMA QuietSettles ==
  ASSUME Quiet, UNCHANGED ready
  PROVE  Settles
  BY DEF Quiet, Settles, Over, Current

(* It keeps LockInv if it queues only settled jobs, behind those there     *)
(* are.                                                                    *)
LEMMA QuietLock ==
  ASSUME TypeOK, CustodyInv, LockInv, TypeOK', Quiet, UNCHANGED <<db, ready, pc>>,
         NEW s \in Servers, phase[s] # "down",
         NEW q \in Seq(SettledNext),
         queue[s] # << >> => q # << >> /\ Head(q) = Head(queue[s]),
         queue' = queue \/ queue' = [queue EXCEPT ![s] = q]
  PROVE  LockInv'
<1>1. Settles
  BY QuietSettles
<1>2. \A r \in Servers : queue[r] \in Seq(SettledNext)
  BY <1>1, QueuesSettle DEF LockInv, CustodyInv
<1>3. \A r \in Servers : /\ queue'[r] = queue[r] \/ (r = s /\ queue'[r] = q)
                         /\ phase'[r] = phase[r] /\ sess'[r] = sess[r]
  BY DEF TypeOK, Quiet
<1>4. Handles
  BY <1>3 DEF Handles, Quiet, Known
<1>5. BootStartsEmpty'
  BY <1>3 DEF LockInv, BootStartsEmpty
<1> QED BY <1>1, <1>2, <1>3, <1>4, <1>5, HandlesLock

(* Likewise a step that does not even touch the queues.                    *)
LEMMA StillLock ==
  ASSUME TypeOK, CustodyInv, LockInv, TypeOK', Quiet, UNCHANGED <<db, ready, pc, queue>>
  PROVE  LockInv'
<1>1. Settles
  BY QuietSettles
<1>2. \A r \in Servers : queue'[r] \in Seq(SettledNext)
  BY <1>1, QueuesSettle DEF LockInv, CustodyInv
<1>3. Handles
  BY DEF Handles, Quiet, Known
<1>4. BootStartsEmpty'
  BY DEF LockInv, BootStartsEmpty, Quiet
<1> QED BY <1>1, <1>2, <1>3, <1>4, HandlesLock

(* A login keeps LockInv: its marker is on disk when its session begins.   *)
LEMMA BeginJoinLock ==
  ASSUME TypeOK, CustodyInv, LockInv, TypeOK', NEW s \in Servers, NEW x \in Players,
         BeginJoin(s, x)
  PROVE  LockInv'
<1>1. PICK t : t = NewToken(s, x)
  OBVIOUS
<1>2. t \in Token /\ t.home = s /\ t.xuid = x /\ ~Known(t) /\ Known(t)'
  BY <1>1, FreshToken
<1>3. /\ journal' = [journal EXCEPT ![t] = Marker]
      /\ sess' = [sess EXCEPT ![s][x] = t]
      /\ queue' = [queue EXCEPT ![s] = Append(WithRecovery(s), Load(t, 0))]
      /\ UNCHANGED <<db, phase, ready, pc>>
      /\ phase[s] = "serving"
  BY <1>1 DEF BeginJoin
<1>4. Marker # None
  <2>1. Marker \in Snap
    BY StoreAssumption DEF Marker, Snap, Stamp
  <2> QED BY <2>1, StoreAssumption
<1>5. ASSUME NEW u \in Token
      PROVE  /\ journal'[u] = IF u = t THEN Marker ELSE journal[u]
             /\ u # t /\ Over(u) => Over(u)'
  <2>1. journal'[u] = IF u = t THEN Marker ELSE journal[u]
    BY <1>3 DEF TypeOK
  <2>2. u.home \in Servers /\ u.xuid \in Players
    BY DEF Token
  <2>3. sess'[u.home][u.xuid] = sess[u.home][u.xuid] \/ sess'[u.home][u.xuid] = t
    <3>1. sess \in [Servers -> [Players -> Token \cup {None}]]
      BY DEF TypeOK
    <3>2. sess' = [sess EXCEPT ![s][x] = t]
      BY <1>3
    <3> QED BY <2>2, <3>1, <3>2
  <2>4. u # t /\ Over(u) => Over(u)'
    BY <1>3, <2>3 DEF Over, Current
  <2> QED BY <2>1, <2>4
<1>6. Settles
  BY <1>2, <1>3, <1>4, <1>5 DEF Settles
<1>7. \A u \in Token : Known(u) => Known(u)'
  BY BeginJoinAged DEF Aged
<1>8. Load(t, 0) \in Job /\ Load(t, 0).kind = "load"
  BY <1>2, IncidentAssumption, MakeLoad DEF Load
<1>9. PICK j \in Job : j = Load(t, 0) /\ j \in SettledNext
  BY <1>8, SettledOther
<1>10. PICK q : q = WithRecovery(s)
  OBVIOUS
<1>11. q \in Seq(SettledNext) /\ q \in Seq(Job)
  BY <1>6, <1>10, SettledRecovery, WithRecoveryType DEF LockInv
<1>12. Append(q, j) \in Seq(SettledNext)
  BY <1>9, <1>11, SafeSeq
<1>13. Append(q, j) # << >> /\ (queue[s] # << >> => Head(Append(q, j)) = Head(queue[s]))
  BY <1>9, <1>10, <1>11, AppendKeepsHead, RecoveryKeepsHead
<1>14. \A r \in Servers : queue'[r] = IF r = s THEN Append(q, j) ELSE queue[r]
  BY <1>3, <1>9, <1>10 DEF TypeOK
<1>15. \A r \in Servers : queue'[r] \in Seq(SettledNext)
  BY <1>6, <1>12, <1>14, QueuesSettle DEF LockInv, CustodyInv
<1>16. Handles
  BY <1>3, <1>4, <1>5, <1>7, <1>13, <1>14 DEF Handles
<1>17. BootStartsEmpty'
  <2>1. sess \in [Servers -> [Players -> Token \cup {None}]]
    BY DEF TypeOK
  <2>2. \A r \in Servers : r # s => sess'[r] = sess[r] /\ queue'[r] = queue[r]
    BY <1>3, <1>14, <2>1
  <2>3. phase' = phase /\ phase[s] = "serving"
    BY <1>3
  <2> QED BY <2>2, <2>3 DEF LockInv, BootStartsEmpty
<1> QED BY <1>6, <1>15, <1>16, <1>17, HandlesLock

(* What players other than a quitting one, the operator and the backpacks  *)
(* do keeps LockInv.                                                       *)
LEMMA ClientLock ==
  ASSUME TypeOK, CustodyInv, LockInv, TypeOK', NEW s \in Servers, NEW x \in Players,
         Client(s, x), ~Quit(s, x)
  PROVE  LockInv'
<1>1. CASE BeginJoin(s, x)
  BY <1>1, BeginJoinLock
<1>2. CASE JoinUnjournaled(s, x)
  <2>1. /\ Quiet /\ UNCHANGED <<db, ready, pc>> /\ phase[s] # "down"
        /\ queue' = queue \/ queue' = [queue EXCEPT ![s] = WithRecovery(s)]
    BY <1>2 DEF JoinUnjournaled, Quiet
  <2>2. WithRecovery(s) \in Seq(SettledNext)
    BY <2>1, QuietSettles, SettledRecovery DEF LockInv
  <2> QED BY <2>1, <2>2, RecoveryKeepsHead, QuietLock
<1>3. CASE Play(s, x) \/ PlayUnmanaged(s, x) \/ PackPending(s, x)
           \/ PackRecovered(s, x)
  <2>1. Quiet /\ UNCHANGED <<db, ready, pc, queue>>
    BY <1>3 DEF Play, PlayUnmanaged, PackPending, PackRecovered, Quiet,
                durable, volatile
  <2> QED BY <2>1, StillLock
<1>4. CASE LegacyCommand(s, x)
  <2>1. PICK j : j = [kind |-> "legacy", xuid |-> x]
    OBVIOUS
  <2>2. /\ Quiet /\ UNCHANGED <<db, ready, pc>> /\ phase[s] # "down"
        /\ queue' = [queue EXCEPT ![s] = Append(queue[s], j)]
    BY <1>4, <2>1 DEF LegacyCommand, Quiet, durable, Accepting
  <2>3. j \in Job /\ j \in SettledNext
    BY <2>1, MakeLegacy, SettledOther
  <2>4. queue[s] \in Seq(Job) /\ queue[s] \in Seq(SettledNext)
    BY <2>2, QuietSettles, QueuesSettle DEF LockInv, CustodyInv, TypeOK
  <2>5. Append(queue[s], j) \in Seq(SettledNext)
    BY <2>3, <2>4, SafeSeq
  <2> QED BY <2>2, <2>3, <2>4, <2>5, AppendKeepsHead, QuietLock
<1> QED BY <1>1, <1>2, <1>3, <1>4 DEF Client

(* The end of a session keeps LockInv: what _finish_session queues is the  *)
(* payload it leaves in the journal.                                       *)
LEMMA FinishLock ==
  ASSUME TypeOK, CustodyInv, LockInv, TypeOK', NEW s \in Servers, NEW x \in online[s],
         Finish(s, x) \/ FinishRaises(s, x),
         sess' = [sess EXCEPT ![s][x] = None],
         phase[s] \in {"serving", "halting", "disabling"},
         phase' = phase \/ phase' = [phase EXCEPT ![s] = "aborting"],
         ready' = ready \/ ready' = [ready EXCEPT ![s] = @ \ {sess[s][x]}],
         UNCHANGED <<db, issued, pc>>
  PROVE  LockInv'
<1>0. /\ queue \in [Servers -> Seq(Job)] /\ ready \in [Servers -> SUBSET Token]
      /\ phase \in [Servers -> Phases]
      /\ sess \in [Servers -> [Players -> Token \cup {None}]]
  BY DEF TypeOK
<1>1. PICK t \in Token : t = sess[s][x]
  BY TokenOfPlayer DEF CustodyInv
<1>2. x \in Players /\ t.home = s /\ t.xuid = x /\ t # None
  <2>1. x \in Players /\ t # None
    BY StoreAssumption DEF TypeOK
  <2> QED BY <1>1, <2>1 DEF CustodyInv, SessionsAreLocal
<1>3. ~Over(t) /\ ~Current(t)'
  BY <1>1, <1>2 DEF Over, Current, TypeOK
<1>4. journal[t] # None
  BY <1>3 DEF LockInv, CurrentIsJournaled
<1>5. PICK snap \in Snap :
        /\ journal' = journal \/ journal' = [journal EXCEPT ![t] = snap]
        /\ \/ queue' = queue
           \/ /\ journal'[t] = snap
              /\ queue' = [queue EXCEPT ![s] = Append(@, Persist(t, snap, TRUE, FALSE))]
  <2>1. /\ Capture(s, x) \in Snap /\ Payload(t) \in Snap /\ Blocked(Payload(t)) \in Snap
    BY <1>2, CaptureType, PayloadType
  <2>2. Payload(t) = journal[t]
    BY <1>4 DEF Payload
  <2>3. \/ /\ journal' = [journal EXCEPT ![t] = Capture(s, x)]
           /\ queue' = [queue EXCEPT ![s] = Append(@, Persist(t, Capture(s, x), TRUE, FALSE))]
        \/ /\ journal' = [journal EXCEPT ![t] = Blocked(Payload(t))] /\ queue' = queue
        \/ /\ journal' = journal
           /\ queue' = [queue EXCEPT ![s] = Append(@, Persist(t, Payload(t), TRUE, FALSE))]
        \/ journal' = journal /\ queue' = queue
    BY <1>1 DEF Finish, FinishRaises
  <2>4. \A v \in Snap : [journal EXCEPT ![t] = v][t] = v
    BY DEF TypeOK
  <2> QED BY <2>1, <2>2, <2>3, <2>4
<1>6. ASSUME NEW u \in Token
      PROVE  /\ journal'[u] = journal[u] \/ (u = t /\ journal'[u] = snap)
             /\ Over(u) => Over(u)'
             /\ u \in ready[u.home] => u \in ready'[u.home] \/ u = t
  <2>1. journal'[u] = journal[u] \/ (u = t /\ journal'[u] = snap)
    BY <1>5 DEF TypeOK
  <2>2. u.home \in Servers /\ u.xuid \in Players
    BY DEF Token
  <2>3. /\ sess'[u.home][u.xuid] = sess[u.home][u.xuid] \/ sess'[u.home][u.xuid] = None
        /\ phase[u.home] = "flushing" => phase'[u.home] = "flushing"
    <3>1. phase[u.home] = "flushing" => phase'[u.home] = "flushing"
      BY <1>0, <2>2
    <3>2. sess'[u.home][u.xuid] = sess[u.home][u.xuid] \/ sess'[u.home][u.xuid] = None
      BY <1>0, <1>2, <2>2
    <3> QED BY <3>1, <3>2
  <2>4. u # None
    BY StoreAssumption
  <2>5. Over(u) => Over(u)'
    BY <2>3, <2>4 DEF Over, Current
  <2>6. u \in ready[u.home] => u \in ready'[u.home] \/ u = t
    <3>1. CASE ready' = ready
      BY <3>1
    <3>2. CASE ready' = [ready EXCEPT ![s] = @ \ {t}]
      BY <1>0, <2>2, <3>2
    <3> QED BY <1>1, <3>1, <3>2
  <2> QED BY <2>1, <2>5, <2>6
<1>7. snap # None
  BY StoreAssumption
<1>8. Settles
  BY <1>3, <1>6 DEF Settles, Over
<1>9. PICK j : j = Persist(t, snap, TRUE, FALSE)
  OBVIOUS
<1>10. j \in Job
  BY <1>9, MakePersist
<1>11. journal'[t] = snap => j \in SettledNext
  BY <1>3, <1>9, SettledPersist DEF Over
<1>12. \A r \in Servers : queue[r] \in Seq(SettledNext) /\ queue[r] \in Seq(Job)
  BY <1>8, QueuesSettle DEF LockInv, CustodyInv, TypeOK
<1>13. \A r \in Servers :
         \/ queue'[r] = queue[r]
         \/ r = s /\ journal'[t] = snap /\ queue'[r] = Append(queue[r], j)
  BY <1>0, <1>5, <1>9
<1>14. ASSUME NEW r \in Servers
       PROVE  /\ queue'[r] \in Seq(SettledNext)
              /\ queue[r] # << >> => queue'[r] # << >> /\ Head(queue'[r]) = Head(queue[r])
  <2>1. CASE queue'[r] = queue[r]
    BY <1>12, <2>1
  <2>2. CASE journal'[t] = snap /\ queue'[r] = Append(queue[r], j)
    BY <1>10, <1>11, <1>12, <2>2, SafeSeq, AppendKeepsHead
  <2> QED BY <1>13, <2>1, <2>2
<1>15. Handles
  <2>1. \A r \in Servers : ready'[r] \subseteq ready[r]
    <3>1. CASE ready' = ready
      BY <3>1
    <3>2. CASE ready' = [ready EXCEPT ![s] = @ \ {t}]
      BY <1>0, <3>2
    <3> QED BY <1>1, <3>1, <3>2
  <2> QED BY <1>6, <1>7, <1>14, <2>1 DEF Handles, Known
<1>16. BootStartsEmpty'
  <2>1. \A r \in Servers : /\ phase'[r] = phase[r] \/ (r = s /\ phase'[r] = "aborting")
                           /\ r # s => sess'[r] = sess[r] /\ queue'[r] = queue[r]
    BY <1>13 DEF TypeOK
  <2> QED BY <2>1 DEF LockInv, BootStartsEmpty
<1> QED BY <1>8, <1>14, <1>15, <1>16, HandlesLock

(* Concatenation keeps the head of a queue.                                *)
LEMMA ConcatKeepsHead ==
  ASSUME NEW S, NEW p \in Seq(S), NEW q \in Seq(S), p # << >>
  PROVE  p \o q # << >> /\ Head(p \o q) = Head(p)
<1>1. Len(p) \in Nat /\ Len(p) > 0 /\ Len(q) \in Nat
  OBVIOUS
<1>2. Len(p \o q) = Len(p) + Len(q)
  OBVIOUS
<1>3. p \o q # << >>
  BY <1>1, <1>2
<1>4. (p \o q)[1] = p[1]
  BY <1>1
<1> QED BY <1>3, <1>4

(* Autosave and the stop command keep LockInv: they capture only ready     *)
(* sessions.                                                               *)
LEMMA CaptureAllLock ==
  ASSUME TypeOK, CustodyInv, LockInv, TypeOK', NEW s \in Servers,
         NEW who \in SUBSET ReadyPlayers(s), NEW auto \in BOOLEAN, NEW before,
         before = queue[s] \/ before = WithRecovery(s),
         CaptureAll(s, who, auto, before),
         phase[s] \in {"serving", "halting"},
         phase' = phase \/ phase' = [phase EXCEPT ![s] = "halting"],
         UNCHANGED <<db, issued, sess, ready, pc>>
  PROVE  LockInv'
<1>0. /\ queue \in [Servers -> Seq(Job)] /\ phase \in [Servers -> Phases]
      /\ before \in Seq(Job)
  BY WithRecoveryType DEF TypeOK
<1>1. PICK lost \in SUBSET who :
        /\ journal' = [t \in Token |->
             IF \E x \in who \ lost : sess[s][x] = t THEN Capture(s, t.xuid)
                                                    ELSE journal[t]]
        /\ \E o \in Orders(who \ lost) :
             queue' = [queue EXCEPT ![s] = before \o
               [i \in 1 .. Cardinality(who \ lost) |->
                  Persist(sess[s][o[i]], Capture(s, o[i]), FALSE, auto)]]
  BY DEF CaptureAll
<1>2. ASSUME NEW x \in who
      PROVE  /\ x \in Players /\ sess[s][x] \in Token /\ sess[s][x] \in ready[s]
             /\ sess[s][x].home = s /\ sess[s][x].xuid = x /\ ~Over(sess[s][x])
  <2>1. x \in online[s] /\ x \in Players /\ sess[s][x] \in ready[s]
    BY DEF TypeOK, ReadyPlayers
  <2>2. PICK t \in Token : t = sess[s][x]
    BY <2>1, TokenOfPlayer DEF CustodyInv
  <2>3. t # None
    BY StoreAssumption
  <2>4. t.home = s /\ t.xuid = x
    BY <2>1, <2>2, <2>3 DEF CustodyInv, SessionsAreLocal
  <2>5. ~Over(t)
    BY <2>2, <2>4 DEF Over, Current
  <2> QED BY <2>1, <2>2, <2>4, <2>5
<1>3. ASSUME NEW t \in Token
      PROVE  /\ journal'[t] = journal[t] \/ ~Over(t)
             /\ journal'[t] = None => journal[t] = None
             /\ Over(t) => Over(t)'
  <2>1. journal'[t] = journal[t] \/ (~Over(t) /\ journal'[t] = Capture(s, t.xuid))
    BY <1>1, <1>2
  <2>2. Capture(s, t.xuid) # None
    BY CaptureType, StoreAssumption DEF Token
  <2>3. phase[t.home] = "flushing" => phase'[t.home] = "flushing"
    BY <1>0 DEF Token
  <2>4. Over(t) => Over(t)'
    BY <2>3 DEF Over, Current
  <2> QED BY <2>1, <2>2, <2>4
<1>4. Settles
  BY <1>3 DEF Settles
<1>5. before \in Seq(SettledNext)
  BY <1>4, SettledRecovery, QueuesSettle DEF LockInv, CustodyInv
<1> DEFINE n == Cardinality(who \ lost)
<1>6. PICK o \in Orders(who \ lost) :
        queue' = [queue EXCEPT ![s] = before \o
          [i \in 1 .. n |->
             Persist(sess[s][o[i]], Capture(s, o[i]), FALSE, auto)]]
  BY <1>1
<1> DEFINE jobs == [i \in 1 .. n |->
             Persist(sess[s][o[i]], Capture(s, o[i]), FALSE, auto)]
<1>7. n \in Nat
  <2>1. IsFiniteSet(who \ lost)
    BY <1>2, StoreAssumption, FS_Subset
  <2> QED BY <2>1, FS_CardinalityType
<1>8. \A i \in 1 .. n : o[i] \in who
  BY <1>6 DEF Orders
<1>9. ASSUME NEW x \in who
      PROVE  Persist(sess[s][x], Capture(s, x), FALSE, auto) \in SettledNext
  <2>1. PICK t \in Token : t = sess[s][x]
    BY <1>2
  <2>2. t \in ready'[t.home]
    BY <1>2, <2>1
  <2>3. Capture(s, x) \in Snap
    BY <1>2, CaptureType
  <2>4. Persist(t, Capture(s, x), FALSE, auto) \in SettledNext
    BY <2>2, <2>3, SettledPersist
  <2> QED BY <2>1, <2>4
<1>10. jobs \in Seq(SettledNext)
  <2>1. jobs \in [1 .. n -> SettledNext]
    BY <1>8, <1>9
  <2> HIDE DEF n, jobs
  <2> QED BY <1>7, <2>1, FunctionSeq
<1>11. PICK q : q = before \o jobs
  OBVIOUS
<1>12. q \in Seq(SettledNext)
       /\ (before # << >> => q # << >> /\ Head(q) = Head(before))
  <2> HIDE DEF jobs
  <2>1. before # << >> => q # << >> /\ Head(q) = Head(before)
    BY <1>5, <1>10, <1>11, ConcatKeepsHead
  <2> QED BY <1>5, <1>10, <1>11, <2>1
<1>13. \A r \in Servers : queue'[r] = IF r = s THEN q ELSE queue[r]
  <2>1. queue' = [queue EXCEPT ![s] = q]
    BY <1>6, <1>11
  <2> QED BY <1>0, <2>1
<1>14. \A r \in Servers :
         /\ queue'[r] \in Seq(SettledNext)
         /\ queue[r] # << >> => queue'[r] # << >> /\ Head(queue'[r]) = Head(queue[r])
  <2>1. queue[s] # << >> => before # << >> /\ Head(before) = Head(queue[s])
    BY RecoveryKeepsHead
  <2>2. \A r \in Servers : queue[r] \in Seq(SettledNext)
    BY <1>4, QueuesSettle DEF LockInv, CustodyInv
  <2> QED BY <1>12, <1>13, <2>1, <2>2
<1>15. Handles
  BY <1>3, <1>14 DEF Handles, Known
<1>16. BootStartsEmpty'
  <2>1. \A r \in Servers : /\ r # s => phase'[r] = phase[r]
                           /\ phase'[s] \notin {"down", "booting"}
    BY <1>0
  <2> QED BY <1>13, <2>1 DEF LockInv, BootStartsEmpty
<1> QED BY <1>4, <1>14, <1>15, <1>16, HandlesLock

(* A change of phase keeps LockInv, also one that queues a replay of the   *)
(* whole journal: then every session of the server is over.                *)
LEMMA PhaseLock ==
  ASSUME TypeOK, CustodyInv, LockInv, TypeOK', NEW s \in Servers, NEW p,
         phase' = [phase EXCEPT ![s] = p], p # "down", phase[s] # "flushing",
         p = "booting" => phase[s] = "down",
         \/ queue' = queue
         \/ /\ p = "flushing" \/ phase[s] = "down"
            /\ queue[s] = << >>
            /\ queue' = [queue EXCEPT ![s] = <<Batch(Entries(s, {}), FALSE)>>],
         UNCHANGED <<db, journal, issued, sess, ready, pc>>
  PROVE  LockInv'
<1>0. queue \in [Servers -> Seq(Job)] /\ phase \in [Servers -> Phases]
  BY DEF TypeOK
<1>1. \A r \in Servers : phase'[r] = IF r = s THEN p ELSE phase[r]
  BY <1>0
<1>2. Settles
  <2>1. ASSUME NEW t \in Token, Over(t)
        PROVE  Over(t)'
    <3>1. t.home \in Servers
      BY DEF Token
    <3> QED BY <1>1, <2>1, <3>1 DEF Over, Current
  <2> QED BY <2>1 DEF Settles
<1>3. PICK es : es = Entries(s, {})
  OBVIOUS
<1>4. ASSUME p = "flushing" \/ phase[s] = "down"
      PROVE  Batch(es, FALSE) \in SettledNext
  <2>1. es \in SUBSET Entry
    BY <1>3, EntriesType
  <2>2. ASSUME NEW e \in es
        PROVE  Over(e.token)' /\ journal'[e.token] \in {None, e.snap}
    <3>1. PICK t \in Token : t = e.token /\ t.home = s
      BY <1>3, EntriesKnown DEF CustodyInv
    <3>2. journal[t] = e.snap
      BY <1>3, <3>1 DEF Entries
    <3>3. CASE p = "flushing"
      BY <1>1, <3>1, <3>2, <3>3 DEF Over
    <3>4. CASE phase[s] = "down"
      <4>1. sess[s][t.xuid] = None /\ t # None
        BY <3>4, StoreAssumption DEF LockInv, BootStartsEmpty, Token
      <4> QED BY <3>1, <3>2, <4>1 DEF Over, Current
    <3> QED BY <1>4, <3>3, <3>4
  <2> QED BY <2>1, <2>2, SettledBatch
<1>5. PICK j : j = Batch(es, FALSE)
  OBVIOUS
<1>6. \A r \in Servers :
        \/ queue'[r] = queue[r]
        \/ /\ r = s /\ queue[s] = << >> /\ queue'[s] = <<j>>
           /\ p = "flushing" \/ phase[s] = "down"
  BY <1>0, <1>3, <1>5
<1>7. \A r \in Servers :
        /\ queue'[r] \in Seq(SettledNext)
        /\ queue[r] # << >> => queue'[r] = queue[r]
  <2>1. \A r \in Servers : queue[r] \in Seq(SettledNext)
    BY <1>2, QueuesSettle DEF LockInv, CustodyInv
  <2>2. j \in SettledNext => <<j>> \in Seq(SettledNext)
    OBVIOUS
  <2> QED BY <1>4, <1>5, <1>6, <2>1, <2>2
<1>8. Handles
  BY <1>7 DEF Handles, Known
<1>9. BootStartsEmpty'
  BY <1>1, <1>6 DEF LockInv, BootStartsEmpty
<1> QED BY <1>2, <1>7, <1>8, <1>9, HandlesLock

(* The end of the process keeps LockInv: it ends its sessions.             *)
LEMMA ResetLock ==
  ASSUME TypeOK, CustodyInv, LockInv, TypeOK', NEW s \in Servers, Reset(s)
  PROVE  LockInv'
<1>1. /\ UNCHANGED <<db, journal, issued>>
      /\ \A r \in Servers :
           /\ r = s => /\ queue'[r] = << >> /\ pc'[r] = "idle" /\ ready'[r] = {}
                       /\ \A x \in Players : sess'[r][x] = None
           /\ r # s => /\ queue'[r] = queue[r] /\ pc'[r] = pc[r] /\ ready'[r] = ready[r]
                       /\ sess'[r] = sess[r] /\ phase'[r] = phase[r]
  BY DEF Reset, durable, TypeOK
<1>2. ASSUME NEW t \in Token
      PROVE  /\ Over(t) => Over(t)'
             /\ t \in ready[t.home] => t \in ready'[t.home] \/ Over(t)'
  <2>1. t.home \in Servers /\ t.xuid \in Players /\ t # None
    BY StoreAssumption DEF Token
  <2> QED BY <1>1, <2>1 DEF Over, Current
<1>3. Settles
  BY <1>1, <1>2 DEF Settles
<1>4. \A r \in Servers : queue'[r] \in Seq(SettledNext)
  <2>1. << >> \in Seq(SettledNext)
    OBVIOUS
  <2> QED BY <1>1, <1>3, <2>1, QueuesSettle DEF LockInv, CustodyInv
<1>5. Handles
  BY <1>1 DEF Handles, Known
<1>6. BootStartsEmpty'
  BY <1>1 DEF LockInv, BootStartsEmpty
<1> QED BY <1>3, <1>4, <1>5, <1>6, HandlesLock

(* The quit handler keeps LockInv.                                         *)
LEMMA LeaveLock ==
  ASSUME TypeOK, CustodyInv, LockInv, TypeOK', NEW s \in Servers, NEW x \in online[s],
         Leave(s, x), phase[s] \in {"serving", "halting"}
  PROVE  LockInv'
<1>1. /\ Finish(s, x) \/ FinishRaises(s, x)
      /\ sess' = [sess EXCEPT ![s][x] = None]
      /\ ready' = ready \/ ready' = [ready EXCEPT ![s] = @ \ {sess[s][x]}]
      /\ UNCHANGED <<db, issued, phase, pc>>
  BY DEF Leave
<1> QED BY <1>1, FinishLock

(* Every callback of the scheduler keeps LockInv: a restore makes a        *)
(* session ready only where it owns its row.                               *)
LEMMA TickLock ==
  ASSUME TypeOK, CustodyInv, LockInv, TypeOK', NEW s \in Servers, Tick(s)
  PROVE  LockInv'
<1>1. CASE Apply(s)
  <2>1. PICK k \in tasks[s] :
          /\ Current(k.token) /\ k.token.xuid \in online[s]
          /\ \/ k.kind = "apply" /\ ready' = [ready EXCEPT ![s] = @ \cup {k.token}]
             \/ ready' = ready
    BY <1>1 DEF Apply
  <2>2. UNCHANGED <<db, journal, issued, phase, online, sess, queue, pc>>
    BY <1>1 DEF Apply
  <2>3. PICK t \in Token : t = k.token
    BY <2>1 DEF TypeOK, Task, ApplyTask, RetryTask, KickTask
  <2>4. t.home = s /\ Known(t)
    BY <2>3 DEF CustodyInv, TasksAreKnown
  <2>5. k.kind = "apply" => db[t.xuid].owner = t
    BY <2>1, <2>3, <2>4 DEF CustodyInv, RestoreOwns, Live
  <2>6. \A r \in Servers :
          \/ ready'[r] = ready[r]
          \/ k.kind = "apply" /\ r = s /\ ready'[r] = ready[r] \cup {t}
    BY <2>1, <2>3 DEF TypeOK
  <2>7. Settles
    BY <2>2, <2>6 DEF Settles, Over, Current, Token
  <2>8. Handles
    BY <2>2, <2>4, <2>5, <2>6 DEF Handles, Known
  <2>9. BootStartsEmpty'
    BY <2>2 DEF LockInv, BootStartsEmpty
  <2>10. \A r \in Servers : queue'[r] \in Seq(SettledNext)
    BY <2>2, <2>7, QueuesSettle DEF LockInv, CustodyInv
  <2> QED BY <2>7, <2>8, <2>9, <2>10, HandlesLock
<1>2. CASE Retry(s)
  <2>1. PICK k \in tasks[s] :
          /\ RunTask(s, k) /\ k.kind = "retry"
          /\ \/ queue' = [queue EXCEPT ![s] =
                             Append(WithRecovery(s), Load(k.token, k.tries))]
             \/ queue' = queue
    BY <1>2 DEF Retry
  <2>2. Quiet /\ UNCHANGED <<db, ready, pc>> /\ phase[s] # "down"
    BY <1>2, <2>1 DEF Retry, Quiet, RunTask, Accepting
  <2>3. PICK j : j = Load(k.token, k.tries)
    OBVIOUS
  <2>4. k.token \in Token /\ k.tries \in 0 .. MaxTries
    BY <2>1, IncidentAssumption DEF TypeOK, Task, ApplyTask, RetryTask, KickTask
  <2>5. j \in Job /\ j.kind = "load"
    BY <2>3, <2>4, MakeLoad DEF Load
  <2>6. PICK q : q = WithRecovery(s)
    OBVIOUS
  <2>7. q \in Seq(Job) /\ q \in Seq(SettledNext)
    BY <2>2, <2>6, QuietSettles, SettledRecovery, WithRecoveryType DEF LockInv
  <2>8. Append(q, j) \in Seq(SettledNext)
    BY <2>5, <2>7, SettledOther, SafeSeq
  <2>9. queue[s] # << >> => Append(q, j) # << >> /\ Head(Append(q, j)) = Head(queue[s])
    BY <2>5, <2>6, <2>7, AppendKeepsHead, RecoveryKeepsHead
  <2>10. queue' = queue \/ queue' = [queue EXCEPT ![s] = Append(q, j)]
    BY <2>1, <2>3, <2>6
  <2> QED BY <2>2, <2>8, <2>9, <2>10, QuietLock
<1>3. CASE DropTask(s)
  <2>1. Quiet /\ UNCHANGED <<db, ready, pc, queue>>
    BY <1>3 DEF DropTask, Quiet
  <2> QED BY <2>1, StillLock
<1>4. CASE Kick(s)
  <2>1. PICK k \in tasks[s] :
          RunTask(s, k) /\ k.token.xuid \in online[s] /\ Leave(s, k.token.xuid)
    BY <1>4 DEF Kick
  <2>2. phase[s] \in {"serving", "halting"}
    BY <2>1 DEF RunTask, Accepting
  <2> QED BY <2>1, <2>2, LeaveLock
<1> QED BY <1>1, <1>2, <1>3, <1>4 DEF Tick

(* Every step of the main thread keeps LockInv.                            *)
LEMMA MainLock ==
  ASSUME TypeOK, CustodyInv, LockInv, TypeOK', NEW s \in Servers, Main(s)
  PROVE  LockInv'
<1>1. CASE Tick(s)
  BY <1>1, TickLock
<1>2. CASE Autosave(s)
  <2> DEFINE due == {x \in ReadyPlayers(s) : ~AutosavePending(s, sess[s][x])}
  <2>1. /\ UNCHANGED <<db, issued, phase, sess, ready, pc>>
        /\ phase[s] \in {"serving", "halting"}
        /\ CaptureAll(s, due, TRUE, WithRecovery(s))
    BY <1>2 DEF Autosave, Accepting
  <2>2. due \in SUBSET ReadyPlayers(s)
    OBVIOUS
  <2> HIDE DEF due
  <2> QED BY <2>1, <2>2, CaptureAllLock
<1>3. CASE \E refused \in BOOLEAN : StopCommand(s, refused)
  <2>1. PICK refused \in BOOLEAN : StopCommand(s, refused)
    BY <1>3
  <2>2. /\ UNCHANGED <<db, issued, sess, ready, pc>> /\ phase[s] = "serving"
        /\ CaptureAll(s, ReadyPlayers(s), FALSE, queue[s])
        /\ phase' = [phase EXCEPT ![s] = IF refused THEN @ ELSE "halting"]
    BY <2>1 DEF StopCommand
  <2>3. phase' = phase \/ phase' = [phase EXCEPT ![s] = "halting"]
    BY <2>2 DEF TypeOK
  <2> QED BY <2>2, <2>3, CaptureAllLock
<1>4. CASE Vanish(s)
  <2>1. UNCHANGED <<db, journal, issued, phase, sess, ready, queue, pc>>
    BY <1>4 DEF Vanish, durable
  <2>2. Settles
    BY <2>1 DEF Settles, Over, Current
  <2>3. Handles
    BY <2>1 DEF Handles, Known
  <2>4. BootStartsEmpty'
    BY <2>1 DEF LockInv, BootStartsEmpty
  <2>5. \A r \in Servers : queue'[r] \in Seq(SettledNext)
    BY <2>1, <2>2, QueuesSettle DEF LockInv, CustodyInv
  <2> QED BY <2>2, <2>3, <2>4, <2>5, HandlesLock
<1>5. CASE Disable(s) \/ DisableFlush(s) \/ Boot(s)
  <2>1. PICK p : /\ phase' = [phase EXCEPT ![s] = p] /\ p # "down"
                 /\ p = "booting" => phase[s] = "down"
                 /\ \/ queue' = queue
                    \/ /\ p = "flushing" /\ queue[s] = << >>
                       /\ queue' = [queue EXCEPT ![s] = <<Batch(Entries(s, {}), FALSE)>>]
                    \/ /\ phase[s] = "down"
                       /\ queue' = [queue EXCEPT ![s] = <<Batch(Entries(s, {}), FALSE)>>]
    BY <1>5 DEF Disable, DisableFlush, Boot
  <2>2. /\ UNCHANGED <<db, journal, issued, sess, ready, pc>> /\ phase[s] # "flushing"
    BY <1>5 DEF Disable, DisableFlush, Boot, durable
  <2>3. phase[s] = "down" => queue[s] = << >>
    BY DEF LockInv, BootStartsEmpty
  <2> QED BY <2>1, <2>2, <2>3, PhaseLock
<1>6. CASE DisableFinish(s)
  <2>1. PICK x \in online[s] :
          /\ phase[s] = "disabling"
          /\ Finish(s, x) \/ FinishRaises(s, x)
          /\ phase' = phase \/ phase' = [phase EXCEPT ![s] = "aborting"]
          /\ sess' = [sess EXCEPT ![s][x] = None]
    BY <1>6 DEF DisableFinish
  <2>2. UNCHANGED <<db, issued, ready, pc>>
    BY <1>6 DEF DisableFinish
  <2> QED BY <2>1, <2>2, FinishLock
<1>7. CASE Exit(s) \/ Crash(s)
  BY <1>7, ResetLock DEF Exit, Crash
<1> QED BY <1>1, <1>2, <1>3, <1>4, <1>5, <1>6, <1>7 DEF Main

(* Every step keeps LockInv.                                               *)
LEMMA LockStep ==
  ASSUME TypeOK, CustodyInv, LockInv, TypeOK', [Next]_vars
  PROVE  LockInv'
<1>1. CASE UNCHANGED vars
  <2>1. Quiet /\ UNCHANGED <<db, ready, pc, queue>>
    BY <1>1 DEF vars, durable, volatile, Quiet
  <2> QED BY <2>1, StillLock
<1>2. ASSUME NEW s \in Servers, NEW x \in Players, Quit(s, x)
      PROVE  LockInv'
  BY <1>2, LeaveLock DEF Quit, Accepting
<1> QED BY <1>1, <1>2, WorkerLock, MainLock, ClientLock DEF Next

(* LockInv holds initially: no row is locked and nothing is queued.        *)
LEMMA InitLock == Init => LockInv
<1> SUFFICES ASSUME Init
             PROVE  LockInv
  OBVIOUS
<1>1. OwnersAreLocal /\ OwnedRowRecoverable /\ BootStartsEmpty
  BY DEF Init, OwnersAreLocal, OwnedRowRecoverable, BootStartsEmpty
<1>2. QueuesAreSettled /\ ReadyIsKnown /\ ReadyOwns /\ WorkerStands
  BY DEF Init, QueuesAreSettled, ReadyIsKnown, ReadyOwns, WorkerStands, Stands
<1>3. CurrentIsJournaled
  BY StoreAssumption DEF Init, CurrentIsJournaled, Over, Current, Token
<1> QED BY <1>1, <1>2, <1>3 DEF LockInv

----------------------------------------------------------------------------
(* The types, the custody invariant and the lock invariant hold in every   *)
(* state of the plugin, on any number of servers.                          *)
THEOREM LockInvariant == Spec => [](TypeOK /\ CustodyInv /\ LockInv)
<1>1. Init => LockInv
  BY InitLock
<1>2. TypeOK /\ CustodyInv /\ LockInv /\ TypeOK' /\ [Next]_vars => LockInv'
  BY LockStep
<1> QED BY <1>1, <1>2, CustodyInvariant, PTL DEF Spec

(* A locked row can always be given back: the home server of the token in  *)
(* it has a journal row for that token, whatever failed or crashed.        *)
THEOREM Recoverable == Spec => []OwnedRowRecoverable
<1>1. LockInv => OwnedRowRecoverable
  BY DEF LockInv
<1> QED BY <1>1, LockInvariant, PTL

(* Only save() of a snapshot job gives a row back, so that a row is        *)
(* released with the newest payload of the session's journal, and never    *)
(* from one that is marked capture_failed.                                 *)
LEMMA ReleaseStep ==
  ASSUME TypeOK, CustodyInv, LockInv, [Next]_vars, NEW x \in Players, Releases(x)
  PROVE  LET snap == journal[db[x].owner]
         IN  ~snap.failed /\ (snap.stamp # 0 => db'[x].inv = snap.stamp)
<1>1. db' # db
  BY DEF Releases
<1>2. PICK s \in Servers : Worker(s)
  <2>1. ASSUME NEW s \in Servers, Main(s) \/ \E y \in Players : Client(s, y)
        PROVE  db' = db
    BY <2>1 DEF Main, Client, Tick, Apply, Retry, DropTask, Kick, Leave, Autosave,
        StopCommand, Vanish, Disable, DisableFinish, DisableFlush, Exit, Crash, Reset,
        Boot, BeginJoin, JoinUnjournaled, Quit, Play, PlayUnmanaged, PackPending,
        PackRecovered, LegacyCommand, durable
  <2>2. ~UNCHANGED vars
    BY <1>1 DEF vars, durable
  <2> QED BY <1>1, <2>1, <2>2 DEF Next
<1>3. PICK job : job = Head(queue[s])
  OBVIOUS
<1>4. db[x].owner # None /\ db'[x].owner = None
  BY DEF Releases
<1>5. /\ job.token \in Token /\ Save(s) /\ db[x].owner = job.token /\ job.release
      /\ db'[x] = Saved(db[x], job.snap, TRUE)
  <2>1. job.token # None \/ job.token \notin Token
    BY StoreAssumption
  <2> QED BY <1>2, <1>3, <1>4, <2>1, WorkerRows
<1>6. job.kind \in {"persist", "recover"} /\ queue[s] # << >> /\ pc[s] = "save"
  BY <1>3, <1>5 DEF Save, At
<1>7. job \in Job /\ Settled(job)
  BY <1>3, <1>6, HeadSettled DEF CustodyInv, LockInv
<1>8. journal[job.token] \in {None, job.snap}
  BY <1>5, <1>6, <1>7, ReleaseIsOver
<1>9. journal[job.token] # None
  BY <1>4, <1>5 DEF LockInv, OwnedRowRecoverable
<1>10. ~job.snap.failed
  BY <1>3, <1>6 DEF LockInv, WorkerStands, Stands
<1> QED BY <1>5, <1>8, <1>9, <1>10 DEF Saved

(* A row is released together with the newest payload of its journal, and  *)
(* never from a payload marked capture_failed.                             *)
THEOREM ReleasesNewest == Spec => ReleaseIsCurrent
<1>1. TypeOK /\ CustodyInv /\ LockInv /\ [Next]_vars =>
        [\A x \in Players : Releases(x) =>
           LET snap == journal[db[x].owner]
           IN  /\ ~snap.failed
               /\ snap.stamp # 0 => db'[x].inv = snap.stamp]_vars
  BY ReleaseStep
<1> QED BY <1>1, LockInvariant, PTL DEF Spec, ReleaseIsCurrent
=============================================================================
