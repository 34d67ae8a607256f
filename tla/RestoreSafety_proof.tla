------------------------- MODULE RestoreSafety_proof -------------------------
(***************************************************************************)
(* Proofs about InventoryShare: a restore that runs for a waiting player   *)
(* carries the fields the shared row still has; the saved fields never go  *)
(* back to an earlier inventory of the player; where the journal can be    *)
(* written at the end of a session, it is released with exactly what its   *)
(* player then carried; and no login is forgotten.                         *)
(***************************************************************************)
EXTENDS LockSafety_proof

----------------------------------------------------------------------------
(* The load jobs of a queue.                                               *)

AtMostOne(S) == \A i, j \in S : i = j

(* p has no load of a session that q has not.                              *)
Fewer(p, q) ==
  \A t \in Token : /\ LoadsIn(q, t) = {} => LoadsIn(p, t) = {}
                   /\ AtMostOne(LoadsIn(q, t)) => AtMostOne(LoadsIn(p, t))

(* The loads of the rest of a queue are those of the queue, moved up.      *)
LEMMA TailLoads ==
  ASSUME NEW q \in Seq(Job), q # << >>, NEW t
  PROVE  /\ \A i \in LoadsIn(Tail(q), t) : i + 1 \in LoadsIn(q, t) /\ i \in Nat /\ i > 0
         /\ 1 \in LoadsIn(q, t) <=> Head(q).kind = "load" /\ Head(q).token = t
<1>1. /\ Len(q) \in Nat /\ Len(q) > 0 /\ Len(Tail(q)) = Len(q) - 1
      /\ \A i \in 1 .. Len(q) - 1 : Tail(q)[i] = q[i + 1]
      /\ Head(q) = q[1]
  OBVIOUS
<1> QED BY <1>1 DEF LoadsIn

(* The worker drops a job.                                                 *)
LEMMA TailFewer ==
  ASSUME NEW q \in Seq(Job), q # << >>
  PROVE  Fewer(Tail(q), q)
<1> SUFFICES ASSUME NEW t \in Token
             PROVE  /\ LoadsIn(q, t) = {} => LoadsIn(Tail(q), t) = {}
                    /\ AtMostOne(LoadsIn(q, t)) => AtMostOne(LoadsIn(Tail(q), t))
  BY DEF Fewer
<1>1. \A i \in LoadsIn(Tail(q), t) : i + 1 \in LoadsIn(q, t) /\ i \in Nat
  BY TailLoads
<1> QED BY <1>1 DEF AtMostOne

(* Jobs that are no loads are put behind the others.                       *)
LEMMA ConcatFewer ==
  ASSUME NEW q \in Seq(Job), NEW p \in Seq(Job),
         \A i \in 1 .. Len(p) : p[i].kind # "load"
  PROVE  Fewer(q \o p, q)
<1>1. /\ Len(q) \in Nat /\ Len(p) \in Nat /\ Len(q \o p) = Len(q) + Len(p)
      /\ \A i \in 1 .. Len(q) + Len(p) :
           (q \o p)[i] = IF i <= Len(q) THEN q[i] ELSE p[i - Len(q)]
  OBVIOUS
<1>2. ASSUME NEW t \in Token
      PROVE  LoadsIn(q \o p, t) \subseteq LoadsIn(q, t)
  BY <1>1 DEF LoadsIn
<1> QED BY <1>2 DEF Fewer, AtMostOne

(* One such job is put behind the others.                                  *)
LEMMA AppendFewer ==
  ASSUME NEW q \in Seq(Job), NEW j \in Job, j.kind # "load"
  PROVE  Fewer(Append(q, j), q)
<1>1. /\ Len(q) \in Nat /\ Len(Append(q, j)) = Len(q) + 1
      /\ \A i \in 1 .. Len(q) + 1 :
           Append(q, j)[i] = IF i <= Len(q) THEN q[i] ELSE j
  OBVIOUS
<1>2. ASSUME NEW t \in Token
      PROVE  LoadsIn(Append(q, j), t) \subseteq LoadsIn(q, t)
  BY <1>1 DEF LoadsIn
<1> QED BY <1>2 DEF Fewer, AtMostOne

(* What is in front of a queue comes first.                                *)
LEMMA Prepend ==
  ASSUME NEW S, NEW p \in Seq(S), NEW j \in S
  PROVE  /\ Len(p) \in Nat /\ Len(<<j>> \o p) = Len(p) + 1
         /\ \A i \in 1 .. Len(p) + 1 :
              (<<j>> \o p)[i] = IF i = 1 THEN j ELSE p[i - 1]
  OBVIOUS

(* The job in progress is replaced by one that is no load.                 *)
LEMMA ReplaceFewer ==
  ASSUME NEW q \in Seq(Job), q # << >>, NEW j, j.kind # "load"
  PROVE  Fewer(<<j>> \o Tail(q), q)
<1>0. Tail(q) \in Seq(Job)
  OBVIOUS
<1>1. PICK p \in Seq(Job) : p = Tail(q)
  BY <1>0
<1>2. Len(q) = Len(p) + 1 /\ \A i \in 1 .. Len(p) : p[i] = q[i + 1]
  BY <1>1
<1>3. /\ Len(p) \in Nat /\ Len(<<j>> \o p) = Len(p) + 1
      /\ \A i \in 1 .. Len(p) + 1 : (<<j>> \o p)[i] = IF i = 1 THEN j ELSE p[i - 1]
  <2>1. PICK S : S = Job \cup {j}
    OBVIOUS
  <2>2. p \in Seq(S) /\ j \in S
    BY <2>1
  <2> QED BY <2>2, Prepend
<1>4. ASSUME NEW t \in Token
      PROVE  LoadsIn(<<j>> \o p, t) \subseteq LoadsIn(q, t)
  <2> SUFFICES ASSUME NEW i \in LoadsIn(<<j>> \o p, t)
               PROVE  i \in LoadsIn(q, t)
    OBVIOUS
  <2>1. i \in 1 .. Len(p) + 1 /\ (<<j>> \o p)[i].kind = "load"
        /\ (<<j>> \o p)[i].token = t
    BY <1>3 DEF LoadsIn
  <2>2. i # 1
    BY <1>3, <2>1
  <2>3. i - 1 \in 1 .. Len(p) /\ (<<j>> \o p)[i] = p[i - 1]
    BY <1>3, <2>1, <2>2
  <2>4. p[i - 1] = q[i]
    BY <1>2, <2>1, <2>3
  <2> QED BY <1>2, <1>3, <2>1, <2>3, <2>4 DEF LoadsIn
<1> QED BY <1>1, <1>4 DEF Fewer, AtMostOne

(* A queue of one recovery, or an empty one, has no loads.                 *)
LEMMA EmptyFewer ==
  ASSUME NEW q
  PROVE  /\ Fewer(<< >>, q) /\ Fewer(q, q)
         /\ \A j \in Job : j.kind # "load" => Fewer(<<j>>, q)
<1>1. \A t \in Token : LoadsIn(<< >>, t) = {}
  BY DEF LoadsIn
<1>2. \A j \in Job, t \in Token : j.kind # "load" => LoadsIn(<<j>>, t) = {}
  BY DEF LoadsIn
<1> QED BY <1>1, <1>2 DEF Fewer, AtMostOne

(* A queue is changed in two such ways.                                    *)
LEMMA FewerTransitive ==
  ASSUME NEW p, NEW q, NEW u, Fewer(p, q), Fewer(q, u)
  PROVE  Fewer(p, u)
  BY DEF Fewer

(* _queue_inactive_recovery adds no load.                                  *)
LEMMA RecoveryFewer ==
  ASSUME TypeOK, NEW s \in Servers
  PROVE  Fewer(WithRecovery(s), queue[s])
<1>1. PICK j : j = Batch(Entries(s, ActiveTokens(s)), FALSE)
  OBVIOUS
<1>3. j \in Job /\ j.kind # "load"
  BY <1>1, EntriesType, MakeBatch DEF Batch
<1>2. queue[s] \in Seq(Job)
  BY DEF TypeOK
<1> QED BY <1>1, <1>2, <1>3, AppendFewer, EmptyFewer DEF WithRecovery

(* A load is the only one of its session if there was none.                *)
LEMMA AppendLoad ==
  ASSUME NEW q \in Seq(Job), NEW j \in Job, NEW t \in Token, j.token = t,
         LoadsIn(q, t) = {}
  PROVE  /\ AtMostOne(LoadsIn(Append(q, j), t))
         /\ \A u \in Token : u # t => LoadsIn(Append(q, j), u) = LoadsIn(q, u)
<1>1. /\ Len(q) \in Nat /\ Len(Append(q, j)) = Len(q) + 1
      /\ \A i \in 1 .. Len(q) + 1 :
           Append(q, j)[i] = IF i <= Len(q) THEN q[i] ELSE j
  OBVIOUS
<1>2. \A i \in LoadsIn(Append(q, j), t) : i = Len(q) + 1
  BY <1>1 DEF LoadsIn
<1>3. \A u \in Token : u # t => LoadsIn(Append(q, j), u) = LoadsIn(q, u)
  BY <1>1 DEF LoadsIn
<1> QED BY <1>2, <1>3 DEF AtMostOne

----------------------------------------------------------------------------
(* OneWait.                                                                *)

(* Nobody begins to wait: no load is queued, no restore or retry scheduled *)
(* and no session becomes ready.                                           *)
NoNewWait(r) ==
  /\ Fewer(queue'[r], queue[r])
  /\ \A k \in tasks'[r] : k.kind = "kick" \/ k \in tasks[r]
  /\ ready'[r] \subseteq ready[r]

(* The part of OneWait about one session on one server.                    *)
WaitsOnce(s, t) ==
  /\ AtMostOne(Loads(s, t)) /\ AtMostOne(Waits(s, t))
  /\ Loads(s, t) = {} \/ Waits(s, t) = {}
  /\ t \in ready[s] => Loads(s, t) = {} /\ Waits(s, t) = {}

(* OneWait is that about all of them.                                      *)
LEMMA OneWaitParts ==
  OneWait <=> \A s \in Servers, t \in Token : WaitsOnce(s, t)
  BY DEF OneWait, WaitsOnce, AtMostOne

(* The same of the next state.                                             *)
LEMMA OneWaitNext ==
  ASSUME \A s \in Servers, t \in Token : WaitsOnce(s, t)'
  PROVE  OneWait'
  BY DEF OneWait, WaitsOnce, AtMostOne

(* Where nobody begins to wait, they wait in one place.                    *)
LEMMA NoNewWaits ==
  ASSUME NEW r \in Servers, NEW t \in Token, WaitsOnce(r, t), NoNewWait(r)
  PROVE  WaitsOnce(r, t)'
<1>1. Waits(r, t)' \subseteq Waits(r, t)
  BY DEF NoNewWait, Waits
<1>2. /\ Loads(r, t) = {} => Loads(r, t)' = {}
      /\ AtMostOne(Loads(r, t)) => AtMostOne(Loads(r, t)')
  BY DEF NoNewWait, Fewer, Loads, LoadsIn
<1> QED BY <1>1, <1>2 DEF WaitsOnce, NoNewWait, AtMostOne

(* The steps of the other servers do not concern a server's logins.        *)
LEMMA UnmovedWaits ==
  ASSUME NEW r \in Servers, queue'[r] = queue[r], tasks'[r] = tasks[r],
         ready'[r] = ready[r]
  PROVE  NoNewWait(r)
  BY EmptyFewer DEF NoNewWait

(* Every worker step keeps OneWait: a load that is done is replaced by at  *)
(* most one callback.                                                      *)
LEMMA WorkerWaits ==
  ASSUME TypeOK, CustodyInv, OneWait, NEW s \in Servers, Worker(s)
  PROVE  OneWait'
<1>0. /\ queue \in [Servers -> Seq(Job)] /\ tasks \in [Servers -> SUBSET Task]
      /\ pc \in [Servers -> {"idle", "claim", "save", "remove"}]
  BY DEF TypeOK
<1>1. \A r \in Servers, t \in Token : WaitsOnce(r, t)
  BY OneWaitParts
<1>2. queue[s] # << >> /\ ready' = ready
  BY WorkerFrames DEF Worker, TakeLoad, Claim, CheckStorage, Save, RemoveRow,
     RecoverNext, RecoverDone, ReleaseLegacy, At, WorkerFrame
<1>3. \A r \in Servers : r # s => queue'[r] = queue[r] /\ tasks'[r] = tasks[r]
  BY <1>0 DEF Worker, TakeLoad, Claim, CheckStorage, Save, RemoveRow, RecoverNext,
     RecoverDone, ReleaseLegacy, LoadFails, GiveUp, EndSnapshot, Drop, Schedule
<1>4. PICK q \in Seq(Job) : q = queue[s] /\ q # << >>
  BY <1>0, <1>2
<1>5. PICK job \in Job : job = Head(q)
  BY <1>4
<1>6. Fewer(queue'[s], queue[s])
  <2>1. \/ queue'[s] = q \/ queue'[s] = Tail(q)
        \/ \E j : j.kind # "load" /\ queue'[s] = <<j>> \o Tail(q)
    <3>1. ASSUME NEW todo, NEW f, EndSnapshot(s, todo, f)
          PROVE  \/ queue'[s] = Tail(q)
                 \/ \E j : j.kind # "load" /\ queue'[s] = <<j>> \o Tail(q)
      <4>1. PICK j : j = Batch(todo, job.failed \/ f)
        OBVIOUS
      <4>2. j.kind = "batch"
        BY <4>1 DEF Batch
      <4>3. queue'[s] = Tail(q) \/ queue'[s] = <<j>> \o Tail(q)
        BY <1>0, <1>4, <1>5, <3>1, <4>1 DEF EndSnapshot
      <4> QED BY <4>2, <4>3
    <3>2. CASE CheckStorage(s) \/ Save(s) \/ RemoveRow(s)
      <4>1. queue' = queue \/ Drop(s) \/ \E todo, f : EndSnapshot(s, todo, f)
        BY <3>2 DEF CheckStorage, Save, RemoveRow, GiveUp
      <4>2. Drop(s) => queue'[s] = Tail(q)
        BY <1>0, <1>4 DEF Drop
      <4> QED BY <1>4, <3>1, <4>1, <4>2
    <3>3. CASE TakeLoad(s) \/ Claim(s) \/ RecoverDone(s) \/ ReleaseLegacy(s)
      BY <1>0, <1>4, <3>3 DEF TakeLoad, Claim, RecoverDone, ReleaseLegacy, Drop, LoadFails
    <3>4. CASE RecoverNext(s)
      <4>1. PICK e : queue' = [queue EXCEPT ![s] =
                       <<Recover(e, job.todo \ {e}, job.failed)>> \o Tail(q)]
        BY <1>4, <1>5, <3>4 DEF RecoverNext
      <4>2. PICK j : j = Recover(e, job.todo \ {e}, job.failed)
        OBVIOUS
      <4>3. j.kind = "recover" /\ queue'[s] = <<j>> \o Tail(q)
        BY <1>0, <4>1, <4>2 DEF Recover
      <4> QED BY <4>3
    <3> QED BY <3>2, <3>3, <3>4 DEF Worker
  <2> QED BY <1>4, <2>1, EmptyFewer, TailFewer, ReplaceFewer
<1>7. ASSUME ~Claim(s)
      PROVE  OneWait'
  <2>1. tasks' = tasks
    BY <1>7 DEF Worker, TakeLoad, CheckStorage, Save, RemoveRow, RecoverNext,
       RecoverDone, ReleaseLegacy
  <2>2. \A r \in Servers : NoNewWait(r)
    BY <1>2, <1>3, <1>6, <2>1, EmptyFewer DEF NoNewWait
  <2>3. \A r \in Servers, t \in Token : WaitsOnce(r, t)'
    BY <1>1, <2>2, NoNewWaits
  <2> QED BY <2>3, OneWaitNext
<1>8. ASSUME Claim(s)
      PROVE  OneWait'
  <2>1. job.kind = "load" /\ queue'[s] = Tail(q)
    BY <1>0, <1>4, <1>5, <1>8 DEF Claim, At, Drop, LoadFails
  <2>2. PICK t \in Token : t = job.token
    BY <2>1, JobKinds DEF LoadJob
  <2>3. \E k : k.token = t /\ tasks'[s] \subseteq tasks[s] \cup {k}
    <3>1. \A k : Schedule(s, k) => tasks'[s] \subseteq tasks[s] \cup {k}
      BY <1>0 DEF Schedule
    <3>2. \E k : k.token = t /\ Schedule(s, k)
      <4>1. \/ \E i : Schedule(s, [kind |-> "apply", token |-> t, inv |-> i])
            \/ Schedule(s, [kind |-> "kick", token |-> t])
            \/ \E n : Schedule(s, [kind |-> "retry", token |-> t, tries |-> n])
        BY <1>4, <1>5, <1>8, <2>2 DEF Claim, LoadFails
      <4>2. /\ \A i : [kind |-> "apply", token |-> t, inv |-> i].token = t
            /\ [kind |-> "kick", token |-> t].token = t
            /\ \A n : [kind |-> "retry", token |-> t, tries |-> n].token = t
        OBVIOUS
      <4> QED BY <4>1, <4>2
    <3> QED BY <3>1, <3>2
  <2>4. PICK k : k.token = t /\ tasks'[s] \subseteq tasks[s] \cup {k}
    BY <2>3
  <2>5. 1 \in Loads(s, t) /\ WaitsOnce(s, t)
    BY <1>1, <1>4, <1>5, <2>1, <2>2, TailLoads DEF Loads
  <2>6. Loads(s, t)' = {}
    <3>1. Loads(s, t)' = LoadsIn(Tail(q), t)
      BY <2>1 DEF Loads, LoadsIn
    <3>2. \A i \in LoadsIn(Tail(q), t) : i + 1 \in Loads(s, t) /\ i \in Nat /\ i > 0
      BY <1>4, TailLoads DEF Loads
    <3> QED BY <2>5, <3>1, <3>2 DEF WaitsOnce, AtMostOne
  <2>7. Waits(s, t) = {} /\ t \notin ready[s]
    BY <2>5 DEF WaitsOnce
  <2>8. WaitsOnce(s, t)'
    <3>1. Waits(s, t)' \subseteq {k}
      BY <2>4, <2>7 DEF Waits
    <3> QED BY <1>2, <2>6, <2>7, <3>1 DEF WaitsOnce, AtMostOne
  <2>9. ASSUME NEW r \in Servers, NEW u \in Token, r # s \/ u # t
        PROVE  WaitsOnce(r, u)'
    <3>1. CASE r # s
      <4>1. NoNewWait(r)
        BY <1>2, <1>3, <3>1, UnmovedWaits
      <4> QED BY <1>1, <4>1, NoNewWaits
    <3>2. CASE r = s /\ u # t
      <4>1. Waits(s, u)' \subseteq Waits(s, u)
        BY <2>4, <3>2 DEF Waits
      <4>2. /\ Loads(s, u) = {} => Loads(s, u)' = {}
            /\ AtMostOne(Loads(s, u)) => AtMostOne(Loads(s, u)')
        BY <1>6 DEF Fewer, Loads, LoadsIn
      <4>3. WaitsOnce(s, u)
        BY <1>1
      <4> QED BY <1>2, <3>2, <4>1, <4>2, <4>3 DEF WaitsOnce, AtMostOne
    <3> QED BY <2>9, <3>1, <3>2
  <2> QED BY <2>8, <2>9, OneWaitNext
<1> QED BY <1>7, <1>8

(* A step in which nobody begins to wait keeps OneWait.                    *)
LEMMA StillWaits ==
  ASSUME OneWait, \A r \in Servers : NoNewWait(r)
  PROVE  OneWait'
<1>1. \A r \in Servers, t \in Token : WaitsOnce(r, t)'
  BY OneWaitParts, NoNewWaits
<1> QED BY <1>1, OneWaitNext

(* Likewise a step that extends one queue by jobs that are no loads.       *)
LEMMA QueuedWaits ==
  ASSUME TypeOK, OneWait, NEW s \in Servers, NEW q, Fewer(q, queue[s]),
         queue' = queue \/ queue' = [queue EXCEPT ![s] = q],
         \A r \in Servers : /\ \A k \in tasks'[r] : k.kind = "kick" \/ k \in tasks[r]
                            /\ ready'[r] \subseteq ready[r]
  PROVE  OneWait'
<1>1. \A r \in Servers : Fewer(queue'[r], queue[r])
  <2>1. \A r \in Servers : queue'[r] = queue[r] \/ (r = s /\ queue'[r] = q)
    BY DEF TypeOK
  <2> QED BY <2>1, EmptyFewer
<1>2. \A r \in Servers : NoNewWait(r)
  BY <1>1 DEF NoNewWait
<1> QED BY <1>2, StillWaits

(* A session that starts to wait with a load job: nothing else is queued   *)
(* or scheduled for it.                                                    *)
LEMMA LoadWaits ==
  ASSUME TypeOK, OneWait, NEW s \in Servers, NEW t \in Token,
         NEW q \in Seq(Job), Fewer(q, queue[s]), NEW j \in Job, j.token = t,
         queue' = [queue EXCEPT ![s] = Append(q, j)],
         Loads(s, t) = {}, Waits(s, t)' = {}, t \notin ready[s],
         UNCHANGED ready, \A r \in Servers : tasks'[r] \subseteq tasks[r]
  PROVE  OneWait'
<1>1. \A r \in Servers, u \in Token : WaitsOnce(r, u)
  BY OneWaitParts
<1>2. \A r \in Servers : r # s => queue'[r] = queue[r]
  BY DEF TypeOK
<1>3. PICK p : p = Append(q, j)
  OBVIOUS
<1>4. queue'[s] = p
  BY <1>3 DEF TypeOK
<1>5. LoadsIn(q, t) = {}
  BY DEF Loads, Fewer
<1>6. /\ AtMostOne(LoadsIn(p, t))
      /\ \A u \in Token : u # t => LoadsIn(p, u) = LoadsIn(q, u)
  BY <1>3, <1>5, AppendLoad
<1>7. \A u \in Token : Loads(s, u)' = LoadsIn(p, u)
  BY <1>4 DEF Loads, LoadsIn
<1>8. WaitsOnce(s, t)'
  BY <1>6, <1>7 DEF WaitsOnce, AtMostOne
<1>9. ASSUME NEW r \in Servers, NEW u \in Token, r # s \/ u # t
      PROVE  WaitsOnce(r, u)'
  <2>1. Waits(r, u)' \subseteq Waits(r, u)
    BY DEF Waits
  <2>2. /\ Loads(r, u) = {} => Loads(r, u)' = {}
        /\ AtMostOne(Loads(r, u)) => AtMostOne(Loads(r, u)')
    <3>1. CASE r # s
      <4>1. Loads(r, u)' = Loads(r, u)
        BY <1>2, <3>1 DEF Loads, LoadsIn
      <4> QED BY <4>1
    <3>2. CASE r = s /\ u # t
      <4>1. Loads(s, u)' = LoadsIn(q, u)
        BY <1>6, <1>7, <3>2
      <4> QED BY <3>2, <4>1 DEF Fewer, Loads
    <3> QED BY <1>9, <3>1, <3>2
  <2>3. WaitsOnce(r, u)
    BY <1>1
  <2> QED BY <2>1, <2>2, <2>3 DEF WaitsOnce, AtMostOne
<1> QED BY <1>8, <1>9, OneWaitNext

(* A login starts to wait with its load: its token is new.                 *)
LEMMA BeginJoinWaits ==
  ASSUME TypeOK, CustodyInv, LockInv, OneWait, NEW s \in Servers, NEW x \in Players,
         BeginJoin(s, x)
  PROVE  OneWait'
<1>1. PICK t : t = NewToken(s, x)
  OBVIOUS
<1>2. t \in Token /\ t.home = s /\ ~Known(t)
  BY <1>1, FreshToken
<1>3. PICK j : j = Load(t, 0)
  OBVIOUS
<1>4. j \in Job /\ j.token = t
  BY <1>2, <1>3, IncidentAssumption, MakeLoad DEF Load
<1>5. PICK q : q = WithRecovery(s)
  OBVIOUS
<1>6. q \in Seq(Job) /\ Fewer(q, queue[s])
  BY <1>5, WithRecoveryType, RecoveryFewer
<1>7. queue' = [queue EXCEPT ![s] = Append(q, j)] /\ UNCHANGED <<ready, tasks>>
  BY <1>1, <1>3, <1>5 DEF BeginJoin
<1>8. Loads(s, t) = {}
  BY <1>2 DEF CustodyInv, QueuesAreSafe, JobIsSafe, Loads, LoadsIn
<1>9. Waits(s, t)' = {}
  BY <1>2, <1>7 DEF CustodyInv, TasksAreKnown, Waits
<1>10. t \notin ready[s]
  BY <1>2 DEF LockInv, ReadyIsKnown
<1> QED BY <1>2, <1>4, <1>6, <1>7, <1>8, <1>9, <1>10, LoadWaits

(* What players, the operator and the backpacks do keeps OneWait.          *)
LEMMA ClientWaits ==
  ASSUME TypeOK, CustodyInv, LockInv, OneWait, NEW s \in Servers, NEW x \in Players,
         Client(s, x), ~Quit(s, x)
  PROVE  OneWait'
<1>1. CASE BeginJoin(s, x)
  BY <1>1, BeginJoinWaits
<1>2. CASE JoinUnjournaled(s, x)
  <2>1. queue' = queue \/ queue' = [queue EXCEPT ![s] = WithRecovery(s)]
    BY <1>2 DEF JoinUnjournaled
  <2>2. UNCHANGED <<ready, tasks>>
    BY <1>2 DEF JoinUnjournaled
  <2> QED BY <2>1, <2>2, RecoveryFewer, QueuedWaits
<1>3. CASE Play(s, x) \/ PlayUnmanaged(s, x) \/ PackPending(s, x)
           \/ PackRecovered(s, x)
  <2>1. UNCHANGED <<queue, ready, tasks>>
    BY <1>3 DEF Play, PlayUnmanaged, PackPending, PackRecovered, volatile
  <2> QED BY <2>1, StillWaits, UnmovedWaits
<1>4. CASE LegacyCommand(s, x)
  <2>1. PICK j : j = [kind |-> "legacy", xuid |-> x]
    OBVIOUS
  <2>2. j \in Job /\ j.kind # "load" /\ queue[s] \in Seq(Job)
    BY <2>1, MakeLegacy DEF TypeOK
  <2>3. queue' = [queue EXCEPT ![s] = Append(queue[s], j)] /\ UNCHANGED <<ready, tasks>>
    BY <1>4, <2>1 DEF LegacyCommand
  <2>4. Fewer(Append(queue[s], j), queue[s])
    BY <2>2, AppendFewer
  <2> QED BY <2>3, <2>4, QueuedWaits
<1> QED BY <1>1, <1>2, <1>3, <1>4 DEF Client

(* The end of a session keeps OneWait: only its last snapshot is queued.   *)
LEMMA FinishWaits ==
  ASSUME TypeOK, CustodyInv, OneWait, NEW s \in Servers, NEW x \in online[s],
         Finish(s, x) \/ FinishRaises(s, x),
         \A r \in Servers : tasks'[r] \subseteq tasks[r] /\ ready'[r] \subseteq ready[r]
  PROVE  OneWait'
<1>1. x \in Players /\ sess[s][x] \in Token
  BY TokenOfPlayer DEF CustodyInv
<1>2. PICK t \in Token : t = sess[s][x]
  BY <1>1
<1>3. Capture(s, x) \in Snap /\ Payload(t) \in Snap
  BY <1>1, CaptureType, PayloadType
<1>4. \/ queue' = queue
      \/ queue' = [queue EXCEPT ![s] = Append(@, Persist(t, Capture(s, x), TRUE, FALSE))]
      \/ queue' = [queue EXCEPT ![s] = Append(@, Persist(t, Payload(t), TRUE, FALSE))]
  BY <1>2 DEF Finish, FinishRaises
<1>5. PICK snap \in Snap :
        \/ queue' = queue
        \/ queue' = [queue EXCEPT ![s] = Append(@, Persist(t, snap, TRUE, FALSE))]
  BY <1>3, <1>4
<1>6. PICK j \in Job : j = Persist(t, snap, TRUE, FALSE)
  BY MakePersist
<1>7. Fewer(Append(queue[s], j), queue[s])
  <2>1. j.kind = "persist" /\ queue[s] \in Seq(Job)
    BY <1>6 DEF Persist, TypeOK
  <2> QED BY <2>1, AppendFewer
<1>8. queue' = queue \/ queue' = [queue EXCEPT ![s] = Append(queue[s], j)]
  BY <1>5, <1>6
<1> QED BY <1>7, <1>8, QueuedWaits

(* The quit handler keeps OneWait.                                         *)
LEMMA LeaveWaits ==
  ASSUME TypeOK, CustodyInv, OneWait, NEW s \in Servers, NEW x \in online[s],
         Leave(s, x), \A r \in Servers : tasks'[r] \subseteq tasks[r]
  PROVE  OneWait'
<1>1. \A r \in Servers : ready'[r] \subseteq ready[r]
  <2>1. ready \in [Servers -> SUBSET Token]
    BY DEF TypeOK
  <2>2. ready' = ready \/ \E v : ready' = [ready EXCEPT ![s] = @ \ v]
    <3>1. PICK v : v = {sess[s][x]}
      OBVIOUS
    <3> QED BY <3>1 DEF Leave
  <2> QED BY <2>1, <2>2
<1>2. Finish(s, x) \/ FinishRaises(s, x)
  BY DEF Leave
<1> QED BY <1>1, <1>2, FinishWaits

(* A callback that is taken was the only one its session waited for.       *)
LEMMA TakenWait ==
  ASSUME TypeOK, CustodyInv, OneWait, NEW s \in Servers, NEW k \in tasks[s],
         k.kind \in {"apply", "retry"},
         \/ tasks' = [tasks EXCEPT ![s] = @ \ {k}]
         \/ tasks' = [tasks EXCEPT ![s] =
                        (@ \ {k}) \cup {[kind |-> "kick", token |-> k.token]}]
  PROVE  /\ k.token \in Token /\ k.token.home = s
         /\ Loads(s, k.token) = {} /\ k.token \notin ready[s]
         /\ Waits(s, k.token)' = {}
         /\ \A r \in Servers : \A l \in tasks'[r] : l.kind = "kick" \/ l \in tasks[r]
<1>1. k \in Task /\ tasks \in [Servers -> SUBSET Task]
  BY DEF TypeOK
<1>2. PICK t \in Token : t = k.token
  BY <1>1 DEF Task, ApplyTask, RetryTask, KickTask
<1>3. k \in Waits(s, t)
  BY <1>2 DEF Waits
<1>4. WaitsOnce(s, t)
  BY OneWaitParts
<1>5. \A r \in Servers : \A l \in tasks'[r] :
        l.kind = "kick" \/ (l \in tasks[r] /\ (r = s => l # k))
  BY <1>1
<1>6. Waits(s, t)' = {}
  <2>1. \A l \in Waits(s, t)' : l \in Waits(s, t) /\ l # k
    BY <1>5 DEF Waits
  <2> QED BY <1>3, <1>4, <2>1 DEF WaitsOnce, AtMostOne
<1> QED BY <1>2, <1>3, <1>4, <1>5, <1>6 DEF CustodyInv, TasksAreKnown, WaitsOnce

(* The callbacks of the scheduler keep OneWait: a restore makes ready what *)
(* waited for it, and a retry queues one load.                             *)
LEMMA TickWaits ==
  ASSUME TypeOK, CustodyInv, OneWait, NEW s \in Servers, Tick(s)
  PROVE  OneWait'
<1>0. /\ tasks \in [Servers -> SUBSET Task] /\ ready \in [Servers -> SUBSET Token]
      /\ queue \in [Servers -> Seq(Job)]
  BY DEF TypeOK
<1>1. CASE Apply(s)
  <2>1. PICK k \in tasks[s] :
          /\ k.kind = "apply"
          /\ \/ tasks' = [tasks EXCEPT ![s] = @ \ {k}]
             \/ tasks' = [tasks EXCEPT ![s] =
                            (@ \ {k}) \cup {[kind |-> "kick", token |-> k.token]}]
          /\ ready' = ready \/ ready' = [ready EXCEPT ![s] = @ \cup {k.token}]
          /\ UNCHANGED queue
    BY <1>1 DEF Apply
  <2>2. PICK t : t = k.token
    OBVIOUS
  <2>3. /\ t \in Token /\ Loads(s, t) = {} /\ t \notin ready[s] /\ Waits(s, t)' = {}
        /\ \A r \in Servers : \A l \in tasks'[r] : l.kind = "kick" \/ l \in tasks[r]
    BY <2>1, <2>2, TakenWait
  <2>4. \A r \in Servers, u \in Token :
          u \in ready'[r] => u \in ready[r] \/ (r = s /\ u = t)
    BY <1>0, <2>1, <2>2
  <2>5. ASSUME NEW r \in Servers, NEW u \in Token
        PROVE  WaitsOnce(r, u)'
    <3>1. WaitsOnce(r, u)
      BY OneWaitParts
    <3>2. Waits(r, u)' \subseteq Waits(r, u) /\ Loads(r, u)' = Loads(r, u)
      BY <2>1, <2>3 DEF Waits, Loads, LoadsIn
    <3> QED BY <2>3, <2>4, <3>1, <3>2 DEF WaitsOnce, AtMostOne
  <2> QED BY <2>5, OneWaitNext
<1>2. CASE Retry(s)
  <2>1. PICK k \in tasks[s] :
          /\ k.kind = "retry"
          /\ \/ /\ queue' = [queue EXCEPT ![s] =
                               Append(WithRecovery(s), Load(k.token, k.tries))]
                /\ tasks' = [tasks EXCEPT ![s] = @ \ {k}]
             \/ /\ tasks' = [tasks EXCEPT ![s] =
                               (@ \ {k}) \cup {[kind |-> "kick", token |-> k.token]}]
                /\ UNCHANGED queue
          /\ UNCHANGED ready
    BY <1>2 DEF Retry
  <2>2. PICK t, n : t = k.token /\ n = k.tries
    OBVIOUS
  <2>3. /\ t \in Token /\ Loads(s, t) = {} /\ t \notin ready[s] /\ Waits(s, t)' = {}
        /\ \A r \in Servers : \A l \in tasks'[r] : l.kind = "kick" \/ l \in tasks[r]
    BY <2>1, <2>2, TakenWait
  <2>4. CASE UNCHANGED queue
    <3>1. \A r \in Servers : NoNewWait(r)
      BY <2>1, <2>3, <2>4, EmptyFewer DEF NoNewWait
    <3> QED BY <3>1, StillWaits
  <2>5. CASE queue' = [queue EXCEPT ![s] = Append(WithRecovery(s), Load(t, n))]
             /\ tasks' = [tasks EXCEPT ![s] = @ \ {k}]
    <3>1. n \in 0 .. MaxTries
      <4>1. k \in Task
        BY <1>0, <2>1
      <4> QED BY <2>1, <2>2, <4>1, IncidentAssumption
              DEF Task, ApplyTask, RetryTask, KickTask
    <3>2. PICK j : j = Load(t, n)
      OBVIOUS
    <3>3. j \in Job /\ j.token = t
      BY <2>3, <3>1, <3>2, MakeLoad DEF Load
    <3>4. PICK q : q = WithRecovery(s)
      OBVIOUS
    <3>5. q \in Seq(Job) /\ Fewer(q, queue[s])
      BY <3>4, WithRecoveryType, RecoveryFewer
    <3>6. \A r \in Servers : tasks'[r] \subseteq tasks[r]
      BY <1>0, <2>5
    <3>7. queue' = [queue EXCEPT ![s] = Append(q, j)]
      BY <2>5, <3>2, <3>4
    <3> QED BY <2>1, <2>3, <3>3, <3>5, <3>6, <3>7, LoadWaits
  <2> QED BY <2>1, <2>2, <2>4, <2>5
<1>3. CASE DropTask(s)
  <2>1. UNCHANGED <<queue, ready>> /\ \A r \in Servers : tasks'[r] \subseteq tasks[r]
    BY <1>0, <1>3 DEF DropTask
  <2>2. \A r \in Servers : NoNewWait(r)
    BY <2>1, EmptyFewer DEF NoNewWait
  <2> QED BY <2>2, StillWaits
<1>4. CASE Kick(s)
  <2>1. PICK k \in tasks[s] :
          /\ k.token.xuid \in online[s] /\ Leave(s, k.token.xuid)
          /\ tasks' = [tasks EXCEPT ![s] = @ \ {k}]
    BY <1>4 DEF Kick
  <2>2. \A r \in Servers : tasks'[r] \subseteq tasks[r]
    BY <1>0, <2>1
  <2> QED BY <2>1, <2>2, LeaveWaits
<1> QED BY <1>1, <1>2, <1>3, <1>4 DEF Tick

(* The snapshots of autosave or of a stop command are no loads.            *)
LEMMA CaptureAllFewer ==
  ASSUME TypeOK, CustodyInv, NEW s \in Servers, NEW who \in SUBSET ReadyPlayers(s),
         NEW auto \in BOOLEAN, NEW before,
         before = queue[s] \/ before = WithRecovery(s),
         CaptureAll(s, who, auto, before)
  PROVE  \E q : Fewer(q, queue[s]) /\ queue' = [queue EXCEPT ![s] = q]
<1>1. before \in Seq(Job) /\ Fewer(before, queue[s])
  BY WithRecoveryType, RecoveryFewer, EmptyFewer DEF TypeOK
<1>2. PICK lost \in SUBSET who : \E o \in Orders(who \ lost) :
        queue' = [queue EXCEPT ![s] = before \o
          [i \in 1 .. Cardinality(who \ lost) |->
             Persist(sess[s][o[i]], Capture(s, o[i]), FALSE, auto)]]
  BY DEF CaptureAll
<1> DEFINE n == Cardinality(who \ lost)
<1>3. PICK o \in Orders(who \ lost) :
        queue' = [queue EXCEPT ![s] = before \o
          [i \in 1 .. n |->
             Persist(sess[s][o[i]], Capture(s, o[i]), FALSE, auto)]]
  BY <1>2
<1> DEFINE jobs == [i \in 1 .. n |->
             Persist(sess[s][o[i]], Capture(s, o[i]), FALSE, auto)]
<1>4. \A x \in who : x \in Players /\ x \in online[s]
  BY DEF ReadyPlayers, TypeOK
<1>5. n \in Nat
  <2>1. IsFiniteSet(who \ lost)
    BY <1>4, StoreAssumption, FS_Subset
  <2> QED BY <2>1, FS_CardinalityType
<1>6. \A i \in 1 .. n : o[i] \in who
  BY <1>3 DEF Orders
<1>7. ASSUME NEW x \in who
      PROVE  /\ Persist(sess[s][x], Capture(s, x), FALSE, auto) \in Job
             /\ Persist(sess[s][x], Capture(s, x), FALSE, auto).kind = "persist"
  <2>1. sess[s][x] \in Token /\ Capture(s, x) \in Snap
    BY <1>4, TokenOfPlayer, CaptureType DEF CustodyInv
  <2> QED BY <2>1, MakePersist DEF Persist
<1>8. jobs \in Seq(Job) /\ \A i \in 1 .. Len(jobs) : jobs[i].kind # "load"
  <2>1. jobs \in [1 .. n -> Job] /\ \A i \in 1 .. n : jobs[i].kind = "persist"
    BY <1>6, <1>7
  <2> HIDE DEF n, jobs
  <2>2. jobs \in Seq(Job)
    BY <1>5, <2>1, FunctionSeq
  <2>3. Len(jobs) = n
    BY <1>5, <2>1, <2>2
  <2> QED BY <2>1, <2>2, <2>3
<1>9. queue' = [queue EXCEPT ![s] = before \o jobs]
  BY <1>3
<1> HIDE DEF jobs
<1>10. Fewer(before \o jobs, before)
  BY <1>1, <1>8, ConcatFewer
<1>11. Fewer(before \o jobs, queue[s])
  BY <1>1, <1>10, FewerTransitive
<1> QED BY <1>9, <1>11

(* A step that queues one recovery instead of what there was, or nothing,  *)
(* keeps OneWait.                                                          *)
LEMMA RestartWaits ==
  ASSUME TypeOK, OneWait, NEW s \in Servers,
         \/ queue' = [queue EXCEPT ![s] = << >>]
         \/ queue' = [queue EXCEPT ![s] = <<Batch(Entries(s, {}), FALSE)>>],
         \A r \in Servers : tasks'[r] \subseteq tasks[r] /\ ready'[r] \subseteq ready[r]
  PROVE  OneWait'
<1>1. PICK j : j = Batch(Entries(s, {}), FALSE)
  OBVIOUS
<1>2. j \in Job /\ j.kind # "load"
  BY <1>1, EntriesType, MakeBatch DEF Batch
<1>3. Fewer(<< >>, queue[s]) /\ Fewer(<<j>>, queue[s])
  BY <1>2, EmptyFewer
<1>4. PICK q : Fewer(q, queue[s]) /\ queue' = [queue EXCEPT ![s] = q]
  BY <1>1, <1>3
<1> QED BY <1>4, QueuedWaits

(* What else the main thread does keeps OneWait.                           *)
LEMMA MainWaits ==
  ASSUME TypeOK, CustodyInv, OneWait, NEW s \in Servers, Main(s)
  PROVE  OneWait'
<1>1. CASE Tick(s)
  BY <1>1, TickWaits
<1>2. ASSUME NEW who \in SUBSET ReadyPlayers(s), NEW auto \in BOOLEAN, NEW before,
             before = queue[s] \/ before = WithRecovery(s),
             CaptureAll(s, who, auto, before), UNCHANGED <<ready, tasks>>
      PROVE  OneWait'
  <2>1. PICK q : Fewer(q, queue[s]) /\ queue' = [queue EXCEPT ![s] = q]
    BY <1>2, CaptureAllFewer
  <2> QED BY <1>2, <2>1, QueuedWaits
<1>3. CASE Autosave(s)
  BY <1>2, <1>3 DEF Autosave
<1>4. ASSUME NEW refused \in BOOLEAN, StopCommand(s, refused)
      PROVE  OneWait'
  BY <1>2, <1>4 DEF StopCommand
<1>5. CASE Vanish(s) \/ Disable(s)
  <2>1. UNCHANGED <<queue, ready, tasks>>
    BY <1>5 DEF Vanish, Disable
  <2> QED BY <2>1, StillWaits, UnmovedWaits
<1>6. CASE DisableFinish(s)
  <2>1. PICK x \in online[s] : Finish(s, x) \/ FinishRaises(s, x)
    BY <1>6 DEF DisableFinish
  <2>2. UNCHANGED <<ready, tasks>>
    BY <1>6 DEF DisableFinish
  <2> QED BY <2>1, <2>2, FinishWaits
<1>7. CASE DisableFlush(s) \/ Boot(s)
  <2>1. UNCHANGED <<ready, tasks>>
    BY <1>7 DEF DisableFlush, Boot
  <2>2. CASE queue' = queue
    BY <2>1, <2>2, StillWaits, UnmovedWaits
  <2>3. CASE queue' = [queue EXCEPT ![s] = <<Batch(Entries(s, {}), FALSE)>>]
    BY <2>1, <2>3, RestartWaits
  <2> QED BY <1>7, <2>2, <2>3 DEF DisableFlush, Boot
<1>8. CASE Exit(s) \/ Crash(s)
  <2>1. Reset(s)
    BY <1>8 DEF Exit, Crash
  <2>2. \A r \in Servers : tasks'[r] \subseteq tasks[r] /\ ready'[r] \subseteq ready[r]
    BY <2>1 DEF Reset, TypeOK
  <2>3. queue' = [queue EXCEPT ![s] = << >>]
    BY <2>1 DEF Reset
  <2> QED BY <2>2, <2>3, RestartWaits
<1> QED BY <1>1, <1>3, <1>4, <1>5, <1>6, <1>7, <1>8 DEF Main

(* Every step keeps OneWait.                                               *)
LEMMA OneWaitStep ==
  ASSUME TypeOK, CustodyInv, LockInv, OneWait, [Next]_vars
  PROVE  OneWait'
<1>1. CASE UNCHANGED vars
  <2>1. UNCHANGED <<queue, ready, tasks>>
    BY <1>1 DEF vars, volatile
  <2> QED BY <2>1, StillWaits, UnmovedWaits
<1>2. ASSUME NEW s \in Servers, NEW x \in Players, Quit(s, x)
      PROVE  OneWait'
  <2>1. x \in online[s] /\ Leave(s, x)
    BY <1>2 DEF Quit
  <2>2. \A r \in Servers : tasks'[r] \subseteq tasks[r]
    BY <1>2 DEF Quit
  <2> QED BY <2>1, <2>2, LeaveWaits
<1> QED BY <1>1, <1>2, WorkerWaits, MainWaits, ClientWaits DEF Next

----------------------------------------------------------------------------
(* RestoreIsCurrent.                                                       *)

(* A worker step changes the saved fields of a row only by a save of the   *)
(* session that owns it.                                                   *)
LEMMA WorkerFields ==
  ASSUME TypeOK, NEW s \in Servers, Worker(s), NEW x \in Players,
         db'[x].inv # db[x].inv
  PROVE  Save(s) /\ db[x].owner = Head(queue[s]).token
<1> DEFINE job == Head(queue[s])
<1>0. db \in [Players -> Row]
  BY DEF TypeOK
<1>1. CASE Claim(s)
  <2>1. PICK y : \/ db' = db
                 \/ db' = [db EXCEPT ![y] = Claimed(db[y], job.token)]
    BY <1>1 DEF Claim
  <2>2. Claimed(db[x], job.token).inv = db[x].inv
    BY <1>0 DEF Claimed, Row
  <2> QED BY <1>0, <2>1, <2>2
<1>2. CASE Save(s)
  <2>1. PICK y : \/ db' = db
                 \/ /\ Holds(db[y], job.token)
                    /\ db' = [db EXCEPT ![y] = Saved(db[y], job.snap, job.release)]
    BY <1>2 DEF Save
  <2>2. y = x /\ Holds(db[y], job.token)
    BY <1>0, <2>1
  <2> QED BY <1>2, <2>2 DEF Holds
<1>3. CASE ReleaseLegacy(s)
  <2>1. PICK y : db' \in {db, [db EXCEPT ![y] = LegacyReleased(db[y])]}
    BY <1>3 DEF ReleaseLegacy
  <2>2. LegacyReleased(db[x]).inv = db[x].inv
    BY <1>0 DEF LegacyReleased, Row
  <2> QED BY <1>0, <2>1, <2>2
<1>4. CASE TakeLoad(s) \/ CheckStorage(s) \/ RemoveRow(s) \/ RecoverNext(s) \/ RecoverDone(s)
  BY <1>4 DEF TakeLoad, CheckStorage, RemoveRow, RecoverNext, RecoverDone
<1> QED BY <1>1, <1>2, <1>3, <1>4 DEF Worker

(* Only the worker changes the shared rows.                                *)
LEMMA OthersKeepRows ==
  ASSUME [Next]_vars, db' # db
  PROVE  \E s \in Servers : Worker(s)
<1>1. ASSUME NEW s \in Servers, Main(s) \/ \E y \in Players : Client(s, y)
      PROVE  db' = db
  BY <1>1 DEF Main, Client, Tick, Apply, Retry, DropTask, Kick, Leave, Autosave,
      StopCommand, Vanish, Disable, DisableFinish, DisableFlush, Exit, Crash, Reset,
      Boot, BeginJoin, JoinUnjournaled, Quit, Play, PlayUnmanaged, PackPending,
      PackRecovered, LegacyCommand, durable
<1>2. ~UNCHANGED vars
  BY DEF vars, durable
<1> QED BY <1>1, <1>2 DEF Next

(* While a session waits for its restore, nothing saves its fields: it was *)
(* never ready, and it is not over.                                        *)
LEMMA WaitingIsUnsaved ==
  ASSUME TypeOK, CustodyInv, LockInv, OneWait, NEW s \in Servers, NEW k \in tasks[s],
         k.kind = "apply", Live(k.token), [Next]_vars
  PROVE  db'[k.token.xuid].inv = db[k.token.xuid].inv
<1>1. k \in Task
  BY DEF TypeOK
<1>2. PICK t \in Token : t = k.token
  BY <1>1 DEF Task, ApplyTask, RetryTask, KickTask
<1>3. t.home = s /\ t.xuid \in Players /\ Known(t)
  BY <1>2 DEF CustodyInv, TasksAreKnown, Token
<1>4. ~Over(t) /\ db[t.xuid].owner = t
  <2>1. Current(t) /\ phase[s] # "flushing"
    BY <1>2, <1>3 DEF Live, CustodyInv, OnlineWhileEnabled
  <2> QED BY <1>2, <1>3, <2>1 DEF Over, CustodyInv, RestoreOwns
<1>5. t \notin ready[s]
  <2>1. k \in Waits(s, t) /\ WaitsOnce(s, t)
    BY <1>2, OneWaitParts DEF Waits
  <2> QED BY <2>1 DEF WaitsOnce
<1>6. ASSUME db'[t.xuid].inv # db[t.xuid].inv
      PROVE  FALSE
  <2>1. PICK r \in Servers : Worker(r)
    BY <1>6, OthersKeepRows
  <2>2. PICK job : job = Head(queue[r])
    OBVIOUS
  <2>3. Save(r) /\ job.token = t
    BY <1>3, <1>4, <1>6, <2>1, <2>2, WorkerFields
  <2>4. queue[r] # << >> /\ job.kind \in {"persist", "recover"}
    BY <2>2, <2>3 DEF Save, At
  <2>5. job \in Job /\ Settled(job)
    BY <2>2, <2>4, HeadSettled DEF CustodyInv, LockInv
  <2>6. ~job.release
    BY <1>4, <2>3, <2>4, <2>5, ReleaseIsOver
  <2>7. job.kind = "persist"
    BY <2>4, <2>5, <2>6, JobKinds DEF RecoverJob
  <2>8. t \in ready[t.home]
    BY <1>4, <2>3, <2>5, <2>6, <2>7 DEF Settled
  <2> QED BY <1>3, <1>5, <2>8
<1> QED BY <1>2, <1>6

(* Who is still connected with a session has it since the last step.       *)
Fades ==
  \A r \in Servers, y \in Players :
    y \in online'[r] => y \in online[r] /\ sess'[r][y] = sess[r][y]

(* A player who quits leaves the others with their sessions.               *)
LEMMA LeaveFades ==
  ASSUME TypeOK, NEW s \in Servers, NEW x \in online[s], Leave(s, x)
  PROVE  Fades
<1>1. /\ online' = [online EXCEPT ![s] = @ \ {x}]
      /\ sess' = [sess EXCEPT ![s][x] = None]
  BY DEF Leave
<1> QED BY <1>1 DEF TypeOK, Fades

(* What the main thread does starts no session.                            *)
LEMMA MainFades ==
  ASSUME TypeOK, NEW s \in Servers, Main(s)
  PROVE  Fades
<1>0. /\ online \in [Servers -> SUBSET Players]
      /\ sess \in [Servers -> [Players -> Token \cup {None}]]
  BY DEF TypeOK
<1>1. CASE Kick(s)
  <2>1. \E k \in tasks[s] : k.token.xuid \in online[s] /\ Leave(s, k.token.xuid)
    BY <1>1 DEF Kick
  <2> QED BY <2>1, LeaveFades
<1>2. CASE DisableFinish(s)
  <2>1. PICK x \in online[s] :
          /\ \/ online' = [online EXCEPT ![s] = @ \ {x}]
             \/ online' = [online EXCEPT ![s] = {}]
          /\ sess' = [sess EXCEPT ![s][x] = None]
    BY <1>2 DEF DisableFinish
  <2>2. ASSUME NEW r \in Servers, NEW y \in Players, y \in online'[r]
        PROVE  y \in online[r] /\ sess'[r][y] = sess[r][y]
    <3>1. y \in online[r] /\ ~(r = s /\ y = x)
      BY <1>0, <2>1, <2>2
    <3>2. sess'[r][y] = sess[r][y]
      BY <1>0, <2>1, <3>1
    <3> QED BY <3>1, <3>2
  <2> QED BY <2>2 DEF Fades
<1>3. CASE Vanish(s)
  <2>1. online' = [online EXCEPT ![s] = {}] /\ UNCHANGED sess
    BY <1>3 DEF Vanish
  <2> QED BY <1>0, <2>1 DEF Fades
<1>4. CASE Exit(s) \/ Crash(s)
  <2>1. PICK v : /\ online' = [online EXCEPT ![s] = {}]
                 /\ sess' = [sess EXCEPT ![s] = v]
    BY <1>4 DEF Exit, Crash, Reset
  <2> QED BY <1>0, <2>1 DEF Fades
<1>5. CASE /\ Main(s) /\ ~Kick(s) /\ ~DisableFinish(s) /\ ~Vanish(s)
           /\ ~Exit(s) /\ ~Crash(s)
  <2>1. UNCHANGED <<online, sess>>
    BY <1>5 DEF Main, Tick, Apply, Retry, DropTask, Autosave, StopCommand, Disable,
       DisableFlush, Boot
  <2> QED BY <2>1 DEF Fades
<1> QED BY <1>1, <1>2, <1>3, <1>4, <1>5

(* No step brings a known session to life.                                 *)
LEMMA StepRevivesNone ==
  ASSUME TypeOK, CustodyInv, [Next]_vars, NEW t \in Token, Known(t), Live(t)'
  PROVE  Live(t)
<1>1. Fades => Live(t)
  BY DEF Fades, Live, Current, Token
<1>2. CASE UNCHANGED vars
  BY <1>1, <1>2 DEF vars, volatile, Fades
<1>3. ASSUME NEW s \in Servers, Worker(s)
      PROVE  Live(t)
  BY <1>3, WorkerAges DEF Aged
<1>4. ASSUME NEW s \in Servers, Main(s)
      PROVE  Live(t)
  BY <1>1, <1>4, MainFades
<1>5. ASSUME NEW s \in Servers, NEW x \in Players, Client(s, x)
      PROVE  Live(t)
  <2>1. CASE BeginJoin(s, x)
    BY <2>1, BeginJoinAged DEF Aged
  <2>2. CASE Quit(s, x)
    BY <1>1, <2>2, LeaveFades DEF Quit
  <2>3. CASE Client(s, x) /\ ~BeginJoin(s, x) /\ ~Quit(s, x)
    <3>1. UNCHANGED <<online, sess>>
      BY <2>3 DEF Client, JoinUnjournaled, Play, PlayUnmanaged, PackPending,
         PackRecovered, LegacyCommand, volatile
    <3> QED BY <1>1, <3>1 DEF Fades
  <2> QED BY <1>5, <2>1, <2>2, <2>3
<1> QED BY <1>2, <1>3, <1>4, <1>5 DEF Next

(* A restore is scheduled only by the worker.                              *)
LEMMA OthersScheduleNone ==
  ASSUME TypeOK, [Next]_vars, NEW r \in Servers, NEW k \in tasks'[r],
         k.kind = "apply", k \notin tasks[r]
  PROVE  \E s \in Servers : Worker(s)
<1>0. tasks \in [Servers -> SUBSET Task]
  BY DEF TypeOK
<1>1. ASSUME NEW s \in Servers,
             \/ UNCHANGED tasks
             \/ \E l : tasks' = [tasks EXCEPT ![s] = @ \ {l}]
             \/ \E l, u : tasks' = [tasks EXCEPT ![s] =
                            (@ \ {l}) \cup {[kind |-> "kick", token |-> u]}]
             \/ tasks' = [tasks EXCEPT ![s] = {}]
      PROVE  FALSE
  BY <1>0, <1>1
<1>2. ASSUME NEW s \in Servers, Main(s)
      PROVE  FALSE
  <2>1. CASE Tick(s)
    BY <1>1, <2>1 DEF Tick, Apply, Retry, DropTask, Kick
  <2>2. CASE Exit(s) \/ Crash(s)
    BY <1>1, <2>2 DEF Exit, Crash, Reset
  <2>3. CASE Main(s) /\ ~Tick(s) /\ ~Exit(s) /\ ~Crash(s)
    BY <1>1, <2>3 DEF Main, Autosave, StopCommand, Vanish, Disable, DisableFinish,
       DisableFlush, Boot
  <2> QED BY <1>2, <2>1, <2>2, <2>3
<1>3. ASSUME NEW s \in Servers, NEW x \in Players, Client(s, x)
      PROVE  FALSE
  <2>1. UNCHANGED tasks
    BY <1>3 DEF Client, BeginJoin, JoinUnjournaled, Quit, Play, PlayUnmanaged,
       PackPending, PackRecovered, LegacyCommand, volatile
  <2> QED BY <1>1, <1>3, <2>1
<1>4. ~UNCHANGED vars
  BY DEF vars, volatile
<1> QED BY <1>2, <1>3, <1>4 DEF Next

(* The worker schedules a restore with the fields of the row it claims.    *)
LEMMA ScheduledFields ==
  ASSUME TypeOK, QueuesAreSafe, NEW s \in Servers, Worker(s),
         NEW r \in Servers, NEW k \in tasks'[r], k.kind = "apply", k \notin tasks[r]
  PROVE  db'[k.token.xuid].inv = k.inv
<1>0. tasks \in [Servers -> SUBSET Task] /\ db \in [Players -> Row]
  BY DEF TypeOK
<1>1. Claim(s)
  BY DEF Worker, TakeLoad, Claim, CheckStorage, Save, RemoveRow, RecoverNext,
         RecoverDone, ReleaseLegacy
<1>2. PICK t \in Token : t = Head(queue[s]).token
  <2>1. At(s, {"load"}, "claim")
    BY <1>1 DEF Claim
  <2> QED BY <2>1, HeadJob, JobKinds DEF LoadJob
<1>3. PICK i : i = db[t.xuid].inv
  OBVIOUS
<1>4. \A z : Schedule(s, z) => k = z
  BY <1>0 DEF Schedule
<1>5. \/ /\ Schedule(s, [kind |-> "apply", token |-> t, inv |-> i])
         /\ db' = [db EXCEPT ![t.xuid] = Claimed(db[t.xuid], t)]
      \/ Schedule(s, [kind |-> "kick", token |-> t])
      \/ \E n : Schedule(s, [kind |-> "retry", token |-> t, tries |-> n])
  BY <1>1, <1>2, <1>3 DEF Claim, LoadFails
<1>6. /\ k = [kind |-> "apply", token |-> t, inv |-> i]
      /\ db' = [db EXCEPT ![t.xuid] = Claimed(db[t.xuid], t)]
  <2>1. ~Schedule(s, [kind |-> "kick", token |-> t])
    <3>1. PICK z : z = [kind |-> "kick", token |-> t]
      OBVIOUS
    <3>2. z.kind = "kick"
      BY <3>1
    <3> QED BY <1>4, <3>1, <3>2
  <2>2. ASSUME NEW n
        PROVE  ~Schedule(s, [kind |-> "retry", token |-> t, tries |-> n])
    <3>1. PICK z : z = [kind |-> "retry", token |-> t, tries |-> n]
      OBVIOUS
    <3>2. z.kind = "retry"
      BY <3>1
    <3> QED BY <1>4, <3>1, <3>2
  <2> QED BY <1>4, <1>5, <2>1, <2>2
<1>7. k.token = t /\ k.inv = i /\ t.xuid \in Players
  BY <1>6 DEF Token
<1>8. Claimed(db[t.xuid], t).inv = db[t.xuid].inv
  BY <1>0, <1>7 DEF Claimed, Row
<1> QED BY <1>0, <1>3, <1>6, <1>7, <1>8

(* Every step keeps RestoreIsCurrent.                                      *)
LEMMA RestoreStep ==
  ASSUME TypeOK, CustodyInv, LockInv, WaitInv, CustodyInv', [Next]_vars
  PROVE  RestoreIsCurrent'
<1> SUFFICES ASSUME NEW s \in Servers, NEW k \in tasks'[s], k.kind = "apply",
                    Current(k.token)', k.token.xuid \in online'[s]
             PROVE  db'[k.token.xuid].owner = k.token /\ db'[k.token.xuid].inv = k.inv
  BY DEF RestoreIsCurrent
<1>1. k.token.home = s /\ Live(k.token)'
  BY DEF CustodyInv, TasksAreKnown, Live
<1>2. db'[k.token.xuid].owner = k.token
  BY <1>1 DEF CustodyInv, RestoreOwns
<1>3. CASE k \in tasks[s]
  <2>1. k \in Task
    BY <1>3 DEF TypeOK
  <2>2. PICK t \in Token : t = k.token
    BY <2>1 DEF Task, ApplyTask, RetryTask, KickTask
  <2>3. Known(t) /\ t.home = s
    BY <1>3, <2>2 DEF CustodyInv, TasksAreKnown
  <2>4. Live(t)
    <3>1. Live(t)'
      BY <1>1, <2>2 DEF Live, Current
    <3> QED BY <2>3, <3>1, StepRevivesNone
  <2>5. db'[t.xuid].inv = db[t.xuid].inv
    BY <1>3, <2>2, <2>4, WaitingIsUnsaved DEF WaitInv
  <2>6. db[t.xuid].inv = k.inv
    BY <1>3, <2>2, <2>3, <2>4 DEF WaitInv, RestoreIsCurrent, Live
  <2> QED BY <1>2, <2>2, <2>5, <2>6
<1>4. CASE k \notin tasks[s]
  <2>1. PICK r \in Servers : Worker(r)
    BY <1>4, OthersScheduleNone
  <2> QED BY <1>2, <1>4, <2>1, ScheduledFields DEF CustodyInv
<1> QED BY <1>3, <1>4

(* WaitInv holds initially: nobody waits.                                  *)
LEMMA InitWait == Init => WaitInv
<1> SUFFICES ASSUME Init
             PROVE  WaitInv
  OBVIOUS
<1>1. RestoreIsCurrent
  BY DEF Init, RestoreIsCurrent
<1>2. \A s \in Servers, t \in Token : Loads(s, t) = {} /\ Waits(s, t) = {}
  BY DEF Init, Loads, LoadsIn, Waits
<1> QED BY <1>1, <1>2 DEF WaitInv, OneWait

----------------------------------------------------------------------------
(* A login waits in one place at a time, and what it waits for is current. *)
THEOREM WaitInvariant == Spec => [](TypeOK /\ CustodyInv /\ LockInv /\ WaitInv)
<1>1. Init => WaitInv
  BY InitWait
<1>2. /\ TypeOK /\ CustodyInv /\ LockInv /\ WaitInv /\ CustodyInv' /\ [Next]_vars
      => WaitInv'
  <2> SUFFICES ASSUME TypeOK, CustodyInv, LockInv, WaitInv, CustodyInv', [Next]_vars
               PROVE  OneWait' /\ RestoreIsCurrent'
    BY DEF WaitInv
  <2>1. OneWait'
    BY OneWaitStep DEF WaitInv
  <2> QED BY <2>1, RestoreStep
<1> QED BY <1>1, <1>2, LockInvariant, PTL DEF Spec

(* A restore that is about to run for a waiting player carries the fields  *)
(* the row still has: nothing wrote it since it was claimed.               *)
THEOREM RestoresCurrent == Spec => []RestoreIsCurrent
<1>1. WaitInv => RestoreIsCurrent
  BY DEF WaitInv
<1> QED BY <1>1, WaitInvariant, PTL

----------------------------------------------------------------------------
(* The order of what is saved.                                             *)

(* The saves of a queue.                                                   *)

(* p has no saves of t that q has not, and has them in q's order.          *)
KeepsSaves(p, q, t) ==
  \A i, j \in SavesIn(p, t) : i <= j =>
    \E k, l \in SavesIn(q, t) : k <= l /\ p[i] = q[k] /\ p[j] = q[l]

NoNewSaves(p, q) == \A t \in Token : KeepsSaves(p, q, t)

(* Or it has those with stamp w after them.                                *)
LaterSaves(p, q, t, w) ==
  \A i, j \in SavesIn(p, t) : i <= j =>
    \/ \E k, l \in SavesIn(q, t) : k <= l /\ p[i] = q[k] /\ p[j] = q[l]
    \/ /\ p[j].snap.stamp = w
       /\ p[i].snap.stamp = w \/ \E k \in SavesIn(q, t) : p[i] = q[k]

(* p is q with other jobs than loads and saves added, or some taken away.  *)
Plain(p, q) == Fewer(p, q) /\ NoNewSaves(p, q)

(* The stamps of saves are numbers.                                        *)
LEMMA SaveStamps ==
  ASSUME NEW q \in Seq(Job), NEW t, NEW i \in SavesIn(q, t)
  PROVE  q[i] \in Job /\ q[i].snap.stamp \in Nat /\ i \in Nat
<1>1. i \in 1 .. Len(q) /\ q[i] \in Job /\ q[i].kind = "persist"
  BY DEF SavesIn
<1>2. q[i].snap \in Snap
  BY <1>1, JobKinds DEF PersistJob
<1> QED BY <1>1, <1>2, StoreAssumption DEF Snap, Stamp

(* Saves that only move up in the queue are no new ones.                   *)
LEMMA ShiftedSaves ==
  ASSUME NEW p, NEW q, NEW d \in {0, 1},
         \A t \in Token : \A i \in SavesIn(p, t) :
           i \in Nat /\ i + d \in SavesIn(q, t) /\ p[i] = q[i + d]
  PROVE  NoNewSaves(p, q)
<1> SUFFICES ASSUME NEW t \in Token, NEW i \in SavesIn(p, t), NEW j \in SavesIn(p, t),
                    i <= j
             PROVE  \E k, l \in SavesIn(q, t) : k <= l /\ p[i] = q[k] /\ p[j] = q[l]
  BY DEF NoNewSaves, KeepsSaves
<1>1. i + d \in SavesIn(q, t) /\ j + d \in SavesIn(q, t) /\ i + d <= j + d
      /\ p[i] = q[i + d] /\ p[j] = q[j + d]
  OBVIOUS
<1> QED BY <1>1

(* A queue as it is has no new saves.                                      *)
LEMMA SameSaves ==
  ASSUME NEW q
  PROVE  NoNewSaves(q, q) /\ Plain(q, q)
<1>1. NoNewSaves(q, q)
  BY DEF NoNewSaves, KeepsSaves
<1> QED BY <1>1, EmptyFewer DEF Plain

(* No queue of one job has saves if that is none, and the empty one none.  *)
LEMMA FewSaves ==
  ASSUME NEW q
  PROVE  /\ Plain(<< >>, q)
         /\ \A j : j.kind = "batch" => NoNewSaves(<<j>>, q)
<1>1. \A t \in Token : SavesIn(<< >>, t) = {}
  BY DEF SavesIn
<1>2. \A j : j.kind = "batch" => \A t \in Token : SavesIn(<<j>>, t) = {}
  BY DEF SavesIn
<1> QED BY <1>1, <1>2, EmptyFewer DEF NoNewSaves, KeepsSaves, Plain

(* A job that is not a save is put behind the others.                      *)
LEMMA AppendSaves ==
  ASSUME NEW q \in Seq(Job), NEW j \in Job, j.kind # "persist" \/ j.release
  PROVE  NoNewSaves(Append(q, j), q)
<1>1. /\ Len(q) \in Nat /\ Len(Append(q, j)) = Len(q) + 1
      /\ \A i \in 1 .. Len(q) + 1 :
           Append(q, j)[i] = IF i <= Len(q) THEN q[i] ELSE j
  OBVIOUS
<1>2. PICK p : p = Append(q, j)
  OBVIOUS
<1>3. ASSUME NEW t \in Token, NEW i \in SavesIn(p, t)
      PROVE  i \in Nat /\ i + 0 \in SavesIn(q, t) /\ p[i] = q[i + 0]
  <2>1. i \in 1 .. Len(q) + 1 /\ p[i].kind = "persist" /\ p[i].token = t /\ ~p[i].release
    BY <1>1, <1>2 DEF SavesIn
  <2>2. i \in 1 .. Len(q) /\ p[i] = q[i]
    BY <1>1, <1>2, <2>1
  <2> QED BY <1>1, <2>1, <2>2 DEF SavesIn
<1>4. NoNewSaves(p, q)
  BY <1>3, ShiftedSaves
<1> QED BY <1>2, <1>4

(* Such a job that is no load either changes neither.                      *)
LEMMA AppendPlain ==
  ASSUME NEW q \in Seq(Job), NEW j \in Job,
         j.kind \in {"batch", "legacy"} \/ (j.kind = "persist" /\ j.release)
  PROVE  Plain(Append(q, j), q)
  BY AppendSaves, AppendFewer DEF Plain

(* _queue_inactive_recovery queues no saves.                               *)
LEMMA RecoveryPlain ==
  ASSUME TypeOK, NEW s \in Servers
  PROVE  Plain(WithRecovery(s), queue[s])
<1>1. PICK j : j = Batch(Entries(s, ActiveTokens(s)), FALSE)
  OBVIOUS
<1>2. j \in Job /\ j.kind = "batch"
  BY <1>1, EntriesType, MakeBatch DEF Batch
<1>3. queue[s] \in Seq(Job)
  BY DEF TypeOK
<1> QED BY <1>1, <1>2, <1>3, AppendPlain, SameSaves DEF WithRecovery

(* The worker takes a job away.                                            *)
LEMMA TailSaves ==
  ASSUME NEW q \in Seq(Job), q # << >>
  PROVE  /\ NoNewSaves(Tail(q), q)
         /\ \A t \in Token : \A i \in SavesIn(Tail(q), t) :
              i \in Nat /\ i > 0 /\ i + 1 \in SavesIn(q, t) /\ Tail(q)[i] = q[i + 1]
<1>1. /\ Len(q) \in Nat /\ Len(Tail(q)) = Len(q) - 1
      /\ \A i \in 1 .. Len(q) - 1 : Tail(q)[i] = q[i + 1]
  OBVIOUS
<1>2. PICK p : p = Tail(q)
  OBVIOUS
<1>3. ASSUME NEW t \in Token, NEW i \in SavesIn(p, t)
      PROVE  i \in Nat /\ i > 0 /\ i + 1 \in SavesIn(q, t) /\ p[i] = q[i + 1]
  BY <1>1, <1>2 DEF SavesIn
<1>4. NoNewSaves(p, q)
  BY <1>3, ShiftedSaves
<1> QED BY <1>2, <1>3, <1>4

(* The worker puts an entry of a recovery, or its rest, in place of it.    *)
LEMMA ReplaceSaves ==
  ASSUME NEW q \in Seq(Job), q # << >>, NEW j, j.kind \in {"batch", "recover"}
  PROVE  NoNewSaves(<<j>> \o Tail(q), q)
<1>0. Tail(q) \in Seq(Job)
  OBVIOUS
<1>1. PICK u \in Seq(Job) : u = Tail(q)
  BY <1>0
<1>2. Len(q) = Len(u) + 1 /\ \A i \in 1 .. Len(u) : u[i] = q[i + 1]
  BY <1>1
<1>3. PICK p : p = <<j>> \o u
  OBVIOUS
<1>4. /\ Len(u) \in Nat /\ Len(p) = Len(u) + 1
      /\ \A i \in 1 .. Len(u) + 1 : p[i] = IF i = 1 THEN j ELSE u[i - 1]
  <2>1. PICK S : S = Job \cup {j}
    OBVIOUS
  <2>2. u \in Seq(S) /\ j \in S
    BY <2>1
  <2> QED BY <1>3, <2>2, Prepend
<1>5. ASSUME NEW t \in Token, NEW i \in SavesIn(p, t)
      PROVE  i \in Nat /\ i + 0 \in SavesIn(q, t) /\ p[i] = q[i + 0]
  <2>1. i \in 1 .. Len(u) + 1 /\ p[i].kind = "persist" /\ p[i].token = t /\ ~p[i].release
    BY <1>4 DEF SavesIn
  <2>2. i # 1
    BY <1>4, <2>1
  <2>3. i - 1 \in 1 .. Len(u) /\ p[i] = u[i - 1]
    BY <1>4, <2>1, <2>2
  <2>4. p[i] = q[i]
    BY <1>2, <2>1, <2>3
  <2> QED BY <1>2, <1>4, <2>1, <2>4 DEF SavesIn
<1>6. NoNewSaves(p, q)
  BY <1>5, ShiftedSaves
<1> QED BY <1>1, <1>3, <1>6

----------------------------------------------------------------------------
(* InOrder through the steps that leave the database alone.                *)

(* Can something be captured of t, now or after a clean-up?                *)
Seen(t) == t \in ready[t.home] /\ Current(t)

(* What a step may do to a session: its player plays on, it is captured,   *)
(* it ends.                                                                *)
Moves(t) ==
  LET h == t.home
      x == t.xuid
  IN  /\ clock[x] <= clock'[x]
      /\ Seen(t)' => Seen(t) /\ world[h][x] <= world'[h][x]
      /\ \/ /\ journal'[t] # None /\ journal'[t].stamp = journal[t].stamp
            /\ KeepsSaves(queue'[h], queue[h], t)
         \/ /\ Seen(t) /\ journal'[t] # None /\ journal'[t].stamp = world[h][x]
            /\ LaterSaves(queue'[h], queue[h], t, world[h][x])

(* The types that InOrder is about.                                        *)
LEMMA OrderTypes ==
  ASSUME TypeOK, NEW t \in Token
  PROVE  /\ t.home \in Servers /\ t.xuid \in Players
         /\ queue[t.home] \in Seq(Job)
         /\ db[t.xuid] \in Row /\ db[t.xuid].inv \in Nat
         /\ clock[t.xuid] \in Nat /\ world[t.home][t.xuid] \in Nat
         /\ journal[t] # None => journal[t] \in Snap /\ journal[t].stamp \in Nat
<1>1. t.home \in Servers /\ t.xuid \in Players
  BY DEF Token
<1>2. Stamp \subseteq Nat /\ 1 .. MaxStamp \subseteq Nat
  BY StoreAssumption DEF Stamp
<1>3. db[t.xuid] \in Row /\ db[t.xuid].inv \in Nat
  BY <1>1, <1>2 DEF TypeOK, Row
<1>4. journal[t] # None => journal[t] \in Snap /\ journal[t].stamp \in Nat
  BY <1>2 DEF TypeOK, Snap
<1> QED BY <1>1, <1>2, <1>3, <1>4 DEF TypeOK

(* The same of the next state.                                             *)
LEMMA OrderTypesNext ==
  ASSUME TypeOK', NEW t \in Token
  PROVE  /\ queue'[t.home] \in Seq(Job)
         /\ db'[t.xuid].inv \in Nat
         /\ clock'[t.xuid] \in Nat /\ world'[t.home][t.xuid] \in Nat
         /\ journal'[t] # None => journal'[t].stamp \in Nat
<1>1. t.home \in Servers /\ t.xuid \in Players
  BY DEF Token
<1>2. Stamp \subseteq Nat /\ 1 .. MaxStamp \subseteq Nat
  BY StoreAssumption DEF Stamp
<1>3. db'[t.xuid] \in Row /\ db'[t.xuid].inv \in Nat
  BY <1>1, <1>2 DEF TypeOK, Row
<1>4. journal'[t] # None => journal'[t].stamp \in Nat
  BY <1>2 DEF TypeOK, Snap
<1> QED BY <1>1, <1>2, <1>3, <1>4 DEF TypeOK

(* Such a move keeps what is captured of the session in order.             *)
LEMMA MovesInOrder ==
  ASSUME TypeOK, TypeOK', ClockAhead, NEW t \in Token, InOrder(t), journal[t] # None,
         db'[t.xuid].inv = db[t.xuid].inv, Moves(t)
  PROVE  InOrder(t)'
<1>1. PICK h \in Servers, x \in Players : h = t.home /\ x = t.xuid
  BY OrderTypes
<1>2. PICK q \in Seq(Job), p \in Seq(Job) : q = queue[h] /\ p = queue'[h]
  BY <1>1, OrderTypes, OrderTypesNext
<1>3. PICK inv \in Nat, c \in Nat, d \in Nat, now \in Nat, then \in Nat, last \in Nat :
        /\ inv = db[x].inv /\ c = clock[x] /\ d = clock'[x]
        /\ now = world[h][x] /\ then = world'[h][x] /\ last = journal[t].stamp
  BY <1>1, OrderTypes, OrderTypesNext
<1>4. /\ \A i, j \in SavesIn(q, t) : i <= j =>
           /\ inv <= q[i].snap.stamp
           /\ q[i].snap.stamp <= q[j].snap.stamp /\ q[j].snap.stamp <= last
      /\ last = 0 \/ inv <= last
      /\ last <= c
      /\ Seen(t) => inv <= now /\ last <= now
  BY <1>1, <1>2, <1>3 DEF InOrder, Seen
<1>5. now <= c /\ c <= d
  BY <1>1, <1>3 DEF ClockAhead, Moves
<1>6. Seen(t)' => Seen(t) /\ now <= then
  BY <1>1, <1>3 DEF Moves
<1>7. PICK next \in Nat : next = journal'[t].stamp
  BY OrderTypesNext DEF Moves
<1>8. \/ next = last /\ KeepsSaves(p, q, t)
      \/ Seen(t) /\ next = now /\ LaterSaves(p, q, t, now)
  BY <1>1, <1>2, <1>3, <1>7 DEF Moves
<1>9. next = 0 \/ inv <= next
  BY <1>4, <1>8
<1>10. last <= next /\ next <= d
  BY <1>4, <1>5, <1>8
<1>11. Seen(t)' => inv <= then /\ next <= then
  BY <1>4, <1>6, <1>8
<1>12. ASSUME NEW i \in SavesIn(p, t), NEW j \in SavesIn(p, t), i <= j
       PROVE  /\ inv <= p[i].snap.stamp
              /\ p[i].snap.stamp <= p[j].snap.stamp /\ p[j].snap.stamp <= next
  <2>1. CASE \E k, l \in SavesIn(q, t) : k <= l /\ p[i] = q[k] /\ p[j] = q[l]
    <3>1. PICK k \in SavesIn(q, t), l \in SavesIn(q, t) :
            k <= l /\ p[i] = q[k] /\ p[j] = q[l]
      BY <2>1
    <3>2. q[l].snap.stamp \in Nat
      BY SaveStamps
    <3>3. /\ inv <= q[k].snap.stamp
          /\ q[k].snap.stamp <= q[l].snap.stamp /\ q[l].snap.stamp <= last
      BY <1>4, <3>1
    <3> QED BY <1>10, <3>1, <3>2, <3>3
  <2>2. CASE /\ Seen(t) /\ next = now /\ p[j].snap.stamp = now
             /\ p[i].snap.stamp = now \/ \E k \in SavesIn(q, t) : p[i] = q[k]
    <3>1. CASE p[i].snap.stamp = now
      BY <1>4, <2>2, <3>1
    <3>2. CASE \E k \in SavesIn(q, t) : p[i] = q[k]
      <4>1. PICK k \in SavesIn(q, t) : p[i] = q[k]
        BY <3>2
      <4>2. q[k].snap.stamp \in Nat /\ k \in Nat
        BY SaveStamps
      <4>3. inv <= q[k].snap.stamp /\ q[k].snap.stamp <= last
        BY <1>4, <4>2
      <4> QED BY <1>4, <2>2, <4>1, <4>2, <4>3
    <3> QED BY <2>2, <3>1, <3>2
  <2> QED BY <1>8, <1>12, <2>1, <2>2 DEF KeepsSaves, LaterSaves
<1>13. db'[x].inv = inv
  BY <1>1, <1>3
<1> QED BY <1>1, <1>2, <1>3, <1>7, <1>9, <1>10, <1>11, <1>12, <1>13 DEF InOrder, Seen, Current

(* A session waits at its home, and is not ready.                          *)
LEMMA WaitingAtHome ==
  ASSUME CustodyInv, OneWait, NEW s \in Servers, NEW t \in Token,
         Loads(s, t) # {} \/ Waits(s, t) # {}
  PROVE  t.home = s /\ Known(t) /\ t \notin ready[s]
<1>1. t.home = s /\ Known(t)
  <2>1. CASE Loads(s, t) # {}
    BY <2>1 DEF Loads, LoadsIn, CustodyInv, QueuesAreSafe, JobIsSafe
  <2>2. CASE Waits(s, t) # {}
    BY <2>2 DEF Waits, CustodyInv, TasksAreKnown
  <2> QED BY <2>1, <2>2
<1>2. t \notin ready[s]
  BY OneWaitParts DEF WaitsOnce
<1> QED BY <1>1, <1>2

(* Nothing is captured of a session that waits.                            *)
LEMMA UnseenKept ==
  ASSUME CustodyInv, OneWait, WaitsUnseen,
         \A s \in Servers, t \in Token :
           Loads(s, t)' # {} \/ Waits(s, t)' # {} =>
             /\ Loads(s, t) # {} \/ Waits(s, t) # {}
             /\ t \in ready[s] \/ (SavesIn(queue[s], t) = {} => SavesIn(queue'[s], t) = {})
             /\ t \in ready[s] \/ journal'[t] \in {journal[t], None}
  PROVE  WaitsUnseen'
<1> SUFFICES ASSUME NEW s \in Servers, NEW t \in Token,
                    Loads(s, t)' # {} \/ Waits(s, t)' # {}
             PROVE  /\ SavesIn(queue'[s], t) = {}
                    /\ journal'[t] # None => journal'[t].stamp = 0
  BY DEF WaitsUnseen
<1>1. Loads(s, t) # {} \/ Waits(s, t) # {}
  OBVIOUS
<1>2. t \notin ready[s]
  BY <1>1, WaitingAtHome
<1>3. SavesIn(queue[s], t) = {} /\ (journal[t] # None => journal[t].stamp = 0)
  BY <1>1 DEF WaitsUnseen
<1> QED BY <1>1, <1>2, <1>3

(* A queue without new saves has none of a session that had none.          *)
LEMMA NoSavesLeft ==
  ASSUME NEW p \in Seq(Job), NEW q, NEW t, KeepsSaves(p, q, t), SavesIn(q, t) = {}
  PROVE  SavesIn(p, t) = {}
<1>1. \A i \in SavesIn(p, t) : i <= i
  BY SaveStamps
<1> QED BY <1>1 DEF KeepsSaves

(* Saves are kept through two changes of a queue.                          *)
LEMMA SavesTransitive ==
  ASSUME NEW p, NEW q, NEW u, NEW t, KeepsSaves(p, q, t), KeepsSaves(q, u, t)
  PROVE  KeepsSaves(p, u, t)
<1> SUFFICES ASSUME NEW i \in SavesIn(p, t), NEW j \in SavesIn(p, t), i <= j
             PROVE  \E k, l \in SavesIn(u, t) : k <= l /\ p[i] = u[k] /\ p[j] = u[l]
  BY DEF KeepsSaves
<1>1. PICK k \in SavesIn(q, t), l \in SavesIn(q, t) : k <= l /\ p[i] = q[k] /\ p[j] = q[l]
  BY DEF KeepsSaves
<1>2. PICK m \in SavesIn(u, t), n \in SavesIn(u, t) : m <= n /\ q[k] = u[m] /\ q[l] = u[n]
  BY <1>1 DEF KeepsSaves
<1> QED BY <1>1, <1>2

(* Saves that are kept are not followed by others.                         *)
LEMMA KeptIsLater ==
  ASSUME NEW p, NEW q, NEW t, KeepsSaves(p, q, t), NEW w
  PROVE  LaterSaves(p, q, t, w)
  BY DEF KeepsSaves, LaterSaves

(* If every owner's session makes such a move, all stay in order.          *)
LEMMA OwnersMove ==
  ASSUME TypeOK, TypeOK', LockInv, StampInv, UNCHANGED db,
         \A t \in Token : db[t.xuid].owner = t => Moves(t)
  PROVE  OwnersInOrder'
<1> SUFFICES ASSUME NEW t \in Token, db'[t.xuid].owner = t
             PROVE  InOrder(t)'
  BY DEF OwnersInOrder
<1>1. db[t.xuid].owner = t /\ t.xuid \in Players /\ t # None
  BY StoreAssumption DEF Token
<1>2. InOrder(t) /\ journal[t] # None
  BY <1>1 DEF StampInv, OwnersInOrder, LockInv, OwnedRowRecoverable
<1> QED BY <1>1, <1>2, MovesInOrder DEF StampInv

(* What a quiet step does to the journal: it captures a session that is    *)
(* ready, or marks its last payload.                                       *)
Captures ==
  \A t \in Token :
    \/ journal'[t] = journal[t]
    \/ /\ Seen(t) /\ journal'[t] # None
       /\ \/ journal'[t].stamp = journal[t].stamp
          \/ journal'[t].stamp = world[t.home][t.xuid]

(* Sessions only end, clocks and inventories only advance.                 *)
Advances ==
  /\ \A r \in Servers : ready'[r] \subseteq ready[r]
  /\ \A r \in Servers, y \in Players : sess'[r][y] = sess[r][y] \/ sess'[r][y] = None
  /\ \A y \in Players : /\ clock[y] <= clock'[y]
                        /\ \A r \in Servers : world[r][y] <= world'[r][y]

(* A quiet step keeps StampInv.                                            *)
LEMMA QuietStamps ==
  ASSUME TypeOK, TypeOK', CustodyInv, LockInv, OneWait, StampInv, UNCHANGED db,
         Captures, Advances, ClockAhead',
         \A r \in Servers : /\ Plain(queue'[r], queue[r])
                            /\ \A k \in tasks'[r] : k.kind = "kick" \/ k \in tasks[r]
  PROVE  StampInv'
<1>1. OwnersInOrder'
  <2>1. ASSUME NEW t \in Token, db[t.xuid].owner = t
        PROVE  Moves(t)
    <3>1. t.home \in Servers /\ t.xuid \in Players /\ t # None
      BY StoreAssumption DEF Token
    <3>2. journal[t] # None
      BY <2>1, <3>1 DEF LockInv, OwnedRowRecoverable
    <3>3. KeepsSaves(queue'[t.home], queue[t.home], t)
      BY <3>1 DEF Plain, NoNewSaves
    <3>4. Seen(t)' => Seen(t) /\ world[t.home][t.xuid] <= world'[t.home][t.xuid]
      BY <3>1 DEF Advances, Seen, Current
    <3>5. clock[t.xuid] <= clock'[t.xuid]
      BY <3>1 DEF Advances
    <3>6. LaterSaves(queue'[t.home], queue[t.home], t, world[t.home][t.xuid])
      BY <3>3, KeptIsLater
    <3>7. \/ journal'[t] # None /\ journal'[t].stamp = journal[t].stamp
          \/ /\ Seen(t) /\ journal'[t] # None
             /\ journal'[t].stamp = world[t.home][t.xuid]
      BY <3>2 DEF Captures
    <3> QED BY <3>3, <3>4, <3>5, <3>6, <3>7 DEF Moves
  <2> QED BY <2>1, OwnersMove
<1>2. WaitsUnseen'
  <2>1. ASSUME NEW s \in Servers, NEW t \in Token,
               Loads(s, t)' # {} \/ Waits(s, t)' # {}
        PROVE  /\ Loads(s, t) # {} \/ Waits(s, t) # {}
               /\ SavesIn(queue[s], t) = {} => SavesIn(queue'[s], t) = {}
               /\ t \in ready[s] \/ journal'[t] \in {journal[t], None}
    <3>1. Loads(s, t)' # {} => Loads(s, t) # {}
      BY DEF Plain, Fewer, Loads, LoadsIn
    <3>2. Waits(s, t)' \subseteq Waits(s, t)
      BY DEF Waits
    <3>3. Loads(s, t) # {} \/ Waits(s, t) # {}
      BY <2>1, <3>1, <3>2
    <3>4. queue'[s] \in Seq(Job) /\ KeepsSaves(queue'[s], queue[s], t)
      BY DEF TypeOK, Plain, NoNewSaves
    <3>5. t.home = s
      BY <3>3, WaitingAtHome
    <3> QED BY <3>3, <3>4, <3>5, NoSavesLeft DEF Captures, Seen
  <2> QED BY <2>1, UnseenKept DEF StampInv
<1> QED BY <1>1, <1>2 DEF StampInv

(* No inventory and no saved fields change.                                *)
LEMMA ClockStill ==
  ASSUME ClockAhead, UNCHANGED <<db, world, clock>>
  PROVE  ClockAhead'
  BY DEF ClockAhead

(* Nor do sessions.                                                        *)
LEMMA StillAdvances ==
  ASSUME TypeOK, UNCHANGED <<world, clock>>,
         \A r \in Servers : ready'[r] \subseteq ready[r],
         \A r \in Servers, y \in Players : sess'[r][y] = sess[r][y] \/ sess'[r][y] = None
  PROVE  Advances
<1>1. \A y \in Players : clock[y] \in Nat /\ \A r \in Servers : world[r][y] \in Nat
  BY StoreAssumption DEF TypeOK
<1> QED BY <1>1 DEF Advances

(* A player's inventory changes: it gets a later stamp.                    *)
LEMMA PlayAdvances ==
  ASSUME TypeOK, ClockAhead, NEW s \in Servers, NEW x \in Players,
         clock' = [clock EXCEPT ![x] = @ + 1],
         world' = [world EXCEPT ![s][x] = clock[x] + 1],
         UNCHANGED <<db, ready, sess>>
  PROVE  Advances /\ ClockAhead'
<1>0. /\ clock \in [Players -> Nat] /\ world \in [Servers -> [Players -> Nat]]
      /\ \A y \in Players : db[y].inv \in Nat
  <2>1. 1 .. MaxStamp \subseteq Nat /\ Stamp \subseteq Nat
    BY StoreAssumption DEF Stamp
  <2>2. clock \in [Players -> Nat] /\ world \in [Servers -> [Players -> Nat]]
    BY <2>1 DEF TypeOK
  <2>3. \A y \in Players : db[y].inv \in Nat
    BY <2>1 DEF TypeOK, Row
  <2> QED BY <2>2, <2>3
<1>1. ASSUME NEW y \in Players
      PROVE  /\ clock[y] <= clock'[y] /\ db'[y].inv <= clock'[y]
             /\ \A r \in Servers : world[r][y] <= world'[r][y] /\ world'[r][y] <= clock'[y]
  <2>1. db[y].inv <= clock[y] /\ \A r \in Servers : world[r][y] <= clock[y]
    BY DEF ClockAhead
  <2>2. CASE y = x
    <3>1. clock'[y] = clock[y] + 1
      BY <1>0, <2>2
    <3>2. \A r \in Servers : world'[r][y] = IF r = s THEN clock[y] + 1 ELSE world[r][y]
      BY <1>0, <2>2
    <3>3. clock[y] \in Nat /\ \A r \in Servers : world[r][y] \in Nat
      BY <1>0
    <3> QED BY <1>0, <2>1, <3>1, <3>2, <3>3
  <2>3. CASE y # x
    <3>1. clock'[y] = clock[y] /\ \A r \in Servers : world'[r][y] = world[r][y]
      BY <1>0, <2>3
    <3>2. clock[y] \in Nat /\ \A r \in Servers : world[r][y] \in Nat
      BY <1>0
    <3> QED BY <2>1, <3>1, <3>2
  <2> QED BY <2>2, <2>3
<1> QED BY <1>1 DEF Advances, ClockAhead

(* What players, the operator and the backpacks do keeps StampInv.         *)
LEMMA ClientStamps ==
  ASSUME TypeOK, TypeOK', CustodyInv, LockInv, OneWait, StampInv, NEW s \in Servers,
         NEW x \in Players, Client(s, x), ~Quit(s, x), ~BeginJoin(s, x)
  PROVE  StampInv'
<1>0. /\ queue \in [Servers -> Seq(Job)]
      /\ \A r \in Servers : Plain(queue[r], queue[r])
  BY SameSaves DEF TypeOK
<1>1. CASE Play(s, x) \/ PlayUnmanaged(s, x)
  <2>1. /\ clock' = [clock EXCEPT ![x] = @ + 1]
        /\ world' = [world EXCEPT ![s][x] = clock[x] + 1]
        /\ UNCHANGED <<db, journal, queue, ready, sess, tasks>>
    BY <1>1 DEF Play, PlayUnmanaged, durable, volatile
  <2>2. Advances /\ ClockAhead'
    BY <2>1, PlayAdvances DEF StampInv
  <2>3. Captures
    BY <2>1 DEF Captures
  <2> QED BY <1>0, <2>1, <2>2, <2>3, QuietStamps
<1>2. CASE JoinUnjournaled(s, x) \/ PackPending(s, x) \/ PackRecovered(s, x)
           \/ LegacyCommand(s, x)
  <2>1. UNCHANGED <<db, journal, world, clock, ready, sess, tasks>>
    BY <1>2 DEF JoinUnjournaled, PackPending, PackRecovered, LegacyCommand, durable, volatile
  <2>2. Advances /\ Captures /\ ClockAhead'
    BY <2>1, StillAdvances, ClockStill DEF Captures, StampInv
  <2>3. PICK q : Plain(q, queue[s]) /\ (queue' = queue \/ queue' = [queue EXCEPT ![s] = q])
    <3>1. CASE JoinUnjournaled(s, x)
      BY <3>1, RecoveryPlain DEF JoinUnjournaled
    <3>2. CASE PackPending(s, x) \/ PackRecovered(s, x)
      BY <1>0, <3>2 DEF PackPending, PackRecovered, volatile
    <3>3. CASE LegacyCommand(s, x)
      <4>1. PICK j : j = [kind |-> "legacy", xuid |-> x]
        OBVIOUS
      <4>2. j \in Job /\ j.kind = "legacy"
        BY <4>1, MakeLegacy
      <4>3. queue' = [queue EXCEPT ![s] = Append(queue[s], j)]
        BY <3>3, <4>1 DEF LegacyCommand
      <4>4. Plain(Append(queue[s], j), queue[s])
        BY <1>0, <4>2, AppendPlain
      <4> QED BY <4>3, <4>4
    <3> QED BY <1>2, <3>1, <3>2, <3>3
  <2>4. \A r \in Servers : Plain(queue'[r], queue[r])
    BY <1>0, <2>3
  <2> QED BY <2>1, <2>2, <2>4, QuietStamps
<1> QED BY <1>1, <1>2 DEF Client

(* The end of a session keeps StampInv: its journal row gets what its      *)
(* player carries, or stays.                                               *)
LEMMA FinishStamps ==
  ASSUME TypeOK, TypeOK', CustodyInv, LockInv, OneWait, StampInv,
         NEW s \in Servers, NEW x \in online[s],
         Finish(s, x) \/ FinishRaises(s, x),
         sess' = [sess EXCEPT ![s][x] = None],
         UNCHANGED <<db, world, clock>>,
         \A r \in Servers : tasks'[r] \subseteq tasks[r] /\ ready'[r] \subseteq ready[r]
  PROVE  StampInv'
<1>0. queue \in [Servers -> Seq(Job)] /\ journal \in [Token -> Snap \cup {None}]
  BY DEF TypeOK
<1>1. PICK t \in Token : t = sess[s][x]
  BY TokenOfPlayer DEF CustodyInv
<1>2. x \in Players /\ t.home = s /\ t.xuid = x /\ t # None
  <2>1. x \in Players /\ t # None
    BY StoreAssumption DEF TypeOK
  <2> QED BY <1>1, <2>1 DEF CustodyInv, SessionsAreLocal
<1>3. ~Over(t) /\ Current(t)
  <2>1. phase[s] # "flushing"
    BY DEF CustodyInv, OnlineWhileEnabled
  <2> QED BY <1>1, <1>2, <2>1 DEF Over, Current
<1>4. journal[t] # None /\ journal[t] \in Snap
  BY <1>0, <1>3 DEF LockInv, CurrentIsJournaled
<1>5. /\ Capture(s, x) \in Snap /\ Payload(t) \in Snap /\ Blocked(Payload(t)) \in Snap
      /\ Capture(s, x).stamp = world[s][x]
      /\ Payload(t) = journal[t] /\ Blocked(Payload(t)).stamp = journal[t].stamp
  <2>1. Capture(s, x) \in Snap /\ Payload(t) \in Snap /\ Blocked(Payload(t)) \in Snap
    BY <1>2, CaptureType, PayloadType
  <2>2. Payload(t) = journal[t]
    BY <1>4 DEF Payload
  <2>3. Blocked(journal[t]).stamp = journal[t].stamp
    BY <1>4 DEF Blocked, Snap
  <2> QED BY <2>1, <2>2, <2>3 DEF Capture
<1>6. \/ journal' = journal
      \/ t \in ready[s] /\ journal' = [journal EXCEPT ![t] = Capture(s, x)]
      \/ t \in ready[s] /\ journal' = [journal EXCEPT ![t] = Blocked(Payload(t))]
  BY <1>1 DEF Finish, FinishRaises
<1>7. Captures
  <2> SUFFICES ASSUME NEW u \in Token
               PROVE  \/ journal'[u] = journal[u]
                      \/ /\ Seen(u) /\ journal'[u] # None
                         /\ \/ journal'[u].stamp = journal[u].stamp
                            \/ journal'[u].stamp = world[u.home][u.xuid]
    BY DEF Captures
  <2>1. CASE u # t
    BY <1>0, <1>6, <2>1
  <2>2. CASE u = t /\ journal'[t] # journal[t]
    <3>1. Seen(t)
      BY <1>2, <1>3, <1>6, <2>2 DEF Seen
    <3>2. journal'[t] = Capture(s, x) \/ journal'[t] = Blocked(Payload(t))
      BY <1>0, <1>6, <2>2
    <3>3. Capture(s, x) # None /\ Blocked(Payload(t)) # None
      BY <1>5, StoreAssumption
    <3> QED BY <1>2, <1>5, <2>2, <3>1, <3>2, <3>3
  <2> QED BY <2>1, <2>2
<1>8. \A r \in Servers : Plain(queue'[r], queue[r])
  <2>1. \/ queue' = queue
        \/ queue' = [queue EXCEPT ![s] = Append(@, Persist(t, Capture(s, x), TRUE, FALSE))]
        \/ queue' = [queue EXCEPT ![s] = Append(@, Persist(t, Payload(t), TRUE, FALSE))]
    BY <1>1 DEF Finish, FinishRaises
  <2>2. PICK snap \in Snap :
          \/ queue' = queue
          \/ queue' = [queue EXCEPT ![s] = Append(@, Persist(t, snap, TRUE, FALSE))]
    BY <1>5, <2>1
  <2>3. PICK j \in Job : j = Persist(t, snap, TRUE, FALSE)
    BY MakePersist
  <2>4. j.kind = "persist" /\ j.release
    BY <2>3 DEF Persist
  <2>5. queue' = queue \/ queue' = [queue EXCEPT ![s] = Append(queue[s], j)]
    BY <2>2, <2>3
  <2>6. Plain(Append(queue[s], j), queue[s])
    BY <1>0, <2>4, AppendPlain
  <2>7. \A r \in Servers : Plain(queue[r], queue[r])
    BY SameSaves
  <2> QED BY <1>0, <2>5, <2>6, <2>7
<1>9. Advances /\ ClockAhead'
  <2>1. \A r \in Servers, y \in Players : sess'[r][y] = sess[r][y] \/ sess'[r][y] = None
    BY DEF TypeOK
  <2> QED BY <2>1, StillAdvances, ClockStill DEF StampInv
<1> QED BY <1>7, <1>8, <1>9, QuietStamps

(* The quit handler keeps StampInv.                                        *)
LEMMA LeaveStamps ==
  ASSUME TypeOK, TypeOK', CustodyInv, LockInv, OneWait, StampInv, NEW s \in Servers,
         NEW x \in online[s], Leave(s, x), \A r \in Servers : tasks'[r] \subseteq tasks[r]
  PROVE  StampInv'
<1>1. \A r \in Servers : ready'[r] \subseteq ready[r]
  <2>1. ready \in [Servers -> SUBSET Token]
    BY DEF TypeOK
  <2>2. ready' = ready \/ \E v : ready' = [ready EXCEPT ![s] = @ \ v]
    <3>1. PICK v : v = {sess[s][x]}
      OBVIOUS
    <3> QED BY <3>1 DEF Leave
  <2> QED BY <2>1, <2>2
<1>2. /\ Finish(s, x) \/ FinishRaises(s, x)
      /\ sess' = [sess EXCEPT ![s][x] = None] /\ UNCHANGED <<db, world, clock>>
  BY DEF Leave
<1> QED BY <1>1, <1>2, FinishStamps

(* A step that keeps the journal rows and the saves of the sessions that   *)
(* own a row moves them.                                                   *)
LEMMA StillMoves ==
  ASSUME TypeOK, LockInv, NEW t \in Token, db[t.xuid].owner = t,
         journal'[t] = journal[t], UNCHANGED <<world, clock>>,
         KeepsSaves(queue'[t.home], queue[t.home], t), Seen(t)' => Seen(t)
  PROVE  Moves(t)
<1>1. t.xuid \in Players /\ t # None
  BY StoreAssumption DEF Token
<1>2. journal[t] # None
  BY <1>1 DEF LockInv, OwnedRowRecoverable
<1>3. clock[t.xuid] \in Nat /\ world[t.home][t.xuid] \in Nat
  BY OrderTypes
<1> QED BY <1>2, <1>3 DEF Moves

(* A load is queued behind the other jobs, perhaps after a recovery.       *)
LEMMA LoadSaves ==
  ASSUME TypeOK, NEW s \in Servers, NEW j \in Job, j.kind = "load",
         queue' = [queue EXCEPT ![s] = Append(WithRecovery(s), j)]
  PROVE  /\ \A r \in Servers, t \in Token : KeepsSaves(queue'[r], queue[r], t)
         /\ \A r \in Servers, t \in Token : r # s \/ t # j.token =>
              (Loads(r, t)' # {} => Loads(r, t) # {})
<1>0. queue \in [Servers -> Seq(Job)]
  BY DEF TypeOK
<1>1. PICK q : q = WithRecovery(s)
  OBVIOUS
<1>2. q \in Seq(Job) /\ Plain(q, queue[s])
  BY <1>1, WithRecoveryType, RecoveryPlain
<1>3. PICK p : p = Append(q, j)
  OBVIOUS
<1>4. \A r \in Servers : queue'[r] = IF r = s THEN p ELSE queue[r]
  BY <1>0, <1>1, <1>3
<1>5. ASSUME NEW t \in Token
      PROVE  KeepsSaves(p, queue[s], t)
  <2>1. KeepsSaves(p, q, t)
    BY <1>2, <1>3, AppendSaves DEF NoNewSaves
  <2>2. KeepsSaves(q, queue[s], t)
    BY <1>2 DEF Plain, NoNewSaves
  <2> QED BY <2>1, <2>2, SavesTransitive
<1>6. ASSUME NEW r \in Servers, NEW t \in Token
      PROVE  KeepsSaves(queue'[r], queue[r], t)
  <2>1. KeepsSaves(queue[r], queue[r], t)
    BY SameSaves DEF NoNewSaves
  <2> QED BY <1>4, <1>5, <2>1
<1>7. ASSUME NEW r \in Servers, NEW t \in Token, r # s \/ t # j.token, Loads(r, t)' # {}
      PROVE  Loads(r, t) # {}
  <2>1. Loads(r, t)' = LoadsIn(queue'[r], t)
    BY DEF Loads, LoadsIn
  <2>2. CASE r # s
    BY <1>4, <1>7, <2>1, <2>2 DEF Loads
  <2>3. CASE r = s /\ t # j.token
    <3>1. LoadsIn(p, t) \subseteq LoadsIn(q, t)
      <4>1. /\ Len(q) \in Nat /\ Len(p) = Len(q) + 1
            /\ \A i \in 1 .. Len(q) + 1 : p[i] = IF i <= Len(q) THEN q[i] ELSE j
        BY <1>2, <1>3
      <4> QED BY <2>3, <4>1 DEF LoadsIn
    <3>2. LoadsIn(q, t) # {}
      BY <1>4, <1>7, <2>1, <2>3, <3>1
    <3>3. LoadsIn(queue[s], t) # {}
      BY <1>2, <3>2 DEF Plain, Fewer
    <3> QED BY <2>3, <3>3 DEF Loads
  <2> QED BY <1>7, <2>2, <2>3
<1> QED BY <1>6, <1>7

(* A login keeps StampInv: nothing was captured of its new session.        *)
LEMMA BeginJoinStamps ==
  ASSUME TypeOK, TypeOK', CustodyInv, LockInv, OneWait, StampInv, NEW s \in Servers,
         NEW x \in Players, BeginJoin(s, x)
  PROVE  StampInv'
<1>1. PICK t : t = NewToken(s, x)
  OBVIOUS
<1>2. t \in Token /\ t.home = s /\ t.xuid = x /\ ~Known(t) /\ t # None
  BY <1>1, FreshToken, StoreAssumption
<1>3. PICK j : j = Load(t, 0)
  OBVIOUS
<1>4. j \in Job /\ j.token = t /\ j.kind = "load"
  BY <1>2, <1>3, IncidentAssumption, MakeLoad DEF Load
<1>5. /\ queue' = [queue EXCEPT ![s] = Append(WithRecovery(s), j)]
      /\ journal' = [journal EXCEPT ![t] = Marker]
      /\ sess' = [sess EXCEPT ![s][x] = t]
      /\ UNCHANGED <<db, ready, tasks, world, clock>>
  BY <1>1, <1>3 DEF BeginJoin
<1>6. /\ \A r \in Servers, u \in Token : KeepsSaves(queue'[r], queue[r], u)
      /\ \A r \in Servers, u \in Token : r # s \/ u # t =>
           (Loads(r, u)' # {} => Loads(r, u) # {})
  BY <1>4, <1>5, LoadSaves
<1>7. \A u \in Token : u # t => journal'[u] = journal[u]
  BY <1>5 DEF TypeOK
<1>8. OwnersInOrder'
  <2>1. ASSUME NEW u \in Token, db[u.xuid].owner = u
        PROVE  Moves(u)
    <3>1. u.xuid \in Players /\ u.home \in Servers /\ u # None
      BY StoreAssumption DEF Token
    <3>2. u # t
      BY <1>2, <2>1, <3>1 DEF LockInv, OwnedRowRecoverable, CustodyInv, JournalIsKnown
    <3>3. Seen(u)' => Seen(u)
      <4>1. sess \in [Servers -> [Players -> Token \cup {None}]]
        BY DEF TypeOK
      <4>2. sess' = [sess EXCEPT ![s][x] = t] /\ ready' = ready
        BY <1>5
      <4>3. sess'[u.home][u.xuid] \in {sess[u.home][u.xuid], t}
        BY <3>1, <4>1, <4>2
      <4> QED BY <3>2, <4>2, <4>3 DEF Seen, Current
    <3> QED BY <1>5, <1>6, <1>7, <2>1, <3>1, <3>2, <3>3, StillMoves
  <2> QED BY <1>5, <2>1, OwnersMove
<1>9. WaitsUnseen'
  <2> SUFFICES ASSUME NEW r \in Servers, NEW u \in Token,
                      Loads(r, u)' # {} \/ Waits(r, u)' # {}
               PROVE  /\ SavesIn(queue'[r], u) = {}
                      /\ journal'[u] # None => journal'[u].stamp = 0
    BY DEF WaitsUnseen
  <2>1. queue'[r] \in Seq(Job) /\ KeepsSaves(queue'[r], queue[r], u)
    BY <1>6 DEF TypeOK
  <2>2. Waits(r, u)' = Waits(r, u)
    BY <1>5 DEF Waits
  <2>3. CASE Loads(r, u) # {} \/ Waits(r, u) # {}
    <3>1. SavesIn(queue[r], u) = {} /\ (journal[u] # None => journal[u].stamp = 0)
      BY <2>3 DEF StampInv, WaitsUnseen
    <3>2. u # t
      BY <1>2, <2>3, WaitingAtHome
    <3> QED BY <1>7, <2>1, <3>1, <3>2, NoSavesLeft
  <2>4. CASE r = s /\ u = t
    <3>1. SavesIn(queue[s], t) = {}
      BY <1>2 DEF CustodyInv, QueuesAreSafe, JobIsSafe, SavesIn
    <3>2. journal'[t] = Marker
      BY <1>2, <1>5 DEF TypeOK
    <3>3. Marker.stamp = 0
      BY DEF Marker
    <3> QED BY <2>1, <2>4, <3>1, <3>2, <3>3, NoSavesLeft
  <2> QED BY <1>6, <2>2, <2>3, <2>4
<1> QED BY <1>5, <1>8, <1>9, ClockStill DEF StampInv

(* A callback that retries, or gives up, keeps StampInv.                   *)
LEMMA RetryStamps ==
  ASSUME TypeOK, TypeOK', CustodyInv, LockInv, OneWait, StampInv, NEW s \in Servers,
         Retry(s)
  PROVE  StampInv'
<1>0. /\ tasks \in [Servers -> SUBSET Task] /\ queue \in [Servers -> Seq(Job)]
      /\ \A r \in Servers : Plain(queue[r], queue[r])
  BY SameSaves DEF TypeOK
<1>1. PICK k \in tasks[s] :
        /\ k.kind = "retry"
        /\ \/ /\ queue' = [queue EXCEPT ![s] =
                             Append(WithRecovery(s), Load(k.token, k.tries))]
              /\ tasks' = [tasks EXCEPT ![s] = @ \ {k}]
           \/ /\ tasks' = [tasks EXCEPT ![s] =
                             (@ \ {k}) \cup {[kind |-> "kick", token |-> k.token]}]
              /\ UNCHANGED queue
  BY DEF Retry
<1>2. UNCHANGED <<db, journal, world, clock, sess, ready>>
  BY DEF Retry
<1>3. Advances /\ ClockAhead' /\ Captures
  BY <1>2, StillAdvances, ClockStill DEF StampInv, Captures
<1>4. PICK t, n : t = k.token /\ n = k.tries
  OBVIOUS
<1>5. /\ t \in Token /\ n \in 0 .. MaxTries /\ k \in Waits(s, t)
      /\ \A r \in Servers : \A l \in tasks'[r] : l.kind = "kick" \/ l \in tasks[r]
  <2>1. k \in Task
    BY <1>0, <1>1
  <2>2. t \in Token /\ n \in 0 .. MaxTries
    BY <1>1, <1>4, <2>1, IncidentAssumption DEF Task, ApplyTask, RetryTask, KickTask
  <2> QED BY <1>1, <1>4, <2>2, TakenWait DEF Waits
<1>6. CASE UNCHANGED queue
  BY <1>0, <1>2, <1>3, <1>5, <1>6, QuietStamps
<1>7. CASE queue' = [queue EXCEPT ![s] = Append(WithRecovery(s), Load(t, n))]
  <2>1. PICK j : j = Load(t, n)
    OBVIOUS
  <2>2. j \in Job /\ j.token = t /\ j.kind = "load"
    BY <1>5, <2>1, MakeLoad DEF Load
  <2>3. /\ \A r \in Servers, u \in Token : KeepsSaves(queue'[r], queue[r], u)
        /\ \A r \in Servers, u \in Token : r # s \/ u # t =>
             (Loads(r, u)' # {} => Loads(r, u) # {})
    BY <1>7, <2>1, <2>2, LoadSaves
  <2>4. OwnersInOrder'
    <3>1. ASSUME NEW u \in Token, db[u.xuid].owner = u
          PROVE  Moves(u)
      <4>1. u.home \in Servers
        BY DEF Token
      <4>2. Seen(u)' => Seen(u)
        BY <1>2 DEF Seen, Current
      <4> QED BY <1>2, <2>3, <3>1, <4>1, <4>2, StillMoves
    <3> QED BY <1>2, <3>1, OwnersMove
  <2>5. WaitsUnseen'
    <3>1. ASSUME NEW r \in Servers, NEW u \in Token,
                 Loads(r, u)' # {} \/ Waits(r, u)' # {}
          PROVE  /\ Loads(r, u) # {} \/ Waits(r, u) # {}
                 /\ SavesIn(queue[r], u) = {} => SavesIn(queue'[r], u) = {}
      <4>1. queue'[r] \in Seq(Job) /\ KeepsSaves(queue'[r], queue[r], u)
        BY <2>3 DEF TypeOK
      <4>2. Waits(r, u)' \subseteq Waits(r, u)
        BY <1>5 DEF Waits
      <4> QED BY <1>5, <2>3, <3>1, <4>1, <4>2, NoSavesLeft
    <3> QED BY <1>2, <3>1, UnseenKept DEF StampInv
  <2> QED BY <1>3, <2>4, <2>5 DEF StampInv
<1> QED BY <1>1, <1>4, <1>6, <1>7

(* A restore keeps StampInv: the player gets the saved inventory.          *)
LEMMA ApplyStamps ==
  ASSUME TypeOK, TypeOK', CustodyInv, LockInv, WaitInv, StampInv, NEW s \in Servers,
         Apply(s)
  PROVE  StampInv'
<1>0. /\ tasks \in [Servers -> SUBSET Task] /\ queue \in [Servers -> Seq(Job)]
      /\ ready \in [Servers -> SUBSET Token]
      /\ \A r \in Servers : Plain(queue[r], queue[r])
  BY SameSaves DEF TypeOK
<1>1. PICK k \in tasks[s] :
        /\ k.kind = "apply" /\ Current(k.token) /\ k.token.xuid \in online[s]
        /\ \/ /\ world' = IF k.inv = 0 THEN world
                                       ELSE [world EXCEPT ![s][k.token.xuid] = k.inv]
              /\ ready' = [ready EXCEPT ![s] = @ \cup {k.token}]
           \/ /\ world' \in {world, IF k.inv = 0 THEN world
                                    ELSE [world EXCEPT ![s][k.token.xuid] = k.inv]}
              /\ UNCHANGED ready
        /\ \/ tasks' = [tasks EXCEPT ![s] = @ \ {k}]
           \/ tasks' = [tasks EXCEPT ![s] =
                          (@ \ {k}) \cup {[kind |-> "kick", token |-> k.token]}]
        /\ UNCHANGED <<db, journal, queue, clock, sess>>
  BY DEF Apply
<1>2. PICK t, x, i : t = k.token /\ x = t.xuid /\ i = k.inv
  OBVIOUS
<1>3. /\ t \in Token /\ t.home = s /\ t \notin ready[s]
      /\ \A r \in Servers : \A l \in tasks'[r] : l.kind = "kick" \/ l \in tasks[r]
      /\ k \in Waits(s, t)
  BY <1>1, <1>2, TakenWait DEF WaitInv, Waits
<1>4. x \in Players /\ sess[s][x] = t /\ db[x].inv = i /\ i \in Nat
  <2>1. db[x].inv = i /\ sess[s][x] = t
    BY <1>1, <1>2, <1>3 DEF WaitInv, RestoreIsCurrent, Current
  <2> QED BY <1>2, <1>3, <2>1, OrderTypes
<1>5. /\ \A r \in Servers, y \in Players :
           world'[r][y] = world[r][y] \/ (r = s /\ y = x /\ world'[r][y] = i)
      /\ t \in ready'[s] => i = 0 \/ world'[s][x] = i
  <2>0. world \in [Servers -> [Players -> 1 .. MaxStamp]]
    BY DEF TypeOK
  <2>1. world' = world \/ world' = [world EXCEPT ![s][x] = i]
    BY <1>1, <1>2
  <2>2. t \in ready'[s] => i = 0 \/ world' = [world EXCEPT ![s][x] = i]
    BY <1>1, <1>2, <1>3
  <2>3. world' = [world EXCEPT ![s][x] = i] =>
          \A r \in Servers, y \in Players :
            world'[r][y] = IF r = s /\ y = x THEN i ELSE world[r][y]
    BY <2>0
  <2> QED BY <1>4, <2>1, <2>2, <2>3
<1>6. ClockAhead'
  <2>1. ASSUME NEW y \in Players
        PROVE  db'[y].inv <= clock'[y] /\ \A r \in Servers : world'[r][y] <= clock'[y]
    BY <1>1, <1>4, <1>5 DEF StampInv, ClockAhead
  <2> QED BY <2>1 DEF ClockAhead
<1>7. SavesIn(queue[s], t) = {} /\ (journal[t] # None => journal[t].stamp = 0)
  BY <1>3 DEF StampInv, WaitsUnseen
<1>8. OwnersInOrder'
  <2> SUFFICES ASSUME NEW u \in Token, db'[u.xuid].owner = u
               PROVE  InOrder(u)'
    BY DEF OwnersInOrder
  <2>1. db[u.xuid].owner = u /\ u.xuid \in Players /\ u.home \in Servers /\ u # None
    BY <1>1, StoreAssumption DEF Token
  <2>2. journal[u] # None
    BY <2>1 DEF LockInv, OwnedRowRecoverable
  <2>3. CASE u = t
    <3>1. world'[s][x] \in Nat /\ clock[x] \in Nat
      BY <1>2, <1>3, OrderTypes, OrderTypesNext
    <3>2. t \in ready'[s] => i <= world'[s][x]
      BY <1>4, <1>5, <3>1
    <3>3. journal'[t].stamp = 0 /\ SavesIn(queue'[s], t) = {} /\ db'[x].inv = i
      BY <1>1, <1>4, <1>7, <2>2, <2>3
    <3>4. t.home = s /\ t.xuid = x /\ i \in Nat /\ clock'[x] = clock[x]
      BY <1>1, <1>2, <1>3, <1>4
    <3>5. InOrder(t)'
      BY <3>1, <3>2, <3>3, <3>4, <1>6, <1>4 DEF InOrder, ClockAhead
    <3> QED BY <2>3, <3>5
  <2>4. CASE u # t
    <3>1. Seen(u)' => Seen(u) /\ world'[u.home][u.xuid] = world[u.home][u.xuid]
      <4>1. Seen(u)' => Seen(u)
        <5>1. ready' = ready \/ ready' = [ready EXCEPT ![s] = @ \cup {t}]
          BY <1>1, <1>2
        <5>2. u \in ready'[u.home] => u \in ready[u.home]
          <6>1. ready'[u.home] \subseteq ready[u.home] \cup {t}
            BY <1>0, <2>1, <5>1
          <6> QED BY <2>4, <6>1
        <5> QED BY <1>1, <5>2 DEF Seen, Current
      <4>2. Seen(u) => ~(u.home = s /\ u.xuid = x)
        BY <1>4, <2>4 DEF Seen, Current
      <4> QED BY <1>5, <2>1, <4>1, <4>2
    <3>2. world[u.home][u.xuid] \in Nat /\ clock[u.xuid] \in Nat
      BY OrderTypes
    <3>3. KeepsSaves(queue'[u.home], queue[u.home], u)
      BY <1>0, <1>1, <2>1 DEF Plain, NoNewSaves
    <3>4. Moves(u)
      BY <1>1, <2>2, <3>1, <3>2, <3>3 DEF Moves
    <3>5. InOrder(u)
      BY <2>1 DEF StampInv, OwnersInOrder
    <3> QED BY <1>1, <2>2, <3>4, <3>5, MovesInOrder DEF StampInv
  <2> QED BY <2>3, <2>4
<1>9. WaitsUnseen'
  <2>1. ASSUME NEW r \in Servers, NEW u \in Token
        PROVE  Loads(r, u)' = Loads(r, u) /\ Waits(r, u)' \subseteq Waits(r, u)
    BY <1>1, <1>3 DEF Loads, LoadsIn, Waits
  <2> QED BY <1>1, <2>1, UnseenKept DEF StampInv, WaitInv
<1> QED BY <1>6, <1>8, <1>9 DEF StampInv

(* Snapshots of t with stamp w are put behind the saves of t.              *)
LEMMA ConcatSaves ==
  ASSUME NEW q \in Seq(Job), NEW jobs \in Seq(Job), NEW t, NEW w,
         \A i \in 1 .. Len(jobs) : jobs[i].token = t => jobs[i].snap.stamp = w
  PROVE  /\ LaterSaves(q \o jobs, q, t, w)
         /\ (\A i \in 1 .. Len(jobs) : jobs[i].token # t) => KeepsSaves(q \o jobs, q, t)
<1>1. PICK p : p = q \o jobs
  OBVIOUS
<1>2. /\ Len(q) \in Nat /\ Len(jobs) \in Nat /\ Len(p) = Len(q) + Len(jobs)
      /\ \A i \in 1 .. Len(q) + Len(jobs) :
           p[i] = IF i <= Len(q) THEN q[i] ELSE jobs[i - Len(q)]
  BY <1>1
<1>3. ASSUME NEW i \in SavesIn(p, t)
      PROVE  /\ i \in Nat
             /\ \/ i <= Len(q) /\ i \in SavesIn(q, t) /\ p[i] = q[i]
                \/ /\ i > Len(q) /\ p[i].snap.stamp = w
                   /\ i - Len(q) \in 1 .. Len(jobs) /\ jobs[i - Len(q)].token = t
  <2>1. /\ i \in 1 .. Len(q) + Len(jobs)
        /\ p[i].kind = "persist" /\ p[i].token = t /\ ~p[i].release
    BY <1>2 DEF SavesIn
  <2>2. CASE i <= Len(q)
    <3>1. i \in 1 .. Len(q) /\ p[i] = q[i]
      BY <1>2, <2>1, <2>2
    <3> QED BY <2>1, <3>1 DEF SavesIn
  <2>3. CASE ~(i <= Len(q))
    <3>1. i - Len(q) \in 1 .. Len(jobs) /\ p[i] = jobs[i - Len(q)]
      BY <1>2, <2>1, <2>3
    <3> QED BY <1>2, <2>1, <2>3, <3>1
  <2> QED BY <2>2, <2>3
<1>4. LaterSaves(p, q, t, w)
  <2> SUFFICES ASSUME NEW i \in SavesIn(p, t), NEW j \in SavesIn(p, t), i <= j
               PROVE  \/ \E k, l \in SavesIn(q, t) : k <= l /\ p[i] = q[k] /\ p[j] = q[l]
                      \/ /\ p[j].snap.stamp = w
                         /\ p[i].snap.stamp = w \/ \E k \in SavesIn(q, t) : p[i] = q[k]
    BY DEF LaterSaves
  <2> QED BY <1>2, <1>3
<1>5. ASSUME \A i \in 1 .. Len(jobs) : jobs[i].token # t
      PROVE  KeepsSaves(p, q, t)
  <2>1. \A i \in SavesIn(p, t) : i \in SavesIn(q, t) /\ p[i] = q[i]
    BY <1>3, <1>5
  <2> QED BY <2>1 DEF KeepsSaves
<1> QED BY <1>1, <1>4, <1>5

(* Saves that come later than kept ones come later than the first.         *)
LEMMA LaterTransitive ==
  ASSUME NEW p, NEW q \in Seq(Job), NEW u, NEW t, NEW w,
         LaterSaves(p, q, t, w), KeepsSaves(q, u, t)
  PROVE  LaterSaves(p, u, t, w)
<1>1. \A k \in SavesIn(q, t) : \E m \in SavesIn(u, t) : q[k] = u[m]
  <2>1. \A k \in SavesIn(q, t) : k <= k
    BY SaveStamps
  <2> QED BY <2>1 DEF KeepsSaves
<1> SUFFICES ASSUME NEW i \in SavesIn(p, t), NEW j \in SavesIn(p, t), i <= j
             PROVE  \/ \E k, l \in SavesIn(u, t) : k <= l /\ p[i] = u[k] /\ p[j] = u[l]
                    \/ /\ p[j].snap.stamp = w
                       /\ p[i].snap.stamp = w \/ \E k \in SavesIn(u, t) : p[i] = u[k]
  BY DEF LaterSaves
<1>2. CASE \E k, l \in SavesIn(q, t) : k <= l /\ p[i] = q[k] /\ p[j] = q[l]
  <2>1. PICK k \in SavesIn(q, t), l \in SavesIn(q, t) : k <= l /\ p[i] = q[k] /\ p[j] = q[l]
    BY <1>2
  <2>2. PICK m \in SavesIn(u, t), n \in SavesIn(u, t) : m <= n /\ q[k] = u[m] /\ q[l] = u[n]
    BY <2>1 DEF KeepsSaves
  <2> QED BY <2>1, <2>2
<1>3. CASE /\ p[j].snap.stamp = w
           /\ p[i].snap.stamp = w \/ \E k \in SavesIn(q, t) : p[i] = q[k]
  BY <1>1, <1>3
<1> QED BY <1>2, <1>3 DEF LaterSaves

(* A periodic save, and the one of the stop command, keep StampInv.        *)
LEMMA CaptureAllStamps ==
  ASSUME TypeOK, TypeOK', CustodyInv, LockInv, OneWait, StampInv, NEW s \in Servers,
         NEW who \in SUBSET ReadyPlayers(s), NEW auto \in BOOLEAN, NEW before,
         before = queue[s] \/ before = WithRecovery(s),
         CaptureAll(s, who, auto, before),
         UNCHANGED <<db, world, clock, sess, ready, tasks>>
  PROVE  StampInv'
<1>0. queue \in [Servers -> Seq(Job)]
  BY DEF TypeOK
<1>1. before \in Seq(Job) /\ Plain(before, queue[s])
  BY WithRecoveryType, RecoveryPlain, SameSaves DEF TypeOK
<1>2. PICK lost \in SUBSET who :
        /\ journal' = [t \in Token |->
             IF \E x \in who \ lost : sess[s][x] = t THEN Capture(s, t.xuid)
                                                    ELSE journal[t]]
        /\ \E o \in Orders(who \ lost) :
             queue' = [queue EXCEPT ![s] = before \o
               [i \in 1 .. Cardinality(who \ lost) |->
                  Persist(sess[s][o[i]], Capture(s, o[i]), FALSE, auto)]]
  BY DEF CaptureAll
<1> DEFINE n == Cardinality(who \ lost)
<1>3. PICK o \in Orders(who \ lost) :
        queue' = [queue EXCEPT ![s] = before \o
          [i \in 1 .. n |->
             Persist(sess[s][o[i]], Capture(s, o[i]), FALSE, auto)]]
  BY <1>2
<1> DEFINE jobs == [i \in 1 .. n |->
             Persist(sess[s][o[i]], Capture(s, o[i]), FALSE, auto)]
<1>4. ASSUME NEW x \in who
      PROVE  /\ x \in Players /\ sess[s][x] \in Token /\ sess[s][x] \in ready[s]
             /\ sess[s][x].home = s /\ sess[s][x].xuid = x
             /\ Persist(sess[s][x], Capture(s, x), FALSE, auto) \in Job
             /\ Persist(sess[s][x], Capture(s, x), FALSE, auto).token = sess[s][x]
             /\ Persist(sess[s][x], Capture(s, x), FALSE, auto).kind = "persist"
             /\ Persist(sess[s][x], Capture(s, x), FALSE, auto).snap.stamp = world[s][x]
  <2>1. x \in online[s] /\ x \in Players /\ sess[s][x] \in ready[s]
    BY DEF TypeOK, ReadyPlayers
  <2>2. sess[s][x] \in Token /\ Capture(s, x) \in Snap
    BY <2>1, TokenOfPlayer, CaptureType DEF CustodyInv
  <2>3. sess[s][x] # None
    BY <2>2, StoreAssumption
  <2>4. sess[s][x].home = s /\ sess[s][x].xuid = x
    BY <2>1, <2>3 DEF CustodyInv, SessionsAreLocal
  <2> QED BY <2>1, <2>2, <2>4, MakePersist DEF Persist, Capture
<1>5. n \in Nat
  <2>1. IsFiniteSet(who \ lost)
    BY <1>4, StoreAssumption, FS_Subset
  <2> QED BY <2>1, FS_CardinalityType
<1>6. \A i \in 1 .. n : o[i] \in who \ lost
  BY <1>3 DEF Orders
<1>7. PICK p \in Seq(Job) :
        /\ p = jobs
        /\ \A i \in 1 .. Len(p) : \E x \in who \ lost :
             /\ p[i].kind = "persist" /\ p[i].token = sess[s][x]
             /\ p[i].snap.stamp = world[s][x]
  <2>1. /\ jobs \in [1 .. n -> Job]
        /\ \A i \in 1 .. n : \E x \in who \ lost :
             /\ jobs[i].kind = "persist" /\ jobs[i].token = sess[s][x]
             /\ jobs[i].snap.stamp = world[s][x]
    BY <1>4, <1>6
  <2> HIDE DEF n, jobs
  <2>2. jobs \in Seq(Job)
    BY <1>5, <2>1, FunctionSeq
  <2>3. Len(jobs) = n
    BY <1>5, <2>1, <2>2
  <2> QED BY <2>1, <2>2, <2>3
<1>8. \A r \in Servers : queue'[r] = IF r = s THEN before \o p ELSE queue[r]
  <2>1. queue' = [queue EXCEPT ![s] = before \o p]
    BY <1>3, <1>7
  <2> QED BY <1>0, <2>1
<1> HIDE DEF n, jobs
<1>9. ASSUME NEW u \in Token
      PROVE  \/ /\ journal'[u] = journal[u]
                /\ \A r \in Servers : KeepsSaves(queue'[r], queue[r], u)
             \/ /\ u.home = s /\ Seen(u)
                /\ journal'[u] # None /\ journal'[u].stamp = world[s][u.xuid]
                /\ LaterSaves(queue'[s], queue[s], u, world[s][u.xuid])
  <2>0. /\ \A r \in Servers : KeepsSaves(queue[r], queue[r], u)
        /\ KeepsSaves(before, queue[s], u)
    BY <1>1, SameSaves DEF Plain, NoNewSaves
  <2>1. CASE \E x \in who \ lost : sess[s][x] = u
    <3>1. PICK x \in who \ lost : sess[s][x] = u
      BY <2>1
    <3>2. /\ u.home = s /\ u.xuid = x /\ u \in ready[s] /\ x \in Players
          /\ Capture(s, x) \in Snap
      BY <1>4, <3>1, CaptureType
    <3>3. Seen(u)
      BY <3>1, <3>2 DEF Seen, Current
    <3>4. journal'[u] = Capture(s, x)
      BY <1>2, <3>1, <3>2
    <3>5. journal'[u] # None /\ journal'[u].stamp = world[s][x]
      <4>1. journal'[u] # None
        BY <3>2, <3>4, StoreAssumption
      <4>2. journal'[u].stamp = world[s][x]
        BY <3>4 DEF Capture
      <4> QED BY <4>1, <4>2
    <3>6. \A i \in 1 .. Len(p) : p[i].token = u => p[i].snap.stamp = world[s][x]
      <4> SUFFICES ASSUME NEW i \in 1 .. Len(p), p[i].token = u
                   PROVE  p[i].snap.stamp = world[s][x]
        OBVIOUS
      <4>1. PICK y \in who : p[i].token = sess[s][y] /\ p[i].snap.stamp = world[s][y]
        BY <1>7
      <4>2. sess[s][y].xuid = y
        BY <1>4
      <4> QED BY <3>2, <4>1, <4>2
    <3>7. LaterSaves(before \o p, before, u, world[s][x])
      BY <1>1, <3>6, ConcatSaves
    <3>8. LaterSaves(before \o p, queue[s], u, world[s][x])
      BY <1>1, <2>0, <3>7, LaterTransitive
    <3> QED BY <1>8, <3>2, <3>3, <3>5, <3>8
  <2>2. CASE ~\E x \in who \ lost : sess[s][x] = u
    <3>1. journal'[u] = journal[u]
      BY <1>2, <2>2
    <3>2. \A i \in 1 .. Len(p) : p[i].token # u
      BY <1>7, <2>2
    <3>3. KeepsSaves(before \o p, before, u)
      BY <1>1, <3>2, ConcatSaves
    <3>4. KeepsSaves(before \o p, queue[s], u)
      BY <2>0, <3>3, SavesTransitive
    <3> QED BY <1>8, <2>0, <3>1, <3>4
  <2> QED BY <2>1, <2>2
<1>10. OwnersInOrder'
  <2>1. ASSUME NEW u \in Token, db[u.xuid].owner = u
        PROVE  Moves(u)
    <3>1. u.home \in Servers /\ (Seen(u)' => Seen(u))
      BY DEF Token, Seen, Current
    <3>2. CASE /\ journal'[u] = journal[u]
               /\ \A r \in Servers : KeepsSaves(queue'[r], queue[r], u)
      BY <2>1, <3>1, <3>2, StillMoves
    <3>3. CASE /\ u.home = s /\ Seen(u)
               /\ journal'[u] # None /\ journal'[u].stamp = world[s][u.xuid]
               /\ LaterSaves(queue'[s], queue[s], u, world[s][u.xuid])
      <4>1. clock[u.xuid] \in Nat /\ world[u.home][u.xuid] \in Nat
        BY OrderTypes
      <4> QED BY <3>1, <3>3, <4>1 DEF Moves
    <3> QED BY <1>9, <3>2, <3>3
  <2> QED BY <2>1, OwnersMove
<1>11. WaitsUnseen'
  <2>1. ASSUME NEW r \in Servers, NEW u \in Token,
               Loads(r, u)' # {} \/ Waits(r, u)' # {}
        PROVE  /\ Loads(r, u) # {} \/ Waits(r, u) # {}
               /\ u \in ready[r] \/ (SavesIn(queue[r], u) = {} => SavesIn(queue'[r], u) = {})
               /\ u \in ready[r] \/ journal'[u] \in {journal[u], None}
    <3>1. Loads(r, u)' # {} => Loads(r, u) # {}
      <4>1. PICK q : Fewer(q, queue[s]) /\ queue' = [queue EXCEPT ![s] = q]
        BY CaptureAllFewer
      <4>2. Fewer(queue'[r], queue[r])
        BY <1>0, <4>1, EmptyFewer
      <4> QED BY <4>2 DEF Fewer, Loads, LoadsIn
    <3>2. Loads(r, u) # {} \/ Waits(r, u) # {}
      BY <2>1, <3>1 DEF Waits
    <3>3. u.home = r
      BY <3>2, WaitingAtHome
    <3>4. queue'[r] \in Seq(Job)
      BY DEF TypeOK
    <3>5. u \in ready[r] \/ (KeepsSaves(queue'[r], queue[r], u) /\ journal'[u] = journal[u])
      BY <1>9, <3>3 DEF Seen
    <3> QED BY <3>2, <3>4, <3>5, NoSavesLeft
  <2> QED BY <2>1, UnseenKept DEF StampInv
<1> QED BY <1>10, <1>11, ClockStill DEF StampInv

(* A step that queues one recovery instead of what there was, or nothing,  *)
(* keeps StampInv.                                                         *)
LEMMA RestartStamps ==
  ASSUME TypeOK, TypeOK', CustodyInv, LockInv, OneWait, StampInv, NEW s \in Servers,
         \/ queue' = [queue EXCEPT ![s] = << >>]
         \/ queue' = [queue EXCEPT ![s] = <<Batch(Entries(s, {}), FALSE)>>],
         \A r \in Servers : tasks'[r] \subseteq tasks[r] /\ ready'[r] \subseteq ready[r],
         sess' = sess \/ sess' = [sess EXCEPT ![s] = [x \in Players |-> None]],
         UNCHANGED <<db, journal, world, clock>>
  PROVE  StampInv'
<1>0. queue \in [Servers -> Seq(Job)] /\ sess \in [Servers -> [Players -> Token \cup {None}]]
  BY DEF TypeOK
<1>1. PICK j : j = Batch(Entries(s, {}), FALSE)
  OBVIOUS
<1>2. j \in Job /\ j.kind = "batch"
  BY <1>1, EntriesType, MakeBatch DEF Batch
<1>3. Plain(<< >>, queue[s]) /\ Plain(<<j>>, queue[s])
  BY <1>2, FewSaves, EmptyFewer DEF Plain
<1>4. PICK q : Plain(q, queue[s]) /\ queue' = [queue EXCEPT ![s] = q]
  BY <1>1, <1>3
<1>5. \A r \in Servers : Plain(queue'[r], queue[r])
  BY <1>0, <1>4, SameSaves
<1>6. \A r \in Servers, y \in Players : sess'[r][y] = sess[r][y] \/ sess'[r][y] = None
  BY <1>0
<1>7. Advances /\ ClockAhead' /\ Captures
  BY <1>6, StillAdvances, ClockStill DEF StampInv, Captures
<1> QED BY <1>5, <1>7, QuietStamps

(* The callbacks of the scheduler keep StampInv.                           *)
LEMMA TickStamps ==
  ASSUME TypeOK, TypeOK', CustodyInv, LockInv, WaitInv, StampInv, NEW s \in Servers,
         Tick(s)
  PROVE  StampInv'
<1>0. OneWait /\ tasks \in [Servers -> SUBSET Task]
  BY DEF WaitInv, TypeOK
<1>1. CASE Apply(s)
  BY <1>1, ApplyStamps
<1>2. CASE Retry(s)
  BY <1>0, <1>2, RetryStamps
<1>3. CASE DropTask(s)
  <2>1. UNCHANGED <<db, journal, world, clock, sess, ready, queue>>
    BY <1>3 DEF DropTask
  <2>2. \A r \in Servers : tasks'[r] \subseteq tasks[r]
    BY <1>0, <1>3 DEF DropTask
  <2>3. Advances /\ ClockAhead' /\ Captures
    BY <2>1, StillAdvances, ClockStill DEF StampInv, Captures
  <2> QED BY <1>0, <2>1, <2>2, <2>3, SameSaves, QuietStamps
<1>4. CASE Kick(s)
  <2>1. PICK k \in tasks[s] : /\ k.token.xuid \in online[s] /\ Leave(s, k.token.xuid)
                              /\ tasks' = [tasks EXCEPT ![s] = @ \ {k}]
    BY <1>4 DEF Kick
  <2>2. PICK x \in online[s] : Leave(s, x)
    BY <2>1
  <2>3. \A r \in Servers : tasks'[r] \subseteq tasks[r]
    BY <1>0, <2>1
  <2> QED BY <1>0, <2>2, <2>3, LeaveStamps
<1> QED BY <1>1, <1>2, <1>3, <1>4 DEF Tick

(* What the main thread does keeps StampInv.                               *)
LEMMA MainStamps ==
  ASSUME TypeOK, TypeOK', CustodyInv, LockInv, WaitInv, StampInv, NEW s \in Servers,
         Main(s)
  PROVE  StampInv'
<1>0. OneWait
  BY DEF WaitInv
<1>1. CASE Tick(s)
  BY <1>1, TickStamps
<1>2. CASE Autosave(s)
  <2>1. PICK who \in SUBSET ReadyPlayers(s) : CaptureAll(s, who, TRUE, WithRecovery(s))
    BY <1>2 DEF Autosave
  <2>2. UNCHANGED <<db, world, clock, sess, ready, tasks>>
    BY <1>2 DEF Autosave
  <2> QED BY <1>0, <2>1, <2>2, CaptureAllStamps
<1>3. ASSUME NEW refused \in BOOLEAN, StopCommand(s, refused)
      PROVE  StampInv'
  <2>1. CaptureAll(s, ReadyPlayers(s), FALSE, queue[s])
    BY <1>3 DEF StopCommand
  <2>2. UNCHANGED <<db, world, clock, sess, ready, tasks>>
    BY <1>3 DEF StopCommand
  <2> QED BY <1>0, <2>1, <2>2, CaptureAllStamps
<1>4. ASSUME UNCHANGED <<db, journal, world, clock, sess, ready, queue, tasks>>
      PROVE  StampInv'
  <2>1. Advances /\ ClockAhead' /\ Captures
    BY <1>4, StillAdvances, ClockStill DEF StampInv, Captures
  <2> QED BY <1>0, <1>4, <2>1, SameSaves, QuietStamps
<1>5. CASE Vanish(s) \/ Disable(s)
  BY <1>4, <1>5 DEF Vanish, Disable, durable
<1>6. CASE DisableFinish(s)
  <2>1. PICK x \in online[s] :
          /\ Finish(s, x) \/ FinishRaises(s, x)
          /\ sess' = [sess EXCEPT ![s][x] = None]
    BY <1>6 DEF DisableFinish
  <2>2. UNCHANGED <<db, world, clock, ready, tasks>>
    BY <1>6 DEF DisableFinish
  <2> QED BY <1>0, <2>1, <2>2, FinishStamps
<1>7. CASE DisableFlush(s) \/ Boot(s)
  <2>1. UNCHANGED <<db, journal, world, clock, sess, ready, tasks>>
    BY <1>7 DEF DisableFlush, Boot, durable
  <2>2. CASE queue' = queue
    BY <1>4, <2>1, <2>2
  <2>3. CASE queue' = [queue EXCEPT ![s] = <<Batch(Entries(s, {}), FALSE)>>]
    BY <1>0, <2>1, <2>3, RestartStamps
  <2> QED BY <1>7, <2>2, <2>3 DEF DisableFlush, Boot
<1>8. CASE Exit(s) \/ Crash(s)
  <2>1. Reset(s)
    BY <1>8 DEF Exit, Crash
  <2>2. \A r \in Servers : tasks'[r] \subseteq tasks[r] /\ ready'[r] \subseteq ready[r]
    BY <2>1 DEF Reset, TypeOK
  <2>3. /\ queue' = [queue EXCEPT ![s] = << >>]
        /\ sess' = [sess EXCEPT ![s] = [x \in Players |-> None]]
        /\ UNCHANGED <<db, journal, world, clock>>
    BY <2>1 DEF Reset, durable
  <2> QED BY <1>0, <2>2, <2>3, RestartStamps
<1> QED BY <1>1, <1>2, <1>3, <1>5, <1>6, <1>7, <1>8 DEF Main

----------------------------------------------------------------------------
(* The worker.                                                             *)

(* The worker takes the job at the head away, or replaces it.              *)
LEMMA WorkerTakes ==
  ASSUME TypeOK, NEW s \in Servers, Worker(s)
  PROVE  \A r \in Servers : Plain(queue'[r], queue[r])
<1>0. queue \in [Servers -> Seq(Job)]
  BY DEF TypeOK
<1>1. queue[s] # << >>
  BY DEF Worker, TakeLoad, Claim, CheckStorage, Save, RemoveRow, RecoverNext,
     RecoverDone, ReleaseLegacy, At
<1>2. PICK q \in Seq(Job) : q = queue[s] /\ q # << >>
  BY <1>0, <1>1
<1>3. PICK job : job = Head(q)
  OBVIOUS
<1>4. \/ queue' = queue \/ Drop(s)
      \/ \E todo, f : EndSnapshot(s, todo, f)
      \/ \E e : queue' = [queue EXCEPT ![s] =
                          <<Recover(e, job.todo \ {e}, job.failed)>> \o Tail(q)]
  <2>1. CASE TakeLoad(s) \/ Claim(s)
    BY <2>1 DEF TakeLoad, Claim, LoadFails
  <2>2. CASE CheckStorage(s)
    BY <2>2 DEF CheckStorage, GiveUp
  <2>3. CASE Save(s) \/ RemoveRow(s)
    BY <2>3 DEF Save, RemoveRow, GiveUp
  <2>4. CASE RecoverNext(s)
    BY <1>2, <1>3, <2>4 DEF RecoverNext
  <2>5. CASE RecoverDone(s) \/ ReleaseLegacy(s)
    BY <2>5 DEF RecoverDone, ReleaseLegacy
  <2> QED BY <2>1, <2>2, <2>3, <2>4, <2>5 DEF Worker
<1> DEFINE Turned(j) == j.kind \in {"batch", "recover"} /\ queue'[s] = <<j>> \o Tail(q)
<1> HIDE DEF Turned
<1>5. \/ queue'[s] = q \/ queue'[s] = Tail(q)
      \/ \E j : Turned(j)
  <2>1. ASSUME NEW todo, NEW f, EndSnapshot(s, todo, f)
        PROVE  \/ queue'[s] = Tail(q)
               \/ \E j : Turned(j)
    <3>1. PICK j : j = Batch(todo, job.failed \/ f)
      OBVIOUS
    <3>2. j.kind \in {"batch", "recover"}
      BY <3>1 DEF Batch
    <3>3. queue'[s] = Tail(q) \/ queue'[s] = <<j>> \o Tail(q)
      BY <1>0, <1>2, <1>3, <2>1, <3>1 DEF EndSnapshot
    <3> QED BY <3>2, <3>3 DEF Turned
  <2>2. ASSUME NEW e, queue' = [queue EXCEPT ![s] =
                          <<Recover(e, job.todo \ {e}, job.failed)>> \o Tail(q)]
        PROVE  \E j : Turned(j)
    <3>1. PICK j : j = Recover(e, job.todo \ {e}, job.failed)
      OBVIOUS
    <3>2. j.kind \in {"batch", "recover"}
      BY <3>1 DEF Recover
    <3>3. queue'[s] = <<j>> \o Tail(q)
      BY <1>0, <2>2, <3>1
    <3>4. Turned(j)
      BY <3>2, <3>3 DEF Turned
    <3> QED BY <3>4
  <2>3. Drop(s) => queue'[s] = Tail(q)
    BY <1>0, <1>2 DEF Drop
  <2> QED BY <1>2, <1>4, <2>1, <2>2, <2>3
<1>6. Plain(queue'[s], q)
  <2>1. Plain(q, q) /\ Plain(Tail(q), q)
    BY <1>2, SameSaves, TailSaves, TailFewer DEF Plain
  <2>2. ASSUME NEW j, j.kind \in {"batch", "recover"}
        PROVE  Plain(<<j>> \o Tail(q), q)
    BY <1>2, <2>2, ReplaceSaves, ReplaceFewer DEF Plain
  <2>3. CASE \E j : Turned(j)
    <3>1. PICK j : Turned(j)
      BY <2>3
    <3>2. Plain(<<j>> \o Tail(q), q)
      BY <2>2, <3>1 DEF Turned
    <3> QED BY <3>1, <3>2 DEF Turned
  <2> QED BY <1>5, <2>1, <2>3
<1>7. \A r \in Servers : r # s => queue'[r] = queue[r]
  BY <1>0, <1>4 DEF Drop, EndSnapshot
<1> QED BY <1>2, <1>6, <1>7, SameSaves

(* A new callback of a session that waits is that of its load.             *)
LEMMA WorkerWaitsOn ==
  ASSUME TypeOK, NEW s \in Servers, Worker(s), NEW r \in Servers, NEW t \in Token,
         Waits(r, t)' # {}
  PROVE  Loads(r, t) # {} \/ Waits(r, t) # {}
<1>0. tasks \in [Servers -> SUBSET Task] /\ queue \in [Servers -> Seq(Job)]
  BY DEF TypeOK
<1>1. CASE tasks' = tasks
  BY <1>1 DEF Waits
<1>2. CASE Claim(s)
  <2>1. PICK job : job = Head(queue[s])
    OBVIOUS
  <2>2. job.kind = "load" /\ queue[s] # << >>
    BY <1>2, <2>1 DEF Claim, At
  <2>3. \E k : k.token = job.token /\ Schedule(s, k)
    <3>1. \/ \E i : Schedule(s, [kind |-> "apply", token |-> job.token, inv |-> i])
          \/ Schedule(s, [kind |-> "kick", token |-> job.token])
          \/ \E n : Schedule(s, [kind |-> "retry", token |-> job.token, tries |-> n])
      BY <1>2, <2>1 DEF Claim, LoadFails
    <3>2. /\ \A i : [kind |-> "apply", token |-> job.token, inv |-> i].token = job.token
          /\ [kind |-> "kick", token |-> job.token].token = job.token
          /\ \A n : [kind |-> "retry", token |-> job.token, tries |-> n].token = job.token
      OBVIOUS
    <3> QED BY <3>1, <3>2
  <2>4. PICK k : k.token = job.token /\ Schedule(s, k)
    BY <2>3
  <2>5. \A l \in tasks'[r] : l \in tasks[r] \/ (r = s /\ l = k)
    BY <1>0, <2>4 DEF Schedule
  <2>6. PICK l \in tasks'[r] : l.kind \in {"apply", "retry"} /\ l.token = t
    BY DEF Waits
  <2>7. CASE l \in tasks[r]
    BY <2>6, <2>7 DEF Waits
  <2>8. CASE r = s /\ l = k
    <3>1. 1 \in LoadsIn(queue[s], t)
      BY <1>0, <2>1, <2>2, <2>4, <2>6, <2>8, TailLoads
    <3> QED BY <2>8, <3>1 DEF Loads
  <2> QED BY <2>5, <2>7, <2>8
<1> QED BY <1>1, <1>2 DEF Worker, TakeLoad, CheckStorage, Save, RemoveRow, RecoverNext,
      RecoverDone, ReleaseLegacy

(* The row that owns a job's session is saved with a stamp between those of *)
(* the row and of the journal.                                             *)
LEMMA SavedInOrder ==
  ASSUME TypeOK, CustodyInv, LockInv, StampInv, NEW s \in Servers, Save(s),
         NEW job, job = Head(queue[s]), NEW x \in Players, db[x].owner = job.token
  PROVE  /\ job.token \in Token /\ job.token.home = s /\ job.token.xuid = x
         /\ journal[job.token] # None
         /\ job.snap.stamp \in Nat /\ job.snap.stamp <= journal[job.token].stamp
         /\ job.snap.stamp = 0 \/ db[x].inv <= job.snap.stamp
         /\ ~job.release => 1 \in SavesIn(queue[s], job.token)
<1>1. /\ job.token \in Token /\ job.snap \in Snap /\ job.release \in BOOLEAN
      /\ queue[s] \in Seq(Job) /\ queue[s] # << >>
      /\ job \in Job /\ job.kind \in {"persist", "recover"}
  BY SnapshotJob, HeadJob DEF Save
<1>2. PICK t \in Token : t = job.token
  BY <1>1
<1>3. JobIsSafe(s, job) /\ Settled(job)
  BY <1>1, HeadSettled DEF CustodyInv, LockInv
<1>4. t.home = s
  BY <1>1, <1>2, <1>3 DEF JobIsSafe
<1>5. t # None /\ t.xuid = x /\ journal[t] # None
  <2>1. t # None
    BY StoreAssumption
  <2> QED BY <1>2, <2>1 DEF LockInv, OwnersAreLocal, OwnedRowRecoverable
<1>6. InOrder(t)
  BY <1>2, <1>5 DEF StampInv, OwnersInOrder
<1>7. job.snap.stamp \in Nat
  BY <1>1, StoreAssumption DEF Snap, Stamp
<1>8. journal[t].stamp \in Nat /\ db[x].inv \in Nat
  BY <1>5, OrderTypes
<1>9. CASE job.release
  <2>1. journal[t] = job.snap
    BY <1>1, <1>2, <1>3, <1>5, <1>9, ReleaseIsOver
  <2>2. journal[t].stamp = 0 \/ db[x].inv <= journal[t].stamp
    BY <1>5, <1>6 DEF InOrder
  <2> QED BY <1>2, <1>4, <1>5, <1>7, <1>9, <2>1, <2>2
<1>10. CASE ~job.release
  <2>1. job.kind = "persist"
    BY <1>1, <1>10, JobKinds DEF RecoverJob
  <2>2. Len(queue[s]) \in Nat /\ Len(queue[s]) > 0 /\ queue[s][1] = job
    BY <1>1
  <2>3. 1 \in SavesIn(queue[s], t)
    BY <1>2, <1>10, <2>1, <2>2 DEF SavesIn
  <2>4. /\ db[x].inv <= queue[s][1].snap.stamp
        /\ queue[s][1].snap.stamp <= journal[t].stamp
    BY <1>4, <1>5, <1>6, <2>3 DEF InOrder
  <2> QED BY <1>2, <1>4, <1>5, <1>7, <2>2, <2>3, <2>4
<1> QED BY <1>1, <1>9, <1>10

(* What a worker step that changes saved fields does.                      *)
LEMMA FieldsSaved ==
  ASSUME TypeOK, NEW s \in Servers, Worker(s), NEW x \in Players,
         db'[x].inv # db[x].inv, NEW job, job = Head(queue[s])
  PROVE  /\ Save(s) /\ db[x].owner = job.token /\ job.token.xuid = x
         /\ db'[x].inv = job.snap.stamp /\ job.snap.stamp # 0
         /\ job.release => db'[x].owner = None
         /\ ~job.release => queue'[s] = Tail(queue[s])
         /\ UNCHANGED journal
<1>0. db \in [Players -> Row] /\ queue \in [Servers -> Seq(Job)]
  BY DEF TypeOK
<1>1. Save(s) /\ db[x].owner = job.token /\ UNCHANGED journal
  BY WorkerFields DEF Save
<1>2. PICK y : \/ db' = db
               \/ db' = [db EXCEPT ![y] = Saved(db[y], job.snap, job.release)]
               /\ y = job.token.xuid
  BY <1>1 DEF Save
<1>3. y = x /\ db'[x] = Saved(db[x], job.snap, job.release)
  BY <1>0, <1>2
<1>4. /\ db'[x].inv = IF job.snap.stamp = 0 THEN db[x].inv ELSE job.snap.stamp
      /\ job.release => db'[x].owner = None
  BY <1>3 DEF Saved
<1>5. ASSUME ~job.release
      PROVE  queue'[s] = Tail(queue[s])
  <2>1. job \in Job /\ job.kind = "persist"
    <3>1. job \in Job /\ job.kind \in {"persist", "recover"}
      BY <1>1, HeadJob DEF Save
    <3> QED BY <1>5, <3>1, JobKinds DEF RecoverJob
  <2>2. db' # db
    OBVIOUS
  <2>3. Drop(s) \/ GiveUp(s)
    BY <1>1, <1>5, <2>2 DEF Save
  <2> QED BY <1>0, <2>1, <2>3 DEF Drop, GiveUp, EndSnapshot
<1> QED BY <1>1, <1>2, <1>3, <1>4, <1>5

(* A session that takes a row has nothing captured yet.                    *)
LEMMA ClaimedInOrder ==
  ASSUME TypeOK, TypeOK', CustodyInv, LockInv, OneWait, StampInv, NEW s \in Servers,
         Worker(s), NEW t \in Token, db[t.xuid].owner # t, db'[t.xuid].owner = t
  PROVE  InOrder(t)'
<1>0. queue \in [Servers -> Seq(Job)] /\ t.xuid \in Players /\ t.home \in Servers /\ t # None
  BY StoreAssumption DEF TypeOK, Token
<1>1. PICK job : job = Head(queue[s])
  OBVIOUS
<1>2. Claim(s) /\ t = job.token
  <2>1. \/ Claim(s) /\ db'[t.xuid].owner = job.token
        \/ db'[t.xuid] = Saved(db[t.xuid], job.snap, TRUE)
    BY <1>0, <1>1, WorkerRows
  <2>2. Saved(db[t.xuid], job.snap, TRUE).owner = None
    BY DEF Saved
  <2> QED BY <1>0, <2>1, <2>2
<1>3. job.kind = "load" /\ queue[s] # << >> /\ journal[t] # None
  <2>1. job.kind = "load" /\ queue[s] # << >> /\ pc[s] = "claim"
    BY <1>1, <1>2 DEF Claim, At
  <2> QED BY <1>1, <1>2, <2>1 DEF LockInv, WorkerStands, Stands
<1>4. Loads(s, t) # {}
  BY <1>0, <1>1, <1>2, <1>3, TailLoads DEF Loads
<1>5. /\ t.home = s /\ t \notin ready[s] /\ journal[t].stamp = 0
      /\ SavesIn(queue[s], t) = {}
  BY <1>3, <1>4, WaitingAtHome DEF StampInv, WaitsUnseen
<1>6. SavesIn(queue'[s], t) = {}
  <2>1. queue'[s] \in Seq(Job) /\ KeepsSaves(queue'[s], queue[s], t)
    BY WorkerTakes DEF TypeOK, Plain, NoNewSaves
  <2> QED BY <1>5, <2>1, NoSavesLeft
<1>7. journal' = journal /\ ready' = ready
  BY <1>2 DEF Claim, WorkerFrame
<1>8. clock'[t.xuid] \in Nat
  BY OrderTypesNext
<1> QED BY <1>5, <1>6, <1>7, <1>8 DEF InOrder

(* A save that does not release leaves the later ones in order.            *)
LEMMA SavesStayInOrder ==
  ASSUME TypeOK, CustodyInv, LockInv, StampInv, NEW s \in Servers, Worker(s),
         NEW t \in Token, db[t.xuid].owner = t, db'[t.xuid].owner = t,
         db'[t.xuid].inv # db[t.xuid].inv
  PROVE  InOrder(t)'
<1>1. PICK x \in Players : x = t.xuid
  BY DEF Token
<1>2. PICK job : job = Head(queue[s])
  OBVIOUS
<1>3. /\ Save(s) /\ t = job.token /\ db'[x].inv = job.snap.stamp
      /\ job.release => db'[x].owner = None
      /\ ~job.release => queue'[s] = Tail(queue[s])
      /\ UNCHANGED journal
  BY <1>1, <1>2, FieldsSaved
<1>4. ~job.release /\ queue'[s] = Tail(queue[s])
  BY <1>1, <1>3, StoreAssumption
<1>5. t.home = s /\ journal[t] # None /\ 1 \in SavesIn(queue[s], t)
      /\ job.snap.stamp \in Nat
  BY <1>1, <1>2, <1>3, <1>4, SavedInOrder
<1>6. PICK q \in Seq(Job) : q = queue[s] /\ q # << >>
  BY <1>2, <1>3, HeadJob DEF Save
<1>7. UNCHANGED <<world, clock, sess, ready>>
  BY WorkerFrames DEF WorkerFrame
<1>8. PICK inv \in Nat, last \in Nat, now \in Nat :
        inv = job.snap.stamp /\ last = journal[t].stamp /\ now = world[s][x]
  BY <1>1, <1>5, OrderTypes
<1>9. /\ \A i, j \in SavesIn(q, t) : i <= j =>
           q[i].snap.stamp <= q[j].snap.stamp /\ q[j].snap.stamp <= last
      /\ last <= clock[x]
      /\ t \in ready[s] /\ Current(t) => last <= now
  BY <1>1, <1>5, <1>6, <1>8 DEF StampInv, OwnersInOrder, InOrder
<1>10. q[1] = job
  BY <1>2, <1>6
<1>11. inv <= last
  BY <1>5, <1>6, <1>8, <1>9, <1>10
<1>12. ASSUME NEW i \in SavesIn(Tail(q), t), NEW j \in SavesIn(Tail(q), t), i <= j
       PROVE  /\ inv <= Tail(q)[i].snap.stamp
              /\ Tail(q)[i].snap.stamp <= Tail(q)[j].snap.stamp
              /\ Tail(q)[j].snap.stamp <= last
  <2>1. /\ i \in Nat /\ i > 0 /\ i + 1 \in SavesIn(q, t) /\ Tail(q)[i] = q[i + 1]
        /\ j \in Nat /\ j > 0 /\ j + 1 \in SavesIn(q, t) /\ Tail(q)[j] = q[j + 1]
    BY <1>6, TailSaves
  <2>2. 1 <= i + 1 /\ i + 1 <= j + 1 /\ 1 \in SavesIn(q, t)
    BY <1>5, <1>6, <1>12, <2>1
  <2> QED BY <1>8, <1>9, <1>10, <2>1, <2>2
<1>13. t \in ready[s] /\ Current(t) => inv <= now
  BY <1>8, <1>9, <1>11
<1>14. /\ queue'[t.home] = Tail(q) /\ db'[t.xuid].inv = inv /\ journal'[t].stamp = last
       /\ world'[t.home][t.xuid] = now /\ clock'[t.xuid] = clock[x]
       /\ ready'[t.home] = ready[s] /\ Current(t)' = Current(t)
  BY <1>1, <1>3, <1>4, <1>5, <1>6, <1>7, <1>8 DEF Current
<1>15. PICK p : p = Tail(q)
  OBVIOUS
<1>16. /\ \A i, j \in SavesIn(p, t) : i <= j =>
            /\ inv <= p[i].snap.stamp
            /\ p[i].snap.stamp <= p[j].snap.stamp /\ p[j].snap.stamp <= last
       /\ queue'[t.home] = p
  BY <1>12, <1>14, <1>15
<1> QED BY <1>9, <1>11, <1>13, <1>14, <1>16 DEF InOrder

(* The worker keeps StampInv.                                              *)
LEMMA WorkerStamps ==
  ASSUME TypeOK, TypeOK', CustodyInv, LockInv, OneWait, StampInv, NEW s \in Servers,
         Worker(s)
  PROVE  StampInv'
<1>0. UNCHANGED <<world, clock, sess, ready>>
  BY WorkerFrames DEF WorkerFrame
<1>1. \A r \in Servers : Plain(queue'[r], queue[r])
  BY WorkerTakes
<1>2. PICK job : job = Head(queue[s])
  OBVIOUS
<1>3. ASSUME NEW t \in Token, db[t.xuid].owner = t
      PROVE  journal'[t] = journal[t]
  <2> SUFFICES ASSUME journal'[t] # journal[t]
               PROVE  FALSE
    OBVIOUS
  <2>1. RemoveRow(s) /\ t = job.token
    BY <1>2, WorkerJournal
  <2>2. pc[s] = "remove"
    BY <2>1 DEF RemoveRow, At
  <2> QED BY <1>2, <1>3, <2>1, <2>2 DEF LockInv, WorkerStands, Stands
<1>4. OwnersInOrder'
  <2> SUFFICES ASSUME NEW t \in Token, db'[t.xuid].owner = t
               PROVE  InOrder(t)'
    BY DEF OwnersInOrder
  <2>1. CASE db[t.xuid].owner # t
    BY <2>1, ClaimedInOrder
  <2>2. CASE db[t.xuid].owner = t /\ db'[t.xuid].inv # db[t.xuid].inv
    BY <2>2, SavesStayInOrder
  <2>3. CASE db[t.xuid].owner = t /\ db'[t.xuid].inv = db[t.xuid].inv
    <3>1. t.home \in Servers /\ t.xuid \in Players /\ t # None
      BY StoreAssumption DEF Token
    <3>2. KeepsSaves(queue'[t.home], queue[t.home], t)
      BY <1>1, <3>1 DEF Plain, NoNewSaves
    <3>3. Seen(t)' => Seen(t)
      BY <1>0 DEF Seen, Current
    <3>4. Moves(t)
      BY <1>0, <1>3, <2>3, <3>2, <3>3, StillMoves
    <3>5. InOrder(t) /\ journal[t] # None
      BY <2>3, <3>1 DEF StampInv, OwnersInOrder, LockInv, OwnedRowRecoverable
    <3> QED BY <2>3, <3>4, <3>5, MovesInOrder DEF StampInv
  <2> QED BY <2>1, <2>2, <2>3
<1>5. WaitsUnseen'
  <2>1. ASSUME NEW r \in Servers, NEW t \in Token,
               Loads(r, t)' # {} \/ Waits(r, t)' # {}
        PROVE  /\ Loads(r, t) # {} \/ Waits(r, t) # {}
               /\ SavesIn(queue[r], t) = {} => SavesIn(queue'[r], t) = {}
               /\ journal'[t] \in {journal[t], None}
    <3>1. Loads(r, t)' # {} => Loads(r, t) # {}
      BY <1>1 DEF Plain, Fewer, Loads, LoadsIn
    <3>2. Loads(r, t) # {} \/ Waits(r, t) # {}
      BY <2>1, <3>1, WorkerWaitsOn
    <3>3. queue'[r] \in Seq(Job) /\ KeepsSaves(queue'[r], queue[r], t)
      BY <1>1 DEF TypeOK, Plain, NoNewSaves
    <3>4. journal'[t] = journal[t] \/ journal'[t] = None
      BY WorkerJournal
    <3> QED BY <3>2, <3>3, <3>4, NoSavesLeft
  <2> QED BY <2>1, UnseenKept DEF StampInv
<1>6. ClockAhead'
  <2>1. ASSUME NEW x \in Players
        PROVE  db'[x].inv <= clock[x]
    <3>1. CASE db'[x].inv = db[x].inv
      BY <3>1 DEF StampInv, ClockAhead
    <3>2. CASE db'[x].inv # db[x].inv
      <4>1. Save(s) /\ db[x].owner = job.token /\ db'[x].inv = job.snap.stamp
        BY <1>2, <3>2, FieldsSaved
      <4>2. /\ job.token \in Token /\ job.token.xuid = x /\ journal[job.token] # None
            /\ job.snap.stamp \in Nat /\ job.snap.stamp <= journal[job.token].stamp
        BY <1>2, <4>1, SavedInOrder
      <4>3. PICK t \in Token : t = job.token
        BY <4>2
      <4>4. journal[t].stamp <= clock[x]
        BY <4>1, <4>2, <4>3 DEF StampInv, OwnersInOrder, InOrder
      <4>5. journal[t].stamp \in Nat /\ clock[x] \in Nat
        BY <4>2, <4>3, OrderTypes
      <4> QED BY <4>1, <4>2, <4>3, <4>4, <4>5
    <3> QED BY <3>1, <3>2
  <2> QED BY <1>0, <2>1 DEF StampInv, ClockAhead
<1> QED BY <1>4, <1>5, <1>6 DEF StampInv

----------------------------------------------------------------------------
(* Every step keeps StampInv.                                              *)
LEMMA StampStep ==
  ASSUME TypeOK, TypeOK', CustodyInv, LockInv, WaitInv, StampInv, [Next]_vars
  PROVE  StampInv'
<1>0. OneWait
  BY DEF WaitInv
<1>1. CASE UNCHANGED vars
  <2>1. UNCHANGED <<db, journal, world, clock, sess, ready, queue, tasks>>
    BY <1>1 DEF vars, durable, volatile
  <2>2. Advances /\ ClockAhead' /\ Captures
    BY <2>1, StillAdvances, ClockStill DEF StampInv, Captures
  <2> QED BY <1>0, <2>1, <2>2, SameSaves, QuietStamps
<1>2. ASSUME NEW s \in Servers, NEW x \in Players, Client(s, x)
      PROVE  StampInv'
  <2>1. CASE Quit(s, x)
    <3>1. x \in online[s] /\ Leave(s, x) /\ UNCHANGED tasks
      BY <2>1 DEF Quit
    <3> QED BY <1>0, <3>1, LeaveStamps
  <2>2. CASE BeginJoin(s, x)
    BY <1>0, <2>2, BeginJoinStamps
  <2> QED BY <1>0, <1>2, <2>1, <2>2, ClientStamps
<1> QED BY <1>0, <1>1, <1>2, WorkerStamps, MainStamps DEF Next

(* Nothing is saved at first.                                              *)
LEMMA InitStamp == Init => StampInv
<1> SUFFICES ASSUME Init
             PROVE  StampInv
  OBVIOUS
<1>1. \A x \in Players : db[x].owner = None /\ db[x].inv = 0 /\ clock[x] = 1
                        /\ \A s \in Servers : world[s][x] = 1
  BY DEF Init
<1>2. OwnersInOrder
  BY <1>1, StoreAssumption DEF OwnersInOrder, Token
<1>3. WaitsUnseen
  BY DEF Init, WaitsUnseen, Loads, LoadsIn, Waits
<1>4. ClockAhead
  BY <1>1 DEF ClockAhead
<1> QED BY <1>2, <1>3, <1>4 DEF StampInv

(* No step takes the saved fields back.                                    *)
LEMMA RollbackStep ==
  ASSUME TypeOK, CustodyInv, LockInv, WaitInv, StampInv, [Next]_vars, NEW x \in Players
  PROVE  db'[x].inv >= db[x].inv
<1>0. db[x].inv \in Nat
  BY StoreAssumption DEF TypeOK, Row, Stamp
<1>1. CASE db'[x].inv = db[x].inv
  BY <1>0, <1>1
<1>2. CASE db'[x].inv # db[x].inv
  <2>1. PICK s \in Servers : Worker(s)
    BY <1>2, OthersKeepRows
  <2>2. PICK job : job = Head(queue[s])
    OBVIOUS
  <2>3. /\ Save(s) /\ db[x].owner = job.token
        /\ db'[x].inv = job.snap.stamp /\ job.snap.stamp # 0
    BY <1>2, <2>1, <2>2, FieldsSaved
  <2>4. job.snap.stamp \in Nat /\ db[x].inv <= job.snap.stamp
    BY <2>2, <2>3, SavedInOrder
  <2> QED BY <1>0, <2>3, <2>4
<1> QED BY <1>1, <1>2

----------------------------------------------------------------------------
(* What is saved of an owner, queued for it, journaled of it and carried   *)
(* by its player are later and later inventories.                          *)
THEOREM StampInvariant ==
  Spec => [](TypeOK /\ CustodyInv /\ LockInv /\ WaitInv /\ StampInv)
<1>1. Init => StampInv
  BY InitStamp
<1>2. TypeOK /\ TypeOK' /\ CustodyInv /\ LockInv /\ WaitInv /\ StampInv /\ [Next]_vars
      => StampInv'
  BY StampStep
<1> QED BY <1>1, <1>2, WaitInvariant, PTL DEF Spec

(* The saved fields never go back to an earlier inventory of the player,   *)
(* whatever crashes, fails, waits in a queue or is saved a second time.    *)
THEOREM NeverRolledBack == Spec => NoRollback
<1>1. TypeOK /\ CustodyInv /\ LockInv /\ WaitInv /\ StampInv /\ [Next]_vars =>
        [\A x \in Players : db'[x].inv >= db[x].inv]_vars
  BY RollbackStep
<1> QED BY <1>1, StampInvariant, PTL DEF Spec, NoRollback

----------------------------------------------------------------------------
(* The queues, while the main thread or a player moves.                    *)

(* The job in progress stays at the head of its queue or is gone, and no   *)
(* session begins to wait that did not wait and was not just drawn.        *)
Extended(r) ==
  /\ \/ pc'[r] = "idle"
     \/ pc'[r] = pc[r] /\ (queue[r] # << >> => queue'[r] # << >>
                           /\ Head(queue'[r]) = Head(queue[r]))
  /\ \A t \in Token : Known(t) /\ LoadsIn(queue'[r], t) # {} =>
       Loads(r, t) # {} \/ Waits(r, t) # {}

(* A queue to which at most jobs that are no loads are added is extended.  *)
LEMMA FewerExtends ==
  ASSUME NEW s \in Servers, TypeOK, UNCHANGED pc, NEW q, Fewer(q, queue[s]),
         queue[s] # << >> => q # << >> /\ Head(q) = Head(queue[s]),
         queue' = queue \/ queue' = [queue EXCEPT ![s] = q]
  PROVE  \A r \in Servers : Extended(r)
<1>1. \A r \in Servers : queue'[r] = queue[r] \/ (r = s /\ queue'[r] = q)
  BY DEF TypeOK
<1>2. \A r \in Servers : Fewer(queue'[r], queue[r])
  BY <1>1, EmptyFewer
<1>3. ASSUME NEW r \in Servers, NEW t \in Token, LoadsIn(queue'[r], t) # {}
      PROVE  Loads(r, t) # {}
  BY <1>2, <1>3 DEF Fewer, Loads
<1>4. \A r \in Servers : queue[r] # << >> => queue'[r] # << >>
                           /\ Head(queue'[r]) = Head(queue[r])
  BY <1>1
<1> QED BY <1>3, <1>4 DEF Extended

(* So are queues that do not change.                                       *)
LEMMA StillExtends ==
  ASSUME UNCHANGED <<pc, queue>>
  PROVE  \A r \in Servers : Extended(r)
<1>1. \A r \in Servers, t \in Token : LoadsIn(queue'[r], t) = Loads(r, t)
  BY DEF Loads
<1> QED BY <1>1 DEF Extended

(* The end of a session extends a queue by its last snapshot.              *)
LEMMA FinishExtends ==
  ASSUME TypeOK, CustodyInv, NEW s \in Servers, NEW x \in online[s],
         Finish(s, x) \/ FinishRaises(s, x), UNCHANGED pc
  PROVE  \A r \in Servers : Extended(r)
<1>1. PICK t \in Token : t = sess[s][x] /\ x \in Players
  BY TokenOfPlayer DEF CustodyInv
<1>2. Capture(s, x) \in Snap /\ Payload(t) \in Snap
  BY <1>1, CaptureType, PayloadType
<1>3. \/ queue' = queue
      \/ queue' = [queue EXCEPT ![s] = Append(@, Persist(t, Capture(s, x), TRUE, FALSE))]
      \/ queue' = [queue EXCEPT ![s] = Append(@, Persist(t, Payload(t), TRUE, FALSE))]
  BY <1>1 DEF Finish, FinishRaises
<1>4. PICK snap \in Snap :
        \/ queue' = queue
        \/ queue' = [queue EXCEPT ![s] = Append(@, Persist(t, snap, TRUE, FALSE))]
  BY <1>2, <1>3
<1>5. PICK j \in Job : j = Persist(t, snap, TRUE, FALSE)
  BY MakePersist
<1>6. j.kind = "persist" /\ queue[s] \in Seq(Job)
  BY <1>5 DEF Persist, TypeOK
<1>7. /\ Fewer(Append(queue[s], j), queue[s])
      /\ Append(queue[s], j) # << >>
      /\ queue[s] # << >> => Head(Append(queue[s], j)) = Head(queue[s])
  BY <1>6, AppendFewer, AppendKeepsHead
<1>8. queue' = queue \/ queue' = [queue EXCEPT ![s] = Append(queue[s], j)]
  BY <1>4, <1>5
<1> QED BY <1>7, <1>8, FewerExtends

(* A load extends a queue if its session waited for it or was just drawn.  *)
LEMMA LoadExtends ==
  ASSUME TypeOK, NEW s \in Servers, NEW j \in Job, j.kind = "load", UNCHANGED pc,
         queue' = [queue EXCEPT ![s] = Append(WithRecovery(s), j)],
         ~Known(j.token) \/ Waits(s, j.token) # {}
  PROVE  \A r \in Servers : Extended(r)
<1>1. \A r \in Servers, t \in Token : Known(t) /\ LoadsIn(queue'[r], t) # {} =>
        Loads(r, t) # {} \/ Waits(r, t) # {}
  <2>1. \A r \in Servers, t \in Token : r # s \/ t # j.token =>
          (Loads(r, t)' # {} => Loads(r, t) # {})
    BY LoadSaves
  <2>2. \A r \in Servers, t \in Token : Loads(r, t)' = LoadsIn(queue'[r], t)
    BY DEF Loads, LoadsIn
  <2> QED BY <2>1, <2>2
<1>2. PICK q \in Seq(Job) : q = WithRecovery(s)
  BY WithRecoveryType
<1>3. Append(q, j) # << >> /\ (queue[s] # << >> => Head(Append(q, j)) = Head(queue[s]))
  BY <1>2, AppendKeepsHead, RecoveryKeepsHead
<1>4. \A r \in Servers : queue'[r] = IF r = s THEN Append(q, j) ELSE queue[r]
  BY <1>2 DEF TypeOK
<1> QED BY <1>1, <1>3, <1>4 DEF Extended

(* A queue that starts anew, or not at all, is extended: the worker of its *)
(* server is idle.                                                         *)
LEMMA RestartExtends ==
  ASSUME TypeOK, LockInv, NEW s \in Servers,
         \/ /\ queue' = [queue EXCEPT ![s] = << >>]
            /\ pc' = [pc EXCEPT ![s] = "idle"]
         \/ /\ queue' = [queue EXCEPT ![s] = <<Batch(Entries(s, {}), FALSE)>>]
            /\ queue[s] = << >> /\ UNCHANGED pc
  PROVE  \A r \in Servers : Extended(r)
<1>0. /\ queue \in [Servers -> Seq(Job)]
      /\ pc \in [Servers -> {"idle", "claim", "save", "remove"}]
  BY DEF TypeOK
<1>1. PICK j : j = Batch(Entries(s, {}), FALSE)
  OBVIOUS
<1>2. j \in Job /\ j.kind # "load"
  BY <1>1, EntriesType, MakeBatch DEF Batch
<1>3. PICK q : Fewer(q, queue[s]) /\ queue' = [queue EXCEPT ![s] = q]
  BY <1>1, <1>2, EmptyFewer
<1>4. pc'[s] = "idle"
  BY <1>0 DEF LockInv, WorkerStands, Stands
<1>5. \A r \in Servers : r # s => queue'[r] = queue[r] /\ pc'[r] = pc[r]
  BY <1>0
<1>6. \A r \in Servers : Fewer(queue'[r], queue[r])
  BY <1>0, <1>3, EmptyFewer
<1>7. ASSUME NEW r \in Servers, NEW t \in Token, LoadsIn(queue'[r], t) # {}
      PROVE  Loads(r, t) # {}
  BY <1>6, <1>7 DEF Fewer, Loads
<1> QED BY <1>4, <1>5, <1>7 DEF Extended

(* The jobs of q, and those of p behind them.                              *)
Joined(q, p) == q \o p

(* A round of snapshots adds them behind the jobs there are.               *)
LEMMA CaptureAllAppends ==
  ASSUME TypeOK, NEW s \in Servers, NEW who \in SUBSET ReadyPlayers(s),
         NEW auto \in BOOLEAN, NEW before, CaptureAll(s, who, auto, before)
  PROVE  \E p \in Seq(Job) : queue' = [queue EXCEPT ![s] = Joined(before, p)]
<1>1. PICK lost \in SUBSET who : \E o \in Orders(who \ lost) :
        queue' = [queue EXCEPT ![s] = before \o
          [i \in 1 .. Cardinality(who \ lost) |->
             Persist(sess[s][o[i]], Capture(s, o[i]), FALSE, auto)]]
  BY DEF CaptureAll
<1> DEFINE n == Cardinality(who \ lost)
<1>2. PICK o \in Orders(who \ lost) :
        queue' = [queue EXCEPT ![s] = before \o
          [i \in 1 .. n |->
             Persist(sess[s][o[i]], Capture(s, o[i]), FALSE, auto)]]
  BY <1>1
<1>3. n \in Nat
  <2>1. IsFiniteSet(who \ lost)
    BY ReadyTokens, StoreAssumption, FS_Subset
  <2> QED BY <2>1, FS_CardinalityType
<1>4. \A i \in 1 .. n : o[i] \in who
  BY <1>2 DEF Orders
<1>5. \A i \in 1 .. n : Persist(sess[s][o[i]], Capture(s, o[i]), FALSE, auto) \in Job
  <2>1. ASSUME NEW x \in who
        PROVE  Persist(sess[s][x], Capture(s, x), FALSE, auto) \in Job
    BY ReadyTokens, CaptureType, MakePersist
  <2> QED BY <1>4, <2>1
<1> DEFINE jobs == [i \in 1 .. n |-> Persist(sess[s][o[i]], Capture(s, o[i]), FALSE, auto)]
<1>6. jobs \in [1 .. n -> Job]
  BY <1>5
<1>7. queue' = [queue EXCEPT ![s] = before \o jobs]
  BY <1>2
<1> HIDE DEF n, jobs
<1> QED BY <1>3, <1>6, <1>7, FunctionSeq DEF Joined

(* The snapshots of autosave or of a stop command extend a queue.          *)
LEMMA CaptureAllExtends ==
  ASSUME TypeOK, CustodyInv, NEW s \in Servers, NEW who \in SUBSET ReadyPlayers(s),
         NEW auto \in BOOLEAN, NEW before,
         before = queue[s] \/ before = WithRecovery(s),
         CaptureAll(s, who, auto, before), UNCHANGED pc
  PROVE  \A r \in Servers : Extended(r)
<1>1. PICK q : Fewer(q, queue[s]) /\ queue' = [queue EXCEPT ![s] = q]
  BY CaptureAllFewer
<1>2. PICK p \in Seq(Job) : queue' = [queue EXCEPT ![s] = Joined(before, p)]
  BY CaptureAllAppends
<1>3. queue \in [Servers -> Seq(Job)] /\ before \in Seq(Job)
  BY WithRecoveryType DEF TypeOK
<1>4. q = before \o p
  BY <1>1, <1>2, <1>3 DEF Joined
<1>5. queue[s] # << >> => q # << >> /\ Head(q) = Head(queue[s])
  BY <1>2, <1>3, <1>4, RecoveryKeepsHead, ConcatKeepsHead
<1> QED BY <1>1, <1>5, FewerExtends

(* The callbacks of the scheduler extend the queues.                       *)
LEMMA TickExtends ==
  ASSUME TypeOK, CustodyInv, LockInv, NEW s \in Servers, Tick(s)
  PROVE  \A r \in Servers : Extended(r)
<1>1. CASE Apply(s) \/ DropTask(s)
  <2>1. UNCHANGED <<pc, queue>>
    BY <1>1 DEF Apply, DropTask
  <2> QED BY <2>1, StillExtends
<1>2. CASE Retry(s)
  <2>1. PICK k \in tasks[s] :
          /\ k.kind = "retry"
          /\ \/ queue' = [queue EXCEPT ![s] =
                             Append(WithRecovery(s), Load(k.token, k.tries))]
             \/ queue' = queue
    BY <1>2 DEF Retry
  <2>2. UNCHANGED pc
    BY <1>2 DEF Retry
  <2>3. k.token \in Token /\ k.tries \in 0 .. MaxTries
    BY <2>1, IncidentAssumption DEF TypeOK, Task, ApplyTask, RetryTask, KickTask
  <2>4. PICK j : j = Load(k.token, k.tries)
    OBVIOUS
  <2>5. j \in Job /\ j.kind = "load" /\ j.token = k.token
    BY <2>3, <2>4, MakeLoad DEF Load
  <2>6. k \in Waits(s, j.token)
    BY <2>1, <2>5 DEF Waits
  <2>7. queue' = queue \/ queue' = [queue EXCEPT ![s] = Append(WithRecovery(s), j)]
    BY <2>1, <2>4
  <2>8. CASE queue' = queue
    BY <2>2, <2>8, StillExtends
  <2>9. CASE queue' = [queue EXCEPT ![s] = Append(WithRecovery(s), j)]
    BY <2>2, <2>5, <2>6, <2>9, LoadExtends
  <2> QED BY <2>7, <2>8, <2>9
<1>3. CASE Kick(s)
  <2>1. PICK k \in tasks[s] : k.token.xuid \in online[s] /\ Leave(s, k.token.xuid)
    BY <1>3 DEF Kick
  <2>2. PICK x \in online[s] : Leave(s, x)
    BY <2>1
  <2>3. (Finish(s, x) \/ FinishRaises(s, x)) /\ UNCHANGED pc
    BY <2>2 DEF Leave
  <2> QED BY <2>3, FinishExtends
<1> QED BY <1>1, <1>2, <1>3 DEF Tick

(* So does everything that the main thread does.                           *)
LEMMA MainExtends ==
  ASSUME TypeOK, CustodyInv, LockInv, NEW s \in Servers, Main(s)
  PROVE  \A r \in Servers : Extended(r)
<1>1. CASE Autosave(s)
  <2>1. PICK who \in SUBSET ReadyPlayers(s) : CaptureAll(s, who, TRUE, WithRecovery(s))
    BY <1>1 DEF Autosave
  <2>2. UNCHANGED pc
    BY <1>1 DEF Autosave
  <2> QED BY <2>1, <2>2, CaptureAllExtends
<1>2. ASSUME NEW refused \in BOOLEAN, StopCommand(s, refused)
      PROVE  \A r \in Servers : Extended(r)
  <2>1. CaptureAll(s, ReadyPlayers(s), FALSE, queue[s]) /\ UNCHANGED pc
    BY <1>2 DEF StopCommand
  <2> QED BY <2>1, CaptureAllExtends
<1>3. CASE Vanish(s) \/ Disable(s)
  <2>1. UNCHANGED <<pc, queue>>
    BY <1>3 DEF Vanish, Disable
  <2> QED BY <2>1, StillExtends
<1>4. CASE DisableFinish(s)
  <2>1. PICK x \in online[s] : Finish(s, x) \/ FinishRaises(s, x)
    BY <1>4 DEF DisableFinish
  <2>2. UNCHANGED pc
    BY <1>4 DEF DisableFinish
  <2> QED BY <2>1, <2>2, FinishExtends
<1>5. CASE DisableFlush(s) \/ Boot(s)
  <2>1. /\ UNCHANGED pc /\ queue[s] = << >>
        /\ \/ queue' = queue
           \/ queue' = [queue EXCEPT ![s] = <<Batch(Entries(s, {}), FALSE)>>]
    BY <1>5 DEF DisableFlush, Boot, LockInv, BootStartsEmpty
  <2>2. CASE queue' = queue
    BY <2>1, <2>2, StillExtends
  <2>3. CASE queue' = [queue EXCEPT ![s] = <<Batch(Entries(s, {}), FALSE)>>]
    BY <2>1, <2>3, RestartExtends
  <2> QED BY <2>1, <2>2, <2>3
<1>6. CASE Exit(s) \/ Crash(s)
  <2>1. queue' = [queue EXCEPT ![s] = << >>] /\ pc' = [pc EXCEPT ![s] = "idle"]
    BY <1>6 DEF Exit, Crash, Reset
  <2> QED BY <2>1, RestartExtends
<1> QED BY <1>1, <1>2, <1>3, <1>4, <1>5, <1>6, TickExtends DEF Main

(* So does what the players, the operator and the backpacks do.            *)
LEMMA ClientExtends ==
  ASSUME TypeOK, CustodyInv, NEW s \in Servers, NEW x \in Players, Client(s, x)
  PROVE  \A r \in Servers : Extended(r)
<1>0. queue[s] \in Seq(Job)
  BY DEF TypeOK
<1>1. CASE BeginJoin(s, x)
  <2>1. PICK t : t = NewToken(s, x)
    OBVIOUS
  <2>2. t \in Token /\ ~Known(t)
    BY <1>1, <2>1, FreshToken
  <2>3. PICK j : j = Load(t, 0)
    OBVIOUS
  <2>4. j \in Job /\ j.token = t /\ j.kind = "load"
    BY <2>2, <2>3, IncidentAssumption, MakeLoad DEF Load
  <2>5. queue' = [queue EXCEPT ![s] = Append(WithRecovery(s), j)] /\ UNCHANGED pc
    BY <1>1, <2>1, <2>3 DEF BeginJoin
  <2> QED BY <2>2, <2>4, <2>5, LoadExtends
<1>2. CASE JoinUnjournaled(s, x)
  <2>1. /\ queue' = queue \/ queue' = [queue EXCEPT ![s] = WithRecovery(s)]
        /\ UNCHANGED pc
    BY <1>2 DEF JoinUnjournaled
  <2> QED BY <2>1, RecoveryFewer, RecoveryKeepsHead, FewerExtends
<1>3. CASE Quit(s, x)
  <2>1. x \in online[s] /\ (Finish(s, x) \/ FinishRaises(s, x)) /\ UNCHANGED pc
    BY <1>3 DEF Quit, Leave
  <2> QED BY <2>1, FinishExtends
<1>4. CASE Play(s, x) \/ PlayUnmanaged(s, x) \/ PackPending(s, x) \/ PackRecovered(s, x)
  <2>1. UNCHANGED <<pc, queue>>
    BY <1>4 DEF Play, PlayUnmanaged, PackPending, PackRecovered, volatile
  <2> QED BY <2>1, StillExtends
<1>5. CASE LegacyCommand(s, x)
  <2>1. PICK j : j = [kind |-> "legacy", xuid |-> x]
    OBVIOUS
  <2>2. j \in Job /\ j.kind # "load"
    BY <2>1, MakeLegacy
  <2>3. queue' = [queue EXCEPT ![s] = Append(queue[s], j)] /\ UNCHANGED pc
    BY <1>5, <2>1 DEF LegacyCommand
  <2> QED BY <1>0, <2>2, <2>3, AppendFewer, AppendKeepsHead, FewerExtends
<1> QED BY <1>1, <1>2, <1>3, <1>4, <1>5 DEF Client

(* A callback of the scheduler for a session that waits is left over by    *)
(* the main thread, never made by it.                                      *)
LEMMA OthersCarryWaits ==
  ASSUME TypeOK, NEW s \in Servers, Main(s) \/ \E x \in Players : Client(s, x)
  PROVE  \A r \in Servers, t \in Token : Waits(r, t)' \subseteq Waits(r, t)
<1>0. tasks \in [Servers -> SUBSET Task]
  BY DEF TypeOK
<1>1. \/ UNCHANGED tasks
      \/ \E l : tasks' = [tasks EXCEPT ![s] = @ \ {l}]
      \/ \E l, u : tasks' = [tasks EXCEPT ![s] =
                     (@ \ {l}) \cup {[kind |-> "kick", token |-> u]}]
      \/ tasks' = [tasks EXCEPT ![s] = {}]
  <2>1. CASE Tick(s)
    BY <2>1 DEF Tick, Apply, Retry, DropTask, Kick
  <2>2. CASE Exit(s) \/ Crash(s)
    BY <2>2 DEF Exit, Crash, Reset
  <2>3. CASE Main(s) /\ ~Tick(s) /\ ~Exit(s) /\ ~Crash(s)
    BY <2>3 DEF Main, Autosave, StopCommand, Vanish, Disable, DisableFinish,
       DisableFlush, Boot
  <2>4. ASSUME NEW x \in Players, Client(s, x)
        PROVE  UNCHANGED tasks
    BY <2>4 DEF Client, BeginJoin, JoinUnjournaled, Quit, Play, PlayUnmanaged,
       PackPending, PackRecovered, LegacyCommand, volatile
  <2> QED BY <2>1, <2>2, <2>3, <2>4
<1>2. \A u : [kind |-> "kick", token |-> u].kind \notin {"apply", "retry"}
  OBVIOUS
<1>3. \A r \in Servers : \A k \in tasks'[r] :
        k \in tasks[r] \/ k.kind \notin {"apply", "retry"}
  BY <1>0, <1>1, <1>2
<1> QED BY <1>3 DEF Waits

(* No step makes a session wait that did not wait and was not just drawn.  *)
LEMMA WaitsOnlyFresh ==
  ASSUME TypeOK, CustodyInv, LockInv, [Next]_vars, NEW r \in Servers, NEW t \in Token,
         Known(t), Loads(r, t)' # {} \/ Waits(r, t)' # {}
  PROVE  Loads(r, t) # {} \/ Waits(r, t) # {}
<1>0. Loads(r, t)' = LoadsIn(queue'[r], t)
  BY DEF Loads, LoadsIn
<1>1. CASE UNCHANGED vars
  <2>1. UNCHANGED <<queue, tasks>>
    BY <1>1 DEF vars, volatile
  <2> QED BY <1>0, <2>1 DEF Loads, Waits
<1>2. ASSUME NEW s \in Servers, Worker(s)
      PROVE  Loads(r, t) # {} \/ Waits(r, t) # {}
  <2>1. Plain(queue'[r], queue[r])
    BY <1>2, WorkerTakes
  <2>2. Loads(r, t)' # {} => Loads(r, t) # {}
    BY <1>0, <2>1 DEF Plain, Fewer, Loads
  <2> QED BY <1>2, <2>2, WorkerWaitsOn
<1>3. ASSUME NEW s \in Servers, Main(s) \/ \E x \in Players : Client(s, x)
      PROVE  Loads(r, t) # {} \/ Waits(r, t) # {}
  <2>1. Extended(r)
    BY <1>3, MainExtends, ClientExtends
  <2>2. Waits(r, t)' \subseteq Waits(r, t)
    BY <1>3, OthersCarryWaits
  <2> QED BY <1>0, <2>1, <2>2 DEF Extended
<1> QED BY <1>1, <1>2, <1>3 DEF Next

----------------------------------------------------------------------------
(* The sessions whose server stops or is about to, and what is pending.    *)

Ends == {"halting", "disabling", "aborting", "flushing"}

(* A session that stays in _sessions was there, its server does not turn   *)
(* back from its stop, and its player, unless he waits, plays no more.     *)
Stays(t) ==
  Current(t)' =>
    /\ Current(t)
    /\ phase[t.home] \in Ends => phase'[t.home] \in Ends
    /\ phase[t.home] \in Ends /\ Waits(t.home, t) = {} =>
         world'[t.home][t.xuid] = world[t.home][t.xuid]

(* What a token has in common with the state that it names.                *)
LEMMA TokenParts ==
  ASSUME NEW t \in Token
  PROVE  t.home \in Servers /\ t.xuid \in Players /\ t # None
  BY StoreAssumption DEF Token

(* No player acts on a server that stops or is about to.                   *)
LEMMA ClientStays ==
  ASSUME TypeOK, CustodyInv, NEW s \in Servers, NEW x \in Players, Client(s, x),
         NEW t \in Token, Known(t)
  PROVE  Stays(t)
<1>0. /\ sess \in [Servers -> [Players -> Token \cup {None}]]
      /\ world \in [Servers -> [Players -> 1 .. MaxStamp]]
      /\ t.home \in Servers /\ t.xuid \in Players /\ t # None
  BY TokenParts DEF TypeOK
<1>1. CASE BeginJoin(s, x)
  <2>1. PICK u : u = NewToken(s, x)
    OBVIOUS
  <2>2. u # t /\ sess' = [sess EXCEPT ![s][x] = u] /\ UNCHANGED <<phase, world>>
    BY <1>1, <2>1, FreshToken DEF BeginJoin
  <2>3. sess'[t.home][t.xuid] = t => sess[t.home][t.xuid] = t
    BY <1>0, <2>2
  <2> QED BY <2>2, <2>3 DEF Stays, Current
<1>2. CASE Quit(s, x)
  <2>1. sess' = [sess EXCEPT ![s][x] = None] /\ UNCHANGED <<phase, world>>
    BY <1>2 DEF Quit, Leave
  <2>2. sess'[t.home][t.xuid] = t => sess[t.home][t.xuid] = t
    BY <1>0, <2>1
  <2> QED BY <2>1, <2>2 DEF Stays, Current
<1>3. CASE Play(s, x) \/ PlayUnmanaged(s, x)
  <2>1. PICK v : /\ world' = [world EXCEPT ![s][x] = v]
                 /\ phase[s] \in {"serving", "down", "booting", "failed"}
                 /\ UNCHANGED <<phase, sess>>
    BY <1>3 DEF Play, PlayUnmanaged, volatile
  <2>2. t.home # s => world'[t.home] = world[t.home]
    BY <1>0, <2>1
  <2> QED BY <2>1, <2>2 DEF Stays, Current, Ends
<1>4. CASE JoinUnjournaled(s, x) \/ PackPending(s, x) \/ PackRecovered(s, x)
           \/ LegacyCommand(s, x)
  <2>1. UNCHANGED <<phase, sess, world>>
    BY <1>4 DEF JoinUnjournaled, PackPending, PackRecovered, LegacyCommand, volatile
  <2> QED BY <2>1 DEF Stays, Current
<1> QED BY <1>1, <1>2, <1>3, <1>4 DEF Client

(* The stop of a server goes one way until its process ends, and only a    *)
(* restore changes what a player carries.                                  *)
LEMMA MainStays ==
  ASSUME TypeOK, CustodyInv, NEW s \in Servers, Main(s), NEW t \in Token
  PROVE  Stays(t)
<1>0. /\ sess \in [Servers -> [Players -> Token \cup {None}]]
      /\ world \in [Servers -> [Players -> 1 .. MaxStamp]]
      /\ phase \in [Servers -> Phases]
      /\ t.home \in Servers /\ t.xuid \in Players /\ t # None
  BY TokenParts DEF TypeOK
<1>1. CASE Apply(s)
  <2>1. PICK k \in tasks[s] :
          /\ k.kind = "apply" /\ Current(k.token)
          /\ \/ world' = world
             \/ world' = [world EXCEPT ![s][k.token.xuid] = k.inv]
    BY <1>1 DEF Apply
  <2>2. UNCHANGED <<phase, sess>>
    BY <1>1 DEF Apply
  <2>3. PICK u \in Token : u = k.token
    BY <2>1 DEF TypeOK, Task, ApplyTask, RetryTask, KickTask
  <2>4. u.home = s
    BY <2>3 DEF CustodyInv, TasksAreKnown
  <2>5. PICK v : world' = world \/ world' = [world EXCEPT ![s][u.xuid] = v]
    BY <2>1, <2>3
  <2>6. CASE u = t
    <3>1. k \in Waits(t.home, t)
      BY <2>1, <2>3, <2>4, <2>6 DEF Waits
    <3> QED BY <2>2, <3>1 DEF Stays, Current
  <2>7. CASE u # t
    <3>1. Current(t) => world'[t.home][t.xuid] = world[t.home][t.xuid]
      <4>1. Current(t) => t.home # s \/ t.xuid # u.xuid
        BY <2>1, <2>3, <2>4, <2>7 DEF Current
      <4> QED BY <1>0, <2>5, <4>1
    <3> QED BY <2>2, <3>1 DEF Stays, Current
  <2> QED BY <2>6, <2>7
<1>2. ASSUME UNCHANGED world,
             \/ sess' = sess
             \/ \E x \in Players : sess' = [sess EXCEPT ![s][x] = None]
             \/ sess' = [sess EXCEPT ![s] = [x \in Players |-> None]],
             \/ phase' = phase
             \/ \E p \in Ends : phase' = [phase EXCEPT ![s] = p]
             \/ phase[s] \notin Ends /\ \E p : phase' = [phase EXCEPT ![s] = p]
             \/ sess' = [sess EXCEPT ![s] = [x \in Players |-> None]]
                /\ \E p : phase' = [phase EXCEPT ![s] = p]
      PROVE  Stays(t)
  <2>1. sess'[t.home][t.xuid] = t => sess[t.home][t.xuid] = t
    <3>1. ASSUME NEW x \in Players, sess' = [sess EXCEPT ![s][x] = None]
          PROVE  sess'[t.home][t.xuid] = t => sess[t.home][t.xuid] = t
      BY <1>0, <3>1
    <3>2. ASSUME sess' = [sess EXCEPT ![s] = [x \in Players |-> None]]
          PROVE  sess'[t.home][t.xuid] = t => sess[t.home][t.xuid] = t
      BY <1>0, <3>2
    <3> QED BY <1>2, <3>1, <3>2
  <2>2. sess' = [sess EXCEPT ![s] = [x \in Players |-> None]] /\ t.home = s =>
          sess'[t.home][t.xuid] # t
    BY <1>0
  <2>3. /\ t.home # s => phase'[t.home] = phase[t.home]
        /\ \/ phase'[s] = phase[s] \/ phase'[s] \in Ends \/ phase[s] \notin Ends
           \/ sess' = [sess EXCEPT ![s] = [x \in Players |-> None]]
    BY <1>0, <1>2
  <2> QED BY <1>2, <2>1, <2>2, <2>3 DEF Stays, Current
<1>3. CASE Retry(s) \/ DropTask(s) \/ Autosave(s) \/ Vanish(s)
  <2>1. UNCHANGED <<world, sess, phase>>
    BY <1>3 DEF Retry, DropTask, Autosave, Vanish
  <2> QED BY <1>2, <2>1
<1>4. CASE Kick(s)
  <2>1. PICK x \in online[s] : Leave(s, x)
    BY <1>4 DEF Kick
  <2>2. x \in Players
    BY DEF TypeOK
  <2>3. UNCHANGED <<world, phase>> /\ sess' = [sess EXCEPT ![s][x] = None]
    BY <2>1 DEF Leave
  <2> QED BY <1>2, <2>2, <2>3
<1>5. ASSUME NEW refused \in BOOLEAN, StopCommand(s, refused)
      PROVE  Stays(t)
  <2>1. /\ UNCHANGED <<world, sess>>
        /\ phase' = phase \/ phase' = [phase EXCEPT ![s] = "halting"]
    BY <1>0, <1>5 DEF StopCommand
  <2> QED BY <1>2, <2>1 DEF Ends
<1>6. CASE Disable(s) \/ DisableFlush(s) \/ Boot(s)
  <2>1. /\ UNCHANGED <<world, sess>>
        /\ \/ \E p \in Ends : phase' = [phase EXCEPT ![s] = p]
           \/ phase[s] = "down" /\ \E p : phase' = [phase EXCEPT ![s] = p]
    BY <1>6 DEF Disable, DisableFlush, Boot, Ends
  <2> QED BY <1>2, <2>1 DEF Ends
<1>7. CASE DisableFinish(s)
  <2>1. PICK x \in online[s] : sess' = [sess EXCEPT ![s][x] = None]
    BY <1>7 DEF DisableFinish
  <2>2. x \in Players
    BY DEF TypeOK
  <2>3. /\ UNCHANGED world
        /\ phase' = phase \/ phase' = [phase EXCEPT ![s] = "aborting"]
    BY <1>7 DEF DisableFinish
  <2> QED BY <1>2, <2>1, <2>2, <2>3 DEF Ends
<1>8. CASE Exit(s) \/ Crash(s)
  <2>1. /\ UNCHANGED world
        /\ sess' = [sess EXCEPT ![s] = [x \in Players |-> None]]
        /\ phase' = [phase EXCEPT ![s] = "down"]
    BY <1>8 DEF Exit, Crash, Reset
  <2> QED BY <1>2, <2>1
<1> QED BY <1>1, <1>3, <1>4, <1>5, <1>6, <1>7, <1>8 DEF Main, Tick

(* The worker changes the phase of a server only at the end of a start.    *)
LEMMA WorkerPhases ==
  ASSUME NEW s \in Servers, Worker(s)
  PROVE  phase' = phase \/ (phase[s] = "booting" /\ \E p : phase' = [phase EXCEPT ![s] = p])
  BY DEF Worker, TakeLoad, Claim, CheckStorage, Save, RemoveRow, RecoverNext,
         RecoverDone, ReleaseLegacy

(* So in every step.                                                       *)
LEMMA StepStays ==
  ASSUME TypeOK, CustodyInv, [Next]_vars, NEW t \in Token, Known(t)
  PROVE  Stays(t)
<1>1. CASE UNCHANGED vars
  BY <1>1 DEF vars, volatile, Stays, Current
<1>2. ASSUME NEW s \in Servers, Worker(s)
      PROVE  Stays(t)
  <2>1. UNCHANGED <<sess, world>>
    BY <1>2, WorkerFrames DEF WorkerFrame
  <2>2. phase' = phase \/ (phase[s] = "booting" /\ \E p : phase' = [phase EXCEPT ![s] = p])
    BY <1>2, WorkerPhases
  <2>3. phase[t.home] \in Ends => phase'[t.home] \in Ends
    BY <2>2, TokenParts DEF TypeOK, Ends
  <2> QED BY <2>1, <2>3 DEF Stays, Current
<1> QED BY <1>1, <1>2, MainStays, ClientStays DEF Next

(* The backpacks of a player get pending only while he plays.              *)
LEMMA PacksGrow ==
  ASSUME TypeOK, [Next]_vars, NEW r \in Servers, NEW y \in Players,
         ~(packs'[r][y] \subseteq packs[r][y])
  PROVE  phase[r] = "serving" /\ Playing(r, y)
<1>0. packs \in [Servers -> [Players -> SUBSET Packs]]
  BY DEF TypeOK
<1>1. packs' # packs
  OBVIOUS
<1>2. PICK s \in Servers, x \in Players : PackPending(s, x) \/ PackRecovered(s, x)
  <2>1. ASSUME NEW s \in Servers, Worker(s) \/ Main(s)
        PROVE  packs' = packs
    <3>1. CASE Worker(s)
      BY <3>1, WorkerFrames DEF WorkerFrame
    <3> QED BY <2>1, <3>1 DEF Main, Tick, Apply, Retry, DropTask, Kick, Leave, Autosave,
        StopCommand, Vanish, Disable, DisableFinish, DisableFlush, Exit, Crash, Reset,
        Boot, durable
  <2>2. ASSUME NEW s \in Servers, NEW x \in Players, Client(s, x),
               ~(PackPending(s, x) \/ PackRecovered(s, x))
        PROVE  packs' = packs
    BY <2>2 DEF Client, BeginJoin, JoinUnjournaled, Quit, Leave, Play, PlayUnmanaged,
       LegacyCommand, durable
  <2>3. ~UNCHANGED vars
    BY <1>1 DEF vars, durable
  <2> QED BY <1>1, <2>1, <2>2, <2>3 DEF Next
<1>3. PICK p : \/ PackPending(s, x) /\ packs' = [packs EXCEPT ![s][x] = @ \cup {p}]
               \/ packs' = [packs EXCEPT ![s][x] = @ \ {p}]
  BY <1>2 DEF PackPending, PackRecovered
<1>4. ~(packs' = [packs EXCEPT ![s][x] = @ \ {p}])
  BY <1>0
<1>5. r = s /\ y = x
  BY <1>0, <1>3, <1>4
<1> QED BY <1>3, <1>4, <1>5 DEF PackPending

----------------------------------------------------------------------------
(* What the plugin sees at the end of a session gets into the journal.     *)

(* The journal can be written when a session ends, and every ready session *)
(* be captured for a stop command that is accepted.                        *)
EndsSucceed == IncidentKinds \cap {"final", "halt"} = {}

(* t's journal row becomes what its player carries and has pending, or is  *)
(* marked; if that is the end of t that the plugin sees, its server stops  *)
(* or t leaves _sessions.                                                  *)
Captured(t) ==
  /\ Seen(t) /\ journal'[t] # None
  /\ journal'[t].failed \/ journal'[t] = Capture(t.home, t.xuid)
  /\ UNCHANGED <<world, packs>>
  /\ \/ left'[t] = left[t]
     \/ left'[t] = world[t.home][t.xuid] /\ (~Current(t)' \/ phase'[t.home] \in Ends)

(* A row changes in no other way, unless its save is done, or its session  *)
(* begins.                                                                 *)
Recorded(t) ==
  \/ left'[t] = left[t] /\ journal'[t] \in {journal[t], None}
  \/ left'[t] = left[t] /\ ~Known(t)
  \/ Captured(t)

(* _finish_session captures the session, marks its row or leaves it alone. *)
LEMMA FinishRecords ==
  ASSUME TypeOK, CustodyInv, EndsSucceed, NEW s \in Servers, NEW x \in online[s],
         Finish(s, x) \/ FinishRaises(s, x), sess' = [sess EXCEPT ![s][x] = None],
         UNCHANGED <<world, packs>>, NEW t \in Token
  PROVE  Recorded(t)
<1>0. journal \in [Token -> Snap \cup {None}] /\ left \in [Token -> Stamp]
  BY DEF TypeOK
<1>1. PICK u \in Token : u = sess[s][x] /\ x \in Players
  BY TokenOfPlayer DEF CustodyInv
<1>2. u.home = s /\ u.xuid = x /\ u # None
  BY <1>1, TokenParts DEF CustodyInv, SessionsAreLocal
<1>3. PICK c, b : /\ c = Capture(s, x) /\ b = Blocked(Payload(u))
                  /\ c \in Snap /\ b \in Snap /\ b.failed
  <2>1. Capture(s, x) \in Snap /\ Payload(u) \in Snap /\ Blocked(Payload(u)) \in Snap
    BY <1>1, CaptureType, PayloadType
  <2>2. Blocked(Payload(u)).failed
    BY <2>1 DEF Blocked, Snap
  <2> QED BY <2>1, <2>2
<1>4. \/ /\ u \in ready[s] /\ left' = [left EXCEPT ![u] = world[s][x]]
         /\ journal' = [journal EXCEPT ![u] = c] \/ journal' = [journal EXCEPT ![u] = b]
      \/ UNCHANGED <<journal, left>>
  <2>1. ~FinishRaises(s, x)
    BY DEF FinishRaises, Incident, EndsSucceed
  <2> QED BY <1>1, <1>3, <2>1 DEF Finish
<1>5. c # None /\ b # None
  BY <1>3, StoreAssumption
<1>6. ~Current(u)'
  BY <1>1, <1>2 DEF TypeOK, Current
<1>7. CASE t = u /\ ~UNCHANGED <<journal, left>>
  <2>1. left'[t] = world[s][x] /\ journal'[t] \in {c, b} /\ t \in ready[s]
    BY <1>0, <1>4, <1>7
  <2> QED BY <1>1, <1>2, <1>3, <1>5, <1>6, <1>7, <2>1 DEF Recorded, Captured, Seen, Current
<1>8. CASE t # u \/ UNCHANGED <<journal, left>>
  <2>1. left'[t] = left[t] /\ journal'[t] = journal[t]
    BY <1>0, <1>4, <1>8
  <2> QED BY <2>1 DEF Recorded
<1> QED BY <1>7, <1>8

(* So do autosave and the stop command, which leave out no session that    *)
(* they end.                                                               *)
LEMMA CaptureAllRecords ==
  ASSUME TypeOK, CustodyInv, NEW s \in Servers, NEW who \in SUBSET ReadyPlayers(s),
         NEW auto, NEW before, CaptureAll(s, who, auto, before),
         UNCHANGED <<world, packs>>, NEW t \in Token,
         \/ left' = left
         \/ /\ incidents' = incidents /\ phase'[s] \in Ends
            /\ left' = [u \in Token |-> IF \E x \in who : sess[s][x] = u
                                        THEN world[s][u.xuid] ELSE left[u]]
  PROVE  Recorded(t)
<1>1. PICK lost \in SUBSET who :
        /\ lost = {} \/ incidents' # incidents
        /\ journal' = [u \in Token |->
             IF \E x \in who \ lost : sess[s][x] = u THEN Capture(s, u.xuid)
                                                    ELSE journal[u]]
  <2>1. \A k : Incident(k) => incidents' # incidents
    BY IncidentAssumption DEF TypeOK, Incident
  <2> QED BY <2>1 DEF CaptureAll
<1>2. CASE \E x \in who \ lost : sess[s][x] = t
  <2>1. PICK x \in who \ lost : sess[s][x] = t
    BY <1>2
  <2>2. x \in Players /\ t \in ready[s]
    BY <2>1 DEF ReadyPlayers, TypeOK
  <2>3. t.home = s /\ t.xuid = x
    BY <2>1, <2>2, TokenParts DEF CustodyInv, SessionsAreLocal
  <2>4. journal'[t] = Capture(s, x) /\ Capture(s, x) # None
    BY <1>1, <1>2, <2>2, <2>3, CaptureType, StoreAssumption
  <2>5. left'[t] = left[t] \/ (left'[t] = world[s][x] /\ phase'[s] \in Ends)
    BY <2>1, <2>3
  <2> QED BY <2>1, <2>2, <2>3, <2>4, <2>5 DEF Recorded, Captured, Seen, Current
<1>3. CASE ~\E x \in who \ lost : sess[s][x] = t
  <2>1. journal'[t] = journal[t]
    BY <1>1, <1>3
  <2>2. left'[t] = left[t]
    BY <1>1, <1>3
  <2> QED BY <2>1, <2>2 DEF Recorded
<1> QED BY <1>2, <1>3

(* So does every step.                                                     *)
LEMMA StepRecords ==
  ASSUME TypeOK, CustodyInv, EndsSucceed, [Next]_vars, NEW t \in Token
  PROVE  Recorded(t)
<1>1. ASSUME UNCHANGED <<journal, left>>
      PROVE  Recorded(t)
  BY <1>1 DEF Recorded
<1>2. CASE UNCHANGED vars
  BY <1>1, <1>2 DEF vars, durable
<1>3. ASSUME NEW s \in Servers, Worker(s)
      PROVE  Recorded(t)
  <2>1. UNCHANGED left
    BY <1>3, WorkerFrames DEF WorkerFrame
  <2>2. journal'[t] = journal[t] \/ journal'[t] = None
    BY <1>3, WorkerJournal
  <2> QED BY <2>1, <2>2 DEF Recorded
<1>4. ASSUME NEW s \in Servers, NEW x \in online[s], Leave(s, x)
      PROVE  Recorded(t)
  <2>1. /\ Finish(s, x) \/ FinishRaises(s, x)
        /\ sess' = [sess EXCEPT ![s][x] = None]
        /\ UNCHANGED <<world, packs>>
    BY <1>4 DEF Leave
  <2> QED BY <2>1, FinishRecords
<1>5. ASSUME NEW s \in Servers, Main(s)
      PROVE  Recorded(t)
  <2>1. CASE Kick(s)
    <3>1. PICK x \in online[s] : Leave(s, x)
      BY <2>1 DEF Kick
    <3> QED BY <1>4, <3>1
  <2>2. CASE DisableFinish(s)
    <3>1. PICK x \in online[s] : /\ Finish(s, x) \/ FinishRaises(s, x)
                                 /\ sess' = [sess EXCEPT ![s][x] = None]
      BY <2>2 DEF DisableFinish
    <3>2. UNCHANGED <<world, packs>>
      BY <2>2 DEF DisableFinish
    <3> QED BY <3>1, <3>2, FinishRecords
  <2>3. CASE Autosave(s)
    <3>1. PICK who \in SUBSET ReadyPlayers(s) : CaptureAll(s, who, TRUE, WithRecovery(s))
      BY <2>3 DEF Autosave
    <3>2. UNCHANGED <<world, packs, left>>
      BY <2>3 DEF Autosave
    <3> QED BY <3>1, <3>2, CaptureAllRecords
  <2>4. ASSUME NEW refused \in BOOLEAN, StopCommand(s, refused)
        PROVE  Recorded(t)
    <3>1. CaptureAll(s, ReadyPlayers(s), FALSE, queue[s]) /\ UNCHANGED <<world, packs>>
      BY <2>4 DEF StopCommand
    <3>2. CASE refused
      <4>1. left' = left
        BY <2>4, <3>2 DEF StopCommand
      <4> QED BY <3>1, <4>1, CaptureAllRecords
    <3>3. CASE ~refused
      <4>1. /\ incidents' = incidents
            /\ phase' = [phase EXCEPT ![s] = "halting"]
            /\ left' = [u \in Token |-> IF \E x \in ReadyPlayers(s) : sess[s][x] = u
                                        THEN world[s][u.xuid] ELSE left[u]]
        BY <2>4, <3>3 DEF StopCommand, EndsSucceed
      <4>2. phase'[s] \in Ends
        BY <4>1 DEF TypeOK, Ends
      <4> QED BY <3>1, <4>1, <4>2, CaptureAllRecords
    <3> QED BY <3>2, <3>3
  <2>5. CASE /\ Main(s) /\ ~Kick(s) /\ ~DisableFinish(s) /\ ~Autosave(s)
             /\ ~\E refused \in BOOLEAN : StopCommand(s, refused)
    <3>1. UNCHANGED <<journal, left>>
      BY <2>5 DEF Main, Tick, Apply, Retry, DropTask, Boot, Crash, Vanish, Disable,
         DisableFlush, Exit, Reset, durable
    <3> QED BY <1>1, <3>1
  <2> QED BY <1>5, <2>1, <2>2, <2>3, <2>4, <2>5
<1>6. ASSUME NEW s \in Servers, NEW x \in Players, Client(s, x)
      PROVE  Recorded(t)
  <2>1. CASE BeginJoin(s, x)
    <3>1. PICK u : u = NewToken(s, x)
      OBVIOUS
    <3>2. ~Known(u) /\ journal' = [journal EXCEPT ![u] = Marker] /\ UNCHANGED left
      BY <2>1, <3>1, FreshToken DEF BeginJoin
    <3>3. t = u \/ journal'[t] = journal[t]
      BY <3>2 DEF TypeOK
    <3> QED BY <3>2, <3>3 DEF Recorded
  <2>2. CASE Quit(s, x)
    BY <1>4, <2>2 DEF Quit
  <2>3. CASE Client(s, x) /\ ~BeginJoin(s, x) /\ ~Quit(s, x)
    <3>1. UNCHANGED <<journal, left>>
      BY <2>3 DEF Client, JoinUnjournaled, Play, PlayUnmanaged, PackPending,
         PackRecovered, LegacyCommand, durable
    <3> QED BY <1>1, <3>1
  <2> QED BY <1>6, <2>1, <2>2, <2>3
<1> QED BY <1>2, <1>3, <1>5, <1>6 DEF Next

----------------------------------------------------------------------------
(* FinalInv.                                                               *)

(* Nobody loses a token that was drawn.                                    *)
LEMMA KnownStays ==
  ASSUME TypeOK, CustodyInv, [Next]_vars, NEW t \in Token, Known(t)
  PROVE  Known(t)'
<1>1. ASSUME UNCHANGED issued
      PROVE  Known(t)'
  BY <1>1 DEF Known
<1>2. CASE UNCHANGED vars
  BY <1>1, <1>2 DEF vars, durable
<1>3. ASSUME NEW s \in Servers, Worker(s)
      PROVE  Known(t)'
  BY <1>3, WorkerAges DEF Aged
<1>4. ASSUME NEW s \in Servers, Main(s)
      PROVE  UNCHANGED issued
  BY <1>4 DEF Main, Tick, Apply, Retry, DropTask, Kick, Leave, Autosave, StopCommand,
     Vanish, Disable, DisableFinish, DisableFlush, Exit, Crash, Reset, Boot, durable
<1>5. ASSUME NEW s \in Servers, NEW x \in Players, Client(s, x)
      PROVE  Known(t)'
  <2>1. CASE BeginJoin(s, x)
    BY <2>1, BeginJoinAged DEF Aged
  <2>2. CASE Client(s, x) /\ ~BeginJoin(s, x)
    <3>1. UNCHANGED issued
      BY <2>2 DEF Client, JoinUnjournaled, Quit, Leave, Play, PlayUnmanaged, PackPending,
         PackRecovered, LegacyCommand, durable
    <3> QED BY <1>1, <3>1
  <2> QED BY <1>5, <2>1, <2>2
<1> QED BY <1>1, <1>2, <1>3, <1>4, <1>5 DEF Next

(* A ready session is a drawn one that waits for nothing, on any server.   *)
LEMMA SeenIsPast ==
  ASSUME CustodyInv, OneWait, NEW t \in Token, Seen(t)
  PROVE  Known(t) /\ \A r \in Servers : Loads(r, t) = {} /\ Waits(r, t) = {}
<1>1. t.home \in Servers /\ t.xuid \in Players /\ t # None
  BY TokenParts
<1>2. Known(t) /\ t \in ready[t.home]
  BY <1>1 DEF Seen, Current, CustodyInv, SessionsAreLocal
<1> QED BY <1>2, WaitingAtHome

(* The end of a session that the plugin saw stays in the past.             *)
LEMMA PastStep ==
  ASSUME TypeOK, CustodyInv, LockInv, OneWait, LeftIsPast, EndsSucceed, [Next]_vars
  PROVE  LeftIsPast'
<1> SUFFICES ASSUME NEW t \in Token, left'[t] # 0
             PROVE  /\ Known(t)'
                    /\ \A r \in Servers : Loads(r, t)' = {} /\ Waits(r, t)' = {}
  BY DEF LeftIsPast
<1>1. Known(t) /\ \A r \in Servers : Loads(r, t) = {} /\ Waits(r, t) = {}
  <2>1. CASE left'[t] = left[t]
    BY <2>1 DEF LeftIsPast
  <2>2. CASE left'[t] # left[t]
    BY <2>2, StepRecords, SeenIsPast DEF Recorded, Captured
  <2> QED BY <2>1, <2>2
<1> QED BY <1>1, KnownStays, WaitsOnlyFresh

(* While it stays in _sessions, nothing happens to its player.             *)
LEMMA StandsStillStep ==
  ASSUME TypeOK, CustodyInv, LeftIsPast, LeftStandsStill, EndsSucceed, [Next]_vars
  PROVE  LeftStandsStill'
<1> SUFFICES ASSUME NEW t \in Token, left'[t] # 0, Current(t)'
             PROVE  phase'[t.home] \in Ends /\ world'[t.home][t.xuid] = left'[t]
  BY DEF LeftStandsStill, Ends
<1>1. CASE left'[t] = left[t]
  <2>1. Known(t) /\ Waits(t.home, t) = {}
    BY <1>1, TokenParts DEF LeftIsPast
  <2>2. Stays(t)
    BY <2>1, StepStays
  <2>3. phase[t.home] \in Ends /\ world[t.home][t.xuid] = left[t]
    BY <1>1, <2>2 DEF Stays, LeftStandsStill, Ends
  <2> QED BY <1>1, <2>1, <2>2, <2>3 DEF Stays
<1>2. CASE left'[t] # left[t]
  <2>1. Captured(t)
    BY <1>2, StepRecords DEF Recorded
  <2> QED BY <1>2, <2>1 DEF Captured
<1> QED BY <1>1, <1>2

(* A session that the plugin saw end gets no row and no backpacks.         *)
LEMMA OwnersStandStill ==
  ASSUME TypeOK, CustodyInv, LockInv, LeftIsPast, LeftStandsStill, [Next]_vars,
         NEW t \in Token, left[t] # 0, db'[t.xuid].owner = t
  PROVE  /\ db[t.xuid].owner = t
         /\ packs'[t.home][t.xuid] \subseteq packs[t.home][t.xuid]
<1>1. t.home \in Servers /\ t.xuid \in Players /\ t # None
  BY TokenParts
<1>2. db[t.xuid].owner = t
  <2> SUFFICES ASSUME db[t.xuid].owner # t
               PROVE  FALSE
    OBVIOUS
  <2>1. PICK s \in Servers : Worker(s)
    BY OthersKeepRows
  <2>2. Claim(s) /\ Head(queue[s]).token = t
    <3>1. PICK x \in Players : x = t.xuid
      BY <1>1
    <3>2. PICK job : job = Head(queue[s])
      OBVIOUS
    <3>3. db'[x].owner # db[x].owner
      BY <3>1
    <3>4. \/ Claim(s) /\ db'[x].owner = job.token
          \/ db'[x] = Saved(db[x], job.snap, TRUE)
      BY <2>1, <3>2, <3>3, WorkerRows
    <3>5. Saved(db[x], job.snap, TRUE).owner = None
      BY DEF Saved
    <3>6. db'[x] # Saved(db[x], job.snap, TRUE)
      BY <1>1, <3>1, <3>5
    <3> QED BY <3>1, <3>2, <3>4, <3>6
  <2>3. queue[s] \in Seq(Job) /\ queue[s] # << >> /\ Head(queue[s]).kind = "load"
    BY <2>2 DEF Claim, At, TypeOK
  <2>4. 1 \in Loads(s, t)
    BY <2>2, <2>3, TailLoads DEF Loads
  <2> QED BY <2>4 DEF LeftIsPast
<1>3. ASSUME ~(packs'[t.home][t.xuid] \subseteq packs[t.home][t.xuid])
      PROVE  FALSE
  <2>1. phase[t.home] = "serving" /\ Playing(t.home, t.xuid)
    BY <1>1, <1>3, PacksGrow
  <2>2. Current(t)
    BY <1>1, <1>2, <2>1 DEF CustodyInv, PlayersOwn, Current
  <2> QED BY <2>1, <2>2 DEF LeftStandsStill
<1> QED BY <1>2, <1>3

(* Its journal row keeps what the player carried, and the barriers.        *)
LEMMA CapturedStep ==
  ASSUME TypeOK, CustodyInv, LockInv, LeftIsPast, LeftStandsStill, LeftIsCaptured,
         EndsSucceed, [Next]_vars
  PROVE  LeftIsCaptured'
<1> SUFFICES ASSUME NEW t \in Token, left'[t] # 0, journal'[t] # None,
                    ~journal'[t].failed
             PROVE  /\ journal'[t].stamp = left'[t]
                    /\ db'[t.xuid].owner = t =>
                         packs'[t.home][t.xuid] \subseteq journal'[t].packs
  BY DEF LeftIsCaptured
<1>1. CASE Captured(t)
  <2>1. /\ journal'[t].stamp = world[t.home][t.xuid]
        /\ journal'[t].packs = packs'[t.home][t.xuid]
    BY <1>1 DEF Captured, Capture
  <2>2. left'[t] = world[t.home][t.xuid]
    <3>1. CASE left'[t] = left[t]
      BY <1>1, <3>1 DEF LeftStandsStill, Captured, Seen
    <3>2. CASE left'[t] # left[t]
      BY <1>1, <3>2 DEF Captured
    <3> QED BY <3>1, <3>2
  <2> QED BY <2>1, <2>2
<1>2. CASE left'[t] = left[t] /\ journal'[t] \in {journal[t], None}
  <2>1. journal'[t] = journal[t] /\ left[t] # 0
    BY <1>2
  <2>2. journal[t].stamp = left[t]
    BY <2>1 DEF LeftIsCaptured
  <2>3. ASSUME db'[t.xuid].owner = t
        PROVE  packs'[t.home][t.xuid] \subseteq journal[t].packs
    BY <2>1, <2>3, OwnersStandStill DEF LeftIsCaptured
  <2> QED BY <1>2, <2>1, <2>2, <2>3
<1>3. CASE left'[t] = left[t] /\ ~Known(t)
  BY <1>3 DEF LeftIsPast
<1> QED BY <1>1, <1>2, <1>3, StepRecords DEF Recorded

(* A check that was passed is not undone before its save: nothing is left  *)
(* pending for a player whose session is over.                             *)
LEMMA ChecksHoldStep ==
  ASSUME TypeOK, CustodyInv, LockInv, ChecksHold, [Next]_vars
  PROVE  ChecksHold'
<1> SUFFICES ASSUME NEW r \in Servers, NEW job, job = Head(queue'[r]), pc'[r] = "save",
                    job.release, db'[job.token.xuid].owner = job.token
             PROVE  job.snap.packs \cap packs'[r][job.token.xuid] = {}
  BY DEF ChecksHold, CheckHolds
<1>0. pc \in [Servers -> {"idle", "claim", "save", "remove"}]
  BY DEF TypeOK
<1>1. \/ /\ job = Head(queue[r]) /\ packs' = packs
         /\ job.snap.packs \cap packs[r][job.token.xuid] = {}
      \/ job = Head(queue[r]) /\ pc[r] = "save"
  <2>1. CASE UNCHANGED vars
    BY <2>1 DEF vars, volatile
  <2>2. CASE Worker(r)
    <3>1. queue' = queue
      BY <2>2, WorkerStandsOwn
    <3>2. \/ pc[r] = "save"
          \/ /\ packs' = packs
             /\ Complete(Head(queue[r]).snap, packs[r][Head(queue[r]).token.xuid])
      BY <1>0, <2>2 DEF Worker, TakeLoad, Claim, CheckStorage, Save, RemoveRow,
         RecoverNext, RecoverDone, ReleaseLegacy, LoadFails, GiveUp, EndSnapshot,
         Drop, Goto, WorkerFrame
    <3> QED BY <3>1, <3>2 DEF Complete
  <2>3. ASSUME NEW s \in Servers, s # r, Worker(s)
        PROVE  job = Head(queue[r]) /\ pc[r] = "save"
    BY <2>3, WorkerStandsOthers
  <2>4. ASSUME NEW s \in Servers, Main(s) \/ \E x \in Players : Client(s, x)
        PROVE  job = Head(queue[r]) /\ pc[r] = "save"
    <3>1. Extended(r)
      BY <2>4, MainExtends, ClientExtends
    <3>2. pc[r] = "save"
      BY <3>1 DEF Extended
    <3>3. queue[r] # << >>
      BY <3>2 DEF LockInv, WorkerStands, Stands
    <3> QED BY <3>1, <3>2, <3>3 DEF Extended
  <2> QED BY <2>1, <2>2, <2>3, <2>4 DEF Next
<1>2. CASE job = Head(queue[r]) /\ pc[r] = "save"
  <2>1. queue[r] # << >> /\ job.kind \in {"persist", "recover"}
    BY <1>2 DEF LockInv, WorkerStands, Stands
  <2>2. job \in Job /\ JobIsSafe(r, job) /\ Settled(job)
    BY <1>2, <2>1, HeadSettled DEF CustodyInv, LockInv
  <2>3. job.token \in Token /\ job.token.home = r
    BY <2>1, <2>2, JobKinds DEF JobIsSafe, PersistJob, RecoverJob
  <2>4. Over(job.token)
    BY <2>1, <2>2, ReleaseIsOver
  <2>5. PICK x \in Players : x = job.token.xuid
    BY <2>3, TokenParts
  <2>6. db[x].owner = job.token
    <3> SUFFICES ASSUME db[x].owner # job.token
                 PROVE  FALSE
      OBVIOUS
    <3>1. db'[x].owner # db[x].owner
      BY <2>5
    <3>2. PICK s \in Servers : Worker(s)
      BY <3>1, OthersKeepRows
    <3>3. PICK own : own = Head(queue[s])
      OBVIOUS
    <3>4. \/ Claim(s) /\ db'[x].owner = own.token
          \/ db'[x] = Saved(db[x], own.snap, TRUE)
      BY <3>1, <3>2, <3>3, WorkerRows
    <3>5. Saved(db[x], own.snap, TRUE).owner = None /\ job.token # None
      BY <2>3, TokenParts DEF Saved
    <3>6. Claim(s) /\ own.token = job.token
      BY <2>5, <3>4, <3>5
    <3>7. own.token.home = s /\ pc[s] = "claim"
      <4>1. At(s, {"load"}, "claim")
        BY <3>6 DEF Claim
      <4> QED BY <3>3, <4>1, HeadSettled DEF At, CustodyInv, LockInv, JobIsSafe
    <3> QED BY <1>2, <2>3, <3>6, <3>7
  <2>7. job.snap.packs \cap packs[r][x] = {}
    BY <1>2, <2>5, <2>6 DEF ChecksHold, CheckHolds
  <2>8. packs'[r][x] \subseteq packs[r][x]
    <3> SUFFICES ASSUME ~(packs'[r][x] \subseteq packs[r][x])
                 PROVE  FALSE
      OBVIOUS
    <3>1. phase[r] = "serving" /\ Playing(r, x)
      BY PacksGrow
    <3>2. sess[r][x] = job.token
      BY <2>6, <3>1 DEF CustodyInv, PlayersOwn
    <3> QED BY <2>3, <2>4, <2>5, <3>1, <3>2 DEF Over, Current
  <2> QED BY <2>5, <2>7, <2>8
<1> QED BY <1>1, <1>2

(* Every step keeps FinalInv.                                              *)
LEMMA FinalStep ==
  ASSUME TypeOK, CustodyInv, LockInv, WaitInv, FinalInv, EndsSucceed, [Next]_vars
  PROVE  FinalInv'
<1>1. OneWait /\ LeftIsPast /\ LeftStandsStill /\ LeftIsCaptured /\ ChecksHold
  BY DEF WaitInv, FinalInv
<1>2. LeftIsPast'
  BY <1>1, PastStep
<1>3. LeftStandsStill'
  BY <1>1, StandsStillStep
<1>4. LeftIsCaptured'
  BY <1>1, CapturedStep
<1>5. ChecksHold'
  BY <1>1, ChecksHoldStep
<1> QED BY <1>2, <1>3, <1>4, <1>5 DEF FinalInv

(* FinalInv holds initially: no end was seen and no save is at hand.       *)
LEMMA InitFinal == Init => FinalInv
  BY DEF Init, FinalInv, LeftIsPast, LeftStandsStill, LeftIsCaptured, ChecksHold,
         CheckHolds

(* A release of a session whose end was seen saves what its player carried *)
(* then, and leaves none of his backpacks pending.                         *)
LEMMA FinalRelease ==
  ASSUME TypeOK, CustodyInv, LockInv, FinalInv, [Next]_vars,
         NEW x \in Players, Releases(x), left[db[x].owner] # 0
  PROVE  left[db[x].owner] = db'[x].inv /\ packs[db[x].owner.home][x] = {}
<1>1. db[x].owner # None /\ db'[x].owner = None /\ db' # db
  BY DEF Releases
<1>2. PICK s \in Servers : Worker(s)
  BY <1>1, OthersKeepRows
<1>3. PICK job : job = Head(queue[s])
  OBVIOUS
<1>4. /\ job.token \in Token /\ job.token.xuid = x /\ Save(s)
      /\ db[x].owner = job.token /\ job.release
      /\ db'[x] = Saved(db[x], job.snap, TRUE)
  <2>1. job.token # None \/ job.token \notin Token
    BY StoreAssumption
  <2> QED BY <1>1, <1>2, <1>3, <2>1, WorkerRows
<1>5. job.kind \in {"persist", "recover"} /\ queue[s] # << >> /\ pc[s] = "save"
  BY <1>3, <1>4 DEF Save, At
<1>6. job \in Job /\ JobIsSafe(s, job) /\ Settled(job)
  BY <1>3, <1>5, HeadSettled DEF CustodyInv, LockInv
<1>7. job.token.home = s
  BY <1>5, <1>6 DEF JobIsSafe
<1>8. journal[job.token] = job.snap /\ ~job.snap.failed
  <2>1. journal[job.token] \in {None, job.snap}
    BY <1>4, <1>5, <1>6, ReleaseIsOver
  <2>2. journal[job.token] # None
    BY <1>1, <1>4 DEF LockInv, OwnedRowRecoverable
  <2> QED BY <1>3, <1>5, <2>1, <2>2 DEF LockInv, WorkerStands, Stands
<1>9. job.snap.stamp = left[job.token] /\ packs[s][x] \subseteq job.snap.packs
  <2>1. journal[job.token] # None
    BY <1>1, <1>4 DEF LockInv, OwnedRowRecoverable
  <2> QED BY <1>4, <1>7, <1>8, <2>1 DEF FinalInv, LeftIsCaptured
<1>10. job.snap.packs \cap packs[s][x] = {}
  BY <1>3, <1>4, <1>5 DEF FinalInv, ChecksHold, CheckHolds
<1> QED BY <1>4, <1>7, <1>9, <1>10 DEF Saved

----------------------------------------------------------------------------
(* Where the end of a session finds the journal in order, what the plugin  *)
(* knows of a session it saw end stays in its row until it is released.    *)
THEOREM FinalInvariant ==
  ASSUME EndsSucceed
  PROVE  Spec => [](TypeOK /\ CustodyInv /\ LockInv /\ WaitInv /\ FinalInv)
<1>1. Init => FinalInv
  BY InitFinal
<1>2. TypeOK /\ CustodyInv /\ LockInv /\ WaitInv /\ FinalInv /\ [Next]_vars => FinalInv'
  BY FinalStep
<1> QED BY <1>1, <1>2, WaitInvariant, PTL DEF Spec

(* There, a session whose end the plugin saw is released with exactly what *)
(* its player then carried, or not at all.                                 *)
THEOREM ReleasesFinal ==
  ASSUME EndsSucceed
  PROVE  Spec => ReleaseIsFinal
<1>1. TypeOK /\ CustodyInv /\ LockInv /\ WaitInv /\ FinalInv /\ [Next]_vars =>
        [\A x \in Players : Releases(x) => left[db[x].owner] \in {0, db'[x].inv}]_vars
  BY FinalRelease
<1> QED BY <1>1, FinalInvariant, PTL DEF Spec, ReleaseIsFinal

(* And its row is not released while the backpacks its player left pending *)
(* on its server wait for recovery, crashes in between included.           *)
THEOREM SeenPacksHold ==
  ASSUME EndsSucceed
  PROVE  Spec => SeenBackpackHold
<1>1. TypeOK /\ CustodyInv /\ LockInv /\ WaitInv /\ FinalInv /\ [Next]_vars =>
        [\A x \in Players : Releases(x) /\ left[db[x].owner] # 0 =>
           packs[db[x].owner.home][x] = {}]_vars
  BY FinalRelease
<1> QED BY <1>1, FinalInvariant, PTL DEF Spec, SeenBackpackHold

----------------------------------------------------------------------------
(* No login is forgotten.                                                  *)

(* Every player object is valid when its restore runs.                     *)
PlayersValid == "invalid" \notin IncidentKinds

(* Something is under way for session t on server s.                       *)
Awaited(s, t) ==
  \/ \E i \in 1 .. Len(queue[s]) : queue[s][i].kind = "load" /\ queue[s][i].token = t
  \/ \E k \in tasks[s] : k.token = t

(* The players behind the guards of a server that accepts logins.          *)
Held(s) == {x \in online[s] \cap loading[s] : Accepting(s)}

(* q begins with the jobs of p.                                            *)
Prolongs(q, p) == Len(q) >= Len(p) /\ \A i \in 1 .. Len(p) : q[i] = p[i]

(* A step adds jobs to the queue of s, if any, and removes a callback only *)
(* if it adds another one or its player is no longer held.                 *)
Continues(s) ==
  /\ Prolongs(queue'[s], queue[s])
  /\ \A x \in Held(s)' : /\ x \in Held(s) /\ sess'[s][x] = sess[s][x]
                         /\ \A k \in tasks[s] : k.token = sess[s][x] =>
                              k \in tasks'[s] \/ Awaited(s, k.token)'

(* The claim of LoginAnswered for one server.                              *)
Answers(s) == \A x \in Held(s) : Awaited(s, sess[s][x])

(* LoginAnswered says it of all servers.                                   *)
LEMMA AnswersAll == LoginAnswered <=> \A s \in Servers : Answers(s)
  BY DEF LoginAnswered, Answers, Awaited, Held

(* And so in the next state.                                               *)
LEMMA AnswersAllNext ==
  ASSUME \A s \in Servers : Answers(s)'
  PROVE  LoginAnswered'
  BY DEF LoginAnswered, Answers, Awaited, Held

(* A step that continues what is under way answers those it holds.         *)
LEMMA ContinuesAnswers ==
  ASSUME TypeOK, TypeOK', NEW s \in Servers, Continues(s), Answers(s)
  PROVE  Answers(s)'
<1> SUFFICES ASSUME NEW x \in Held(s)'
             PROVE  Awaited(s, sess[s][x])'
  BY DEF Answers
<1>1. x \in Held(s) /\ sess'[s][x] = sess[s][x]
  BY DEF Continues
<1>2. Awaited(s, sess[s][x])
  BY <1>1 DEF Answers
<1>3. ASSUME NEW i \in 1 .. Len(queue[s])
      PROVE  i \in 1 .. Len(queue'[s]) /\ queue'[s][i] = queue[s][i]
  <2>1. /\ Prolongs(queue'[s], queue[s])
        /\ Len(queue[s]) \in Nat /\ Len(queue'[s]) \in Nat
    BY DEF Continues, TypeOK
  <2> QED BY <2>1 DEF Prolongs
<1>4. CASE \E i \in 1 .. Len(queue[s]) :
             queue[s][i].kind = "load" /\ queue[s][i].token = sess[s][x]
  BY <1>1, <1>3, <1>4 DEF Awaited
<1>5. CASE \E k \in tasks[s] : k.token = sess[s][x]
  BY <1>1, <1>5 DEF Continues, Awaited
<1> QED BY <1>2, <1>4, <1>5 DEF Awaited

(* A server that nothing happens to.                                       *)
Untouched(s) ==
  /\ queue'[s] = queue[s] /\ tasks'[s] = tasks[s] /\ online'[s] = online[s]
  /\ loading'[s] = loading[s] /\ sess'[s] = sess[s] /\ phase'[s] = phase[s]

(* It continues what is under way.                                         *)
LEMMA UntouchedContinues ==
  ASSUME TypeOK, NEW s \in Servers, Untouched(s)
  PROVE  Continues(s)
<1>1. Prolongs(queue'[s], queue[s])
  BY DEF Untouched, Prolongs, TypeOK
<1> QED BY <1>1 DEF Untouched, Continues, Held, Accepting

(* A step of one server leaves the others alone.                           *)
LEMMA WorkerUntouched ==
  ASSUME TypeOK, NEW s \in Servers, Worker(s), NEW r \in Servers, r # s
  PROVE  Untouched(r)
<1>1. phase'[r] = phase[r]
  BY WorkerPhases DEF TypeOK
<1>2. queue'[r] = queue[r] /\ tasks'[r] = tasks[r]
  <2>0. queue \in [Servers -> Seq(Job)] /\ tasks \in [Servers -> SUBSET Task]
    BY DEF TypeOK
  <2>1. queue' = queue \/ \E q : queue' = [queue EXCEPT ![s] = q]
    BY DEF Worker, TakeLoad, Claim, CheckStorage, Save, RemoveRow, RecoverNext,
           RecoverDone, ReleaseLegacy, LoadFails, GiveUp, EndSnapshot, Drop
  <2>2. tasks' = tasks \/ \E k : tasks' = [tasks EXCEPT ![s] = @ \cup {k}]
    BY DEF Worker, TakeLoad, Claim, CheckStorage, Save, RemoveRow, RecoverNext,
           RecoverDone, ReleaseLegacy, LoadFails, Schedule
  <2> QED BY <2>0, <2>1, <2>2
<1> QED BY <1>1, <1>2, WorkerFrames DEF Untouched, WorkerFrame

(* Nor does the end of a session touch another server.                     *)
LEMMA LeaveUntouched ==
  ASSUME TypeOK, NEW s \in Servers, NEW x, Leave(s, x), NEW r \in Servers, r # s
  PROVE  /\ queue'[r] = queue[r] /\ online'[r] = online[r]
         /\ loading'[r] = loading[r] /\ sess'[r] = sess[r] /\ phase'[r] = phase[r]
<1>0. /\ queue \in [Servers -> Seq(Job)] /\ online \in [Servers -> SUBSET Players]
      /\ loading \in [Servers -> SUBSET Players]
      /\ sess \in [Servers -> [Players -> Token \cup {None}]]
  BY DEF TypeOK
<1>1. queue' = queue \/ \E q : queue' = [queue EXCEPT ![s] = q]
  BY DEF Leave, Finish, FinishRaises
<1>2. loading' = loading \/ \E L : loading' = [loading EXCEPT ![s] = L]
  BY DEF Leave
<1>3. /\ online' = [online EXCEPT ![s] = @ \ {x}]
      /\ sess' = [sess EXCEPT ![s][x] = None]
      /\ UNCHANGED phase
  BY DEF Leave
<1> QED BY <1>0, <1>1, <1>2, <1>3

(* So does a step of its main thread.                                      *)
LEMMA MainUntouched ==
  ASSUME TypeOK, NEW s \in Servers, Main(s), NEW r \in Servers, r # s
  PROVE  Untouched(r)
<1>0. /\ queue \in [Servers -> Seq(Job)] /\ tasks \in [Servers -> SUBSET Task]
      /\ online \in [Servers -> SUBSET Players] /\ loading \in [Servers -> SUBSET Players]
      /\ sess \in [Servers -> [Players -> Token \cup {None}]]
      /\ phase \in [Servers -> Phases]
  BY DEF TypeOK
<1>1. CASE Tick(s)
  <2>1. CASE Apply(s)
    <3>1. \E T : tasks' = [tasks EXCEPT ![s] = T]
      BY <2>1 DEF Apply
    <3>2. loading' = loading \/ \E L : loading' = [loading EXCEPT ![s] = L]
      BY <2>1 DEF Apply
    <3>3. UNCHANGED <<queue, online, sess, phase>>
      BY <2>1 DEF Apply
    <3> QED BY <1>0, <3>1, <3>2, <3>3 DEF Untouched
  <2>2. CASE Retry(s)
    <3>1. \E T : tasks' = [tasks EXCEPT ![s] = T]
      BY <2>2 DEF Retry
    <3>2. queue' = queue \/ \E q : queue' = [queue EXCEPT ![s] = q]
      BY <2>2 DEF Retry
    <3>3. UNCHANGED <<loading, online, sess, phase>>
      BY <2>2 DEF Retry
    <3> QED BY <1>0, <3>1, <3>2, <3>3 DEF Untouched
  <2>3. CASE DropTask(s)
    BY <1>0, <2>3 DEF DropTask, Untouched
  <2>4. CASE Kick(s)
    <3>1. PICK y : Leave(s, y)
      BY <2>4 DEF Kick
    <3>2. \E T : tasks' = [tasks EXCEPT ![s] = T]
      BY <2>4 DEF Kick
    <3> QED BY <1>0, <3>1, <3>2, LeaveUntouched DEF Untouched
  <2> QED BY <1>1, <2>1, <2>2, <2>3, <2>4 DEF Tick
<1>2. CASE Autosave(s) \/ \E refused \in BOOLEAN : StopCommand(s, refused)
  <2>1. \E q : queue' = [queue EXCEPT ![s] = q]
    BY <1>2 DEF Autosave, StopCommand, CaptureAll
  <2>2. phase' = phase \/ \E p : phase' = [phase EXCEPT ![s] = p]
    BY <1>2 DEF Autosave, StopCommand
  <2>3. UNCHANGED <<tasks, online, loading, sess>>
    BY <1>2 DEF Autosave, StopCommand
  <2> QED BY <1>0, <2>1, <2>2, <2>3 DEF Untouched
<1>3. CASE DisableFinish(s)
  <2>1. queue' = queue \/ \E q : queue' = [queue EXCEPT ![s] = q]
    BY <1>3 DEF DisableFinish, Finish, FinishRaises
  <2>2. \E X : online' = [online EXCEPT ![s] = X]
    BY <1>3 DEF DisableFinish
  <2>3. phase' = phase \/ \E p : phase' = [phase EXCEPT ![s] = p]
    BY <1>3 DEF DisableFinish
  <2>4. \E x : sess' = [sess EXCEPT ![s][x] = None]
    BY <1>3 DEF DisableFinish
  <2>5. UNCHANGED <<loading, tasks>>
    BY <1>3 DEF DisableFinish
  <2> QED BY <1>0, <2>1, <2>2, <2>3, <2>4, <2>5 DEF Untouched
<1>4. CASE Boot(s) \/ Vanish(s) \/ Disable(s) \/ DisableFlush(s) \/ Exit(s) \/ Crash(s)
  BY <1>0, <1>4 DEF Boot, Vanish, Disable, DisableFlush, Exit, Crash, Reset, Untouched
<1> QED BY <1>1, <1>2, <1>3, <1>4 DEF Main

(* And what a player does.                                                 *)
LEMMA ClientUntouched ==
  ASSUME TypeOK, NEW s \in Servers, NEW x \in Players, Client(s, x),
         NEW r \in Servers, r # s
  PROVE  Untouched(r)
<1>0. /\ queue \in [Servers -> Seq(Job)] /\ tasks \in [Servers -> SUBSET Task]
      /\ online \in [Servers -> SUBSET Players] /\ loading \in [Servers -> SUBSET Players]
      /\ sess \in [Servers -> [Players -> Token \cup {None}]]
      /\ phase \in [Servers -> Phases]
  BY DEF TypeOK
<1>1. CASE BeginJoin(s, x) \/ JoinUnjournaled(s, x) \/ LegacyCommand(s, x)
  BY <1>0, <1>1 DEF BeginJoin, JoinUnjournaled, LegacyCommand, Untouched
<1>2. CASE Quit(s, x)
  BY <1>2, LeaveUntouched DEF Quit, Untouched
<1>3. CASE Play(s, x) \/ PlayUnmanaged(s, x) \/ PackPending(s, x) \/ PackRecovered(s, x)
  BY <1>3 DEF Play, PlayUnmanaged, PackPending, PackRecovered, volatile, Untouched
<1> QED BY <1>1, <1>2, <1>3 DEF Client

(* The queue of s with another job at its head.                            *)
Reheaded(s, b) == <<b>> \o Tail(queue[s])

(* The worker drops the job at the head of its queue, or puts another one  *)
(* there, or does neither.                                                 *)
LEMMA WorkerTakesHead ==
  ASSUME TypeOK, NEW s \in Servers, Worker(s)
  PROVE  \/ queue' = queue \/ queue' = [queue EXCEPT ![s] = Tail(queue[s])]
         \/ \E b \in Job : queue' = [queue EXCEPT ![s] = Reheaded(s, b)]
<1>0. queue \in [Servers -> Seq(Job)]
  BY DEF TypeOK
<1>1. PICK job : job = Head(queue[s])
  OBVIOUS
<1>2. queue[s] # << >> => job \in Job
  BY <1>0, <1>1
<1>3. ASSUME NEW todo, NEW f \in BOOLEAN, EndSnapshot(s, todo, f), queue[s] # << >>,
             job.kind = "recover" => todo \subseteq job.todo
      PROVE  \/ queue' = [queue EXCEPT ![s] = Tail(queue[s])]
             \/ \E b \in Job : queue' = [queue EXCEPT ![s] = Reheaded(s, b)]
  <2>1. CASE job.kind = "recover"
    <3>1. job \in RecoverJob
      BY <1>2, <1>3, <2>1, JobKinds
    <3>2. job.todo \in SUBSET Entry /\ job.failed \in BOOLEAN
      BY <3>1 DEF RecoverJob
    <3>3. todo \in SUBSET Entry /\ (job.failed \/ f) \in BOOLEAN
      BY <1>3, <2>1, <3>2
    <3>4. Batch(todo, job.failed \/ f) \in Job
      BY <3>3, MakeBatch
    <3>5. queue' = [queue EXCEPT ![s] = Reheaded(s, Batch(todo, job.failed \/ f))]
      BY <1>1, <1>3, <2>1 DEF EndSnapshot, Reheaded
    <3> QED BY <3>4, <3>5
  <2>2. CASE job.kind # "recover"
    BY <1>1, <1>3, <2>2 DEF EndSnapshot
  <2> QED BY <2>1, <2>2
<1>4. CASE TakeLoad(s) \/ Claim(s) \/ RecoverDone(s) \/ ReleaseLegacy(s)
  BY <1>4 DEF TakeLoad, Claim, RecoverDone, ReleaseLegacy, Drop, LoadFails
<1>5. CASE CheckStorage(s) \/ Save(s)
  <2>1. queue[s] # << >> /\ (queue' = queue \/ Drop(s) \/ GiveUp(s))
    BY <1>5 DEF CheckStorage, Save, At
  <2> QED BY <1>1, <1>3, <2>1 DEF Drop, GiveUp
<1>6. CASE RemoveRow(s)
  BY <1>1, <1>3, <1>6 DEF RemoveRow, At
<1>7. CASE RecoverNext(s)
  <2>1. /\ job.kind = "batch" /\ job \in Job
        /\ \E e \in job.todo : queue' = [queue EXCEPT ![s] =
             Reheaded(s, Recover(e, job.todo \ {e}, job.failed))]
    BY <1>1, <1>2, <1>7 DEF RecoverNext, At, Reheaded
  <2>2. job.todo \in SUBSET Entry /\ job.failed \in BOOLEAN
    BY <2>1, JobKinds DEF BatchJob
  <2>3. \A e \in job.todo : Recover(e, job.todo \ {e}, job.failed) \in Job
    BY <2>2, MakeRecover
  <2> QED BY <2>1, <2>3
<1> QED BY <1>4, <1>5, <1>6, <1>7 DEF Worker

(* The worker answers what it drops: a login that it cannot let in is      *)
(* handed back to the main thread.                                         *)
LEMMA WorkerAnswers ==
  ASSUME TypeOK, CustodyInv, NEW s \in Servers, Worker(s), Answers(s)
  PROVE  Answers(s)'
<1> SUFFICES ASSUME NEW x \in Held(s)'
             PROVE  Awaited(s, sess[s][x])'
  BY DEF Answers
<1>0. /\ queue \in [Servers -> Seq(Job)] /\ tasks \in [Servers -> SUBSET Task]
      /\ online \in [Servers -> SUBSET Players]
  BY DEF TypeOK
<1>1. WorkerFrame
  BY WorkerFrames
<1>2. x \in Held(s)
  <2>1. phase[s] # "booting"
    BY <1>1 DEF CustodyInv, OnlineWhileEnabled, Held, WorkerFrame
  <2>2. phase' = phase
    BY <2>1, WorkerPhases
  <2> QED BY <1>1, <2>2 DEF Held, WorkerFrame, Accepting
<1>3. PICK t \in Token : t = sess[s][x] /\ Current(t) /\ x \in online[s]
  <2>1. x \in online[s] /\ x \in Players
    BY <1>0, <1>2 DEF Held
  <2>2. sess[s][x] \in Token /\ sess[s][x].home = s /\ sess[s][x].xuid = x
    BY <2>1, TokenOfPlayer, TokenParts DEF CustodyInv, SessionsAreLocal
  <2> QED BY <2>1, <2>2 DEF Current
<1>4. ~Stopping(s)
  BY <1>2 DEF Held, Accepting, Stopping
<1>5. Awaited(s, t)
  BY <1>2, <1>3 DEF Answers
<1> SUFFICES Awaited(s, t)'
  BY <1>1, <1>3 DEF WorkerFrame, Awaited
<1>6. PICK job : job = Head(queue[s])
  OBVIOUS
<1>7. tasks[s] \subseteq tasks'[s]
  BY <1>0 DEF Worker, TakeLoad, Claim, CheckStorage, Save, RemoveRow, RecoverNext,
     RecoverDone, ReleaseLegacy, LoadFails, Schedule
<1>8. CASE \E k \in tasks[s] : k.token = t
  BY <1>7, <1>8 DEF Awaited
<1>9. CASE \E i \in 1 .. Len(queue[s]) : queue[s][i].kind = "load" /\ queue[s][i].token = t
  <2>1. PICK i \in 1 .. Len(queue[s]) : queue[s][i].kind = "load" /\ queue[s][i].token = t
    BY <1>9
  <2>2. queue[s] \in Seq(Job) /\ queue[s] # << >> /\ job = queue[s][1]
    BY <1>0, <1>6, <2>1
  <2>3. CASE queue' = queue
    BY <2>1, <2>3 DEF Awaited
  <2>4. CASE i # 1 /\ queue' = [queue EXCEPT ![s] = Tail(queue[s])]
    <3>1. i - 1 \in 1 .. Len(Tail(queue[s])) /\ Tail(queue[s])[i - 1] = queue[s][i]
      BY <2>2, <2>4
    <3>2. queue'[s] = Tail(queue[s])
      BY <1>0, <2>4
    <3>3. i - 1 \in 1 .. Len(queue'[s]) /\ queue'[s][i - 1] = queue[s][i]
      BY <3>1, <3>2
    <3> QED BY <2>1, <3>3 DEF Awaited
  <2>5. CASE i # 1 /\ \E b \in Job : queue' = [queue EXCEPT ![s] = Reheaded(s, b)]
    <3>1. PICK b \in Job : queue' = [queue EXCEPT ![s] = Reheaded(s, b)]
      BY <2>5
    <3>2. PICK q : q = Tail(queue[s])
      OBVIOUS
    <3>3. /\ q \in Seq(Job) /\ Len(q) = Len(queue[s]) - 1
          /\ q[i - 1] = queue[s][i] /\ Len(queue[s]) \in Nat
      BY <2>2, <2>5, <3>2
    <3>4. queue'[s] = <<b>> \o q
      <4>1. queue'[s] = Reheaded(s, b)
        BY <1>0, <3>1
      <4> QED BY <3>2, <4>1 DEF Reheaded
    <3>5. i \in 1 .. Len(queue'[s]) /\ queue'[s][i] = queue[s][i]
      <4>1. i \in 1 .. Len(<<b>> \o q) /\ (<<b>> \o q)[i] = q[i - 1]
        BY <2>1, <2>5, <3>3
      <4> QED BY <3>3, <3>4, <4>1
    <3> QED BY <2>1, <3>5 DEF Awaited
  <2>6. CASE job.kind = "load" /\ job.token = t /\ queue' # queue
    <3>1. Claim(s)
      BY <1>3, <1>4, <1>6, <2>6 DEF Worker, TakeLoad, Claim, CheckStorage, Save,
         RemoveRow, RecoverNext, RecoverDone, ReleaseLegacy, At, Goto
    <3>2. \E k : k.token = t /\ Schedule(s, k)
      BY <1>6, <2>6, <3>1 DEF Claim, LoadFails
    <3>3. PICK k : k.token = t /\ tasks' = [tasks EXCEPT ![s] = @ \cup {k}]
      BY <1>4, <3>2 DEF Schedule
    <3>4. k \in tasks'[s]
      BY <1>0, <3>3
    <3> QED BY <3>3, <3>4 DEF Awaited
  <2>7. CASE ~(job.kind = "load" /\ job.token = t)
    <3>1. i # 1
      BY <2>1, <2>2, <2>7
    <3>2. \/ queue' = queue \/ queue' = [queue EXCEPT ![s] = Tail(queue[s])]
          \/ \E b \in Job : queue' = [queue EXCEPT ![s] = Reheaded(s, b)]
      BY WorkerTakesHead
    <3> QED BY <2>3, <2>4, <2>5, <3>1, <3>2
  <2> QED BY <2>3, <2>6, <2>7
<1> QED BY <1>5, <1>8, <1>9 DEF Awaited

(* Queues only grow at their end.                                          *)
LEMMA JoinedProlongs ==
  ASSUME NEW q \in Seq(Job), NEW p \in Seq(Job)
  PROVE  Prolongs(Joined(q, p), q)
<1>1. Len(q \o p) = Len(q) + Len(p) /\ Len(q) \in Nat /\ Len(p) \in Nat
  OBVIOUS
<1>2. \A i \in 1 .. Len(q) : (q \o p)[i] = q[i]
  OBVIOUS
<1> QED BY <1>1, <1>2 DEF Prolongs, Joined

(* So does a job that is submitted.                                        *)
LEMMA AppendProlongs ==
  ASSUME NEW q \in Seq(Job), NEW j \in Job
  PROVE  /\ Prolongs(q, q) /\ Prolongs(Append(q, j), q)
         /\ Append(q, j) \in Seq(Job)
         /\ \E i \in 1 .. Len(Append(q, j)) : Append(q, j)[i] = j
<1>1. /\ Len(Append(q, j)) = Len(q) + 1 /\ Len(q) \in Nat
      /\ \A i \in 1 .. Len(q) : Append(q, j)[i] = q[i]
      /\ Append(q, j)[Len(q) + 1] = j
  OBVIOUS
<1>2. Append(q, j) \in Seq(Job)
  BY SeqType
<1> QED BY <1>1, <1>2 DEF Prolongs

(* And _queue_inactive_recovery.                                           *)
LEMMA RecoveryProlongs ==
  ASSUME TypeOK, NEW s \in Servers
  PROVE  WithRecovery(s) \in Seq(Job) /\ Prolongs(WithRecovery(s), queue[s])
<1>1. Batch(Entries(s, ActiveTokens(s)), FALSE) \in Job
  BY EntriesType, MakeBatch
<1>2. queue[s] \in Seq(Job)
  BY DEF TypeOK
<1> QED BY <1>1, <1>2, WithRecoveryType, AppendProlongs DEF WithRecovery

(* And a submission after it.                                              *)
LEMMA ProlongsOn ==
  ASSUME NEW p \in Seq(Job), NEW q \in Seq(Job), NEW o \in Seq(Job),
         Prolongs(q, p), Prolongs(o, q)
  PROVE  Prolongs(o, p)
<1>1. Len(p) \in Nat /\ Len(q) \in Nat /\ Len(o) \in Nat
  OBVIOUS
<1> QED BY <1>1 DEF Prolongs

(* The end of a session.                                                   *)
LEMMA FinishProlongs ==
  ASSUME TypeOK, CustodyInv, NEW s \in Servers, NEW x \in online[s],
         Finish(s, x) \/ FinishRaises(s, x)
  PROVE  Prolongs(queue'[s], queue[s])
<1>1. x \in Players /\ sess[s][x] \in Token
  BY TokenOfPlayer DEF CustodyInv
<1>2. PICK t \in Token : t = sess[s][x]
  BY <1>1
<1>3. \/ queue' = queue
      \/ queue' = [queue EXCEPT ![s] = Append(@, Persist(t, Capture(s, x), TRUE, FALSE))]
      \/ queue' = [queue EXCEPT ![s] = Append(@, Persist(t, Payload(t), TRUE, FALSE))]
  BY <1>2 DEF Finish, FinishRaises
<1>4. \E snap \in Snap :
        \/ queue' = queue
        \/ queue' = [queue EXCEPT ![s] = Append(@, Persist(t, snap, TRUE, FALSE))]
  BY <1>1, <1>3, CaptureType, PayloadType
<1>5. PICK snap \in Snap :
        \/ queue' = queue
        \/ queue' = [queue EXCEPT ![s] = Append(@, Persist(t, snap, TRUE, FALSE))]
  BY <1>4
<1>6. PICK j \in Job : j = Persist(t, snap, TRUE, FALSE)
  BY MakePersist
<1>7. queue \in [Servers -> Seq(Job)]
  BY DEF TypeOK
<1>8. queue'[s] = queue[s] \/ queue'[s] = Append(queue[s], j)
  BY <1>5, <1>6, <1>7
<1>9. Prolongs(queue[s], queue[s]) /\ Prolongs(Append(queue[s], j), queue[s])
  BY <1>7, AppendProlongs
<1> QED BY <1>8, <1>9

(* Whose session a held player has.                                        *)
LEMMA HeldSession ==
  ASSUME TypeOK, CustodyInv, NEW s \in Servers, NEW x \in online[s]
  PROVE  /\ sess[s][x] \in Token /\ sess[s][x].home = s /\ sess[s][x].xuid = x
         /\ Current(sess[s][x])
<1>1. x \in Players /\ sess[s][x] \in Token
  BY TokenOfPlayer DEF CustodyInv
<1>2. sess[s][x].home = s /\ sess[s][x].xuid = x
  BY <1>1, TokenParts DEF CustodyInv, SessionsAreLocal
<1> QED BY <1>1, <1>2 DEF Current

(* A callback lets its player in, tries again, or is followed by a kick.   *)
LEMMA TickContinues ==
  ASSUME TypeOK, CustodyInv, PlayersValid, NEW s \in Servers, Tick(s)
  PROVE  Continues(s)
<1>0. /\ queue \in [Servers -> Seq(Job)] /\ tasks \in [Servers -> SUBSET Task]
      /\ online \in [Servers -> SUBSET Players] /\ loading \in [Servers -> SUBSET Players]
      /\ sess \in [Servers -> [Players -> Token \cup {None}]]
      /\ queue[s] \in Seq(Job)
  BY DEF TypeOK
<1>1. Prolongs(queue[s], queue[s])
  BY <1>0 DEF Prolongs
<1>2. CASE Apply(s)
  <2>1. PICK k \in tasks[s] :
          \/ /\ loading' = [loading EXCEPT ![s] = @ \ {k.token.xuid}]
             /\ tasks' = [tasks EXCEPT ![s] = @ \ {k}]
          \/ /\ tasks' = [tasks EXCEPT ![s] = (@ \ {k}) \cup
                                              {[kind |-> "kick", token |-> k.token]}]
             /\ loading' = loading
    BY <1>2 DEF Apply, PlayersValid, Incident
  <2>2. UNCHANGED <<phase, online, sess, queue>>
    BY <1>2 DEF Apply
  <2>3. loading'[s] \subseteq loading[s]
    BY <1>0, <2>1
  <2>4. ASSUME NEW x \in Held(s)', NEW l \in tasks[s], l.token = sess[s][x]
        PROVE  l \in tasks'[s] \/ Awaited(s, l.token)'
    <3>1. x \in online[s] /\ x \in loading'[s]
      BY <2>2 DEF Held
    <3>2. l.token.xuid = x
      BY <2>4, <3>1, HeldSession
    <3>3. CASE l # k
      BY <1>0, <2>1, <3>3
    <3>4. CASE l = k /\ loading' = [loading EXCEPT ![s] = @ \ {k.token.xuid}]
      BY <1>0, <3>1, <3>2, <3>4
    <3>5. CASE l = k /\ tasks' = [tasks EXCEPT ![s] = (@ \ {k}) \cup
                                    {[kind |-> "kick", token |-> k.token]}]
      <4>1. [kind |-> "kick", token |-> k.token] \in tasks'[s]
        BY <1>0, <3>5
      <4> QED BY <3>5, <4>1 DEF Awaited
    <3> QED BY <2>1, <3>3, <3>4, <3>5
  <2> QED BY <1>1, <2>2, <2>3, <2>4 DEF Continues, Held, Accepting
<1>3. CASE Retry(s)
  <2>1. PICK k \in tasks[s] :
          /\ k.kind = "retry"
          /\ \/ /\ queue' = [queue EXCEPT ![s] =
                               Append(WithRecovery(s), Load(k.token, k.tries))]
                /\ tasks' = [tasks EXCEPT ![s] = @ \ {k}]
             \/ /\ tasks' = [tasks EXCEPT ![s] = (@ \ {k}) \cup
                                                 {[kind |-> "kick", token |-> k.token]}]
                /\ queue' = queue
    BY <1>3 DEF Retry
  <2>2. UNCHANGED <<phase, online, loading, sess>>
    BY <1>3 DEF Retry
  <2>3. k.token \in Token /\ k.tries \in 0 .. MaxTries
    BY <2>1, IncidentAssumption DEF TypeOK, Task, ApplyTask, RetryTask, KickTask
  <2>4. PICK j \in Job : j = Load(k.token, k.tries)
    BY <2>3, MakeLoad
  <2>5. PICK q \in Seq(Job) : q = WithRecovery(s) /\ Prolongs(q, queue[s])
    BY RecoveryProlongs
  <2>6. /\ Append(q, j) \in Seq(Job) /\ Prolongs(Append(q, j), queue[s])
        /\ \E i \in 1 .. Len(Append(q, j)) : Append(q, j)[i] = j
    BY <1>0, <2>5, AppendProlongs, ProlongsOn
  <2>7. queue'[s] = queue[s] \/ queue'[s] = Append(q, j)
    BY <1>0, <2>1, <2>4, <2>5
  <2>8. Prolongs(queue'[s], queue[s])
    BY <1>1, <2>6, <2>7
  <2>9. ASSUME NEW l \in tasks[s]
        PROVE  l \in tasks'[s] \/ Awaited(s, l.token)'
    <3>1. CASE l # k
      BY <1>0, <2>1, <3>1
    <3>2. CASE l = k /\ queue' = [queue EXCEPT ![s] =
                                    Append(WithRecovery(s), Load(k.token, k.tries))]
      <4>1. queue'[s] = Append(q, j)
        BY <1>0, <2>4, <2>5, <3>2
      <4>2. j.kind = "load" /\ j.token = k.token
        BY <2>4 DEF Load
      <4>3. \E i \in 1 .. Len(queue'[s]) : queue'[s][i] = j
        BY <2>6, <4>1
      <4> QED BY <3>2, <4>2, <4>3 DEF Awaited
    <3>3. CASE l = k /\ tasks' = [tasks EXCEPT ![s] = (@ \ {k}) \cup
                                    {[kind |-> "kick", token |-> k.token]}]
      <4>1. [kind |-> "kick", token |-> k.token] \in tasks'[s]
        BY <1>0, <3>3
      <4> QED BY <3>3, <4>1 DEF Awaited
    <3> QED BY <2>1, <3>1, <3>2, <3>3
  <2> QED BY <2>2, <2>8, <2>9 DEF Continues, Held, Accepting
<1>4. CASE DropTask(s)
  <2>1. PICK k \in tasks[s] :
          /\ ~Current(k.token) \/ k.token.xuid \notin online[s]
          /\ tasks' = [tasks EXCEPT ![s] = @ \ {k}]
    BY <1>4 DEF DropTask
  <2>2. UNCHANGED <<phase, online, loading, sess, queue>>
    BY <1>4 DEF DropTask
  <2>3. ASSUME NEW x \in Held(s)', NEW l \in tasks[s], l.token = sess[s][x]
        PROVE  l \in tasks'[s]
    <3>1. x \in online[s]
      BY <2>2 DEF Held
    <3>2. l # k
      BY <2>1, <2>3, <3>1, HeldSession
    <3> QED BY <1>0, <2>1, <3>2
  <2> QED BY <1>1, <2>2, <2>3 DEF Continues, Held, Accepting
<1>5. CASE Kick(s)
  <2>1. PICK k \in tasks[s] :
          /\ k.token.xuid \in online[s] /\ Leave(s, k.token.xuid)
          /\ tasks' = [tasks EXCEPT ![s] = @ \ {k}]
    BY <1>5 DEF Kick
  <2>2. PICK y \in online[s] : y = k.token.xuid
    BY <2>1
  <2>3. /\ Finish(s, y) \/ FinishRaises(s, y)
        /\ online' = [online EXCEPT ![s] = @ \ {y}]
        /\ sess' = [sess EXCEPT ![s][y] = None]
        /\ loading' = loading \/ loading' = [loading EXCEPT ![s] = @ \ {y}]
        /\ UNCHANGED phase
    BY <2>1, <2>2 DEF Leave
  <2>4. Prolongs(queue'[s], queue[s])
    BY <2>3, FinishProlongs
  <2>5. ASSUME NEW x \in Held(s)'
        PROVE  x \in Held(s) /\ x # y /\ sess'[s][x] = sess[s][x]
    <3>1. x \in online'[s] /\ x \in loading'[s]
      BY DEF Held
    <3>2. x \in online[s] /\ x # y /\ x \in loading[s] /\ x \in Players
      BY <1>0, <2>3, <3>1
    <3>3. sess'[s][x] = sess[s][x]
      BY <1>0, <2>3, <3>2
    <3> QED BY <2>3, <3>2, <3>3 DEF Held, Accepting
  <2>6. ASSUME NEW x \in Held(s)', NEW l \in tasks[s], l.token = sess[s][x]
        PROVE  l \in tasks'[s]
    <3>1. l # k
      BY <2>2, <2>5, <2>6, HeldSession DEF Held
    <3> QED BY <1>0, <2>1, <3>1
  <2> QED BY <2>4, <2>5, <2>6 DEF Continues
<1> QED BY <1>2, <1>3, <1>4, <1>5 DEF Tick

(* A server that accepts no logins holds nobody.                           *)
LEMMA ClosedAnswers ==
  ASSUME NEW s \in Servers, ~Accepting(s)'
  PROVE  Answers(s)'
  BY DEF Answers, Held, Accepting

(* A round of saves.                                                       *)
LEMMA CaptureAllProlongs ==
  ASSUME TypeOK, NEW s \in Servers, NEW who \in SUBSET ReadyPlayers(s),
         NEW auto \in BOOLEAN, NEW before \in Seq(Job),
         Prolongs(before, queue[s]), CaptureAll(s, who, auto, before)
  PROVE  Prolongs(queue'[s], queue[s])
<1>1. PICK p \in Seq(Job) : queue' = [queue EXCEPT ![s] = Joined(before, p)]
  BY CaptureAllAppends
<1>2. queue \in [Servers -> Seq(Job)] /\ queue[s] \in Seq(Job)
  BY DEF TypeOK
<1>3. queue'[s] = Joined(before, p)
  BY <1>1, <1>2
<1>4. Joined(before, p) \in Seq(Job)
  BY DEF Joined
<1>5. Prolongs(Joined(before, p), queue[s])
  BY <1>2, <1>4, JoinedProlongs, ProlongsOn
<1> QED BY <1>3, <1>5

(* The main thread answers whom it holds.                                  *)
LEMMA MainAnswers ==
  ASSUME TypeOK, TypeOK', CustodyInv, PlayersValid, NEW s \in Servers, Main(s),
         Answers(s)
  PROVE  Answers(s)'
<1>0. /\ queue[s] \in Seq(Job) /\ phase \in [Servers -> Phases]
      /\ online \in [Servers -> SUBSET Players]
  BY DEF TypeOK
<1>1. CASE Tick(s)
  BY <1>1, TickContinues, ContinuesAnswers
<1>2. CASE Autosave(s) \/ \E refused \in BOOLEAN : StopCommand(s, refused)
  <2>1. Prolongs(queue'[s], queue[s])
    <3>1. CASE Autosave(s)
      <4>1. CaptureAll(s, {x \in ReadyPlayers(s) : ~AutosavePending(s, sess[s][x])},
                       TRUE, WithRecovery(s))
        BY <3>1 DEF Autosave
      <4> QED BY <4>1, RecoveryProlongs, CaptureAllProlongs
    <3>2. CASE \E refused \in BOOLEAN : StopCommand(s, refused)
      <4>1. CaptureAll(s, ReadyPlayers(s), FALSE, queue[s])
        BY <3>2 DEF StopCommand
      <4>2. Prolongs(queue[s], queue[s])
        BY <1>0 DEF Prolongs
      <4> QED BY <1>0, <4>1, <4>2, CaptureAllProlongs
    <3> QED BY <1>2, <3>1, <3>2
  <2>2. Accepting(s) /\ UNCHANGED <<tasks, online, loading, sess>>
    BY <1>2 DEF Autosave, StopCommand, Accepting
  <2>3. Continues(s)
    BY <2>1, <2>2 DEF Continues, Held
  <2> QED BY <2>3, ContinuesAnswers
<1>3. CASE Vanish(s)
  <2>1. online'[s] = {}
    BY <1>0, <1>3 DEF Vanish
  <2> QED BY <2>1 DEF Answers, Held
<1>4. CASE \/ Boot(s) \/ Disable(s) \/ DisableFinish(s) \/ DisableFlush(s)
           \/ Exit(s) \/ Crash(s)
  <2>1. phase'[s] \in {"booting", "failed", "aborting", "disabling", "flushing", "down"}
    BY <1>0, <1>4 DEF Boot, Disable, DisableFinish, DisableFlush, Exit, Crash, Reset
  <2>2. ~Accepting(s)'
    BY <2>1 DEF Accepting
  <2> QED BY <2>2, ClosedAnswers
<1> QED BY <1>1, <1>2, <1>3, <1>4 DEF Main

(* A player who joins has a load submitted.                                *)
LEMMA BeginJoinAnswers ==
  ASSUME TypeOK, TypeOK', CustodyInv, NEW s \in Servers, NEW x \in Players,
         BeginJoin(s, x), Answers(s)
  PROVE  Answers(s)'
<1>0. /\ queue \in [Servers -> Seq(Job)] /\ tasks \in [Servers -> SUBSET Task]
      /\ online \in [Servers -> SUBSET Players] /\ loading \in [Servers -> SUBSET Players]
      /\ sess \in [Servers -> [Players -> Token \cup {None}]]
  BY DEF TypeOK
<1>1. PICK t \in Token : t = NewToken(s, x)
  BY NewTokenType DEF BeginJoin
<1>2. PICK j \in Job : j = Load(t, 0)
  BY <1>1, MakeLoad, IncidentAssumption
<1>3. PICK q \in Seq(Job) : q = WithRecovery(s) /\ Prolongs(q, queue[s])
  BY RecoveryProlongs
<1>4. /\ queue' = [queue EXCEPT ![s] = Append(q, j)]
      /\ sess' = [sess EXCEPT ![s][x] = t]
      /\ online' = [online EXCEPT ![s] = @ \cup {x}]
      /\ loading' = [loading EXCEPT ![s] = @ \cup {x}]
      /\ UNCHANGED <<tasks, phase>>
  BY <1>1, <1>2, <1>3 DEF BeginJoin
<1>5. /\ queue'[s] = Append(q, j) /\ Append(q, j) \in Seq(Job)
      /\ Prolongs(queue'[s], queue[s])
      /\ \E i \in 1 .. Len(queue'[s]) : queue'[s][i] = j
  <2>1. queue'[s] = Append(q, j)
    BY <1>0, <1>4
  <2>2. /\ Append(q, j) \in Seq(Job) /\ Prolongs(Append(q, j), q)
        /\ \E i \in 1 .. Len(Append(q, j)) : Append(q, j)[i] = j
    BY AppendProlongs
  <2>3. Prolongs(Append(q, j), queue[s])
    BY <1>0, <1>3, <2>2, ProlongsOn
  <2> QED BY <2>1, <2>2, <2>3
<1> SUFFICES ASSUME NEW y \in Held(s)'
             PROVE  Awaited(s, sess[s][y])'
  BY DEF Answers
<1>6. CASE y = x
  <2>1. sess'[s][y] = t
    BY <1>0, <1>4, <1>6
  <2>2. j.kind = "load" /\ j.token = t
    BY <1>2 DEF Load
  <2> QED BY <1>5, <2>1, <2>2 DEF Awaited
<1>7. CASE y # x
  <2>1. y \in Held(s) /\ sess'[s][y] = sess[s][y]
    BY <1>0, <1>4, <1>7 DEF Held, Accepting
  <2>2. Awaited(s, sess[s][y])
    BY <2>1 DEF Answers
  <2>3. ASSUME NEW i \in 1 .. Len(queue[s])
        PROVE  i \in 1 .. Len(queue'[s]) /\ queue'[s][i] = queue[s][i]
    <3>1. Len(queue[s]) \in Nat /\ Len(queue'[s]) \in Nat
      BY <1>0, <1>5
    <3> QED BY <1>5, <3>1 DEF Prolongs
  <2> QED BY <1>4, <2>1, <2>2, <2>3 DEF Awaited
<1> QED BY <1>6, <1>7

(* What else players do forgets no login.                                  *)
LEMMA ClientAnswers ==
  ASSUME TypeOK, TypeOK', CustodyInv, NEW s \in Servers, NEW x \in Players,
         Client(s, x), Answers(s)
  PROVE  Answers(s)'
<1>0. /\ queue \in [Servers -> Seq(Job)] /\ tasks \in [Servers -> SUBSET Task]
      /\ online \in [Servers -> SUBSET Players] /\ loading \in [Servers -> SUBSET Players]
      /\ sess \in [Servers -> [Players -> Token \cup {None}]]
      /\ queue[s] \in Seq(Job)
  BY DEF TypeOK
<1>1. CASE BeginJoin(s, x)
  BY <1>1, BeginJoinAnswers
<1>2. CASE JoinUnjournaled(s, x) \/ LegacyCommand(s, x)
  <2>1. UNCHANGED <<phase, online, loading, sess, tasks>>
    BY <1>2 DEF JoinUnjournaled, LegacyCommand
  <2>2. PICK j \in Job : j = [kind |-> "legacy", xuid |-> x]
    BY DEF Job, LegacyJob
  <2>3. PICK q \in Seq(Job) : q = WithRecovery(s) /\ Prolongs(q, queue[s])
    BY RecoveryProlongs
  <2>4. queue'[s] = queue[s] \/ queue'[s] = q \/ queue'[s] = Append(queue[s], j)
    BY <1>0, <1>2, <2>2, <2>3 DEF JoinUnjournaled, LegacyCommand
  <2>5. Prolongs(queue'[s], queue[s])
    BY <1>0, <2>3, <2>4, AppendProlongs
  <2>6. Continues(s)
    BY <2>1, <2>5 DEF Continues, Held, Accepting
  <2> QED BY <2>6, ContinuesAnswers
<1>3. CASE Quit(s, x)
  <2>1. /\ x \in online[s]
        /\ Finish(s, x) \/ FinishRaises(s, x)
        /\ online' = [online EXCEPT ![s] = @ \ {x}]
        /\ sess' = [sess EXCEPT ![s][x] = None]
        /\ loading' = loading \/ loading' = [loading EXCEPT ![s] = @ \ {x}]
        /\ UNCHANGED <<phase, tasks>>
    BY <1>3 DEF Quit, Leave
  <2>2. Prolongs(queue'[s], queue[s])
    BY <2>1, FinishProlongs
  <2>3. ASSUME NEW y \in Held(s)'
        PROVE  y \in Held(s) /\ sess'[s][y] = sess[s][y]
    <3>1. y \in online'[s] /\ y \in loading'[s]
      BY DEF Held
    <3>2. y \in online[s] /\ y # x /\ y \in loading[s] /\ y \in Players
      BY <1>0, <2>1, <3>1
    <3>3. sess'[s][y] = sess[s][y]
      BY <1>0, <2>1, <3>2
    <3> QED BY <2>1, <3>2, <3>3 DEF Held, Accepting
  <2>4. Continues(s)
    BY <2>1, <2>2, <2>3 DEF Continues
  <2> QED BY <2>4, ContinuesAnswers
<1>4. CASE Play(s, x) \/ PlayUnmanaged(s, x) \/ PackPending(s, x) \/ PackRecovered(s, x)
  <2>1. Untouched(s)
    BY <1>4 DEF Play, PlayUnmanaged, PackPending, PackRecovered, volatile, Untouched
  <2> QED BY <2>1, UntouchedContinues, ContinuesAnswers
<1> QED BY <1>1, <1>2, <1>3, <1>4 DEF Client

(* No step forgets a login.                                                *)
LEMMA AnsweredStep ==
  ASSUME TypeOK, TypeOK', CustodyInv, PlayersValid, LoginAnswered, [Next]_vars
  PROVE  LoginAnswered'
<1>1. \A s \in Servers : Answers(s)
  BY AnswersAll
<1>2. ASSUME NEW r \in Servers, Untouched(r)
      PROVE  Answers(r)'
  BY <1>1, <1>2, UntouchedContinues, ContinuesAnswers
<1>3. CASE UNCHANGED vars
  <2>1. \A r \in Servers : Untouched(r)
    BY <1>3 DEF vars, volatile, Untouched
  <2> QED BY <1>2, <2>1, AnswersAllNext
<1>4. ASSUME NEW s \in Servers, Worker(s)
      PROVE  \A r \in Servers : Answers(r)'
  BY <1>1, <1>2, <1>4, WorkerAnswers, WorkerUntouched
<1>5. ASSUME NEW s \in Servers, Main(s)
      PROVE  \A r \in Servers : Answers(r)'
  BY <1>1, <1>2, <1>5, MainAnswers, MainUntouched
<1>6. ASSUME NEW s \in Servers, NEW x \in Players, Client(s, x)
      PROVE  \A r \in Servers : Answers(r)'
  BY <1>1, <1>2, <1>6, ClientAnswers, ClientUntouched
<1> QED BY <1>3, <1>4, <1>5, <1>6, AnswersAllNext DEF Next

(* Nobody waits for a login that has been forgotten: whoever the guards    *)
(* hold back has a load or a callback of his session under way, as long as *)
(* apply_inventory_sync finds the players it restores valid.               *)
THEOREM NoLoginForgotten ==
  ASSUME PlayersValid
  PROVE  Spec => []LoginAnswered
<1>1. Init => LoginAnswered
  BY DEF Init, LoginAnswered
<1>2. TypeOK /\ TypeOK' /\ CustodyInv /\ LoginAnswered /\ [Next]_vars => LoginAnswered'
  BY AnsweredStep
<1> QED BY <1>1, <1>2, CustodyInvariant, PTL DEF Spec
==============================================================================
