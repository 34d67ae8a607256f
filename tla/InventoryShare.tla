--------------------------- MODULE InventoryShare ---------------------------
(***************************************************************************)
(* The inventory-share plugin on several servers, one shared database.     *)
(*                                                                         *)
(* On every server the game's main thread runs the event handlers, one at  *)
(* a time, each as one action here; a worker thread executes the jobs of   *)
(* one FIFO queue, in steps that other threads and servers interleave      *)
(* with.  The head of queue[s] is the job in progress and pc[s] how far it *)
(* has come.  What can go wrong is an "incident" of some kind, and their   *)
(* number is bounded by MaxIncidents.                                      *)
(***************************************************************************)
EXTENDS SharedStore, Sequences

CONSTANTS
  MaxTries,       \* bound: retries of one load before its deadline
  MaxIncidents,   \* bound: incidents in one behaviour
  IncidentKinds   \* the kinds of incident the environment may produce

AllKinds ==
  {"db",       \* a statement or its commit acknowledgment is lost
   "journal",  \* the local SQLite journal cannot be read or written
   "final",    \* it cannot when a session ends
   "capture",  \* the inventory cannot be captured when a session ends
   "snapshot", \* it cannot be captured while the session goes on
   "halt",     \* nor, with "snapshot", for a stop command that is accepted
   "data",     \* saved data cannot be parsed or applied
   "invalid",  \* the player object is not valid when its restore runs
   "crash",    \* the server process dies
   "stop",     \* a stop command that another plugin then refuses
   "vanish",   \* players are removed without a quit event before shutdown
   "pack",     \* a backpack save is left pending in the backpack journal, or
               \* that journal cannot be read
   "hot",      \* play on a server whose plugin is not enabled
   "legacy"}   \* the operator runs `invshare recoverlegacy`

ASSUME IncidentAssumption ==
  MaxTries \in Nat /\ MaxIncidents \in Nat /\ IncidentKinds \subseteq AllKinds

VARIABLES
  db,         \* db[x]: the shared row of player x
  journal,    \* journal[t]: payload of t in its home server's journal, or None
  issued,     \* issued[s][x]: how many tokens s has drawn for x
  phase,      \* phase[s]: where the plugin is between on_enable and on_disable
  online,     \* online[s]: server.online_players
  world,      \* world[s][x]: stamp of the inventory x carries in s's world
  clock,      \* clock[x]: the latest stamp x's inventory has had anywhere
  sess,       \* sess[s][x]: _sessions
  ready,      \* ready[s]: _ready_players
  loading,    \* loading[s]: _loading_players
  queue,      \* queue[s]: jobs of the single-worker executor
  pc,         \* pc[s]: next step of the job at the head of queue[s]
  tasks,      \* tasks[s]: callbacks handed to the server's scheduler
  packs,      \* packs[s][x]: x's rows in the backpack plugin's journal
  incidents,  \* incidents so far
  left        \* history: left[t] is what its player carried when the plugin
              \* saw the ready session t end (quit, on_disable, stop command
              \* accepted); 0 before that

durable  == <<db, journal, issued, packs>>
volatile == <<phase, online, sess, ready, loading, queue, pc, tasks>>
vars == <<durable, volatile, world, clock, incidents, left>>

----------------------------------------------------------------------------
(* Jobs of the executor and callbacks of the scheduler.                    *)

Entry == [token : Token, snap : Snap]

LoadJob    == [kind : {"load"}, token : Token, tries : 0 .. MaxTries]
PersistJob == [kind : {"persist"}, token : Token, snap : Snap,
               release : BOOLEAN, auto : BOOLEAN]
RecoverJob == [kind : {"recover"}, token : Token, snap : Snap,
               release : {TRUE}, todo : SUBSET Entry, failed : BOOLEAN]
BatchJob   == [kind : {"batch"}, todo : SUBSET Entry, failed : BOOLEAN]
LegacyJob  == [kind : {"legacy"}, xuid : Players]
Job == LoadJob \cup PersistJob \cup RecoverJob \cup BatchJob \cup LegacyJob

ApplyTask == [kind : {"apply"}, token : Token, inv : Stamp]
RetryTask == [kind : {"retry"}, token : Token, tries : 1 .. MaxTries]
KickTask  == [kind : {"kick"}, token : Token]
Task == ApplyTask \cup RetryTask \cup KickTask

Phases == {"down", "booting", "serving", "failed", "halting",
           "disabling", "aborting", "flushing"}

Load(t, n) == [kind |-> "load", token |-> t, tries |-> n]
Persist(t, snap, release, auto) ==
  [kind |-> "persist", token |-> t, snap |-> snap,
   release |-> release, auto |-> auto]
Recover(e, todo, failed) ==
  [kind |-> "recover", token |-> e.token, snap |-> e.snap,
   release |-> TRUE, todo |-> todo, failed |-> failed]
Batch(es, failed) == [kind |-> "batch", todo |-> es, failed |-> failed]

(* What the tables, queues and maps of the plugin can hold.                *)
TypeOK ==
  /\ db \in [Players -> Row]
  /\ journal \in [Token -> Snap \cup {None}]
  /\ issued \in [Servers -> [Players -> 0 .. MaxSessions]]
  /\ phase \in [Servers -> Phases]
  /\ online \in [Servers -> SUBSET Players]
  /\ world \in [Servers -> [Players -> 1 .. MaxStamp]]
  /\ clock \in [Players -> 1 .. MaxStamp]
  /\ sess \in [Servers -> [Players -> Token \cup {None}]]
  /\ ready \in [Servers -> SUBSET Token]
  /\ loading \in [Servers -> SUBSET Players]
  /\ queue \in [Servers -> Seq(Job)]
  /\ pc \in [Servers -> {"idle", "claim", "save", "remove"}]
  /\ tasks \in [Servers -> SUBSET Task]
  /\ packs \in [Servers -> [Players -> SUBSET Packs]]
  /\ incidents \in 0 .. MaxIncidents
  /\ left \in [Token -> Stamp]

Incident(k) == /\ k \in IncidentKinds
               /\ incidents < MaxIncidents
               /\ incidents' = incidents + 1

Init ==
  /\ db \in [Players -> {r \in Row : r.owner = None /\ r.inv = 0}]
  /\ journal = [t \in Token |-> None]
  /\ issued = [s \in Servers |-> [x \in Players |-> 0]]
  /\ phase = [s \in Servers |-> "down"]
  /\ online = [s \in Servers |-> {}]
  /\ world = [s \in Servers |-> [x \in Players |-> 1]]
  /\ clock = [x \in Players |-> 1]
  /\ sess = [s \in Servers |-> [x \in Players |-> None]]
  /\ ready = [s \in Servers |-> {}]
  /\ loading = [s \in Servers |-> {}]
  /\ queue = [s \in Servers |-> << >>]
  /\ pc = [s \in Servers |-> "idle"]
  /\ tasks = [s \in Servers |-> {}]
  /\ packs = [s \in Servers |-> [x \in Players |-> {}]]
  /\ incidents = 0
  /\ left = [t \in Token |-> 0]

----------------------------------------------------------------------------
(* Helpers.                                                                *)

Accepting(s) == phase[s] \in {"serving", "halting"}
Stopping(s)  == phase[s] \in {"disabling", "aborting", "flushing"}

(* The session that t opened is still the one in _sessions.                *)
Current(t) == sess[t.home][t.xuid] = t

(* Is x able to act in s's world?  The packet, pickup and damage guards    *)
(* cancel what a player in _loading_players does.                          *)
Playing(s, x) == x \in online[s] \ loading[s]

(* SnapshotJournal.entries of server s, without the tokens in `except`.    *)
Entries(s, except) ==
  {[token |-> t, snap |-> journal[t]] :
     t \in {u \in Token : u.home = s /\ u \notin except /\ journal[u] # None}}

(* A recovery that leaves no session out.                                  *)
NoActiveTokens(s) == {}

(* set(self._sessions.values())                                            *)
ActiveTokens(s) == {sess[s][x] : x \in Players}

(* No recovery of inactive sessions.                                       *)
NoRecovery(s) == queue[s]

(* _queue_inactive_recovery: the queue it leaves behind.                   *)
WithRecovery(s) ==
  LET es == Entries(s, ActiveTokens(s))
      pending == \E i \in 1 .. Len(queue[s]) :
                   queue[s][i].kind \in {"batch", "recover"}
  IN  IF pending \/ es = {} THEN queue[s]
      ELSE Append(queue[s], Batch(es, FALSE))

(* _extract_player_data.                                                   *)
Capture(s, x) == [stamp |-> world[s][x], failed |-> FALSE,
                  packs |-> packs[s][x]]

AutosavePending(s, t) ==
  \E i \in 1 .. Len(queue[s]) :
    queue[s][i].kind = "persist" /\ queue[s][i].token = t /\ queue[s][i].auto

ReadyPlayers(s) == {x \in online[s] : sess[s][x] \in ready[s]}

(* The loop orders of server.online_players.                               *)
Orders(S) == {o \in [1 .. Cardinality(S) -> S] :
                \A x \in S : \E i \in 1 .. Cardinality(S) : o[i] = x}

----------------------------------------------------------------------------
(* The worker.  It takes the job at the head of its queue, and drops it     *)
(* once it is done.                                                        *)

WorkerFrame == UNCHANGED <<issued, online, world, clock, sess, ready,
                           loading, packs, left>>

At(s, kinds, step) ==
  /\ queue[s] # << >> /\ pc[s] = step /\ Head(queue[s]).kind \in kinds

Goto(s, step) == pc' = [pc EXCEPT ![s] = step]
Drop(s) == /\ queue' = [queue EXCEPT ![s] = Tail(queue[s])]
           /\ Goto(s, "idle")

(* A callback reaches the main thread only while the plugin is enabled.    *)
Schedule(s, k) ==
  tasks' = IF Stopping(s) THEN tasks ELSE [tasks EXCEPT ![s] = @ \cup {k}]

(* load_inventory_task tests _stopping and the session before it claims.   *)
TakeLoad(s) ==
  /\ At(s, {"load"}, "idle")
  /\ IF ~Stopping(s) /\ Current(Head(queue[s]).token)
     THEN Goto(s, "claim") /\ UNCHANGED queue
     ELSE Drop(s)
  /\ UNCHANGED <<db, journal, phase, tasks, incidents>> /\ WorkerFrame

(* An error path that forgets the player, and one without a deadline.      *)
LoadFailsSilently(s, retryable) == UNCHANGED tasks /\ Drop(s)
LoadFailsForever(s, retryable) ==
  /\ Schedule(s, [kind |-> "retry", token |-> Head(queue[s]).token,
                  tries |-> Head(queue[s]).tries + 1])
  /\ Drop(s)

(* The error path of load_inventory_task.  A SessionBusy or a transient     *)
(* database error is retried until the deadline, which may pass at any     *)
(* attempt; any other error kicks the player (fail_join).                  *)
LoadFails(s, retryable) ==
  LET job == Head(queue[s])
  IN  /\ \/ Schedule(s, [kind |-> "kick", token |-> job.token])
         \/ /\ retryable /\ job.tries < MaxTries
            /\ Schedule(s, [kind |-> "retry", token |-> job.token,
                            tries |-> job.tries + 1])
      /\ Drop(s)

(* InventoryStore.claim: one transaction.                                  *)
Claim(s) ==
  LET t == Head(queue[s]).token
      x == t.xuid
      claimed == [db EXCEPT ![x] = Claimed(db[x], t)]
  IN  /\ At(s, {"load"}, "claim")
      /\ \/ /\ Claimable(db[x], t)
            /\ db' = claimed
            /\ Schedule(s, [kind |-> "apply", token |-> t, inv |-> db[x].inv])
            /\ Drop(s)
            /\ UNCHANGED incidents
         \/ /\ ~Claimable(db[x], t)
            /\ LoadFails(s, TRUE)
            /\ UNCHANGED <<db, incidents>>
         \/ \* committed, but the saved vault cannot be parsed
            /\ Claimable(db[x], t)
            /\ Incident("data")
            /\ db' = claimed
            /\ LoadFails(s, FALSE)
         \/ \* rolled back, or committed and the acknowledgment lost
            /\ Incident("db")
            /\ db' \in {db} \cup (IF Claimable(db[x], t) THEN {claimed} ELSE {})
            /\ LoadFails(s, TRUE)
      /\ UNCHANGED <<journal, phase>> /\ WorkerFrame

(* A snapshot job ends, well or not.  If it was one entry of a recovery,   *)
(* the recovery goes on with `rest` and counts a failure.                  *)
EndSnapshot(s, rest, fails) ==
  LET job == Head(queue[s])
  IN  /\ queue' = [queue EXCEPT ![s] =
           IF job.kind = "recover"
           THEN <<Batch(rest, job.failed \/ fails)>> \o Tail(queue[s])
           ELSE Tail(queue[s])]
      /\ Goto(s, "idle")

(* The shared row may not be what the journal says: the snapshot stays.    *)
GiveUp(s) == EndSnapshot(s, Head(queue[s]).todo, TRUE)

(* require_complete_storage, in _persist_snapshot and in recover_pending.  *)
CheckStorage(s) ==
  LET job == Head(queue[s])
      complete == Complete(job.snap, packs[s][job.token.xuid])
  IN  /\ At(s, {"persist", "recover"}, "idle")
      /\ \/ complete /\ Goto(s, "save") /\ UNCHANGED <<queue, incidents>>
         \/ ~complete /\ GiveUp(s) /\ UNCHANGED incidents
         \/ \* the backpack journal cannot be opened
            job.snap.packs # {} /\ Incident("pack") /\ GiveUp(s)
      /\ UNCHANGED <<db, journal, phase, tasks>> /\ WorkerFrame

(* InventoryStore.save: one transaction, fenced by the token.              *)
Save(s) ==
  LET job == Head(queue[s])
      x == job.token.xuid
      owned == Holds(db[x], job.token)
      saved == [db EXCEPT ![x] = Saved(db[x], job.snap, job.release)]
  IN  /\ At(s, {"persist", "recover"}, "save")
      /\ \/ /\ ~owned                                  \* StaleSession
            /\ Goto(s, "remove")
            /\ UNCHANGED <<db, queue, incidents>>
         \/ /\ owned
            /\ db' = saved
            /\ IF job.release THEN Goto(s, "remove") /\ UNCHANGED queue
                              ELSE Drop(s)
            /\ UNCHANGED incidents
         \/ /\ Incident("db")
            /\ db' \in {db} \cup (IF owned THEN {saved} ELSE {})
            /\ GiveUp(s)
      /\ UNCHANGED <<journal, phase, tasks>> /\ WorkerFrame

(* SnapshotJournal.remove.  If it fails, the exception ends the recovery.  *)
RemoveRow(s) ==
  LET job == Head(queue[s])
  IN  /\ At(s, {"persist", "recover"}, "remove")
      /\ \/ /\ journal' = [journal EXCEPT ![job.token] = None]
            /\ EndSnapshot(s, job.todo, FALSE)
            /\ UNCHANGED incidents
         \/ /\ Incident("journal")
            /\ EndSnapshot(s, {}, TRUE)
            /\ UNCHANGED journal
      /\ UNCHANGED <<db, phase, tasks>> /\ WorkerFrame

(* recover_pending: the next of the captured entries.                      *)
RecoverNext(s) ==
  LET job == Head(queue[s])
  IN  /\ At(s, {"batch"}, "idle")
      /\ \E e \in job.todo :
           queue' = [queue EXCEPT ![s] =
             <<Recover(e, job.todo \ {e}, job.failed)>> \o Tail(queue[s])]
      /\ UNCHANGED <<db, journal, phase, pc, tasks, incidents>> /\ WorkerFrame

(* recover_pending returns.  on_enable waits for it before it accepts      *)
(* logins.                                                                 *)
RecoverDone(s) ==
  LET job == Head(queue[s])
  IN  /\ At(s, {"batch"}, "idle")
      /\ job.todo = {}
      /\ Drop(s)
      /\ phase' = IF phase[s] = "booting"
                  THEN [phase EXCEPT ![s] = IF job.failed THEN "failed" ELSE "serving"]
                  ELSE phase
      /\ UNCHANGED <<db, journal, tasks, incidents>> /\ WorkerFrame

(* InventoryStore.release_legacy.                                          *)
ReleaseLegacy(s) ==
  LET x == Head(queue[s]).xuid
      released == [db EXCEPT ![x] = LegacyReleased(db[x])]
  IN  /\ At(s, {"legacy"}, "idle")
      /\ \/ db' = released /\ UNCHANGED incidents
         \/ Incident("db") /\ db' \in {db, released}
      /\ Drop(s)
      /\ UNCHANGED <<journal, phase, tasks>> /\ WorkerFrame

Worker(s) ==
  \/ TakeLoad(s) \/ Claim(s)
  \/ CheckStorage(s) \/ Save(s) \/ RemoveRow(s)
  \/ RecoverNext(s) \/ RecoverDone(s) \/ ReleaseLegacy(s)

----------------------------------------------------------------------------
(* Joining: on_player_join, _begin_join and the callbacks it schedules.    *)

Payload(t) == IF journal[t] = None THEN Marker ELSE journal[t]

(* A token per player instead of one per session.                          *)
PlayerToken(s, x) == [home |-> s, xuid |-> x, n |-> 1]

(* _begin_join draws a token that was never used before.                   *)
NewToken(s, x) == [home |-> s, xuid |-> x, n |-> issued[s][x] + 1]

(* _begin_join, from on_player_join or from the loop at the end of         *)
(* on_enable: the marker is on disk before the load is submitted.          *)
BeginJoin(s, x) ==
  LET t == NewToken(s, x)
  IN  /\ phase[s] = "serving"
      /\ x \notin online[s] /\ issued[s][x] < MaxSessions
      /\ issued' = [issued EXCEPT ![s][x] = @ + 1]
      /\ journal' = [journal EXCEPT ![t] = Marker]
      /\ online' = [online EXCEPT ![s] = @ \cup {x}]
      /\ sess' = [sess EXCEPT ![s][x] = t]
      /\ loading' = [loading EXCEPT ![s] = @ \cup {x}]
      /\ queue' = [queue EXCEPT ![s] = Append(WithRecovery(s), Load(t, 0))]
      /\ UNCHANGED <<db, phase, world, clock, ready, pc, tasks, packs,
                     incidents, left>>

(* The journal cannot be read, or the marker not be written: the player is  *)
(* kicked without a session.                                               *)
JoinUnjournaled(s, x) ==
  /\ phase[s] = "serving" /\ x \notin online[s]
  /\ Incident("journal")
  /\ queue' \in {queue, [queue EXCEPT ![s] = WithRecovery(s)]}
  /\ UNCHANGED <<db, journal, issued, phase, online, world, clock, sess,
                 ready, loading, pc, tasks, packs, left>>

RunTask(s, k) == k \in tasks[s] /\ Accepting(s)

(* apply_inventory_sync for a session that is still current.               *)
Apply(s) == \E k \in tasks[s] :
  LET t == k.token
      x == t.xuid
      restored == IF k.inv = 0 THEN world
                  ELSE [world EXCEPT ![s][x] = k.inv]
  IN  /\ RunTask(s, k) /\ k.kind = "apply"
      /\ Current(t) /\ x \in online[s]
      /\ \/ /\ world' = restored
            /\ ready' = [ready EXCEPT ![s] = @ \cup {t}]
            /\ loading' = [loading EXCEPT ![s] = @ \ {x}]
            /\ tasks' = [tasks EXCEPT ![s] = @ \ {k}]
            /\ UNCHANGED incidents
         \/ \* a field cannot be restored, before or after it was written
            /\ Incident("data")
            /\ world' \in {world, restored}
            /\ tasks' = [tasks EXCEPT ![s] = (@ \ {k}) \cup
                                             {[kind |-> "kick", token |-> t]}]
            /\ UNCHANGED <<ready, loading>>
         \/ \* not p.is_valid: nothing is restored and nothing tries again
            /\ Incident("invalid")
            /\ tasks' = [tasks EXCEPT ![s] = @ \ {k}]
            /\ UNCHANGED <<world, ready, loading>>
      /\ UNCHANGED <<db, journal, issued, phase, online, clock, sess, queue,
                     pc, packs, left>>

(* retry(), a second later; if the journal cannot be read, fail_join.      *)
Retry(s) == \E k \in tasks[s] :
  /\ RunTask(s, k) /\ k.kind = "retry" /\ Current(k.token)
  /\ \/ /\ queue' = [queue EXCEPT ![s] =
                        Append(WithRecovery(s), Load(k.token, k.tries))]
        /\ tasks' = [tasks EXCEPT ![s] = @ \ {k}]
        /\ UNCHANGED incidents
     \/ /\ Incident("journal")
        /\ tasks' = [tasks EXCEPT ![s] = (@ \ {k}) \cup
                                         {[kind |-> "kick", token |-> k.token]}]
        /\ UNCHANGED queue
  /\ UNCHANGED <<db, journal, issued, phase, online, world, clock, sess,
                 ready, loading, pc, packs, left>>

(* Any callback whose session has ended, or whose player is gone.          *)
DropTask(s) == \E k \in tasks[s] :
  /\ RunTask(s, k)
  /\ \/ ~Current(k.token)
     \/ k.kind # "retry" /\ k.token.xuid \notin online[s]
  /\ tasks' = [tasks EXCEPT ![s] = @ \ {k}]
  /\ UNCHANGED <<db, journal, issued, phase, online, world, clock, sess,
                 ready, loading, queue, pc, packs, incidents, left>>

----------------------------------------------------------------------------
(* Leaving: _finish_session, on_player_quit.                               *)

(* _finish_session: a ready session is captured and queued for release; if *)
(* the capture fails, its journal row is marked instead; a session that    *)
(* never became ready is released with the payload it had.                 *)
Finish(s, x) ==
  LET t == sess[s][x]
      snap == Capture(s, x)
  IN  \/ /\ t \in ready[s]
         /\ journal' = [journal EXCEPT ![t] = snap]
         /\ queue' = [queue EXCEPT ![s] = Append(@, Persist(t, snap, TRUE, FALSE))]
         /\ left' = [left EXCEPT ![t] = world[s][x]]
         /\ UNCHANGED incidents
      \/ /\ t \in ready[s] /\ Incident("capture")
         /\ journal' = [journal EXCEPT ![t] = Blocked(Payload(t))]
         /\ left' = [left EXCEPT ![t] = world[s][x]]
         /\ UNCHANGED queue
      \/ /\ t \notin ready[s]
         /\ queue' = [queue EXCEPT ![s] =
                        Append(@, Persist(t, Payload(t), TRUE, FALSE))]
         /\ UNCHANGED <<journal, left, incidents>>

(* The journal fails as well: the exception leaves _finish_session and the *)
(* handler that called it.                                                 *)
FinishRaises(s, x) ==
  LET t == sess[s][x]
  IN  /\ Incident("final")
      /\ left' = IF t \in ready[s] THEN [left EXCEPT ![t] = world[s][x]] ELSE left
      /\ UNCHANGED <<journal, queue>>

(* on_player_quit; an exception skips the clean-up at its end.             *)
Leave(s, x) ==
  /\ online' = [online EXCEPT ![s] = @ \ {x}]
  /\ sess' = [sess EXCEPT ![s][x] = None]
  /\ \/ /\ Finish(s, x)
        /\ ready' = [ready EXCEPT ![s] = @ \ {sess[s][x]}]
        /\ loading' = [loading EXCEPT ![s] = @ \ {x}]
     \/ FinishRaises(s, x) /\ UNCHANGED <<ready, loading>>
  /\ UNCHANGED <<db, issued, phase, world, clock, pc, packs>>

Quit(s, x) ==
  /\ Accepting(s) /\ x \in online[s]
  /\ Leave(s, x)
  /\ UNCHANGED tasks

(* kick(): the player is disconnected, which fires the quit event.         *)
Kick(s) == \E k \in tasks[s] :
  /\ RunTask(s, k) /\ k.kind = "kick"
  /\ Current(k.token) /\ k.token.xuid \in online[s]
  /\ Leave(s, k.token.xuid)
  /\ tasks' = [tasks EXCEPT ![s] = @ \ {k}]

----------------------------------------------------------------------------
(* Periodic saves, shutdown, start-up.                                     *)

(* One _queue_snapshot per player of `who`, except those whose capture     *)
(* fails.                                                                  *)
CaptureAll(s, who, auto, before) ==
  \E lost \in SUBSET who :
    /\ IF lost = {} THEN UNCHANGED incidents ELSE Incident("snapshot")
    /\ journal' = [t \in Token |->
         IF \E x \in who \ lost : sess[s][x] = t THEN Capture(s, t.xuid)
                                                ELSE journal[t]]
    /\ \E o \in Orders(who \ lost) :
         queue' = [queue EXCEPT ![s] = before \o
           [i \in 1 .. Cardinality(who \ lost) |->
              Persist(sess[s][o[i]], Capture(s, o[i]), FALSE, auto)]]

(* _autosave, every autosave_seconds.                                      *)
Autosave(s) ==
  /\ Accepting(s)
  /\ CaptureAll(s, {x \in ReadyPlayers(s) : ~AutosavePending(s, sess[s][x])},
                TRUE, WithRecovery(s))
  /\ UNCHANGED <<db, issued, phase, online, world, clock, sess, ready,
                 loading, pc, tasks, packs, left>>

(* _before_stop_command.  Another plugin may still refuse the command; the  *)
(* bound on that is one unserved stop snapshot in the queue.               *)
StopCommand(s, refused) ==
  /\ phase[s] = "serving"
  /\ refused => /\ "stop" \in IncidentKinds
                /\ \A i \in 1 .. Len(queue[s]) :
                     queue[s][i].kind = "persist" =>
                       queue[s][i].release \/ queue[s][i].auto
  /\ CaptureAll(s, ReadyPlayers(s), FALSE, queue[s])
  /\ ~refused /\ incidents' # incidents => "halt" \in IncidentKinds
  /\ phase' = [phase EXCEPT ![s] = IF refused THEN @ ELSE "halting"]
  /\ left' = IF refused THEN left
             ELSE [t \in Token |-> IF \E x \in ReadyPlayers(s) : sess[s][x] = t
                                   THEN world[s][t.xuid] ELSE left[t]]
  /\ UNCHANGED <<db, issued, online, world, clock, sess, ready, loading, pc,
                 tasks, packs>>

(* The game removes every player without a quit event: their sessions stay *)
(* in _sessions.                                                           *)
Vanish(s) ==
  /\ phase[s] = "halting" /\ online[s] # {}
  /\ Incident("vanish")
  /\ online' = [online EXCEPT ![s] = {}]
  /\ UNCHANGED <<durable, phase, sess, ready, loading, queue, pc, tasks,
                 world, clock, left>>

(* on_disable sets _stopping, finishes the players it still sees, drains   *)
(* the executor and replays what is left in the journal.                   *)
Disable(s) ==
  /\ phase[s] \in {"serving", "halting", "failed"}
  /\ phase' = [phase EXCEPT ![s] = "disabling"]
  /\ UNCHANGED <<durable, online, sess, ready, loading, queue, pc, tasks,
                 world, clock, incidents, left>>

DisableFinish(s) == \E x \in online[s] :
  /\ phase[s] = "disabling"
  /\ \/ /\ Finish(s, x)
        /\ online' = [online EXCEPT ![s] = @ \ {x}]
        /\ UNCHANGED phase
     \/ \* on_disable is left: nobody else is finished, nothing is replayed
        /\ FinishRaises(s, x)
        /\ online' = [online EXCEPT ![s] = {}]
        /\ phase' = [phase EXCEPT ![s] = "aborting"]
  /\ sess' = [sess EXCEPT ![s][x] = None]
  /\ UNCHANGED <<db, issued, world, clock, ready, loading, pc, tasks, packs>>

DisableFlush(s) ==
  /\ phase[s] = "disabling" /\ online[s] = {} /\ queue[s] = << >>
  /\ phase' = [phase EXCEPT ![s] = "flushing"]
  /\ queue' = [queue EXCEPT ![s] = <<Batch(Entries(s, {}), FALSE)>>]
  /\ UNCHANGED <<durable, online, sess, ready, loading, pc, tasks, world,
                 clock, incidents, left>>

(* The process ends, and with it everything it held in memory.             *)
Reset(s) ==
  /\ phase' = [phase EXCEPT ![s] = "down"]
  /\ online' = [online EXCEPT ![s] = {}]
  /\ sess' = [sess EXCEPT ![s] = [x \in Players |-> None]]
  /\ ready' = [ready EXCEPT ![s] = {}]
  /\ loading' = [loading EXCEPT ![s] = {}]
  /\ queue' = [queue EXCEPT ![s] = << >>]
  /\ pc' = [pc EXCEPT ![s] = "idle"]
  /\ tasks' = [tasks EXCEPT ![s] = {}]
  /\ UNCHANGED <<durable, world, clock, left>>

Exit(s) ==
  /\ phase[s] \in {"flushing", "aborting"} /\ queue[s] = << >>
  /\ Reset(s) /\ UNCHANGED incidents

Crash(s) ==
  /\ phase[s] # "down"
  /\ Incident("crash") /\ Reset(s)

(* on_enable recovers every journal row before it accepts logins.          *)
Boot(s) ==
  /\ phase[s] = "down"
  /\ \/ /\ phase' = [phase EXCEPT ![s] = "booting"]
        /\ queue' = [queue EXCEPT ![s] = <<Batch(Entries(s, {}), FALSE)>>]
        /\ UNCHANGED incidents
     \/ \* the schema is not available, or not even native runtime and
        \* journal: then on_disable will have nothing to replay with
        /\ Incident("db")
        /\ \E unready \in {"failed", "aborting"} :
             phase' = [phase EXCEPT ![s] = unready]
        /\ UNCHANGED queue
  /\ UNCHANGED <<durable, online, sess, ready, loading, pc, tasks, world,
                 clock, left>>

----------------------------------------------------------------------------
(* What happens around the plugin: the game, the operator, the backpacks.  *)

Play(s, x) ==
  /\ phase[s] = "serving" /\ Playing(s, x) /\ clock[x] < MaxStamp
  /\ clock' = [clock EXCEPT ![x] = @ + 1]
  /\ world' = [world EXCEPT ![s][x] = clock[x] + 1]
  /\ UNCHANGED <<durable, volatile, incidents, left>>

(* Play while the plugin is not enabled.  Such players are still connected  *)
(* when on_enable reaches its end, and it begins their joins.              *)
PlayUnmanaged(s, x) ==
  /\ phase[s] \in {"down", "booting", "failed"} /\ clock[x] < MaxStamp
  /\ Incident("hot")
  /\ clock' = [clock EXCEPT ![x] = @ + 1]
  /\ world' = [world EXCEPT ![s][x] = clock[x] + 1]
  /\ UNCHANGED <<durable, volatile, left>>

(* A backpack save fails, which happens while its player acts: that none   *)
(* fails between his last capture and the release is assumed.              *)
PackPending(s, x) == \E p \in Packs \ packs[s][x] :
  /\ phase[s] = "serving" /\ Playing(s, x)
  /\ Incident("pack")
  /\ packs' = [packs EXCEPT ![s][x] = @ \cup {p}]
  /\ UNCHANGED <<db, journal, issued, volatile, world, clock, left>>

PackRecovered(s, x) == \E p \in packs[s][x] :
  /\ phase[s] # "down"
  /\ packs' = [packs EXCEPT ![s][x] = @ \ {p}]
  /\ UNCHANGED <<db, journal, issued, volatile, world, clock, incidents, left>>

(* on_command: invshare recoverlegacy <xuid> confirm-offline.              *)
LegacyCommand(s, x) ==
  /\ Accepting(s) /\ sess[s][x] = None
  /\ Incident("legacy")
  /\ queue' = [queue EXCEPT ![s] = Append(@, [kind |-> "legacy", xuid |-> x])]
  /\ UNCHANGED <<durable, phase, online, sess, ready, loading, pc, tasks,
                 world, clock, left>>

----------------------------------------------------------------------------

Tick(s) == Apply(s) \/ Retry(s) \/ DropTask(s) \/ Kick(s)

Shutdown(s) ==
  \/ phase[s] \in {"halting", "failed"} /\ Disable(s)
  \/ DisableFinish(s) \/ DisableFlush(s) \/ Exit(s)

Main(s) ==
  \/ Tick(s) \/ Autosave(s) \/ Boot(s) \/ Crash(s)
  \/ (\E refused \in BOOLEAN : StopCommand(s, refused))
  \/ Vanish(s) \/ Disable(s)
  \/ DisableFinish(s) \/ DisableFlush(s) \/ Exit(s)

Client(s, x) ==
  \/ BeginJoin(s, x) \/ JoinUnjournaled(s, x) \/ Quit(s, x)
  \/ Play(s, x) \/ PlayUnmanaged(s, x) \/ PackPending(s, x) \/ PackRecovered(s, x)
  \/ LegacyCommand(s, x)

Next == \E s \in Servers :
  Worker(s) \/ Main(s) \/ (\E x \in Players : Client(s, x))

Spec == Init /\ [][Next]_vars

(* The worker thread and the scheduler run; a server that is down is       *)
(* started, one that is halting or failed is shut down by its operator.    *)
Fairness == \A s \in Servers :
  /\ WF_vars(Worker(s)) /\ WF_vars(Tick(s)) /\ WF_vars(Autosave(s))
  /\ WF_vars(Boot(s)) /\ WF_vars(Shutdown(s))

FairSpec == Spec /\ Fairness
=============================================================================
