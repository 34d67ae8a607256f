----------------------- MODULE InventoryShareProps -----------------------
(***************************************************************************)
(* What the plugin must guarantee, and the inductive invariant behind it.  *)
(***************************************************************************)
EXTENDS InventoryShare

(* A player can act in the world of at most one server at a time: the      *)
(* loading guards are lifted only while this server's session owns the row.*)
ExclusivePlay ==
  \A x \in Players : \A s1, s2 \in Servers :
    Playing(s1, x) /\ Playing(s2, x) => s1 = s2

(* A lock can always be given back: the journal of the server whose token  *)
(* is in the row holds a payload or a marker for it, whatever crashed.     *)
OwnedRowRecoverable ==
  \A x \in Players : db[x].owner # None => journal[db[x].owner] # None

(* A restore that is about to run for a waiting player carries the fields  *)
(* the row still has: nothing wrote it since it was claimed.               *)
RestoreIsCurrent ==
  \A s \in Servers : \A k \in tasks[s] :
    k.kind = "apply" /\ Current(k.token) /\ k.token.xuid \in online[s] =>
      db[k.token.xuid].owner = k.token /\ db[k.token.xuid].inv = k.inv

Releases(x) == db[x].owner # None /\ db'[x].owner = None

(* The saved fields never go back to an earlier inventory of the player.   *)
NoRollback == [][\A x \in Players : db'[x].inv >= db[x].inv]_vars

(* The row is released together with the newest payload of its journal,    *)
(* and never from a payload marked capture_failed.                         *)
ReleaseIsCurrent ==
  [][\A x \in Players : Releases(x) =>
       LET snap == journal[db[x].owner]
       IN  /\ ~snap.failed
           /\ snap.stamp # 0 => db'[x].inv = snap.stamp]_vars

(* A session whose end the plugin saw is released with exactly what the    *)
(* player then carried, or not at all.                                     *)
ReleaseIsFinal ==
  [][\A x \in Players : Releases(x) =>
       left[db[x].owner] \in {0, db'[x].inv}]_vars

(* The row is not released while the player's backpacks on the releasing   *)
(* server still wait for recovery.                                         *)
BackpackHold ==
  [][\A x \in Players : Releases(x) => packs[db[x].owner.home][x] = {}]_vars

(* The same for sessions whose end the plugin saw, crashes afterwards      *)
(* included: the snapshot of the end says what was pending then.           *)
SeenBackpackHold ==
  [][\A x \in Players : Releases(x) /\ left[db[x].owner] # 0 =>
       packs[db[x].owner.home][x] = {}]_vars

(* A lock whose session is over is given back.                             *)
InactiveLockReleased ==
  \A t \in Token : (db[t.xuid].owner = t /\ ~Current(t)) ~>
                   (db[t.xuid].owner # t)

(* A player waiting for a restore either gets it or is sent away.          *)
JoinResolves ==
  \A s \in Servers, x \in Players : (x \in loading[s]) ~> (x \notin loading[s])

(* Nobody is left behind the loading guards: where the plugin accepts      *)
(* logins, a player they hold back has a job or a callback of his session  *)
(* under way, which lets him in, tries again or sends him away.            *)
LoginAnswered ==
  \A s \in Servers : \A x \in online[s] \cap loading[s] :
    Accepting(s) =>
      \/ \E i \in 1 .. Len(queue[s]) :
           queue[s][i].kind = "load" /\ queue[s][i].token = sess[s][x]
      \/ \E k \in tasks[s] : k.token = sess[s][x]

(* The servers together keep the promise of Custody: a session acts while  *)
(* its player is online and not held back by the loading guards.           *)
Acting == {t \in Token : Playing(t.home, t.xuid) /\ Current(t)}

C == INSTANCE Custody WITH
       PlayerOf <- [t \in Token |-> t.xuid],
       owner    <- [x \in Players |-> db[x].owner],
       saved    <- [x \in Players |-> db[x].inv],
       acting   <- Acting

KeepsCustody == C!Spec

----------------------------------------------------------------------------
(* The inductive invariant of KeepsCustody and ExclusivePlay.              *)

Known(t) == t.n <= issued[t.home][t.xuid]

Live(t) == t.xuid \in online[t.home] /\ Current(t)

(* Does this job end with a release of token t?                            *)
Releasing(job, t) ==
  \/ job.kind \in {"persist", "recover"} /\ job.release /\ job.token = t
  \/ job.kind \in {"batch", "recover"} /\ \E e \in job.todo : e.token = t

SessionsAreLocal ==
  \A s \in Servers, x \in Players :
    /\ sess[s][x] # None =>
         /\ sess[s][x].home = s /\ sess[s][x].xuid = x
         /\ Known(sess[s][x])
    /\ x \in online[s] => sess[s][x] # None

(* Players are connected only between a recovered start and shutdown.      *)
OnlineWhileEnabled ==
  \A s \in Servers :
    online[s] # {} => phase[s] \in {"serving", "halting", "disabling"}

JournalIsKnown == \A t \in Token : journal[t] # None => Known(t)

(* A job of server s is for one of its sessions, and it releases none that *)
(* still has a player.                                                     *)
JobIsSafe(s, job) ==
  /\ job.kind \in {"load", "persist", "recover"} =>
       job.token.home = s /\ Known(job.token)
  /\ \A t \in Token :
       Releasing(job, t) => t.home = s /\ Known(t) /\ ~Live(t)

QueuesAreSafe ==
  \A s \in Servers : \A i \in 1 .. Len(queue[s]) : JobIsSafe(s, queue[s][i])

TasksAreKnown ==
  \A s \in Servers : \A k \in tasks[s] :
    k.token.home = s /\ Known(k.token)

(* A restore is scheduled only by a claim, and a claim stands until its    *)
(* session is over.                                                        *)
RestoreOwns ==
  \A s \in Servers : \A k \in tasks[s] :
    k.kind = "apply" /\ Live(k.token) => db[k.token.xuid].owner = k.token

PlayersOwn ==
  \A s \in Servers, x \in Players :
    Playing(s, x) => db[x].owner = sess[s][x]

CustodyInv ==
  /\ SessionsAreLocal /\ OnlineWhileEnabled /\ JournalIsKnown
  /\ QueuesAreSafe /\ TasksAreKnown
  /\ RestoreOwns /\ PlayersOwn

----------------------------------------------------------------------------
(* The inductive invariant of OwnedRowRecoverable and ReleaseIsCurrent,    *)
(* given CustodyInv.                                                       *)

(* The sessions a job releases, with the data it saves.                    *)
Released(job) ==
  (IF job.kind \in {"persist", "recover"} /\ job.release
   THEN {[token |-> job.token, snap |-> job.snap]} ELSE {})
  \cup (IF job.kind \in {"batch", "recover"} THEN job.todo ELSE {})

(* Nothing is captured of t any more.                                      *)
Over(t) == ~Current(t) \/ phase[t.home] = "flushing"

(* What a job releases is over, and the job carries its last payload; what *)
(* it saves otherwise is of a session that was ready.                      *)
Settled(job) ==
  /\ \A e \in Released(job) :
       Over(e.token) /\ journal[e.token] \in {None, e.snap}
  /\ job.kind = "persist" /\ ~job.release =>
       job.token \in ready[job.token.home] \/ Over(job.token)

QueuesAreSettled ==
  \A s \in Servers : \A i \in 1 .. Len(queue[s]) : Settled(queue[s][i])

OwnersAreLocal == \A x \in Players : db[x].owner # None => db[x].owner.xuid = x

(* A server starts without jobs, and recovers without sessions.            *)
BootStartsEmpty ==
  \A s \in Servers :
    /\ phase[s] = "down" => queue[s] = << >>
    /\ phase[s] \in {"down", "booting"} => \A x \in Players : sess[s][x] = None

(* A session has its journal row until nothing is captured of it any more. *)
CurrentIsJournaled == \A t \in Token : journal[t] = None => Over(t)

ReadyIsKnown == \A s \in Servers : \A t \in ready[s] : t.home = s /\ Known(t)

ReadyOwns ==
  \A s \in Servers : \A t \in ready[s] : db[t.xuid].owner = t \/ Over(t)

(* How far the worker is with the job at the head of its queue.            *)
Stands(s, job) ==
  /\ pc[s] # "idle" => queue[s] # << >>
  /\ pc[s] = "claim" => job.kind = "load" /\ journal[job.token] # None
  /\ pc[s] \in {"save", "remove"} => job.kind \in {"persist", "recover"}
  /\ pc[s] = "save" => ~job.snap.failed
  /\ pc[s] = "remove" =>
       db[job.token.xuid].owner # job.token /\ Over(job.token)

WorkerStands == \A s \in Servers : Stands(s, Head(queue[s]))

LockInv ==
  /\ OwnersAreLocal /\ BootStartsEmpty /\ CurrentIsJournaled
  /\ QueuesAreSettled /\ ReadyIsKnown /\ ReadyOwns /\ WorkerStands
  /\ OwnedRowRecoverable

----------------------------------------------------------------------------
(* The inductive invariant of RestoreIsCurrent, given the other two.       *)

(* A login waits in one place at a time: with one job, for one callback,   *)
(* or no longer.                                                           *)
LoadsIn(q, t) == {i \in 1 .. Len(q) : q[i].kind = "load" /\ q[i].token = t}

Loads(s, t) == LoadsIn(queue[s], t)

Waits(s, t) == {k \in tasks[s] : k.kind \in {"apply", "retry"} /\ k.token = t}

OneWait ==
  \A s \in Servers, t \in Token :
    /\ \A i, j \in Loads(s, t) : i = j
    /\ \A k, l \in Waits(s, t) : k = l
    /\ Loads(s, t) = {} \/ Waits(s, t) = {}
    /\ t \in ready[s] => Loads(s, t) = {} /\ Waits(s, t) = {}

WaitInv == OneWait /\ RestoreIsCurrent

----------------------------------------------------------------------------
(* The inductive invariant of NoRollback, given the other three.           *)

(* The snapshots in q that save t without releasing it.                    *)
SavesIn(q, t) ==
  {i \in 1 .. Len(q) : q[i].kind = "persist" /\ q[i].token = t /\ ~q[i].release}

(* What is saved of t, queued for it, last in its journal and carried by   *)
(* its player are later and later inventories.                             *)
InOrder(t) ==
  LET q    == queue[t.home]
      inv  == db[t.xuid].inv
      last == journal[t].stamp
      now  == world[t.home][t.xuid]
  IN  /\ \A i, j \in SavesIn(q, t) : i <= j =>
           /\ inv <= q[i].snap.stamp
           /\ q[i].snap.stamp <= q[j].snap.stamp /\ q[j].snap.stamp <= last
      /\ last = 0 \/ inv <= last
      /\ last <= clock[t.xuid]
      /\ t \in ready[t.home] /\ Current(t) => inv <= now /\ last <= now

OwnersInOrder == \A t \in Token : db[t.xuid].owner = t => InOrder(t)

(* Nothing was captured of a session that still waits.                     *)
WaitsUnseen ==
  \A s \in Servers, t \in Token : Loads(s, t) # {} \/ Waits(s, t) # {} =>
    /\ SavesIn(queue[s], t) = {}
    /\ journal[t] # None => journal[t].stamp = 0

ClockAhead ==
  \A x \in Players : /\ db[x].inv <= clock[x]
                     /\ \A s \in Servers : world[s][x] <= clock[x]

StampInv == OwnersInOrder /\ WaitsUnseen /\ ClockAhead

----------------------------------------------------------------------------
(* The inductive invariant of ReleaseIsFinal and SeenBackpackHold, given   *)
(* the other four.                                                         *)

(* A session whose end was seen was drawn, and waits for no restore.       *)
LeftIsPast ==
  \A t \in Token : left[t] # 0 =>
    /\ Known(t)
    /\ \A s \in Servers : Loads(s, t) = {} /\ Waits(s, t) = {}

(* If it is still in _sessions, its server is stopping or about to stop,   *)
(* and its player carries what he did.                                     *)
LeftStandsStill ==
  \A t \in Token : left[t] # 0 /\ Current(t) =>
    /\ phase[t.home] \in {"halting", "disabling", "aborting", "flushing"}
    /\ world[t.home][t.xuid] = left[t]

(* Its journal row, unless it is marked, holds what the player carried     *)
(* and, while the session owns the row, a barrier for whatever is pending. *)
LeftIsCaptured ==
  \A t \in Token : left[t] # 0 /\ journal[t] # None /\ ~journal[t].failed =>
    /\ journal[t].stamp = left[t]
    /\ db[t.xuid].owner = t => packs[t.home][t.xuid] \subseteq journal[t].packs

(* The barriers of a release that passed their check do not come back.     *)
CheckHolds(s, job) ==
  pc[s] = "save" /\ job.release /\ db[job.token.xuid].owner = job.token =>
    job.snap.packs \cap packs[s][job.token.xuid] = {}

ChecksHold == \A s \in Servers : CheckHolds(s, Head(queue[s]))

FinalInv == LeftIsPast /\ LeftStandsStill /\ LeftIsCaptured /\ ChecksHold
=============================================================================
