--------------------------- MODULE OptionalFields ---------------------------
(***************************************************************************)
(* XP, money, tags and locations of one player.                            *)
(*                                                                         *)
(* A session restores each of them after the items.  If one fails, play    *)
(* goes on with whatever the local world has, and the saved value is       *)
(* protected: `_preserved_fields` names it in every later snapshot, also   *)
(* in one that is replayed when the memory of the session is gone.         *)
(* InventoryShare shows that one session at a time holds the row; this     *)
(* module follows the sessions one after the other.                        *)
(***************************************************************************)
EXTENDS Naturals, Sequences

CONSTANTS
  Servers,        \* by server_name, under which each keeps a location
  MaxStamp,       \* bound: versions of what the player has
  MaxIncidents,   \* bound: failures in one behaviour
  None

ASSUME FieldsAssumption ==
  MaxStamp \in Nat \ {0} /\ MaxIncidents \in Nat /\ None \notin Servers \cup Nat

Fields == {"xp", "money", "tags"}

(* A value is the version of the player it belongs to; 0 is the column's   *)
(* default: level 0, no money, NULL for tags and for a location.           *)
Stamp == 0 .. MaxStamp

VARIABLES
  row,        \* row[f]: the saved columns of field f
  places,     \* places[s]: player_locations, one per server name
  at,         \* the server whose session holds the row, or None
  stage,      \* how far that session is
  local,      \* local[s][f]: what the player has in the world of s
  spot,       \* spot[s]: where the player stands in the world of s
  preserved,  \* _preserved_fields of the session
  journal,    \* its journal payload, or None for the login marker
  queue,      \* its snapshots that wait for the worker
  clock,      \* the latest version of the player anywhere
  incidents,  \* failures so far
  failed,     \* history: the fields this session could not restore
  left,       \* history: left[f] is what the quit must save, None: nothing
  stood       \* history: stood[s] is where the last session of s was seen to
              \* end, 0 if that was not seen

store  == <<row, places, at>>
player == <<local, spot, clock>>
memory == <<preserved, queue>>
vars == <<store, stage, player, memory, journal, incidents, failed, left, stood>>

Payload == [value : [Fields -> Stamp \cup {None}], preserve : SUBSET Fields,
            spot : Stamp]

Job == [data : Payload \cup {None}, release : BOOLEAN]

ASSUME PayloadAssumption == None \notin Payload

TypeOK ==
  /\ row \in [Fields -> Stamp] /\ places \in [Servers -> Stamp]
  /\ at \in Servers \cup {None}
  /\ stage \in {"free", "claimed", "ready", "ended"}
  /\ local \in [Servers -> [Fields -> Stamp]] /\ spot \in [Servers -> Stamp]
  /\ preserved \subseteq Fields
  /\ journal \in Payload \cup {None}
  /\ queue \in Seq(Job)
  /\ clock \in Stamp /\ incidents \in 0 .. MaxIncidents
  /\ failed \subseteq Fields
  /\ left \in [Fields -> Stamp \cup {None}] /\ stood \in [Servers -> Stamp]

Nothing == [f \in Fields |-> None]

Init ==
  /\ row = [f \in Fields |-> 0] /\ places = [s \in Servers |-> 0]
  /\ at = None /\ stage = "free"
  /\ local = [s \in Servers |-> [f \in Fields |-> 1]]
  /\ spot = [s \in Servers |-> 1]
  /\ preserved = {} /\ journal = None /\ queue = << >>
  /\ clock = 1 /\ incidents = 0
  /\ failed = {} /\ left = Nothing /\ stood = [s \in Servers |-> 0]

Incident == incidents < MaxIncidents /\ incidents' = incidents + 1

----------------------------------------------------------------------------

(* A snapshot that protects nothing.                                       *)
UnprotectedCapture(noMoney) ==
  [value |-> [local[at] EXCEPT !["money"] = IF noMoney THEN None ELSE @],
   preserve |-> {}, spot |-> spot[at]]

(* _extract_player_data and _queue_snapshot.  Money is missing if there is *)
(* no objective or no score; preserved tags are captured as none at all.   *)
Capture(noMoney) ==
  [value |-> [f \in Fields |->
                IF f \in preserved
                THEN IF f = "tags" THEN 0 ELSE None
                ELSE IF f = "money" /\ noMoney THEN None ELSE local[at][f]],
   preserve |-> preserved, spot |-> spot[at]]

(* An UPDATE that writes every column.                                     *)
WrittenOver(data) ==
  [f \in Fields |-> IF data.value[f] = None THEN 0 ELSE data.value[f]]

(* An UPDATE that sets a column without a value to NULL.                    *)
WrittenRaw(data) == data.value

(* InventoryStore.save: COALESCE keeps a column whose value is NULL.       *)
Written(data) ==
  [f \in Fields |-> IF f \in data.preserve \/ data.value[f] = None
                    THEN row[f] ELSE data.value[f]]

(* Only the location of one server.                                        *)
PlacesOverwritten(data) == [s \in Servers |-> IF s = at THEN data.spot ELSE 0]

(* The other servers' locations are read in the same transaction.          *)
PlacesMerged(data) == [places EXCEPT ![at] = data.spot]

Update(data) ==
  IF data = None THEN UNCHANGED <<row, places>>
  ELSE row' = Written(data) /\ places' = PlacesMerged(data)

Release == at' = None /\ stage' = "free"

----------------------------------------------------------------------------

(* InventoryStore.claim, after the marker is in the journal.               *)
Claim(s) ==
  /\ stage = "free"
  /\ at' = s /\ stage' = "claimed"
  /\ journal' = None /\ preserved' = {}
  /\ failed' = {} /\ left' = Nothing
  /\ UNCHANGED <<row, places, player, queue, incidents, stood>>

(* What the world has of field f after its restore: NULL tags leave the    *)
(* player's tags alone, the other columns are never NULL.  XP progress     *)
(* that is at most 0.01 away is left alone too: it counts as the same.     *)
Restored(f) == IF f = "tags" /\ row[f] = 0 THEN local[at][f] ELSE row[f]

(* apply_inventory_sync: the fields of `bad` fail, before or after they    *)
(* were written, and are preserved.  A location that fails is not.         *)
Restore(bad, lost) ==
  /\ stage = "claimed" /\ stage' = "ready"
  /\ IF bad = {} /\ ~lost THEN UNCHANGED incidents ELSE Incident
  /\ preserved' = bad /\ failed' = bad
  /\ \E kept \in SUBSET bad :
       local' = [local EXCEPT ![at] =
                   [f \in Fields |-> IF f \in kept THEN @[f] ELSE Restored(f)]]
  /\ spot' = IF places[at] = 0 \/ lost THEN spot
             ELSE [spot EXCEPT ![at] = places[at]]
  /\ UNCHANGED <<store, clock, journal, queue, left, stood>>

Play ==
  /\ stage = "ready" /\ clock < MaxStamp
  /\ clock' = clock + 1
  /\ local' = [local EXCEPT ![at] = [f \in Fields |-> clock + 1]]
  /\ spot' = [spot EXCEPT ![at] = clock + 1]
  /\ UNCHANGED <<store, stage, memory, journal, incidents, failed, left, stood>>

(* _autosave: the previous snapshot has been dealt with.                   *)
Autosave(noMoney) ==
  /\ stage = "ready" /\ queue = << >>
  /\ IF noMoney THEN Incident ELSE UNCHANGED incidents
  /\ journal' = Capture(noMoney)
  /\ queue' = <<[data |-> Capture(noMoney), release |-> FALSE]>>
  /\ UNCHANGED <<store, stage, player, preserved, failed, left, stood>>

(* A last snapshot that only the queue holds.                              *)
QuitUnjournaled(noMoney) ==
  /\ stage = "ready" /\ stage' = "ended"
  /\ IF noMoney THEN Incident ELSE UNCHANGED incidents
  /\ queue' = Append(queue, [data |-> Capture(noMoney), release |-> TRUE])
  /\ preserved' = {}
  /\ left' = [f \in Fields |-> IF f \in failed \/ (f = "money" /\ noMoney)
                               THEN None ELSE local[at][f]]
  /\ stood' = [stood EXCEPT ![at] = spot[at]]
  /\ UNCHANGED <<store, player, journal, failed>>

(* on_player_quit of a ready session: the last snapshot is taken before    *)
(* the fields are forgotten.                                               *)
Quit(noMoney) ==
  /\ stage = "ready" /\ stage' = "ended"
  /\ IF noMoney THEN Incident ELSE UNCHANGED incidents
  /\ journal' = Capture(noMoney)
  /\ queue' = Append(queue, [data |-> Capture(noMoney), release |-> TRUE])
  /\ preserved' = {}
  /\ left' = [f \in Fields |-> IF f \in failed \/ (f = "money" /\ noMoney)
                               THEN None ELSE local[at][f]]
  /\ stood' = [stood EXCEPT ![at] = spot[at]]
  /\ UNCHANGED <<store, player, failed>>

(* The player leaves before the restore.                                   *)
Abandon ==
  /\ stage = "claimed" /\ stage' = "ended"
  /\ queue' = Append(queue, [data |-> journal, release |-> TRUE])
  /\ UNCHANGED <<store, player, preserved, journal, incidents, failed, left, stood>>

(* _persist_snapshot; a job that fails is dropped, and nothing is saved.   *)
Store ==
  /\ queue # << >> /\ queue' = Tail(queue)
  /\ \/ /\ Update(Head(queue).data)
        /\ IF Head(queue).release THEN Release ELSE UNCHANGED <<at, stage>>
        /\ UNCHANGED incidents
     \/ Incident /\ UNCHANGED <<store, stage>>
  /\ UNCHANGED <<player, preserved, journal, failed, left, stood>>

(* The process dies, or stops with no quit event: memory is gone.          *)
Lose ==
  /\ stage \in {"claimed", "ready", "ended"} /\ Incident
  /\ stage' = "ended" /\ preserved' = {} /\ queue' = << >>
  /\ stood' = IF stage = "ready" THEN [stood EXCEPT ![at] = 0] ELSE stood
  /\ UNCHANGED <<store, player, journal, failed, left>>

(* recover_pending: the journal is replayed with a release.                *)
Replay ==
  /\ stage = "ended" /\ queue = << >>
  /\ \/ Update(journal) /\ Release /\ UNCHANGED incidents
     \/ Incident /\ UNCHANGED <<store, stage>>
  /\ UNCHANGED <<player, memory, journal, failed, left, stood>>

Next ==
  \/ \E s \in Servers : Claim(s)
  \/ \E bad \in SUBSET Fields, lost \in BOOLEAN : Restore(bad, lost)
  \/ Play \/ Abandon \/ Store \/ Lose \/ Replay
  \/ \E noMoney \in BOOLEAN : Autosave(noMoney) \/ Quit(noMoney)

Spec == Init /\ [][Next]_vars

----------------------------------------------------------------------------

(* A field that could not be restored keeps its saved value until the      *)
(* session is over, "through quit and recovery" (README.md:27).            *)
FailedFieldKept ==
  [][\A f \in Fields : row'[f] # row[f] => f \notin failed]_vars

(* No saved field goes back to an earlier version of the player, although  *)
(* failed restores leave older values in the worlds.                       *)
NoOlderField == [][\A f \in Fields : row'[f] >= row[f]]_vars

(* A session whose quit was seen is released with each field as the player *)
(* then had it, unless it was not restored or not captured; a crash or a   *)
(* failed save in between does not bring back an autosave.                 *)
ReleaseCarriesFields ==
  [][at # None /\ at' = None =>
       \A f \in Fields : left[f] # None => row'[f] = left[f]]_vars

(* However often the player was elsewhere since, a server has the location *)
(* at which it saw the player leave.                                       *)
PlaceKept ==
  stage = "free" => \A s \in Servers : stood[s] # 0 => places[s] = stood[s]

----------------------------------------------------------------------------
(* The inductive invariant of these properties.                            *)

(* The payloads that may still be saved.                                   *)
Pending == {queue[i].data : i \in 1 .. Len(queue)} \cup {journal}

Carries(data, f) ==
  data # None /\ f \notin data.preserve /\ data.value[f] # None

(* At most one release waits, as the last job and with the journal's data. *)
QueueShape ==
  /\ stage = "free" <=> at = None
  /\ stage \in {"free", "claimed"} => queue = << >>
  /\ stage = "claimed" => journal = None
  /\ \A i \in 1 .. Len(queue) :
       /\ queue[i].data # None => journal # None
       /\ queue[i].release =>
            i = Len(queue) /\ stage = "ended" /\ queue[i].data = journal

FailedAreProtected ==
  /\ stage = "ready" => preserved = failed
  /\ \A data \in Pending : data # None => failed \subseteq data.preserve

LeftIsJournaled ==
  \A f \in Fields : left[f] # None =>
    /\ stage \in {"ended", "free"}
    /\ stage = "ended" => Carries(journal, f) /\ journal.value[f] = left[f]

StoodIsKnown ==
  \A s \in Servers : stood[s] # 0 =>
    /\ s # at \/ stage = "claimed" => places[s] = stood[s]
    /\ s = at /\ stage = "ended" =>
         IF journal = None THEN places[s] = stood[s]
                           ELSE journal.spot = stood[s]

(* Whatever carries a field is newer than the row and than what is saved   *)
(* before it.                                                              *)
Newer(f) ==
  /\ \A s \in Servers : local[s][f] <= clock
  /\ row[f] <= clock
  /\ stage = "ready" /\ f \notin failed => row[f] <= local[at][f]
  /\ stage # "free" =>
       \A data \in Pending : Carries(data, f) =>
         /\ row[f] <= data.value[f] /\ data.value[f] <= clock
         /\ stage = "ready" => data.value[f] <= local[at][f]
  /\ \A i \in 1 .. Len(queue) : Carries(queue[i].data, f) =>
       /\ Carries(journal, f) => queue[i].data.value[f] <= journal.value[f]
       /\ \A j \in 1 .. Len(queue) : i < j /\ Carries(queue[j].data, f) =>
            queue[i].data.value[f] <= queue[j].data.value[f]

NewerIsLater == \A f \in Fields : Newer(f)

FieldsInv ==
  /\ QueueShape /\ FailedAreProtected /\ LeftIsJournaled
  /\ StoodIsKnown /\ NewerIsLater
=============================================================================
