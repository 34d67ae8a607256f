---------------------------- MODULE SharedStore ----------------------------
(***************************************************************************)
(* The shared database row of a player and the snapshots that are written  *)
(* to it (persistence.py).  The row of `player_data` is reduced to its     *)
(* lock (session_token, is_logged_in) and to one stamp that stands for all *)
(* the saved fields: save() writes them in one UPDATE, so they always      *)
(* carry the same age.  A row that does not exist yet behaves exactly as   *)
(* the empty row: claim() inserts it before it locks it.                   *)
(***************************************************************************)
EXTENDS Naturals, FiniteSets

CONSTANTS
  Servers,      \* game servers sharing the database, one journal file each
  Players,      \* player xuids
  MaxSessions,  \* bound: sessions of one player on one server
  MaxStamp,     \* bound: versions of one player's inventory
  Packs,        \* backpack storage ids the external plugin may have pending
  None          \* SQL NULL / no session / no journal row

(* A session token is a fresh uuid4; the model names it after the server   *)
(* that drew it, its player and a counter, so that it is never drawn twice.*)
Token == [home : Servers, xuid : Players, n : 1 .. MaxSessions]

(* 0 is "no inventory saved"; a larger stamp is a later inventory.         *)
Stamp == 0 .. MaxStamp

(* A journal payload.  `failed` is its capture_failed mark, `packs` its    *)
(* storage barriers.  Stamp 0 is the payload None of a login marker.       *)
Snap == [stamp : Stamp, failed : BOOLEAN, packs : SUBSET Packs]

(* _begin_join without its marker.                                         *)
NoMarker == None

(* The row that _begin_join puts: no payload yet.                          *)
Marker == [stamp |-> 0, failed |-> FALSE, packs |-> {}]

Row == [owner : Token \cup {None}, flag : BOOLEAN, inv : Stamp]

ASSUME StoreAssumption ==
  /\ IsFiniteSet(Servers) /\ IsFiniteSet(Players) /\ IsFiniteSet(Packs)
  /\ MaxSessions \in Nat \ {0} /\ MaxStamp \in Nat \ {0}
  /\ None \notin Token \cup Snap

----------------------------------------------------------------------------
(* A claim that does not look at the owner.                                *)
AnyClaimable(row, t) == TRUE

(* InventoryStore.claim raises SessionBusy unless the row is free or is    *)
(* already this session's; a tokenless legacy flag does not count.         *)
Claimable(row, t) == row.owner \in {None, t}

Claimed(row, t) == [row EXCEPT !.owner = t, !.flag = TRUE]

(* A save without the fence.                                               *)
AnyHolds(row, t) == TRUE

(* InventoryStore.save raises StaleSession unless the row is this          *)
(* session's.                                                              *)
Holds(row, t) == row.owner = t

(* InventoryStore.save, past that check.                                   *)
Saved(row, snap, release) ==
  [owner |-> IF release THEN None ELSE row.owner,
   flag  |-> row.flag /\ ~release,
   inv   |-> IF snap.stamp = 0 THEN row.inv ELSE snap.stamp]

(* A legacy release that takes the row from its owner.                     *)
ForceReleased(row) == [row EXCEPT !.owner = None, !.flag = FALSE]

(* InventoryStore.release_legacy: only a flag without a token is cleared.  *)
LegacyReleased(row) == [row EXCEPT !.flag = row.flag /\ row.owner # None]

(* Half of require_complete_storage.                                       *)
CompleteIfCaptured(snap, pending) == ~snap.failed
CompleteIfNoPacks(snap, pending) == snap.packs \cap pending = {}

(* require_complete_storage, given the storage ids now pending in the      *)
(* backpack plugin's journal.                                              *)
Complete(snap, pending) == ~snap.failed /\ snap.packs \cap pending = {}

(* The last payload put back as it was.                                    *)
Unmarked(snap) == snap

(* _finish_session's `blocked`: the last payload, marked.                  *)
Blocked(snap) == [snap EXCEPT !.failed = TRUE]
============================================================================
