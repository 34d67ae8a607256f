------------------------------ MODULE Custody ------------------------------
(***************************************************************************)
(* What the plugin promises about a player's shared inventory, whatever    *)
(* the servers, their queues, journals and crashes look like inside: it is *)
(* in the custody of at most one session, only that session may write it   *)
(* and only that session's player may act, and custody passes from one     *)
(* session to another only after it was given back by a session that acts  *)
(* no more.                                                                *)
(***************************************************************************)
CONSTANTS
  Token,         \* sessions
  Players,
  Stamp,         \* versions of an inventory
  PlayerOf,      \* PlayerOf[t]: the player of session t
  None

VARIABLES
  owner,   \* owner[x]: the session that has x's inventory, or None
  saved,   \* saved[x]: the version kept for x
  acting   \* sessions whose player can act

vars == <<owner, saved, acting>>

TypeOK == /\ owner \in [Players -> Token \cup {None}]
          /\ saved \in [Players -> Stamp]
          /\ acting \subseteq Token

Init == /\ owner = [x \in Players |-> None]
        /\ saved \in [Players -> Stamp]
        /\ acting = {}

Take(t) == /\ owner[PlayerOf[t]] = None
           /\ owner' = [owner EXCEPT ![PlayerOf[t]] = t]
           /\ UNCHANGED <<saved, acting>>

Start(t) == /\ owner[PlayerOf[t]] = t
            /\ acting' = acting \cup {t}
            /\ UNCHANGED <<owner, saved>>

(* Any number of players stop at once: a crash, a shutdown.                *)
Stop == /\ acting' \in SUBSET acting
        /\ UNCHANGED <<owner, saved>>

Write(t, v) == /\ owner[PlayerOf[t]] = t
               /\ saved' = [saved EXCEPT ![PlayerOf[t]] = v]
               /\ UNCHANGED <<owner, acting>>

GiveBack(t, v) == /\ owner[PlayerOf[t]] = t /\ t \notin acting
                  /\ saved' = [saved EXCEPT ![PlayerOf[t]] = v]
                  /\ owner' = [owner EXCEPT ![PlayerOf[t]] = None]
                  /\ UNCHANGED acting

Next == \/ Stop
        \/ \E t \in Token : \/ Take(t) \/ Start(t)
                            \/ \E v \in Stamp : Write(t, v) \/ GiveBack(t, v)

Spec == Init /\ [][Next]_vars

(* Only the session in custody acts: two sessions of one player never do.  *)
OnlyOwnerActs == \A t \in acting : owner[PlayerOf[t]] = t
=============================================================================
