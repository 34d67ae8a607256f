--------------------------- MODULE Custody_proof ---------------------------
(* What Custody itself guarantees. *)
EXTENDS Custody, TLAPS

(* In Custody only the session that has a player's inventory acts, for any *)
(* sessions, players and versions: custody leaves a session by GiveBack    *)
(* alone, and GiveBack waits until the session acts no more.               *)
THEOREM OwnerActs ==
  ASSUME None \notin Token, PlayerOf \in [Token -> Players]
  PROVE  Spec => [](TypeOK /\ OnlyOwnerActs)
<1>1. Init => TypeOK /\ OnlyOwnerActs
  BY DEF Init, TypeOK, OnlyOwnerActs
<1>2. TypeOK /\ OnlyOwnerActs /\ [Next]_vars => (TypeOK /\ OnlyOwnerActs)'
  <2> SUFFICES ASSUME TypeOK, OnlyOwnerActs, [Next]_vars
               PROVE  TypeOK' /\ OnlyOwnerActs'
    OBVIOUS
  <2>1. CASE Stop
    BY <2>1 DEF Stop, TypeOK, OnlyOwnerActs
  <2>2. ASSUME NEW t \in Token, Take(t)
        PROVE  TypeOK' /\ OnlyOwnerActs'
    BY <2>2 DEF Take, TypeOK, OnlyOwnerActs
  <2>3. ASSUME NEW t \in Token, Start(t)
        PROVE  TypeOK' /\ OnlyOwnerActs'
    BY <2>3 DEF Start, TypeOK, OnlyOwnerActs
  <2>4. ASSUME NEW t \in Token, NEW v \in Stamp, Write(t, v)
        PROVE  TypeOK' /\ OnlyOwnerActs'
    BY <2>4 DEF Write, TypeOK, OnlyOwnerActs
  <2>5. ASSUME NEW t \in Token, NEW v \in Stamp, GiveBack(t, v)
        PROVE  TypeOK' /\ OnlyOwnerActs'
    BY <2>5 DEF GiveBack, TypeOK, OnlyOwnerActs
  <2>6. CASE UNCHANGED vars
    BY <2>6 DEF vars, TypeOK, OnlyOwnerActs
  <2> QED BY <2>1, <2>2, <2>3, <2>4, <2>5, <2>6 DEF Next
<1> QED BY <1>1, <1>2, PTL DEF Spec
=============================================================================
