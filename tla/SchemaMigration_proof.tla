----------------------- MODULE SchemaMigration_proof -----------------------
(***************************************************************************)
(* The safety of _ensure_schema for any number of servers and columns.     *)
(***************************************************************************)
EXTENDS SchemaMigration, TLAPS

(* The types are preserved by every step.                                  *)
LEMMA TypeStep == TypeOK /\ [Next]_vars => TypeOK'
<1> SUFFICES ASSUME TypeOK, [Next]_vars PROVE TypeOK'
  OBVIOUS
<1> USE SchemaAssumption DEF TypeOK, table, Goto
<1>1. ASSUME NEW s \in Servers, Start(s) PROVE TypeOK'
  BY <1>1 DEF Start, Working
<1>2. ASSUME NEW s \in Servers, Create(s) PROVE TypeOK'
  BY <1>2 DEF Create, Working
<1>3. ASSUME NEW s \in Servers, ReadColumns(s) PROVE TypeOK'
  BY <1>3 DEF ReadColumns, Working
<1>4. ASSUME NEW s \in Servers, AddColumn(s) PROVE TypeOK'
  <2> PICK c \in NextOf(Missing(s)) : Add(s, c)
    BY <1>4 DEF AddColumn
  <2>1. c \in Columns
    BY DEF NextOf, Missing
  <2>2. CASE c \in cols
    BY <1>4, <2>2 DEF AddColumn, Add
  <2>3. CASE c \notin cols
    BY <1>4, <2>1, <2>3 DEF AddColumn, Add
  <2> QED BY <2>2, <2>3
<1>5. ASSUME NEW s \in Servers, CheckType(s) PROVE TypeOK'
  BY <1>5 DEF CheckType, Working
<1>6. ASSUME NEW s \in Servers, Normalise(s) PROVE TypeOK'
  BY <1>6 DEF Normalise, Working
<1>7. ASSUME NEW s \in Servers, Commit(s) PROVE TypeOK'
  BY <1>7 DEF Commit, Working, Normal, Texts
<1>8. ASSUME NEW s \in Servers, Modify(s) PROVE TypeOK'
  BY <1>8 DEF Modify, Working
<1>9. ASSUME NEW s \in Servers, CheckEngine(s) PROVE TypeOK'
  BY <1>9 DEF CheckEngine, Working
<1>10. ASSUME NEW s \in Servers, Break(s) PROVE TypeOK'
  BY <1>10 DEF Break, Working, Normal, Texts
<1>11. ASSUME NEW s \in Servers, Log(s) PROVE TypeOK'
  BY <1>11 DEF Log, Texts, Means
<1>12. CASE UNCHANGED vars
  BY <1>12 DEF vars
<1> QED
  BY <1>1, <1>2, <1>3, <1>4, <1>5, <1>6, <1>7, <1>8, <1>9, <1>10, <1>11, <1>12
  DEF Next, Migrate

(* Steps that leave the columns alone and refuse nobody.                   *)
Plain ==
  /\ UNCHANGED <<cols, engine, adder>>
  /\ incidents' = 0 => incidents = 0
  /\ incidents' = 0 /\ engine = "innodb" =>
       \A s \in Servers : phase'[s] = "failed" => phase[s] = "failed"

(* In such a step the last adder keeps standing.                           *)
LEMMA PlainStands == LastAdderStands /\ TypeOK /\ Plain => LastAdderStands'
<1> SUFFICES ASSUME LastAdderStands, TypeOK, Plain, incidents' = 0, engine' = "innodb"
             PROVE  \/ (\A c \in Columns : adder'[c] = None)
                       /\ (\A s \in Servers : phase'[s] # "failed")
                    \/ \E c \in Columns : Last(c)' /\ phase'[adder'[c]] # "failed"
  BY SchemaAssumption DEF LastAdderStands, Columns
<1>1. CASE (\A c \in Columns : adder[c] = None) /\ (\A s \in Servers : phase[s] # "failed")
  BY <1>1 DEF Plain
<1>2. CASE \E c \in Columns : Last(c) /\ phase[adder[c]] # "failed"
  <2> PICK c \in Columns : Last(c) /\ phase[adder[c]] # "failed"
    BY <1>2
  <2>1. Last(c)' /\ adder'[c] = adder[c] /\ adder[c] \in Servers
    BY DEF Last, Plain, TypeOK
  <2> QED BY <2>1 DEF Plain
<1> QED BY <1>1, <1>2 DEF LastAdderStands, Plain

(* The invariant holds at first.                                           *)
LEMMA SchemaInit == Init => TypeOK /\ SchemaInv
<1> SUFFICES ASSUME Init PROVE TypeOK /\ SchemaInv
  OBVIOUS
<1> USE SchemaAssumption DEF Init
<1>1. TypeOK
  BY DEF TypeOK, Means
<1>2. ProgressIsEarned
  BY DEF ProgressIsEarned
<1>3. FlagKept /\ (~exists => cols = {})
  BY DEF FlagKept
<1>4. AddedInOrder /\ MissingIsNews /\ LastAdderStands
  BY DEF AddedInOrder, MissingIsNews, LastAdderStands
<1> QED BY <1>1, <1>2, <1>3, <1>4 DEF SchemaInv

(* A new column is the first that is missing: all before it are there, the *)
(* server that adds it becomes the last adder, and one that finds it there *)
(* is not the last adder.                                                  *)
LEMMA AddColumnInv ==
  ASSUME TypeOK, SchemaInv, NEW s \in Servers, AddColumn(s)
  PROVE  SchemaInv'
<1> USE SchemaAssumption DEF TypeOK, SchemaInv
<1> PICK c \in NextOf(Missing(s)) : Add(s, c)
  BY DEF AddColumn
<1>1. /\ c \in Columns /\ c \notin seen[s] /\ phase[s] = "add" /\ exists
      /\ \A d \in Columns : d < c => d \in seen[s] /\ d \in cols
  BY DEF NextOf, Missing, AddColumn, ProgressIsEarned, Columns
<1>2. UNCHANGED <<exists, type, engine, flag, incidents, logged>>
  BY DEF AddColumn
<1>3. CASE c \in cols
  <2>1. phase' = [phase EXCEPT ![s] = "failed"] /\ UNCHANGED <<cols, adder, seen>>
    BY <1>3 DEF Add, Goto
  <2>2. ProgressIsEarned' /\ AddedInOrder' /\ FlagKept' /\ (~exists => cols = {})'
    BY <1>2, <2>1 DEF ProgressIsEarned, AddedInOrder, FlagKept
  <2>3. MissingIsNews'
    BY <1>2, <2>1 DEF MissingIsNews, Missing
  <2>4. LastAdderStands'
    <3> SUFFICES ASSUME incidents = 0, engine = "innodb"
                 PROVE  \E d \in Columns : Last(d)' /\ phase'[adder'[d]] # "failed"
      BY <1>2 DEF LastAdderStands
    <3>1. adder[c] # None
      BY <1>1, <1>3 DEF MissingIsNews
    <3> PICK d \in Columns : Last(d) /\ phase[adder[d]] # "failed"
      BY <1>1, <3>1 DEF LastAdderStands
    <3>2. ~(c > d) /\ d \in Nat /\ c \in Nat
      BY <1>1, <3>1 DEF Last, Columns
    <3>3. adder[d] # s
      BY <1>1, <3>2 DEF MissingIsNews, Missing
    <3>4. Last(d)' /\ phase'[adder'[d]] # "failed"
      BY <2>1, <3>3 DEF Last
    <3> QED BY <3>4
  <2> QED BY <2>2, <2>3, <2>4
<1>4. CASE c \notin cols
  <2>1. /\ cols' = cols \cup {c} /\ adder' = [adder EXCEPT ![c] = s]
        /\ seen' = [seen EXCEPT ![s] = @ \cup {c}] /\ UNCHANGED phase
    BY <1>4 DEF Add
  <2>2. ProgressIsEarned'
    BY <1>1, <1>2, <2>1 DEF ProgressIsEarned
  <2>3. FlagKept' /\ (~exists => cols = {})'
    BY <1>1, <1>2, <2>1 DEF FlagKept
  <2>4. AddedInOrder'
    BY <1>1, <2>1 DEF AddedInOrder
  <2>5. \A e \in Columns : adder[e] # None => e < c
    BY <1>1, <1>4 DEF AddedInOrder, Columns
  <2>6. MissingIsNews'
    <3> SUFFICES ASSUME NEW r \in Servers, phase[r] = "add"
                 PROVE  /\ \A d \in cols' \ seen'[r] : adder'[d] # None
                        /\ \A e \in Columns : adder'[e] = r =>
                             \A d \in Missing(r)' : e < d
      BY <2>1 DEF MissingIsNews
    <3>1. \A d \in cols' \ seen'[r] : adder'[d] # None
      <4>1. adder'[c] # None
        BY <1>1, <2>1
      <4>2. \A d \in cols \ seen'[r] : d # c => d \in cols \ seen[r]
        BY <2>1
      <4> QED BY <2>1, <4>1, <4>2 DEF MissingIsNews
    <3>2. ASSUME NEW e \in Columns, adder'[e] = r, NEW d \in Columns \ seen'[r]
          PROVE  e < d
      <4>1. CASE e = c
        <5>1. r = s /\ d \in Missing(s) /\ d # c
          BY <1>1, <2>1, <3>2, <4>1 DEF Missing
        <5> QED BY <1>1, <4>1, <5>1 DEF NextOf, Missing, Columns
      <4>2. CASE e # c
        BY <2>1, <3>2, <4>2 DEF MissingIsNews, Missing
      <4> QED BY <4>1, <4>2
    <3> QED BY <3>1, <3>2 DEF Missing
  <2>7. LastAdderStands'
    <3>1. Last(c)' /\ adder'[c] = s
      <4>1. \A d \in Columns : d > c => adder'[d] = None
        BY <1>1, <2>1, <2>5 DEF Columns
      <4> QED BY <1>1, <2>1, <4>1 DEF Last
    <3> QED BY <1>1, <2>1, <3>1 DEF LastAdderStands
  <2> QED BY <2>2, <2>3, <2>4, <2>6, <2>7
<1> QED BY <1>3, <1>4

(* Every step preserves the invariant.                                     *)
LEMMA SchemaStep == TypeOK /\ SchemaInv /\ [Next]_vars => SchemaInv'
<1> SUFFICES ASSUME TypeOK, SchemaInv, [Next]_vars PROVE SchemaInv'
  OBVIOUS
<1> USE SchemaAssumption DEF TypeOK, SchemaInv, table, Goto
<1>1. ASSUME NEW s \in Servers, Start(s) PROVE SchemaInv'
  <2>1. ProgressIsEarned' /\ AddedInOrder' /\ MissingIsNews' /\ FlagKept'
    BY <1>1 DEF Start, ProgressIsEarned, AddedInOrder, MissingIsNews, Missing, FlagKept
  <2>2. LastAdderStands'
    BY <1>1, PlainStands DEF Start, Plain
  <2> QED BY <1>1, <2>1, <2>2 DEF Start
<1>2. ASSUME NEW s \in Servers, Create(s) PROVE SchemaInv'
  <2>1. ProgressIsEarned' /\ FlagKept' /\ (~exists => cols = {})'
    BY <1>2 DEF Create, ProgressIsEarned, FlagKept
  <2>2. AddedInOrder'
    BY <1>2 DEF Create, AddedInOrder
  <2>3. MissingIsNews'
    BY <1>2 DEF Create, MissingIsNews, Missing, ProgressIsEarned
  <2>4. LastAdderStands'
    BY <1>2 DEF Create, LastAdderStands, Last
  <2> QED BY <2>1, <2>2, <2>3, <2>4
<1>3. ASSUME NEW s \in Servers, ReadColumns(s) PROVE SchemaInv'
  <2>1. ProgressIsEarned' /\ AddedInOrder' /\ FlagKept'
    BY <1>3 DEF ReadColumns, ProgressIsEarned, AddedInOrder, FlagKept
  <2>2. MissingIsNews'
    <3> SUFFICES ASSUME NEW r \in Servers, phase'[r] = "add"
                 PROVE  /\ \A c \in cols \ seen'[r] : adder[c] # None
                        /\ \A c \in Columns : adder[c] = r =>
                             \A d \in Missing(r)' : c < d
      BY <1>3 DEF ReadColumns, MissingIsNews
    <3>1. CASE r = s
      <4>1. seen'[r] = cols
        BY <1>3, <3>1 DEF ReadColumns
      <4>2. ASSUME NEW c \in Columns, adder[c] = r, NEW d \in Columns \ cols PROVE c < d
        BY <4>2 DEF AddedInOrder, Columns
      <4> QED BY <4>1, <4>2 DEF Missing
    <3>2. CASE r # s
      BY <1>3, <3>2 DEF ReadColumns, MissingIsNews, Missing
    <3> QED BY <3>1, <3>2
  <2>3. LastAdderStands'
    BY <1>3, PlainStands DEF ReadColumns, Plain
  <2> QED BY <1>3, <2>1, <2>2, <2>3 DEF ReadColumns
<1>4. ASSUME NEW s \in Servers, AddColumn(s) PROVE SchemaInv'
  BY <1>4, AddColumnInv
<1>5. ASSUME NEW s \in Servers, CheckType(s) PROVE SchemaInv'
  <2>1. ProgressIsEarned' /\ AddedInOrder' /\ MissingIsNews' /\ FlagKept'
    BY <1>5 DEF CheckType, ProgressIsEarned, AddedInOrder, MissingIsNews, Missing, FlagKept
  <2>2. LastAdderStands'
    BY <1>5, PlainStands DEF CheckType, Plain
  <2> QED BY <1>5, <2>1, <2>2 DEF CheckType
<1>6. ASSUME NEW s \in Servers, Normalise(s) PROVE SchemaInv'
  <2>1. ProgressIsEarned' /\ AddedInOrder' /\ MissingIsNews' /\ FlagKept'
    BY <1>6 DEF Normalise, ProgressIsEarned, AddedInOrder, MissingIsNews, Missing, FlagKept
  <2>2. LastAdderStands'
    BY <1>6, PlainStands DEF Normalise, Plain
  <2> QED BY <1>6, <2>1, <2>2 DEF Normalise
<1>7. ASSUME NEW s \in Servers, Commit(s) PROVE SchemaInv'
  <2>1. AddedInOrder' /\ MissingIsNews'
    BY <1>7 DEF Commit, AddedInOrder, MissingIsNews, Missing
  <2>2. ProgressIsEarned'
    BY <1>7 DEF Commit, ProgressIsEarned, Normal
  <2>3. FlagKept'
    BY <1>7 DEF Commit, FlagKept, Normal, Means, Texts
  <2>4. LastAdderStands'
    BY <1>7, PlainStands DEF Commit, Plain
  <2> QED BY <1>7, <2>1, <2>2, <2>3, <2>4 DEF Commit
<1>8. ASSUME NEW s \in Servers, Modify(s) PROVE SchemaInv'
  <2>1. type' = "tinyint" /\ phase' = [phase EXCEPT ![s] = "engine"]
    BY <1>8 DEF Modify, ProgressIsEarned
  <2>2. ProgressIsEarned' /\ AddedInOrder' /\ MissingIsNews' /\ FlagKept'
    BY <1>8, <2>1 DEF Modify, ProgressIsEarned, AddedInOrder, MissingIsNews, Missing, FlagKept
  <2>3. LastAdderStands'
    BY <1>8, <2>1, PlainStands DEF Modify, Plain
  <2> QED BY <1>8, <2>2, <2>3 DEF Modify
<1>9. ASSUME NEW s \in Servers, CheckEngine(s) PROVE SchemaInv'
  <2>1. ProgressIsEarned' /\ AddedInOrder' /\ MissingIsNews' /\ FlagKept'
    BY <1>9 DEF CheckEngine, ProgressIsEarned, AddedInOrder, MissingIsNews, Missing, FlagKept
  <2>2. LastAdderStands'
    BY <1>9, PlainStands DEF CheckEngine, Plain
  <2> QED BY <1>9, <2>1, <2>2 DEF CheckEngine
<1>10. ASSUME NEW s \in Servers, Break(s) PROVE SchemaInv'
  <2>1. AddedInOrder' /\ MissingIsNews'
    BY <1>10 DEF Break, AddedInOrder, MissingIsNews, Missing
  <2>2. ProgressIsEarned'
    BY <1>10 DEF Break, ProgressIsEarned, Normal
  <2>3. FlagKept'
    BY <1>10 DEF Break, FlagKept, Normal, Means, Texts
  <2>4. LastAdderStands'
    BY <1>10 DEF Break, LastAdderStands
  <2> QED BY <1>10, <2>1, <2>2, <2>3, <2>4 DEF Break
<1>11. ASSUME NEW s \in Servers, Log(s) PROVE SchemaInv'
  <2>1. ProgressIsEarned' /\ AddedInOrder' /\ MissingIsNews' /\ FlagKept'
    BY <1>11 DEF Log, ProgressIsEarned, AddedInOrder, MissingIsNews, Missing, FlagKept
  <2>2. LastAdderStands'
    BY <1>11, PlainStands DEF Log, Plain
  <2> QED BY <1>11, <2>1, <2>2 DEF Log
<1>12. CASE UNCHANGED vars
  BY <1>12 DEF vars, ProgressIsEarned, AddedInOrder, MissingIsNews, Missing,
               LastAdderStands, Last, FlagKept
<1> QED
  BY <1>1, <1>2, <1>3, <1>4, <1>5, <1>6, <1>7, <1>8, <1>9, <1>10, <1>11, <1>12
  DEF Next, Migrate

(* The types and the invariant hold in every reachable state.              *)
THEOREM SchemaInvariant == Spec => [](TypeOK /\ SchemaInv)
<1>1. TypeOK /\ SchemaInv /\ [Next]_vars => (TypeOK /\ SchemaInv)'
  BY TypeStep, SchemaStep
<1> QED BY <1>1, SchemaInit, PTL DEF Spec

(* Type correctness of the migration: a server knows columns of the schema *)
(* only, and never adds one beyond the last.                               *)
THEOREM TypeCorrect == Spec => []TypeOK
<1> QED BY SchemaInvariant, PTL

(* A server that accepts logins has the whole schema, for any number of    *)
(* servers and columns.                                                    *)
THEOREM Ready == Spec => []ReadyComplete
<1>1. TypeOK /\ SchemaInv => ReadyComplete
  BY SchemaAssumption DEF TypeOK, SchemaInv, ProgressIsEarned, ReadyComplete
<1> QED BY <1>1, SchemaInvariant, PTL

(* No interruption or repetition of the conversion changes what the flag   *)
(* means.                                                                  *)
THEOREM FlagMeaning == Spec => []FlagKept
<1>1. SchemaInv => FlagKept
  BY DEF SchemaInv
<1> QED BY <1>1, SchemaInvariant, PTL

(* However many servers start at once, one of them is not refused over a   *)
(* duplicate column.                                                       *)
THEOREM NeverAllRefused == Spec => []NotAllRefused
<1>1. TypeOK /\ SchemaInv => NotAllRefused
  BY SchemaAssumption DEF TypeOK, SchemaInv, LastAdderStands, NotAllRefused, Last
<1> QED BY <1>1, SchemaInvariant, PTL
=============================================================================
