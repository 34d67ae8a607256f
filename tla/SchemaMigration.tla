-------------------------- MODULE SchemaMigration --------------------------
(***************************************************************************)
(* _ensure_schema: every server that starts brings the shared table up to  *)
(* date, one statement after the other, while others do the same or are    *)
(* already serving.  What it finds may be no table, one of an older        *)
(* plugin (columns missing, the login flag as text), or one of             *)
(* create_db.sql.  No lock covers the procedure as a whole.                *)
(***************************************************************************)
EXTENDS Naturals

CONSTANTS
  Servers,
  NCols,         \* the columns are numbered in the order of _REQUIRED_COLUMNS
  FlagCol,       \* is_logged_in
  TokenCol,      \* session_token, which CREATE TABLE does not have
  MaxIncidents,  \* bound: failures and crashes
  None

Columns == 1 .. NCols

ASSUME SchemaAssumption ==
  /\ NCols \in Nat /\ MaxIncidents \in Nat
  /\ FlagCol \in Columns /\ TokenCol \in Columns /\ FlagCol # TokenCol
  /\ None \notin Servers /\ Servers # {}

VARIABLES
  exists,     \* is there a table?
  cols,       \* its columns
  type,       \* the type of is_logged_in
  engine,     \* the table's storage engine
  flag,       \* is_logged_in of a row that an older plugin wrote
  dirty,      \* the server whose UPDATE of that row is not committed, or None
  phase,      \* phase[s]: the next statement of server s
  seen,       \* seen[s]: the columns that s knows of
  incidents,  \* failures so far
  logged,     \* history: what the plugins said last: is the player logged in?
  adder       \* history: adder[c] is the server that added column c, or None

table == <<exists, cols, type, engine, adder>>
vars  == <<table, flag, dirty, phase, seen, incidents, logged>>

Texts == {"true", "false", "1", "0", "null"}
Means(f) == f \in {"true", "1"}

Working == {"create", "read", "add", "normalise", "commit", "modify", "engine"}

TypeOK ==
  /\ exists \in BOOLEAN /\ cols \subseteq Columns
  /\ type \in {"text", "tinyint"} /\ engine \in {"innodb", "myisam"}
  /\ flag \in Texts /\ dirty \in Servers \cup {None}
  /\ phase \in [Servers -> Working \cup {"down", "failed", "ready"}]
  /\ seen \in [Servers -> SUBSET Columns]
  /\ incidents \in 0 .. MaxIncidents /\ logged \in BOOLEAN
  /\ adder \in [Columns -> Servers \cup {None}]

Init ==
  /\ exists \in BOOLEAN /\ cols \in SUBSET Columns
  /\ type \in {"text", "tinyint"} /\ engine \in {"innodb", "myisam"}
  /\ flag \in Texts
  /\ exists => (FlagCol \notin cols => type = "tinyint" /\ flag = "0")
  /\ ~exists => cols = {} /\ type = "tinyint" /\ engine = "innodb" /\ flag = "0"
  /\ type = "tinyint" => flag \in {"1", "0"}
  /\ dirty = None
  /\ phase = [s \in Servers |-> "down"] /\ seen = [s \in Servers |-> {}]
  /\ incidents = 0
  /\ logged = Means(flag) /\ adder = [c \in Columns |-> None]

Goto(s, step) == phase' = [phase EXCEPT ![s] = step]

----------------------------------------------------------------------------

(* on_enable, of a server that was started, again if its plugin refused.   *)
Start(s) ==
  /\ phase[s] \in {"down", "failed"} /\ Goto(s, "create")
  /\ UNCHANGED <<table, flag, dirty, seen, incidents, logged>>

(* CREATE TABLE IF NOT EXISTS.                                             *)
Create(s) ==
  /\ phase[s] = "create" /\ Goto(s, "read")
  /\ exists' = TRUE
  /\ cols' = IF exists THEN cols ELSE Columns \ {TokenCol}
  /\ UNCHANGED <<type, engine, adder, flag, dirty, seen, incidents, logged>>

(* existing_cols.                                                          *)
ReadColumns(s) ==
  /\ phase[s] = "read" /\ Goto(s, "add")
  /\ seen' = [seen EXCEPT ![s] = cols]
  /\ UNCHANGED <<table, flag, dirty, incidents, logged>>

Missing(s) == Columns \ seen[s]

(* The missing columns as a set, without the order of the list.            *)
AnyOf(S) == S

(* The columns are added in the order of _REQUIRED_COLUMNS.                *)
NextOf(S) == {c \in S : \A d \in S : c <= d}

(* An ALTER whose failure is only logged.                                  *)
AddOrSkip(s, c) ==
  /\ cols' \in {cols, cols \cup {c}}
  /\ adder' = [adder EXCEPT ![c] = s]
  /\ seen' = [seen EXCEPT ![s] = @ \cup {c}]
  /\ UNCHANGED phase

(* ALTER TABLE ADD COLUMN: an error if there is such a column by now.      *)
Add(s, c) ==
  IF c \in cols
  THEN Goto(s, "failed") /\ UNCHANGED <<cols, adder, seen>>
  ELSE /\ cols' = cols \cup {c}
       /\ adder' = [adder EXCEPT ![c] = s]
       /\ seen' = [seen EXCEPT ![s] = @ \cup {c}]
       /\ UNCHANGED phase

AddColumn(s) ==
  /\ phase[s] = "add" /\ dirty = None
  /\ \E c \in NextOf(Missing(s)) : Add(s, c)
  /\ UNCHANGED <<exists, type, engine, flag, dirty, incidents, logged>>

(* DATA_TYPE of is_logged_in.                                              *)
CheckType(s) ==
  /\ phase[s] = "add" /\ Missing(s) = {}
  /\ Goto(s, IF type = "tinyint" THEN "engine" ELSE "normalise")
  /\ UNCHANGED <<table, flag, dirty, seen, incidents, logged>>

(* The UPDATE takes the row's lock until its transaction ends.             *)
Normalise(s) ==
  /\ phase[s] = "normalise" /\ dirty = None
  /\ dirty' = s /\ Goto(s, "commit")
  /\ UNCHANGED <<table, flag, seen, incidents, logged>>

(* A CASE without ELSE, for the texts it knows.                            *)
NormalKnown(f) == IF f \in {"true", "1"} THEN "1" ELSE IF f = "false" THEN "0" ELSE "NULL"

(* A conversion that leaves the texts alone.                               *)
Unnormalised(f) == f

(* A CASE for the texts of the oldest plugins only.                        *)
NormalTrue(f) == IF f = "true" THEN "1" ELSE "0"

(* CASE WHEN ... IN ('true','1') THEN '1' ELSE '0' END.                    *)
Normal(f) == IF f \in {"true", "1"} THEN "1" ELSE "0"

(* MODIFY first commits what is open, then waits for other transactions.   *)
Commit(s) ==
  /\ phase[s] = "commit" /\ Goto(s, "modify")
  /\ dirty' = None /\ flag' = Normal(flag)
  /\ UNCHANGED <<table, seen, incidents, logged>>

(* MODIFY is_logged_in TINYINT NOT NULL: in strict mode an error for       *)
(* anything that is not a number.                                          *)
Modify(s) ==
  /\ phase[s] = "modify" /\ dirty = None
  /\ \/ /\ flag \in {"1", "0"}
        /\ type' = "tinyint" /\ Goto(s, "engine")
     \/ flag \notin {"1", "0"} /\ Goto(s, "failed") /\ UNCHANGED type
  /\ UNCHANGED <<exists, cols, engine, adder, flag, dirty, seen, incidents, logged>>

(* Only InnoDB tables are accepted.                                        *)
CheckEngine(s) ==
  /\ phase[s] = "engine"
  /\ Goto(s, IF engine = "innodb" THEN "ready" ELSE "failed")
  /\ UNCHANGED <<table, flag, dirty, seen, incidents, logged>>

(* A statement fails, or the process dies, after any step: an open         *)
(* transaction is rolled back, except on MyISAM.                           *)
Break(s) ==
  /\ phase[s] \in Working \cup {"ready"}
  /\ incidents < MaxIncidents /\ incidents' = incidents + 1
  /\ \E step \in {"failed", "down"} :
       (phase[s] = "ready" => step = "down") /\ Goto(s, step)
  /\ dirty' = IF dirty = s THEN None ELSE dirty
  /\ flag' = IF dirty = s /\ engine = "myisam" THEN Normal(flag) ELSE flag
  /\ UNCHANGED <<table, seen, logged>>

(* Claims and releases of servers that are ready.                          *)
Log(s) ==
  /\ phase[s] = "ready" /\ dirty = None
  /\ \E value \in {"1", "0"} : flag' = value /\ logged' = Means(value)
  /\ UNCHANGED <<table, dirty, phase, seen, incidents>>

Migrate(s) ==
  \/ Start(s) \/ Create(s) \/ ReadColumns(s) \/ AddColumn(s) \/ CheckType(s)
  \/ Normalise(s) \/ Commit(s) \/ Modify(s) \/ CheckEngine(s)

Next == \E s \in Servers : Migrate(s) \/ Break(s) \/ Log(s)

Spec == Init /\ [][Next]_vars

(* Statements are executed, and a server that refused or died is started   *)
(* again by its operator.                                                  *)
FairSpec == Spec /\ \A s \in Servers : WF_vars(Migrate(s))

----------------------------------------------------------------------------

(* A server that accepts logins has the whole schema under it, whatever    *)
(* the others were doing to the table meanwhile.                           *)
ReadyComplete ==
  \A s \in Servers : phase[s] = "ready" =>
    exists /\ cols = Columns /\ type = "tinyint" /\ engine = "innodb"

(* The flag keeps its meaning through every interrupted or repeated        *)
(* conversion, also while a server that is ready already writes it         *)
(* (README.md:42).                                                         *)
FlagKept == Means(flag) = logged

(* Servers that start at once refuse each other over duplicate columns,    *)
(* but never all of them: unless something else fails, one goes on.        *)
NotAllRefused ==
  incidents = 0 /\ engine = "innodb" => \E s \in Servers : phase[s] # "failed"

(* Every server becomes ready in the end, if only by being started again.  *)
AllReady ==
  \A s \in Servers : engine = "innodb" ~> phase[s] = "ready"

----------------------------------------------------------------------------
(* The inductive invariant of the safety properties.                       *)

(* What a server knows is there, and it goes on only when it is complete.  *)
ProgressIsEarned ==
  \A s \in Servers :
    /\ phase[s] \notin {"down", "failed", "create"} => exists
    /\ seen[s] \subseteq cols
    /\ phase[s] \in {"normalise", "commit", "modify", "engine", "ready"} =>
         seen[s] = Columns
    /\ phase[s] = "modify" => flag \in {"1", "0"}
    /\ phase[s] \in {"engine", "ready"} => type = "tinyint"
    /\ phase[s] = "ready" => engine = "innodb"

(* A column is added when those before it are there.                       *)
AddedInOrder ==
  \A c \in Columns : adder[c] # None =>
    c \in cols /\ \A d \in Columns : d < c => d \in cols

(* What a server does not know of, another one added, and later than it    *)
(* added anything itself.                                                  *)
MissingIsNews ==
  \A s \in Servers : phase[s] = "add" =>
    /\ \A c \in cols \ seen[s] : adder[c] # None
    /\ \A c \in Columns : adder[c] = s => \A d \in Missing(s) : c < d

Last(c) == adder[c] # None /\ \A d \in Columns : d > c => adder[d] = None

(* Whoever added the last of the added columns was not refused.            *)
LastAdderStands ==
  incidents = 0 /\ engine = "innodb" =>
    \/ (\A c \in Columns : adder[c] = None) /\ (\A s \in Servers : phase[s] # "failed")
    \/ \E c \in Columns : Last(c) /\ phase[adder[c]] # "failed"

SchemaInv ==
  /\ ~exists => cols = {}
  /\ ProgressIsEarned /\ FlagKept
  /\ AddedInOrder /\ MissingIsNews /\ LastAdderStands
=============================================================================
