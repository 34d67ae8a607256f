# A TLA+ verification of the Endstone inventory-share plugin

The plugin (`src/endstone_inventory_share_plugin/`) lets several Bedrock
servers share one inventory per player. Each server keeps a player's items in
its own game world while he plays there; a MySQL table passes them from server
to server. What must never happen is that a player has his items twice, or gets
an old version of them back, or is locked out of them for good. The code has
three defences: a *session token* in the shared row that fences every write, a
*local SQLite journal* that outlives the process, and *guards* that keep a
player from acting before his inventory is restored.

This directory models those defences and the data they protect, model-checks the models
with TLC and proves the central results with TLAPS. File names below without a path are under
`src/endstone_inventory_share_plugin/`: *plugin* is `inventory_share_plugin.py`,
*persistence* is `persistence.py`.

## 1. Inventory of the system

| Component | State | Operations |
|---|---|---|
| **InventoryStore** (persistence) | one row of `player_data` per player: `session_token`, `is_logged_in`, the saved fields | `claim`, `save` (with or without release), `release_legacy`; each is one transaction |
| **SnapshotJournal**, `recover_pending` (persistence) | one SQLite row per session of this server: token, payload or NULL (a login *marker*) | `put`, `remove`, `entries`; replay of rows with a release |
| **Session lifecycle** (plugin) | `_sessions`, `_ready_players`, `_loading_players`, `_pending_autosaves`, `_recovery_future`, `_stopping`, `_accepting` | `on_enable`, `_begin_join` with its inner `load_inventory_task`, `apply_inventory_sync`, `retry`, `fail_join`/`kick`; `_finish_session`, `on_player_quit`; `_autosave`; `_before_stop_command`; `on_disable`; `on_command` |
| **Worker and scheduler** | the queue of a one-thread `ThreadPoolExecutor`; the callbacks given to `server.scheduler` | submit, run |
| **Loading guards** | none of their own | cancel packets, pickups and damage of players in `_loading_players` |
| **Backpack barriers** | the ids a snapshot lists in `storage_barriers`; the backpack plugin's own journal (external) | `_extract_player_data` lists what is pending, `require_complete_storage` looks again |
| **Item vault, item serialization** | `_unresolved`, `unresolved_items` in the row | `serialize_item`, `deserialize_item` with the NBT conversions; `_prepare_restore` splits off what cannot be decoded, `save_*_to_json` merges it back |
| **Optional fields, locations** | `_preserved_fields`, XP, money, tags, `player_locations` | restore each, protect it in later saves if that failed |
| **Bundle messages** | `_bundle_chunks`, `_bundle_cache` | reassembly of chunked script messages |
| **Schema bootstrap** | the table, its columns, the type of the login flag | `_ensure_schema` at start |
| **Configuration, native helper, build** | none that changes | values read at start, pure I/O |

**How they interact.** The main thread runs event handlers and scheduler
callbacks one at a time. It owns the Python state, writes the journal directly
and hands immutable payloads to the worker. The worker alone talks to MySQL; it
also removes journal rows, and it answers a load by scheduling a callback. The
servers share nothing but the table. So a login is a chain: marker into the
journal and load into the queue (main), `claim` (worker), restore (main, two
ticks later); a quit is: payload into the journal and release job into the queue
(main), `save` with release, removal of the journal row (worker).

**What is hard.** Between any two links of those chains the player may leave and
come back, the operator may stop the server, the process may die, and the other
servers go on. The acknowledgment of a commit may be lost. A list of journal rows
is taken on one thread and replayed later on another. The journal, the capture of
a player and the database fail independently, in the middle of a handler. The
game may remove players with no event. `PROJECT.json` lists these hazards at
their lines, each with the properties that cover it.

**What makes it correct.**

* A player acts on one server at a time: `ExclusivePlay`, `KeepsCustody`.
* Nobody gets an old inventory: `RestoreIsCurrent`, `NoRollback`,
  `ReleaseIsCurrent`, `ReleaseIsFinal`, `SeenBackpackHold`.
* No lock is lost: `OwnedRowRecoverable` (safety), `InactiveLockReleased`
  (liveness). No login hangs: `LoginAnswered` (safety), `JoinResolves` (liveness).
* Items a server cannot decode survive unchanged, and once: `NoDuplicate`,
  `SavedIntact`, `LostOnlyIfContested`, `NothingReturns`; and a server that can
  decode them gives them back whole: `RestoredWhole`.
* A field that cannot be restored is not overwritten, and no field goes back:
  `FailedFieldKept`, `NoOlderField`, `ReleaseCarriesFields`, `PlaceKept`.
* A server that serves has the whole schema, the login flag survives its
  conversion, and servers that start at once do not all refuse: `ReadyComplete`,
  `FlagKept`, `NotAllRefused`, `AllReady`.
* A companion record is of one message: `NoMixedRecord`, `LastRecordCached`.

## 2. The modules

| Module | Role |
|---|---|
| `SharedStore` | the row, the payload, and the operators of `InventoryStore` and `require_complete_storage`; the constants' assumptions |
| `InventoryShare` | the plugin on every server: actions of the worker, of the main thread, of the world around; `Spec`, `FairSpec` |
| `InventoryShareProps` | the properties, the refinement mapping, the inductive invariants `CustodyInv`, `LockInv`, `WaitInv`, `StampInv`, `FinalInv` |
| `Custody` | the abstract promise: take, start, write, stop, give back |
| `ItemVault` | one player's items on servers that decode them differently: NBT conversions, the vault, the saved lists |
| `OptionalFields` | XP, money, tags and locations of one player over many sessions, with `_preserved_fields` |
| `BundleChunks` | one player's companion messages, whole and in pieces |
| `SchemaMigration` | `_ensure_schema` on several servers at once, statement by statement |
| `InventoryShare_proof` | types, custody and the refinement, proved |
| `LockSafety_proof`, `RestoreSafety_proof` | the lock and what it is released with; the restore of a waiting login, the order of what is saved, and what is left of a session that ended |
| `Custody_proof`, `ItemVault_proof`, `OptionalFields_proof`, `BundleChunks_proof`, `SchemaMigration_proof` | the theorems about those modules |
| `MCInventoryShare`, `MCItemVault` | instances for TLC: server symmetry, example NBT |

`InventoryShare` composes the store, the journal, the worker and the main
thread; one stamp stands there for all saved data, because one UPDATE writes them.
`OptionalFields` and `ItemVault` open that stamp up. They rest on what
`InventoryShare` shows: sessions hold the row one after the other.

These definitions are plausible bugs: `NoMarker`, `AnyClaimable`, `AnyHolds`,
`ForceReleased`, `CompleteIfCaptured`, `CompleteIfNoPacks`, `Unmarked`
(`SharedStore`); `NoActiveTokens`, `NoRecovery`, `LoadFailsSilently`,
`LoadFailsForever`, `PlayerToken` (`InventoryShare`); `DeserializePlain`,
`DeserializeUnchecked`, `SaveKeepingVault`, `NothingUnresolved`,
`LeaveKeepingVault` (`ItemVault`); `UnprotectedCapture`, `WrittenOver`,
`WrittenRaw`, `PlacesOverwritten`, `QuitUnjournaled` (`OptionalFields`);
`ReceiveKeeping`, `ReceiveFromOne`, `QuitKeeping` (`BundleChunks`); `AnyOf`,
`AddOrSkip`, `NormalKnown`, `NormalTrue`, `Unnormalised` (`SchemaMigration`).
Nothing uses them; `PROJECT.json` pairs each with the definition it replaces and
the property that must then fail, which shows that the property depends on the code.

### State and code: `InventoryShare`

| Model | Code |
|---|---|
| `db[x]` = owner, flag, inv | `session_token`, `is_logged_in`, all saved fields (one stamp: one UPDATE writes them) |
| `journal[t]` | the `pending` row of token t in its home server's SQLite file |
| `sess`, `ready`, `loading` | `_sessions`, `_ready_players`, `_loading_players` |
| `queue[s]`, `pc[s]` | the executor's queue, and how far the job at its head is |
| `tasks[s]` | callbacks given to `scheduler.run_task` |
| `phase[s]` | `_accepting`, `_stopping` and where `on_enable` / `on_disable` is |
| `online[s]`, `world[s][x]` | `server.online_players`; what x carries in s's world |
| `clock[x]` | the number of versions x's inventory has had, so that stamps order them |
| `left[t]` | history: what t's player carried when the plugin saw the session end |
| `packs[s][x]` | rows of x in the backpack plugin's journal on s |

A token is a fresh uuid4 in the code. In the model it is named after its server,
player and a counter (`issued`), which is what makes it fresh. `_pending_autosaves`
and `_recovery_future` are not variables: a future is not done exactly while its
job is in `queue`.

Each handler is one action with everything it changes. A job is one step per
point at which another thread can matter: `TakeLoad` (the test of `_stopping` and
the session), `Claim`; `CheckStorage`, `Save`, `RemoveRow`. `recover_pending`
keeps its place in the queue as a `batch` job whose entries become `recover`
jobs in turn, and it runs inside `on_enable` and `on_disable` as the only job
while the phase is `booting` or `flushing`. The order of the journal's rows is
left open (`RecoverNext` picks any entry), which allows more than `ORDER BY
rowid` does.

### State and code: the other modules

`ItemVault`. `live` is the game's inventory, `vault[s]` is
`_unresolved[xuid]["inventory"]` in the memory of server s, `row` the columns
`player_inv` and `unresolved_items`. An item stack is an item and its NBT, a
compound, list or plain tag; `nbt_to_dict` and `dict_to_nbt` are recursive
functions between tags and JSON data, and `deserialize_item` compares what the
native layer gives back (`ReadBack`). `codec[s]` says for each item whether the
server decodes it exactly, strips its NBT or does not know it; a `Restart` may
change that. Loops that filter a list are written with the places they keep
(`Free`, `Decoded`), and `Chosen` lists the elements at such places in order.
`LeaveRaising` is a quit handler that an exception leaves before it forgets the vault.

`OptionalFields`. A value is the version of the player it belongs to, 0 the
column's default. `row`, `places` are the columns, `local`, `spot` what the player
has in each world, `preserved` is `_preserved_fields[token]`, `journal` the
session's payload, `queue` its jobs. `Restore(bad, lost)` is the part of
`apply_inventory_sync` after the items: the fields of `bad` fail before or after
they were written. `Lose` is a crash, or a stop without a quit event. Four history
variables remember what failed and what the player had.

`BundleChunks`. A message is its number; `chunks` is the table of
`_bundle_chunks[name]`, `cache` the set of messages that `_bundle_cache[name]` was
made of. The companion is external: it begins a message, delivers or loses its
pieces in order, gives up. `stray` remembers whether a piece was lost, left behind
or late since a quit last emptied the table; the properties claim nothing then,
because the code does not tell pieces of two messages apart.

`SchemaMigration`. Columns are numbered in the order of `_REQUIRED_COLUMNS`;
`FlagCol` and `TokenCol` are `is_logged_in` and `session_token`. `phase[s]` is the
statement server s is at, `seen[s]` its `existing_cols` with what it added itself.
`Normalise` takes the locks of the UPDATE, `Commit` is the implicit commit by which
`MODIFY` begins, `Modify` converts the type, which fails for texts that are no
numbers. `flag` is the login flag of one row, `Log` a claim or release by a server that
already serves. MyISAM tables do not roll back.

### The environment

What goes wrong is an `Incident` of a kind in `IncidentKinds`, at most
`MaxIncidents` of them in one behaviour:

* `db`: a transaction fails, or commits and its acknowledgment is lost; the
  schema is not available at start.
* `journal`: a read or a write of the SQLite file fails, at login, in a retry, or
  when a row is removed.
* `final`: the journal fails when a session ends, at quit or in shutdown.
* `capture`: the final snapshot of a session cannot be taken.
* `snapshot`: a snapshot cannot be taken, or not be put into the journal, while
  the session goes on (autosave, stop command that is refused).
* `halt`: the same, together with `snapshot`, for a stop command that is accepted.
* `data`: saved data cannot be parsed (after the claim), or not be applied.
* `invalid`: the player object is not valid when the restore runs.
* `crash`: the process dies; the world and the journal stay, the memory goes.
* `stop`: another plugin refuses a stop command after this one prepared for it.
* `vanish`: the game removes players with no quit event before `on_disable`.
* `pack`: a backpack save goes to its recovery journal, or that journal cannot be
  read when a snapshot with barriers is saved.
* `hot`: the player is connected and plays while the plugin is not enabled.
* `legacy`: the operator runs `invshare recoverlegacy`.

Assumed of it: a server tells the plugin that a player quit before he joins that
server again; nobody plays any more once a stop command is accepted; a backpack
save goes pending only while its player acts on a serving server (`PackPending`), not
between the final capture of his session and its release; a
server's world is on disk when its process ends; the two kinds of SQL error that
`retryable_load_error` tells apart are not, a database error may be retried at
most `MaxTries` times and the deadline may pass at any attempt.

`OptionalFields` and `SchemaMigration` bound their failures with `MaxIncidents` as
well. There a failure is an argument or an alternative of the step it happens
in, and a crash an action (`Lose`, `Break`). `ItemVault` needs no bound: its state
space is finite, and only the history variable `raised` limits exceptions in
the quit handler, to one.

### Bounds

`MaxSessions` bounds the sessions of one player on one server (1 or 2: a session,
and one that meets what the first left behind). `MaxStamp` bounds the versions of
an inventory or of the optional fields (2: one that is older and one that is newer;
3 where a refused stop, or a session on another server, adds one). `MaxTries`
bounds the retries of one load, `MaxIncidents` the incidents: two are enough for
a failure during the recovery from another; `fields` has three, for a failed
restore, a failed capture and a failed save in one session. Refused stop commands
are bounded by at most one unserved stop snapshot in the queue. Loads and
callbacks need no bound: they are finite per session.

One server is enough for questions about one server's journal and queue, two for
those about the row. Two slots and two items make every collision in the vault,
three tag depths every case of the conversion. Four columns have one before the
flag, the flag, the token and one after it. Three pieces and four messages let a
shorter message follow a longer one and a longer a shorter, with one in between.

## 3. The runs

| Run | Configuration | Question |
|---|---|---|
| `handoff` | `MCHandoff`: 2 servers, 1 incident of db, crash, legacy, journal, final, snapshot, halt | Do two servers that compete for a row keep the promise of `Custody` and the invariant `CustodyInv`, are restores current, saved fields never older, the lock recoverable? |
| `sessions` | `MCSessions`: 1 server, 2 sessions, 3 versions, 1 backpack; any 2 of twelve kinds, all but `final` and `halt` | Is what a quit, a shutdown, a restart or a replay releases the newest payload, and what the player had when the session ended, and is it held while backpacks wait? Are `LockInv`, `WaitInv`, `StampInv` and `FinalInv` invariant? |
| `waiting` | `MCWaiting`: 2 servers, no failure, fair | Does a login that waits for the other server's release end? |
| `recovery` | `MCRecovery`: 1 server, 2 sessions, fair; db, crash, vanish, data | Is the lock of a session that is over given back in the end, do logins end, and is nobody held back whose login has no job or callback left? |
| `vault` | `Vault`: 2 servers, 2 slots, a bundle with a tool in it and the tool | Is no item saved twice, altered or brought back, is one lost only if two wait for its slot, and does a server that knows it give it back whole? Is `VaultInv` invariant? |
| `fields` | `Fields`: 2 servers, 3 versions, 3 incidents | Are failed fields kept, none older, releases complete, and locations of their own server? |
| `bundles` | `Bundles`: messages of at most 3 pieces, 4 messages | Is a record of one message, and of the last? |
| `schema` | `Schema`: 2 servers, 4 columns, 2 incidents, any older table, fair | Is a ready server's schema complete, does the flag keep its meaning, does one of them get through, and all in the end? |
| `quit_journal_down` | `MCQuitJournalDown` | finding 1 |
| `stop_capture_fails` | `MCStopCaptureFails` | finding 2 |
| `backpack_crash` | `MCBackpackCrash` | finding 3 |
| `vault_crowded` | `VaultCrowded` | finding 4 |

The largest runs are `handoff` with 1,030,000 distinct states, `fields` with
950,000, `sessions` with 700,000, `vault` with 354,000 and `schema` with 192,000;
the others have between 10,000 and 20,000. With two workers none takes more than
two minutes.

Deadlock is checked in every run: a behaviour never gets stuck, as a server that
is down can start and a running one can be disabled.

**Fairness** (`waiting`, `recovery`, `schema`). `Worker`: the executor's thread
runs while it has a job. `Tick`: the scheduler runs what it was given; as callbacks
are finite in number per session, weak fairness of their disjunction is enough.
`Autosave`: a periodic task of the scheduler. `Boot`: a server that is down is
started again. `Shutdown`: a server that accepted a stop, or whose start failed,
is taken down. `Migrate`: MySQL executes the statements of `_ensure_schema`, and a
server whose plugin refused is started again, as its message asks the operator to. No
fairness is assumed of players, so nobody has to quit or join, and none of
incidents. `on_disable` of a serving plugin is not fair either. `JoinResolves` is
checked without the kind `invalid`: see section 6.

## 4. Findings

The four violation runs each show a behaviour of the code that contradicts what
the repository says.

1. *Quit with the journal down* (plugin 583). When the final capture's journal
   write fails, `_finish_session` marks the journal row `capture_failed`, with
   a second write to the same journal. If that fails too, the exception leaves the
   handler after `_sessions.pop`. The journal row still holds the last
   autosave, or the login marker if there was none, unmarked, and the next recovery of
   inactive sessions releases the player's row with it.
   The comment says "never release a stale snapshot as current".
2. *Stop with a failing capture* (plugin 837). `_before_stop_command` only logs a
   failed capture. If the game then removes the player with no quit event,
   `on_disable` replays the older snapshot with a release.
3. *Crash after a backpack went pending* (plugin 517). The barrier is part of a
   snapshot; a backpack that goes pending after the last snapshot is not in it, so
   the replay after a crash does not wait for it.
4. *Two vaulted items, one slot* (plugin 229). `occupied` is not updated in the
   merge loop: two vaulted records for one free slot are both merged, and the next
   restore on a server that knows both keeps only the later.

## 5. The proofs

`tlapm` checks every leaf of the proof modules. The theorems hold for any number
of servers, players, sessions, columns, versions, retries and incidents and any set of
incident kinds, for messages of any size, and for any number of slots, items and NBT
tags of any depth. They assume the named assumptions of the modules they are about:
`StoreAssumption` (the sets are finite, the bounds positive, `None` is neither a
token nor a payload) and `IncidentAssumption`; `FieldsAssumption` and
`PayloadAssumption`; `SchemaAssumption`; `ChunkAssumption`; `VaultAssumption`
(an item's NBT is a compound tag, an empty slot is no item) and `TagAssumption` (a
tag contains tags, and no chain of tags each inside the one before goes on for ever).

* `CustodyInvariant`: `Spec => [](TypeOK /\ CustodyInv)`.
* `TypeCorrect`: `Spec => []TypeOK`.
* `Exclusive`: `Spec => []ExclusivePlay`.
* `Refinement`: `Spec => KeepsCustody`, the servers implement `Custody`.
* `OwnerActs`: in `Custody`, only the session in custody acts.
* `LockInvariant`: `Spec => [](TypeOK /\ CustodyInv /\ LockInv)`; from it
  `Recoverable` (`Spec => []OwnedRowRecoverable`) and `ReleasesNewest`
  (`Spec => ReleaseIsCurrent`).
* `WaitInvariant`: `Spec => [](TypeOK /\ CustodyInv /\ LockInv /\ WaitInv)`; from
  it `RestoresCurrent` (`Spec => []RestoreIsCurrent`).
* `StampInvariant`: `Spec => [](TypeOK /\ CustodyInv /\ LockInv /\ WaitInv /\ StampInv)`;
  from it `NeverRolledBack` (`Spec => NoRollback`).
* `FinalInvariant`, under the assumption `EndsSucceed`:
  `Spec => [](TypeOK /\ CustodyInv /\ LockInv /\ WaitInv /\ FinalInv)`; from it
  `ReleasesFinal` (`Spec => ReleaseIsFinal`) and `SeenPacksHold`
  (`Spec => SeenBackpackHold`).
* `NoLoginForgotten`, under the assumption `PlayersValid`: `Spec => []LoginAnswered`.
* `FieldsInvariant`: `Spec => [](TypeOK /\ FieldsInv)`; from it `FailedKept`,
  `NeverOlder`, `PlacesKept` and `ReleaseIsFull`, one for each property of
  `OptionalFields`.
* `SchemaInvariant`: `Spec => [](TypeOK /\ SchemaInv)`; from it `Ready`,
  `FlagMeaning` and `NeverAllRefused`, one for each safety property of
  `SchemaMigration`.
* `VaultsInvariant`: `Spec => [](TypeOK /\ VaultInv)`; from it `NeverDuplicated`,
  `Intactness`, `OnlyContestedLost`, `NothingComesBack` and `ExactIsWhole`, one for
  each property of `ItemVault`. `DictInjective` and `RoundTrip`: different tags
  have different JSON forms, and each tag comes back from its own.
* `ChunksInvariant`: `Spec => [](TypeOK /\ ChunkInv)`; from it `NeverMixed` and
  `LastIsCached`.
* Each of these four modules has its `TypeCorrect` too, `Spec => []TypeOK`.

**The invariant of custody.** `ExclusivePlay` says nothing of queues, so it is not
inductive: it needs `PlayersOwn` (a player who can act has a row that names his
session). That holds after a restore only if the claim still stood
(`RestoreOwns`), and a claim stands only if no job in any queue is going to
release a session that still has a player (`QueuesAreSafe`). A job for a session
can be queued only for a token that was drawn (`Known`, `JournalIsKnown`,
`TasksAreKnown`), so that a new login cannot become the victim of an old job; and
a session belongs to its server and player (`SessionsAreLocal`). Crashes and
restarts need that nobody is online while a server recovers its whole journal
(`OnlineWhileEnabled`). Together these are `CustodyInv`; the run `handoff`
checks it.

**The argument.** Types are proved per group of actions, and need only
`SessionsAreLocal`. For `CustodyInv` the main idea is the step predicate `Aged`:
tokens that were drawn stay drawn and no drawn token comes to life. In such a step
every safe job stays safe (`JobAges`), so each action owes an argument only about
the jobs it adds. All but two kinds of steps merely end sessions (`Retires`) or
leave them alone (`Quiet`). A login draws a token that no job can name yet; a
worker step may change the row's owner, but never away from a live session
(`WorkerOwners`). For the refinement, a claim is `Take`, a save `Write` or
`GiveBack`, a restore `Start`, and every other step is a `Stop`, possibly of
nobody (`RetreatStops`).

**The invariant of the lock.** A row could be stranded in two ways: a claim without a
marker, or the removal of a journal row whose token still owns. `WorkerStands`
says how far the job at the head of a queue is: before a claim the marker is there,
before a removal the token is out of the database and its session over, so that it
cannot come back. `CurrentIsJournaled` keeps the marker of a session that runs.
What a release carries follows from `QueuesAreSettled`: each entry that a job
releases is of a session that is over, with the payload its journal still has. It
is stable because nothing is captured of a session that is over (`Settles`);
`Over` includes the phase `flushing`, in which the sessions of removed players
are still listed. Start-up needs `BootStartsEmpty`, and what a job saves
without a release needs `ReadyOwns`.

**The invariant of waiting.** A restore could be outdated if something wrote the row
after the claim. Only the session that owns it could, and its own snapshots are
taken only when it is ready. `OneWait` says that a login waits with one load job or
for one callback, and that a ready session waits for nothing. Hence a waiting
session was never ready and, being alive, is not over; no job in any queue saves
it (`WaitingIsUnsaved`). `Fewer` compares the loads of queues: every step but a login
and a retry leaves no more of them.

**The invariant of the stamps.** The token fences saves of other sessions, but not
older saves of the same one. For the session that owns a row, `InOrder` puts in one
line the saved fields, the snapshots queued for it in queue order, the last one in its
journal and what its player carries now. Nothing queued carries less than the row, so no save
takes it back, and a release writes the journal's last. Steps keep that order
because they capture a session at the end of the line, or play on, or end it
(`Moves`); only a save shifts the line, by its first element. A session that has
just claimed must have an empty line: `WaitsUnseen` says that nothing was captured of
a session that waits, which the mutant `PlayerToken` breaks, and `ClockAhead` that no
inventory is newer than the clock says.

**The invariant of the end.** These three theorems assume something of the
environment: `EndsSucceed` says that `final` and `halt` are not among
`IncidentKinds`. It is needed: with `final` or `halt` `ReleaseIsFinal` is false
(findings 1 and 2). All other kinds are allowed, among them captures that fail at
the end of a session, journal failures elsewhere, removed players and crashes. `LeftIsCaptured` says
that the journal row of a session whose end was seen holds exactly what the player
then carried and, while the session owns the row, a barrier for each of his
pending backpacks; or the row is marked and never released. Such a row is written
again only if the session is still listed on a server that is stopping, and there the player
carries the same (`LeftStandsStill`). A session that was over must not be claimed or
restored again: `LeftIsPast` says that no queue and no callback waits for it, which
holds because only a login of a new token and a retry of a waiting one add a wait
(`Extended`, `WaitsOnlyFresh`). Between the check of the barriers and the save the
main thread goes on; `ChecksHold` says that the check still holds then, as only
players who act get new backpacks pending, and who acts owns his row
(`PacksGrow`).

**The answer to a login.** `LoginAnswered` is the safety half of `JoinResolves`: while a
server accepts logins, whoever its guards hold back has a load job or a callback of
his session under way. It assumes that `invalid` is not among `IncidentKinds`
(`PlayersValid`), and is false with it (section 6). With `CustodyInv` it is
inductive as it stands. Most steps of the main thread and of players only add jobs to
a queue and take a callback only to put something in its place or to end the
hold (`Continues`); a worker step takes at most the head of its own queue
(`WorkerTakesHead`), and a load that it takes for a current session goes back to the
main thread as an apply, retry or kick callback, also when the statement or its
acknowledgment is lost (`WorkerAnswers`). What is left to liveness is that the
worker and the scheduler run, and that retries end.

**The invariant of the fields.** What a session releases is the data of the job that
the worker has at hand, or, after a crash, of the journal. `QueueShape` says that
these agree: at most one release waits, as the last job, and with the journal's
data. `FailedAreProtected` puts the failed fields into every payload that may
still be saved, `LeftIsJournaled` and `StoodIsKnown` tie what the player had at
his quit to the journal. That no field goes back needs an order of payloads
(`NewerIsLater`): whatever carries a field is newer than the row and than what is
saved before it, with gaps where money could not be captured.

**The invariant of the migration.** `ProgressIsEarned` says what each phase has
established, and that no later step of another server takes it back.
`NotAllRefused` is the interesting one: a server is refused because another one
added a column that it did not know of. By `AddedInOrder` columns appear in the
order of the list, so the server that added the last of them is ahead of all others
and is not refused (`LastAdderStands`); `MissingIsNews` says that whatever a
server still misses was added after anything it added itself. The argument fails
if the columns are added in any other order: that is the mutant `AnyOf`.

**NBT conversions.** `nbt_to_dict` and `dict_to_nbt` are recursive functions, and a
proof by induction on the depth of a tag is out of the prover's reach. It is
replaced by a smallest counterexample: if the tags for which a statement fails
were not empty, `TagAssumption` gives one of them whose parts are not among
them, and for that tag the statement follows from the definition. What a recursive
definition says of its function must be shown too, since it is a `CHOOSE` of a
function that satisfies the equation: for `nbt_to_dict` one is put together from
the partial functions on sets of tags that are closed under parts
(`DictEquation`), for `dict_to_nbt` the inverse of `nbt_to_dict` is one (`NbtEquation`).

**The invariant of the vault.** After a restore the vault in memory still lists
records that later saves merge into the item list, so an item seems to be in two
places. `NoneCopied` says why it is saved once: a record's item is in the
memory's vault or in a slot, never in both, and a save divides the vault by the slots
that are free. Nobody but the server the player is on has a vault, so
a load finds no other copy. `NoneMissing` is the converse: what the row has is in
a slot or in the vault, or was given away, or competed for its slot with
another record (`Contested`), which is finding 4. `AllIntact` is the reason for
the comparison in `deserialize_item`: a stack is taken only if its JSON form is the
record's. By `RoundTrip` a server that decodes exactly then has the item's
own tag. The two halves of a list that a save or a restore divides are
compared by their records (`Records`), their lengths never matter.

**The invariant of the chunk table.** `ChunkInv` says exactly what the table holds while no
piece has strayed: the pieces 0 to next - 1 of the message under way. Then the
number of pieces reaches `total` with the last of them and not before, however many
pieces the messages before it had.

## 6. Limits

**Only model-checked.** Liveness (`JoinResolves`, `InactiveLockReleased`,
`AllReady`) and everything with ENABLED, which is beyond the proof system. Every
safety property that a passing run checks is also proved, those about the end of a
session and about the answer to a login under the assumption named above.
The inductive invariants were checked with TLC before they were proved; `ChunkInv` is
no longer part of a run.

**Several players.** The TLC runs have one player. `TypeOK`, `CustodyInv`, `LockInv`,
`WaitInv`, `StampInv`, `FinalInv`, `LoginAnswered` and what follows from them are proved
for any number, including several whose jobs share a queue or a loop of the main thread.

**`JoinResolves` and invalid players.** `apply_inventory_sync` returns without a
kick or a retry when `p.is_valid` is false (plugin 919). If that player is still
connected, he stays behind the loading guards until he leaves. Nothing in the
repository promises otherwise. The run `sessions` includes the case; the runs that
check `JoinResolves` or `LoginAnswered` and the theorem about the latter leave it out.

**Exceptions in the quit handler.** If `_finish_session` raises (finding 1), the
handler ends before it forgets `_unresolved`, the bundle pieces and the loading
mark. `NoDuplicate` and `NothingReturns` claim nothing after that (`raised`), the
bundle properties nothing until the next quit (`stray`).

**Backpacks after the end.** A backpack save that goes pending after the final capture
of a session is in no barrier. The environment above excludes it, so `FinalInv`,
`ReleaseIsFinal` and `SeenBackpackHold` say nothing of that case; finding 3 shows that
the code does not hold such a backpack's row back.

**XP progress.** The restore leaves the player's XP progress alone if it differs from the
saved one by at most 0.01 (plugin 953), and a later save writes it back. The model
restores it exactly: `NoOlderField`, `ReleaseCarriesFields` and `FieldsInv` hold up
to that tolerance.

**Records without NBT or slot.** An item without NBT has no read-back comparison (plugin
181); in `ItemVault` it is an item with the empty compound tag, which every server that
knows its type decodes. A record of a slot that the inventory does not have (plugin
264) would be vaulted everywhere; saves of the modelled servers, which have the same
slots, write none.

**Bundle records.** `NoMixedRecord` and `LastRecordCached` are about messages of which no
piece strays. Within a session the code does mix an abandoned message's pieces with those
of the next (`_bundle_chunks` is per player, plugin 1148); what the properties add is that
a quit empties the table. The plugin stores and logs companion records but never reads
them back (`bundle_data` is None, plugin 515), and the companion in the
repository sends none. The module is about older companions, whose pieces the
code still reassembles.

**Not modelled.** The ender chest's own vault (the same code as the inventory's).
Servers that share one `server_name`, which would share a location. Amounts and
data values of items, which accompany the NBT. Configuration, the native helper
and the build have no protocol of their own. SQL isolation is taken as given:
`SELECT ... FOR UPDATE` makes each transaction atomic, and an `ALTER` waits for
open transactions on the table.

## 7. Plan

Done, in this order: `SharedStore` and `InventoryShare` with the safety of the
handoff; the failures; `Custody` and the refinement; liveness; `ItemVault`; the
proofs about custody; hot enabling and unreadable backpack journals; item
serialization inside `ItemVault`; `OptionalFields`, `SchemaMigration` and their
proofs; `BundleChunks`; the proofs about the lock, the restore and the order of saves; those
about `ItemVault` and `BundleChunks`; those about the end of a session and about the
answer to a login.

Next:

1. The safety half of `InactiveLockReleased`: on a server that runs, the row of a session
   that is over has a release queued, or a journal row that the next
   `_queue_inactive_recovery` lists, or is marked.
2. `ReleaseIsFinal` without `EndsSucceed`, for the sessions whose own end did not
   fail, when `final` or `halt` hit others.
