----------------------------- MODULE ItemVault -----------------------------
(***************************************************************************)
(* How one player's items survive servers that cannot decode all of them.  *)
(* An item is saved as a record with its NBT in JSON form.  A server that   *)
(* does not know the item's type, or whose native layer gives the NBT back *)
(* changed, does not restore the record: it keeps it in the "vault" with   *)
(* its slot, and every save merges the vaulted records whose slot is free  *)
(* back into the saved list, so that a server that knows the item can.     *)
(*                                                                         *)
(* What a server does with an item is its `codec`, fixed by its game       *)
(* version and content packs until it restarts with others.                *)
(***************************************************************************)
EXTENDS Naturals, Sequences, FiniteSets

CONSTANTS
  Servers,
  Size,     \* inv.size: the number of slots
  Items,    \* the player's items; each exists once
  Tags,     \* NBT tags, with every tag they contain
  NbtOf,    \* NbtOf[i]: the compound tag of item i
  None      \* an empty slot, nobody

(* A tag is [kind |-> "compound", entries |-> a function], [kind |->       *)
(* "list", elems |-> a sequence], or [kind |-> ..., data |-> ...] for the  *)
(* number, string and array types.                                         *)
Bare == [kind |-> "compound", entries |-> << >>]

Parts(t) == CASE t.kind = "compound" -> {t.entries[k] : k \in DOMAIN t.entries}
              [] t.kind = "list"     -> {t.elems[k] : k \in DOMAIN t.elems}
              [] OTHER               -> {}

ASSUME VaultAssumption ==
  /\ Size \in Nat \ {0}
  /\ None \notin Servers /\ None \notin [item : Items, nbt : Tags]
  /\ Bare \in Tags
  /\ \A i \in Items : NbtOf[i] \in Tags /\ NbtOf[i].kind = "compound"

(* Tags are finite trees: their parts are tags, and no chain of parts goes *)
(* on for ever.                                                            *)
ASSUME TagAssumption ==
  /\ \A t \in Tags :
       /\ Parts(t) \subseteq Tags
       /\ t = CASE t.kind = "compound" ->
                    [kind |-> "compound",
                     entries |-> [k \in DOMAIN t.entries |-> t.entries[k]]]
               [] t.kind = "list" ->
                    [kind |-> "list",
                     elems |-> [k \in DOMAIN t.elems |-> t.elems[k]]]
               [] OTHER -> [kind |-> t.kind, data |-> t.data]
  /\ \A T \in SUBSET Tags : T # {} => \E t \in T : Parts(t) \cap T = {}

VARIABLES
  live,    \* live[k]: the item stack in slot k of the game's inventory
  vault,   \* vault[s]: _unresolved[xuid]["inventory"] of server s
  row,     \* the player's row: player_inv and unresolved_items
  here,    \* the server the player is restored on, or None
  codec,   \* codec[s][i]: what server s does with item i
  gone,    \* items the player gave away
  raised   \* history: has a quit handler been left by an exception?

vars == <<live, vault, row, here, codec, gone, raised>>

Slots == 0 .. Size - 1

Stack == [item : Items, nbt : Tags]

Codec == [Items -> {"exact", "strips", "unknown"}]

----------------------------------------------------------------------------
(* NBT as JSON data: nbt_to_dict and dict_to_nbt.                          *)

nbt_to_dict[t \in Tags] ==
  CASE t.kind = "compound" ->
         [type |-> "compound",
          value |-> [k \in DOMAIN t.entries |-> nbt_to_dict[t.entries[k]]]]
    [] t.kind = "list" ->
         [type |-> "list",
          members |-> [k \in DOMAIN t.elems |-> nbt_to_dict[t.elems[k]]]]
    [] OTHER -> [type |-> t.kind, plain |-> t.data]

Dicts == {nbt_to_dict[t] : t \in Tags}

dict_to_nbt[d \in Dicts] ==
  CASE d.type = "compound" ->
         [kind |-> "compound",
          entries |-> [k \in DOMAIN d.value |-> dict_to_nbt[d.value[k]]]]
    [] d.type = "list" ->
         [kind |-> "list",
          elems |-> [k \in DOMAIN d.members |-> dict_to_nbt[d.members[k]]]]
    [] OTHER -> [kind |-> d.type, data |-> d.plain]

(* What the native item gives back for a tag it was assigned: the same, or *)
(* what is left of it.                                                     *)
ReadBack(s, i, tag) == IF codec[s][i] = "strips" THEN Bare ELSE tag

Record == [slot : Slots, item : Items, nbt : Dicts]

serialize_item(k, stack) ==
  [slot |-> k, item |-> stack.item, nbt |-> nbt_to_dict[stack.nbt]]

(* A restore that assigns the JSON form itself.                            *)
DeserializePlain(s, r) ==
  IF codec[s][r.item] = "unknown" THEN None ELSE [item |-> r.item, nbt |-> r.nbt]

(* A restore that does not read the NBT back.                              *)
DeserializeUnchecked(s, r) ==
  IF codec[s][r.item] = "unknown" THEN None
  ELSE [item |-> r.item, nbt |-> ReadBack(s, r.item, dict_to_nbt[r.nbt])]

(* None for a record that is not decoded.  An item without NBT behaves as   *)
(* one with the tag Bare: it is decoded wherever its type is known.        *)
deserialize_item(s, r) ==
  LET tag == ReadBack(s, r.item, dict_to_nbt[r.nbt])
  IN  IF codec[s][r.item] # "unknown" /\ nbt_to_dict[tag] = r.nbt
      THEN [item |-> r.item, nbt |-> tag] ELSE None

----------------------------------------------------------------------------

(* The p-th of a finite set of numbers, and the elements of a list at some *)
(* places, in the order of the list.                                       *)
Nth(S, p) == CHOOSE n \in S : Cardinality({m \in S : m < n}) = p - 1

Chosen(list, places) == [p \in 1 .. Cardinality(places) |-> list[Nth(places, p)]]

(* The live slots as records, in slot order; empty ones are left out, as   *)
(* they restore nothing.                                                   *)
LiveRecords(inv) ==
  LET occupied == {k \in Slots : inv[k] # None}
  IN  [p \in 1 .. Cardinality(occupied) |->
         serialize_item(Nth(occupied, p), inv[Nth(occupied, p)])]

Free(inv, list) == {n \in 1 .. Len(list) : inv[list[n].slot] = None}

(* A save that merges vaulted records and keeps them in the vault as well. *)
SaveKeepingVault(inv, vaulted) ==
  [items |-> LiveRecords(inv) \o Chosen(vaulted, Free(inv, vaulted)),
   vault |-> vaulted]

(* save_inventory_to_json: "occupied" is computed once, from live items.   *)
SaveToRow(inv, vaulted) ==
  LET free == Free(inv, vaulted)
  IN  [items |-> LiveRecords(inv) \o Chosen(vaulted, free),
       vault |-> Chosen(vaulted, (1 .. Len(vaulted)) \ free)]

(* _prepare_restore: of several records decoded for a slot the last stays. *)
Decoded(s, records) == {n \in 1 .. Len(records) : deserialize_item(s, records[n]) # None}

Restored(s, records) ==
  [k \in Slots |->
     LET hits == {n \in Decoded(s, records) : records[n].slot = k}
     IN  IF hits = {} THEN None
         ELSE deserialize_item(s, records[Nth(hits, Cardinality(hits))])]

(* A restore that drops what it cannot decode.                             *)
NothingUnresolved(s, records) == << >>

(* _prepare_restore: the records that were not decoded.  A record of a slot *)
(* that the inventory does not have would be one on every server.          *)
Unresolved(s, records) ==
  Chosen(records, (1 .. Len(records)) \ Decoded(s, records))

Init == /\ \E put \in [Items -> Slots] :
             /\ \A i, j \in Items : put[i] = put[j] => i = j
             /\ live = [k \in Slots |->
                          IF \E i \in Items : put[i] = k
                          THEN LET i == CHOOSE i \in Items : put[i] = k
                               IN  [item |-> i, nbt |-> NbtOf[i]]
                          ELSE None]
        /\ vault = [s \in Servers |-> << >>]
        /\ row = SaveToRow(live, << >>)
        /\ here = None
        /\ codec \in [Servers -> Codec]
        /\ gone = {} /\ raised = FALSE

(* apply_inventory_sync: _unresolved is assigned only if something is      *)
(* unresolved.                                                             *)
Load(s) ==
  LET unresolved == row.vault \o Unresolved(s, row.items)
  IN  /\ here = None /\ here' = s
      /\ live' = Restored(s, row.items)
      /\ vault' = IF unresolved = << >> THEN vault
                  ELSE [vault EXCEPT ![s] = unresolved]
      /\ UNCHANGED <<row, codec, gone, raised>>

(* _extract_player_data and InventoryStore.save; the vault in memory keeps *)
(* what was merged.                                                        *)
Save ==
  /\ here # None /\ row' = SaveToRow(live, vault[here])
  /\ UNCHANGED <<live, vault, here, codec, gone, raised>>

(* A quit that does not forget the vault.                                  *)
LeaveKeepingVault ==
  /\ here # None /\ here' = None
  /\ row' = SaveToRow(live, vault[here])
  /\ UNCHANGED <<live, vault, codec, gone, raised>>

(* on_player_quit: the last save, then the vault is forgotten.             *)
Leave ==
  /\ here # None /\ here' = None
  /\ row' = SaveToRow(live, vault[here])
  /\ vault' = [vault EXCEPT ![here] = << >>]
  /\ UNCHANGED <<live, codec, gone, raised>>

(* An exception leaves the quit handler before that; the session is        *)
(* released later with the last saved snapshot.  The bound is one of them. *)
LeaveRaising ==
  /\ here # None /\ here' = None
  /\ ~raised /\ raised' = TRUE
  /\ UNCHANGED <<live, vault, row, codec, gone>>

(* The server process dies, with the vault in its memory, and is started   *)
(* again, possibly with other content packs.                               *)
Restart(s) ==
  /\ here' = IF here = s THEN None ELSE here
  /\ vault' = [vault EXCEPT ![s] = << >>]
  /\ \E c \in Codec : codec' = [codec EXCEPT ![s] = c]
  /\ UNCHANGED <<live, row, gone, raised>>

(* The player moves an item to an empty slot, which may be one that a      *)
(* vaulted record waits for.                                               *)
Move(j, k) ==
  /\ here # None /\ live[j] # None /\ live[k] = None
  /\ live' = [live EXCEPT ![j] = None, ![k] = live[j]]
  /\ UNCHANGED <<vault, row, here, codec, gone, raised>>

(* The player gives an item away.                                          *)
GiveAway(k) ==
  /\ here # None /\ live[k] # None
  /\ live' = [live EXCEPT ![k] = None]
  /\ gone' = gone \cup {live[k].item}
  /\ UNCHANGED <<vault, row, here, codec, raised>>

Next == \/ \E s \in Servers : Load(s) \/ Restart(s)
        \/ Save \/ Leave \/ LeaveRaising
        \/ \E j, k \in Slots : Move(j, k)
        \/ \E k \in Slots : GiveAway(k)

Spec == Init /\ [][Next]_vars

----------------------------------------------------------------------------

(* Slots hold stacks, and both lists of the row hold records of items.     *)
TypeOK == /\ live \in [Slots -> Stack \cup {None}]
          /\ vault \in [Servers -> Seq(Record)]
          /\ row.items \in Seq(Record) /\ row.vault \in Seq(Record)
          /\ here \in Servers \cup {None}
          /\ codec \in [Servers -> Codec]
          /\ gone \subseteq Items /\ raised \in BOOLEAN

(* Lists without their order: their records, and items.                    *)
Records(list) == {list[n] : n \in 1 .. Len(list)}

ItemsOf(list) == {r.item : r \in Records(list)}

RowItems == ItemsOf(row.items) \cup ItemsOf(row.vault)

LiveItems == {live[k].item : k \in {j \in Slots : live[j] # None}}

Once(list) == \A m, n \in 1 .. Len(list) : list[m].item = list[n].item => m = n

(* The items whose record in the row competes for its slot with another.   *)
Contested ==
  {row.items[n].item : n \in {m \in 1 .. Len(row.items) :
     \E j \in 1 .. Len(row.items) : j # m /\ row.items[j].slot = row.items[m].slot}}

Copies(i, list) == Cardinality({n \in 1 .. Len(list) : list[n].item = i})

Saved(i, r) == Copies(i, r.items) + Copies(i, r.vault)

(* No item is ever saved twice, although the vault in memory keeps the     *)
(* records that a save has already merged into the list.  A quit handler   *)
(* that raises leaves the vault to the player's next session there: after  *)
(* that nothing is claimed.                                                *)
NoDuplicate == raised \/ \A i \in Items : Saved(i, row) <= 1

(* An item the row holds leaves it only if the player gave it away or the  *)
(* row listed another item for its slot: what a server cannot decode is    *)
(* never the reason.                                                       *)
LostOnlyIfContested ==
  [][\A i \in Items : Saved(i, row) > 0 /\ Saved(i, row') = 0 =>
       i \in gone \cup Contested]_vars

(* Whatever servers it passes through, an item that is saved has the NBT   *)
(* it always had: no server's losses ever reach the shared row             *)
(* (CHANGELOG.md:5, "instead of silently accepting a plain item").         *)
SavedIntact ==
  \A n \in 1 .. Len(row.items \o row.vault) :
    LET r == (row.items \o row.vault)[n]
    IN  r.nbt = nbt_to_dict[NbtOf[r.item]]

(* An item that the row holds no more does not come back from the memory   *)
(* of a server that the player has been on, unless a quit handler raised.  *)
NothingReturns ==
  [][\A i \in Items : Saved(i, row) = 0 /\ Saved(i, row') > 0 => raised]_vars

(* A server that decodes an item exactly gives it back whole, whatever     *)
(* other servers did with its record before, unless the row lists another  *)
(* item for its slot.                                                      *)
RestoredWhole ==
  [][\A i \in ItemsOf(row.items) \ Contested :
       here = None /\ here' # None /\ codec[here'][i] = "exact" =>
         \E k \in Slots : live'[k] = [item |-> i, nbt |-> NbtOf[i]]]_vars

(* Why these hold: every record, in the row or a vault, and every stack    *)
(* has the NBT of its item.                                                *)
AllIntact ==
  /\ \A r \in Records(row.items) \cup Records(row.vault)
              \cup UNION {Records(vault[s]) : s \in Servers} :
       r.nbt = nbt_to_dict[NbtOf[r.item]]
  /\ \A k \in Slots : live[k] # None =>
       nbt_to_dict[live[k].nbt] = nbt_to_dict[NbtOf[live[k].item]]

(* While the player is restored somewhere, the row's items are in a slot   *)
(* or in the vault there, unless they were given away or lost a slot.      *)
NoneMissing ==
  here # None => RowItems \subseteq LiveItems \cup ItemsOf(vault[here]) \cup gone \cup Contested

(* Each item is once in the row, and once in the slots and the vault, and  *)
(* none is there that the row does not have; other vaults are empty.       *)
NoneCopied ==
  /\ Once(row.items) /\ Once(row.vault) /\ ItemsOf(row.items) \cap ItemsOf(row.vault) = {}
  /\ \A s \in Servers \ {here} : vault[s] = << >>
  /\ here # None =>
       /\ Once(vault[here])
       /\ \A j, k \in Slots :
            live[j] # None /\ live[k] # None /\ live[j].item = live[k].item => j = k
       /\ LiveItems \cap ItemsOf(vault[here]) = {}
       /\ LiveItems \cup ItemsOf(vault[here]) \subseteq RowItems

VaultInv == AllIntact /\ NoneMissing /\ (raised \/ NoneCopied)

(* No item is lost: the player only moves them or gives them away          *)
(* (README.md:9).                                                          *)
ItemsPreserved == \A i \in Items \ gone : Saved(i, row) >= 1
=============================================================================
