---------------------------- MODULE MCItemVault ----------------------------
(* A bundle with an item in it, a renamed tool and a plain block. *)
EXTENDS ItemVault, TLC

CONSTANTS i1, i2, i3

Named(n)  == [kind |-> "string", data |-> n]
Lore      == [kind |-> "list", elems |-> <<Named("old"), Named("sharp")>>]
Tool      == [kind |-> "compound", entries |-> [name |-> Named("old"), lore |-> Lore]]
Bundle    == [kind |-> "compound",
              entries |-> [size |-> [kind |-> "int", data |-> 1], inside |-> Tool]]

MCTags  == {Named("old"), Named("sharp"), Lore, Tool, Bundle, Bare,
            [kind |-> "int", data |-> 1]}
ServerSymmetry == Permutations(Servers)

MCNbtOf == [i \in Items |-> CASE i = i1 -> Bundle [] i = i2 -> Tool [] OTHER -> Bare]
=============================================================================
