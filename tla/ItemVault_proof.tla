--------------------------- MODULE ItemVault_proof ---------------------------
(* What the vault promises holds for any servers, items, tags and number   *)
(* of slots: no item is saved twice, altered, or lost for want of a server *)
(* that knows it.                                                          *)
EXTENDS ItemVault, FiniteSetTheorems, SequenceTheorems, TLAPS

----------------------------------------------------------------------------
(* The NBT conversions.  Both are recursive functions: that they have the  *)
(* values of their defining equations is shown by the well-foundedness of  *)
(* tags, a minimal tag standing for the induction step.                    *)

DictBody(f, t) ==
  CASE t.kind = "compound" ->
         [type |-> "compound", value |-> [k \in DOMAIN t.entries |-> f[t.entries[k]]]]
    [] t.kind = "list" ->
         [type |-> "list", members |-> [k \in DOMAIN t.elems |-> f[t.elems[k]]]]
    [] OTHER -> [type |-> t.kind, plain |-> t.data]

Closed(A) == A \in SUBSET Tags /\ \A t \in A : Parts(t) \subseteq A

Solves(f, A) == \A t \in A : f[t] = DictBody(f, t)

(* The parts of a compound, of a list, and of any other tag.               *)
LEMMA PartsAre ==
  ASSUME NEW t \in Tags
  PROVE  /\ t.kind = "compound" => \A k \in DOMAIN t.entries : t.entries[k] \in Parts(t)
         /\ t.kind = "list" => \A k \in DOMAIN t.elems : t.elems[k] \in Parts(t)
         /\ Parts(t) \subseteq Tags
<1>1. Parts(t) \subseteq Tags
  BY TagAssumption
<1>2. CASE t.kind = "compound"
  BY <1>1, <1>2 DEF Parts
<1>3. CASE t.kind = "list"
  BY <1>1, <1>3 DEF Parts
<1> QED BY <1>1, <1>2, <1>3

(* A conversion looks at the parts of a tag only.                          *)
LEMMA BodyIsLocal ==
  ASSUME NEW f, NEW g, NEW t \in Tags, \A p \in Parts(t) : f[p] = g[p]
  PROVE  DictBody(f, t) = DictBody(g, t)
<1>1. CASE t.kind = "compound"
  <2>1. [k \in DOMAIN t.entries |-> f[t.entries[k]]]
        = [k \in DOMAIN t.entries |-> g[t.entries[k]]]
    BY <1>1, PartsAre
  <2> QED BY <1>1, <2>1 DEF DictBody
<1>2. CASE t.kind = "list"
  <2>1. [k \in DOMAIN t.elems |-> f[t.elems[k]]] = [k \in DOMAIN t.elems |-> g[t.elems[k]]]
    BY <1>2, PartsAre
  <2> QED BY <1>2, <2>1 DEF DictBody
<1>3. CASE t.kind \notin {"compound", "list"}
  BY <1>3 DEF DictBody
<1> QED BY <1>1, <1>2, <1>3

(* Two solutions agree where both are defined.                             *)
LEMMA SolutionsAgree ==
  ASSUME NEW A, NEW B, Closed(A), Closed(B), NEW f, NEW g, Solves(f, A), Solves(g, B)
  PROVE  \A t \in A \cap B : f[t] = g[t]
<1> DEFINE T == {t \in A \cap B : f[t] # g[t]}
<1>1. SUFFICES ASSUME T # {}
               PROVE  FALSE
  OBVIOUS
<1>2. T \in SUBSET Tags
  BY DEF Closed
<1>3. PICK t \in T : Parts(t) \cap T = {}
  BY <1>1, <1>2, TagAssumption
<1>4. t \in Tags /\ t \in A /\ t \in B /\ f[t] # g[t]
  BY <1>2, <1>3
<1>5. \A p \in Parts(t) : f[p] = g[p]
  BY <1>3, <1>4 DEF Closed
<1>6. DictBody(f, t) = DictBody(g, t)
  BY <1>4, <1>5, BodyIsLocal
<1> QED BY <1>4, <1>6 DEF Solves

(* There is a solution for all tags: were the largest closed set that has  *)
(* one not all of them, a minimal tag outside could be added.              *)
LEMMA SolutionExists == \E f : Solves(f, Tags)
<1> DEFINE G == {A \in SUBSET Tags : Closed(A) /\ \E f : Solves(f, A)}
           U == UNION G
           Sol(A) == CHOOSE f : Solves(f, A)
           h == [t \in U |-> Sol(CHOOSE A \in G : t \in A)[t]]
<1>1. \A A \in G : Closed(A) /\ Solves(Sol(A), A)
  OBVIOUS
<1>2. ASSUME NEW A \in G, NEW t \in A
      PROVE  h[t] = Sol(A)[t]
  <2> DEFINE B == CHOOSE C \in G : t \in C
  <2>1. t \in U /\ B \in G /\ t \in B
    OBVIOUS
  <2>2. h[t] = Sol(B)[t]
    BY <2>1
  <2>3. \A u \in A \cap B : Sol(A)[u] = Sol(B)[u]
    <3> HIDE DEF B, G, Sol
    <3> QED BY <1>1, <2>1, SolutionsAgree
  <2> QED BY <2>1, <2>2, <2>3
<1>3. Closed(U)
  BY <1>1 DEF Closed
<1>4. Solves(h, U)
  <2> SUFFICES ASSUME NEW t \in U
               PROVE  h[t] = DictBody(h, t)
    BY DEF Solves
  <2>1. PICK A \in G : t \in A
    OBVIOUS
  <2> HIDE DEF G, h, Sol
  <2>2. h[t] = Sol(A)[t] /\ Sol(A)[t] = DictBody(Sol(A), t) /\ t \in Tags
    BY <1>1, <1>2, <2>1 DEF Solves, Closed
  <2>3. \A p \in Parts(t) : Sol(A)[p] = h[p]
    BY <1>1, <1>2, <2>1 DEF Closed
  <2> QED BY <2>2, <2>3, BodyIsLocal
<1>5. U = Tags
  <2>1. SUFFICES ASSUME Tags \ U # {}
                 PROVE  FALSE
    BY <1>3 DEF Closed
  <2>2. PICK t \in Tags \ U : Parts(t) \cap (Tags \ U) = {}
    BY <2>1, TagAssumption
  <2> HIDE DEF U, h
  <2>3. Parts(t) \subseteq U
    BY <2>2, PartsAre
  <2> DEFINE g == [u \in U \cup {t} |-> IF u = t THEN DictBody(h, t) ELSE h[u]]
  <2>4. (\A u \in U : g[u] = h[u]) /\ g[t] = DictBody(h, t)
    BY <2>2
  <2> HIDE DEF g
  <2>5. Solves(g, U \cup {t})
    <3> SUFFICES ASSUME NEW u \in U \cup {t}
                 PROVE  g[u] = DictBody(g, u)
      BY DEF Solves
    <3>1. Parts(u) \subseteq U /\ u \in Tags
      BY <1>3, <2>2, <2>3 DEF Closed
    <3>2. \A p \in Parts(u) : h[p] = g[p]
      BY <2>4, <3>1
    <3>3. DictBody(h, u) = DictBody(g, u)
      BY <3>1, <3>2, BodyIsLocal
    <3>4. g[u] = DictBody(h, u)
      BY <1>4, <2>4 DEF Solves
    <3> QED BY <3>3, <3>4
  <2>6. Closed(U \cup {t})
    BY <1>3, <2>2, <2>3 DEF Closed
  <2>7. U \cup {t} \in SUBSET Tags
    BY <2>6 DEF Closed
  <2>8. U \cup {t} \in G
    BY <2>5, <2>6, <2>7
  <2>9. t \in U
    BY <2>8 DEF U
  <2> QED BY <2>2, <2>9
<1> QED BY <1>4, <1>5

(* nbt_to_dict has the values of its defining equation.                    *)
LEMMA DictEquation == \A t \in Tags : nbt_to_dict[t] = DictBody(nbt_to_dict, t)
<1>1. nbt_to_dict = CHOOSE f : f = [t \in Tags |-> DictBody(f, t)]
  BY DEF nbt_to_dict, DictBody
<1>2. PICK f : Solves(f, Tags)
  BY SolutionExists
<1> DEFINE g == [t \in Tags |-> f[t]]
<1>3. \A t \in Tags : DictBody(f, t) = DictBody(g, t)
  <2> TAKE t \in Tags
  <2>1. \A p \in Parts(t) : f[p] = g[p]
    BY PartsAre
  <2> HIDE DEF g
  <2> QED BY <2>1, BodyIsLocal
<1>4. g = [t \in Tags |-> DictBody(g, t)]
  BY <1>2, <1>3 DEF Solves
<1>5. nbt_to_dict = [t \in Tags |-> DictBody(nbt_to_dict, t)]
  <2> HIDE DEF g
  <2>1. \E e : e = [t \in Tags |-> DictBody(e, t)]
    BY <1>4
  <2> QED BY <1>1, <2>1
<1> QED BY <1>5

(* The shape of a tag: its kind, and its parts or its data.                *)
LEMMA TagShape ==
  ASSUME NEW t \in Tags
  PROVE  /\ t.kind = "compound" =>
              t = [kind |-> "compound",
                   entries |-> [k \in DOMAIN t.entries |-> t.entries[k]]]
         /\ t.kind = "list" =>
              t = [kind |-> "list", elems |-> [k \in DOMAIN t.elems |-> t.elems[k]]]
         /\ t.kind \notin {"compound", "list"} => t = [kind |-> t.kind, data |-> t.data]
<1>1. t = CASE t.kind = "compound" ->
                 [kind |-> "compound",
                  entries |-> [k \in DOMAIN t.entries |-> t.entries[k]]]
            [] t.kind = "list" ->
                 [kind |-> "list", elems |-> [k \in DOMAIN t.elems |-> t.elems[k]]]
            [] OTHER -> [kind |-> t.kind, data |-> t.data]
  BY TagAssumption
<1>2. CASE t.kind = "compound"
  BY <1>1, <1>2
<1>3. CASE t.kind = "list"
  BY <1>1, <1>3
<1>4. CASE t.kind \notin {"compound", "list"}
  BY <1>1, <1>4
<1> QED BY <1>2, <1>3, <1>4

(* The JSON form of a tag, by its kind.                                    *)
LEMMA DictShape ==
  ASSUME NEW t \in Tags
  PROVE  /\ t.kind = "compound" =>
              nbt_to_dict[t] =
                [type |-> "compound",
                 value |-> [k \in DOMAIN t.entries |-> nbt_to_dict[t.entries[k]]]]
         /\ t.kind = "list" =>
              nbt_to_dict[t] =
                [type |-> "list",
                 members |-> [k \in DOMAIN t.elems |-> nbt_to_dict[t.elems[k]]]]
         /\ t.kind \notin {"compound", "list"} =>
              nbt_to_dict[t] = [type |-> t.kind, plain |-> t.data]
         /\ nbt_to_dict[t].type = t.kind
<1>1. nbt_to_dict[t] = DictBody(nbt_to_dict, t)
  BY DictEquation
<1>2. CASE t.kind = "compound"
  BY <1>1, <1>2 DEF DictBody
<1>3. CASE t.kind = "list"
  BY <1>1, <1>3 DEF DictBody
<1>4. CASE t.kind \notin {"compound", "list"}
  BY <1>1, <1>4 DEF DictBody
<1> QED BY <1>2, <1>3, <1>4

(* The fields of the JSON form.                                            *)
LEMMA DictFields ==
  ASSUME NEW t \in Tags
  PROVE  /\ nbt_to_dict[t].type = t.kind
         /\ t.kind = "compound" =>
              nbt_to_dict[t].value = [k \in DOMAIN t.entries |-> nbt_to_dict[t.entries[k]]]
         /\ t.kind = "list" =>
              nbt_to_dict[t].members = [k \in DOMAIN t.elems |-> nbt_to_dict[t.elems[k]]]
         /\ t.kind \notin {"compound", "list"} => nbt_to_dict[t].plain = t.data
<1>1. ASSUME t.kind = "compound"
      PROVE  nbt_to_dict[t].value = [k \in DOMAIN t.entries |-> nbt_to_dict[t.entries[k]]]
  <2>1. PICK v : v = [k \in DOMAIN t.entries |-> nbt_to_dict[t.entries[k]]]
    OBVIOUS
  <2>2. nbt_to_dict[t] = [type |-> "compound", value |-> v]
    BY <1>1, <2>1, DictShape
  <2> QED BY <2>1, <2>2
<1>2. ASSUME t.kind = "list"
      PROVE  nbt_to_dict[t].members = [k \in DOMAIN t.elems |-> nbt_to_dict[t.elems[k]]]
  <2>1. PICK v : v = [k \in DOMAIN t.elems |-> nbt_to_dict[t.elems[k]]]
    OBVIOUS
  <2>2. nbt_to_dict[t] = [type |-> "list", members |-> v]
    BY <1>2, <2>1, DictShape
  <2> QED BY <2>1, <2>2
<1>3. ASSUME t.kind \notin {"compound", "list"}
      PROVE  nbt_to_dict[t].plain = t.data
  <2>1. nbt_to_dict[t] = [type |-> t.kind, plain |-> t.data]
    BY <1>3, DictShape
  <2> QED BY <2>1
<1> QED BY <1>1, <1>2, <1>3, DictShape

(* Two tags never have the same JSON form: a save tells them apart.        *)
THEOREM DictInjective ==
  \A t, u \in Tags : nbt_to_dict[t] = nbt_to_dict[u] => t = u
<1> DEFINE T == {t \in Tags : \E u \in Tags : t # u /\ nbt_to_dict[t] = nbt_to_dict[u]}
<1>1. SUFFICES ASSUME T # {}
               PROVE  FALSE
  OBVIOUS
<1>2. T \in SUBSET Tags
  OBVIOUS
<1>3. PICK t \in T : Parts(t) \cap T = {}
  BY <1>1, <1>2, TagAssumption
<1>4. t \in Tags
  OBVIOUS
<1>5. PICK u \in Tags : t # u /\ nbt_to_dict[t] = nbt_to_dict[u]
  OBVIOUS
<1>6. \A p \in Parts(t), q \in Tags : nbt_to_dict[p] = nbt_to_dict[q] => p = q
  BY <1>3, <1>4, PartsAre
<1> HIDE DEF T
<1>7. t.kind = u.kind
  BY <1>4, <1>5, DictShape
<1>8. CASE t.kind = "compound"
  <2>1. [k \in DOMAIN t.entries |-> nbt_to_dict[t.entries[k]]]
        = [k \in DOMAIN u.entries |-> nbt_to_dict[u.entries[k]]]
    <3>1. nbt_to_dict[t].value = [k \in DOMAIN t.entries |-> nbt_to_dict[t.entries[k]]]
      BY <1>4, <1>8, DictFields
    <3>2. nbt_to_dict[u].value = [k \in DOMAIN u.entries |-> nbt_to_dict[u.entries[k]]]
      BY <1>5, <1>7, <1>8, DictFields
    <3> QED BY <1>5, <3>1, <3>2, Zenon
  <2>2. DOMAIN t.entries = DOMAIN u.entries
    BY <2>1
  <2>3. \A k \in DOMAIN t.entries : nbt_to_dict[t.entries[k]] = nbt_to_dict[u.entries[k]]
    BY <2>1, <2>2
  <2>4. \A k \in DOMAIN t.entries : t.entries[k] \in Parts(t) /\ u.entries[k] \in Tags
    BY <1>4, <1>7, <1>8, <2>2, PartsAre
  <2>5. \A k \in DOMAIN t.entries : t.entries[k] = u.entries[k]
    BY <1>6, <2>3, <2>4
  <2>6. [k \in DOMAIN t.entries |-> t.entries[k]] = [k \in DOMAIN u.entries |-> u.entries[k]]
    BY <2>2, <2>5
  <2> QED BY <1>4, <1>5, <1>7, <1>8, <2>6, TagShape
<1>9. CASE t.kind = "list"
  <2>1. [k \in DOMAIN t.elems |-> nbt_to_dict[t.elems[k]]]
        = [k \in DOMAIN u.elems |-> nbt_to_dict[u.elems[k]]]
    <3>1. nbt_to_dict[t].members = [k \in DOMAIN t.elems |-> nbt_to_dict[t.elems[k]]]
      BY <1>4, <1>9, DictFields
    <3>2. nbt_to_dict[u].members = [k \in DOMAIN u.elems |-> nbt_to_dict[u.elems[k]]]
      BY <1>5, <1>7, <1>9, DictFields
    <3> QED BY <1>5, <3>1, <3>2, Zenon
  <2>2. DOMAIN t.elems = DOMAIN u.elems
    BY <2>1
  <2>3. \A k \in DOMAIN t.elems : nbt_to_dict[t.elems[k]] = nbt_to_dict[u.elems[k]]
    BY <2>1, <2>2
  <2>4. \A k \in DOMAIN t.elems : t.elems[k] \in Parts(t) /\ u.elems[k] \in Tags
    BY <1>4, <1>7, <1>9, <2>2, PartsAre
  <2>5. \A k \in DOMAIN t.elems : t.elems[k] = u.elems[k]
    BY <1>6, <2>3, <2>4
  <2>6. [k \in DOMAIN t.elems |-> t.elems[k]] = [k \in DOMAIN u.elems |-> u.elems[k]]
    BY <2>2, <2>5
  <2> QED BY <1>4, <1>5, <1>7, <1>9, <2>6, TagShape
<1>10. CASE t.kind \notin {"compound", "list"}
  <2>1. t.data = u.data
    BY <1>4, <1>5, <1>7, <1>10, DictFields
  <2> QED BY <1>4, <1>5, <1>7, <1>10, <2>1, TagShape
<1> QED BY <1>8, <1>9, <1>10

NbtBody(f, d) ==
  CASE d.type = "compound" ->
         [kind |-> "compound", entries |-> [k \in DOMAIN d.value |-> f[d.value[k]]]]
    [] d.type = "list" ->
         [kind |-> "list", elems |-> [k \in DOMAIN d.members |-> f[d.members[k]]]]
    [] OTHER -> [kind |-> d.type, data |-> d.plain]

(* A function that takes the JSON forms of a tag's parts back to the parts *)
(* gives back the tag.                                                     *)
LEMMA BodyInverts ==
  ASSUME NEW t \in Tags, NEW f, \A p \in Parts(t) : f[nbt_to_dict[p]] = p
  PROVE  NbtBody(f, nbt_to_dict[t]) = t
<1> DEFINE d == nbt_to_dict[t]
<1>1. CASE t.kind = "compound"
  <2>1. /\ d.type = "compound" /\ DOMAIN d.value = DOMAIN t.entries
        /\ \A k \in DOMAIN t.entries : d.value[k] = nbt_to_dict[t.entries[k]]
    BY <1>1, DictFields
  <2> HIDE DEF d
  <2>2. \A k \in DOMAIN t.entries : f[d.value[k]] = t.entries[k]
    BY <1>1, <2>1, PartsAre
  <2>3. [k \in DOMAIN d.value |-> f[d.value[k]]] = [k \in DOMAIN t.entries |-> t.entries[k]]
    BY <2>1, <2>2
  <2>4. NbtBody(f, d) = [kind |-> "compound", entries |-> [k \in DOMAIN d.value |-> f[d.value[k]]]]
    BY <2>1 DEF NbtBody
  <2>5. NbtBody(f, d) = t
    BY <1>1, <2>3, <2>4, TagShape
  <2> QED BY <2>5 DEF d
<1>2. CASE t.kind = "list"
  <2>1. /\ d.type = "list" /\ DOMAIN d.members = DOMAIN t.elems
        /\ \A k \in DOMAIN t.elems : d.members[k] = nbt_to_dict[t.elems[k]]
    BY <1>2, DictFields
  <2> HIDE DEF d
  <2>2. \A k \in DOMAIN t.elems : f[d.members[k]] = t.elems[k]
    BY <1>2, <2>1, PartsAre
  <2>3. [k \in DOMAIN d.members |-> f[d.members[k]]] = [k \in DOMAIN t.elems |-> t.elems[k]]
    BY <2>1, <2>2
  <2>4. NbtBody(f, d) = [kind |-> "list", elems |-> [k \in DOMAIN d.members |-> f[d.members[k]]]]
    BY <2>1 DEF NbtBody
  <2>5. NbtBody(f, d) = t
    BY <1>2, <2>3, <2>4, TagShape
  <2> QED BY <2>5 DEF d
<1>3. CASE t.kind \notin {"compound", "list"}
  <2>1. d.type = t.kind /\ d.plain = t.data
    BY <1>3, DictFields
  <2> HIDE DEF d
  <2>2. NbtBody(f, d) = [kind |-> t.kind, data |-> t.data]
    BY <1>3, <2>1 DEF NbtBody
  <2>3. NbtBody(f, d) = t
    BY <1>3, <2>2, TagShape
  <2> QED BY <2>3 DEF d
<1> QED BY <1>1, <1>2, <1>3

(* dict_to_nbt has the values of its defining equation: the inverse of     *)
(* nbt_to_dict does.                                                       *)
LEMMA NbtEquation == \A d \in Dicts : dict_to_nbt[d] = NbtBody(dict_to_nbt, d)
<1>1. dict_to_nbt = CHOOSE f : f = [d \in Dicts |-> NbtBody(f, d)]
  BY DEF dict_to_nbt, NbtBody
<1> DEFINE g == [d \in Dicts |-> CHOOSE t \in Tags : nbt_to_dict[t] = d]
<1>2. \A t \in Tags : nbt_to_dict[t] \in Dicts /\ g[nbt_to_dict[t]] = t
  <2> TAKE t \in Tags
  <2>1. nbt_to_dict[t] \in Dicts
    BY DEF Dicts
  <2> DEFINE u == CHOOSE v \in Tags : nbt_to_dict[v] = nbt_to_dict[t]
  <2>2. u \in Tags /\ nbt_to_dict[u] = nbt_to_dict[t]
    OBVIOUS
  <2>3. g[nbt_to_dict[t]] = u
    BY <2>1
  <2> QED BY <2>1, <2>2, <2>3, DictInjective
<1> HIDE DEF g
<1>3. \A d \in Dicts : g[d] = NbtBody(g, d)
  <2> TAKE d \in Dicts
  <2>1. PICK t \in Tags : d = nbt_to_dict[t]
    BY DEF Dicts
  <2>2. NbtBody(g, nbt_to_dict[t]) = t
    BY <1>2, PartsAre, BodyInverts
  <2> QED BY <1>2, <2>1, <2>2
<1>4. g = [d \in Dicts |-> NbtBody(g, d)]
  <2>1. g = [d \in Dicts |-> g[d]]
    BY DEF g
  <2> QED BY <1>3, <2>1
<1>5. dict_to_nbt = [d \in Dicts |-> NbtBody(dict_to_nbt, d)]
  <2>1. \E e : e = [d \in Dicts |-> NbtBody(e, d)]
    BY <1>4
  <2> QED BY <1>1, <2>1
<1> QED BY <1>5

(* A tag that is saved as JSON and restored is the same tag, however deep  *)
(* it is.                                                                  *)
THEOREM RoundTrip == \A t \in Tags : dict_to_nbt[nbt_to_dict[t]] = t
<1> DEFINE T == {t \in Tags : dict_to_nbt[nbt_to_dict[t]] # t}
<1>1. SUFFICES ASSUME T # {}
               PROVE  FALSE
  OBVIOUS
<1>2. T \in SUBSET Tags
  OBVIOUS
<1>3. PICK t \in T : Parts(t) \cap T = {}
  BY <1>1, <1>2, TagAssumption
<1>4. t \in Tags /\ dict_to_nbt[nbt_to_dict[t]] # t
  OBVIOUS
<1>5. \A p \in Parts(t) : dict_to_nbt[nbt_to_dict[p]] = p
  BY <1>3, <1>4, PartsAre
<1> HIDE DEF T
<1>6. NbtBody(dict_to_nbt, nbt_to_dict[t]) = t
  BY <1>4, <1>5, BodyInverts
<1>7. nbt_to_dict[t] \in Dicts
  BY <1>4 DEF Dicts
<1> QED BY <1>4, <1>6, <1>7, NbtEquation

----------------------------------------------------------------------------
(* Lists.                                                                  *)

(* Nth enumerates a finite set of numbers: how many are smaller tells its  *)
(* elements apart, and so takes every value up to their number.            *)
LEMMA NthFacts ==
  ASSUME NEW S \in SUBSET Nat, IsFiniteSet(S)
  PROVE  /\ Cardinality(S) \in Nat
         /\ \A p \in 1 .. Cardinality(S) : Nth(S, p) \in S
         /\ \A p, q \in 1 .. Cardinality(S) : Nth(S, p) = Nth(S, q) => p = q
         /\ \A n \in S : \E p \in 1 .. Cardinality(S) : n = Nth(S, p)
<1> DEFINE Below(n) == {m \in S : m < n}
           c == Cardinality(S)
           place == [n \in S |-> Cardinality(Below(n)) + 1]
<1>1. c \in Nat
  BY FS_CardinalityType
<1>2. \A n \in S : /\ IsFiniteSet(Below(n)) /\ Cardinality(Below(n)) \in Nat
                   /\ Cardinality(Below(n)) < c
  <2> TAKE n \in S
  <2>1. Below(n) \in SUBSET S /\ Below(n) # S
    OBVIOUS
  <2>2. IsFiniteSet(Below(n)) /\ Cardinality(Below(n)) <= c /\ Cardinality(Below(n)) # c
    BY <2>1, FS_Subset
  <2>3. Cardinality(Below(n)) \in Nat
    BY <2>2, FS_CardinalityType
  <2> QED BY <1>1, <2>2, <2>3
<1>3. \A m, n \in S : m < n => Cardinality(Below(m)) < Cardinality(Below(n))
  <2> SUFFICES ASSUME NEW m \in S, NEW n \in S, m < n
               PROVE  Cardinality(Below(m)) < Cardinality(Below(n))
    OBVIOUS
  <2>0. m \in Nat /\ n \in Nat /\ \A x \in S : x \in Nat
    OBVIOUS
  <2>1. Below(m) \subseteq Below(n) /\ m \in Below(n) /\ m \notin Below(m)
    <3>1. \A x \in S : x < m => x < n
      BY <2>0
    <3>2. m \in Below(n) /\ m \notin Below(m)
      BY <2>0
    <3> QED BY <3>1, <3>2, Zenon
  <2>2. /\ Cardinality(Below(m)) <= Cardinality(Below(n))
        /\ Cardinality(Below(m)) # Cardinality(Below(n))
    BY <1>2, <2>1, FS_Subset
  <2> QED BY <1>2, <2>2
<1>4. place \in [S -> 1 .. c]
  <2> HIDE DEF c, Below
  <2> QED BY <1>1, <1>2
<1>5. \A m, n \in S : place[m] = place[n] => m = n
  <2> SUFFICES ASSUME NEW m \in S, NEW n \in S, m # n
               PROVE  place[m] # place[n]
    OBVIOUS
  <2>1. m < n \/ n < m
    OBVIOUS
  <2>2. Cardinality(Below(m)) # Cardinality(Below(n))
    BY <1>2, <1>3, <2>1
  <2> HIDE DEF Below
  <2> QED BY <1>2, <2>2
<1>6. place \in Surjection(S, 1 .. c)
  <2>1. place \in Injection(S, 1 .. c)
    BY <1>4, <1>5 DEF Injection, IsInjective
  <2>2. IsFiniteSet(1 .. c) /\ Cardinality(1 .. c) = c
    BY <1>1, FS_Interval
  <2> HIDE DEF place
  <2> QED BY <2>1, <2>2, FS_Injection
<1>7. \A p \in 1 .. c : \E n \in S : place[n] = p
  BY <1>6 DEF Surjection
<1>8. \A n \in S : place[n] = Cardinality(Below(n)) + 1 /\ Cardinality(Below(n)) \in Nat
  BY <1>2
<1> HIDE DEF place
<1>9. \A p \in 1 .. c : Nth(S, p) \in S /\ place[Nth(S, p)] = p
  <2> TAKE p \in 1 .. c
  <2>1. \E n \in S : Cardinality(Below(n)) = p - 1
    BY <1>1, <1>7, <1>8
  <2>2. Nth(S, p) \in S /\ Cardinality(Below(Nth(S, p))) = p - 1
    BY <2>1 DEF Nth
  <2>3. PICK n : n = Nth(S, p)
    OBVIOUS
  <2>4. n \in S /\ Cardinality(Below(n)) = p - 1
    BY <2>2, <2>3
  <2>5. place[n] = (p - 1) + 1
    BY <1>8, <2>4
  <2>6. (p - 1) + 1 = p
    BY <1>1
  <2> QED BY <2>3, <2>4, <2>5, <2>6
<1>10. \A n \in S : place[n] \in 1 .. c /\ n = Nth(S, place[n])
  BY <1>4, <1>5, <1>9
<1> QED BY <1>1, <1>9, <1>10

(* A part of a list has the elements at its places, each place once.       *)
LEMMA ChosenFacts ==
  ASSUME NEW X, NEW list \in Seq(X), NEW P \in SUBSET (1 .. Len(list))
  PROVE  /\ Chosen(list, P) \in Seq(X)
         /\ Records(Chosen(list, P)) = {list[n] : n \in P}
         /\ Once(list) => Once(Chosen(list, P))
         /\ P = {} => Chosen(list, P) = << >>
<1> DEFINE c == Cardinality(P)
<1>1. Len(list) \in Nat /\ P \in SUBSET Nat
  BY LenProperties
<1>2. IsFiniteSet(P)
  <2>1. IsFiniteSet(1 .. Len(list))
    BY <1>1, FS_Interval
  <2> QED BY <2>1, FS_Subset
<1>3. /\ c \in Nat /\ \A p \in 1 .. c : Nth(P, p) \in P
      /\ \A p, q \in 1 .. c : Nth(P, p) = Nth(P, q) => p = q
      /\ \A n \in P : \E p \in 1 .. c : n = Nth(P, p)
  BY <1>1, <1>2, NthFacts
<1>4. \A n \in P : list[n] \in X
  BY ElementOfSeq
<1>5. /\ Chosen(list, P) = [p \in 1 .. c |-> list[Nth(P, p)]]
      /\ Chosen(list, P) \in [1 .. c -> X]
  BY <1>3, <1>4 DEF Chosen
<1>6. Chosen(list, P) \in Seq(X)
  BY <1>3, <1>5, SeqDef
<1>7. Len(Chosen(list, P)) = c
  BY <1>3, <1>5, <1>6, LenProperties
<1> HIDE DEF c
<1>8. Records(Chosen(list, P)) = {list[n] : n \in P}
  <2>1. \A p \in 1 .. c : Chosen(list, P)[p] = list[Nth(P, p)]
    BY <1>5
  <2>2. Records(Chosen(list, P)) = {Chosen(list, P)[p] : p \in 1 .. c}
    BY <1>7 DEF Records
  <2>3. \A p \in 1 .. c : Chosen(list, P)[p] \in {list[n] : n \in P}
    BY <1>3, <2>1
  <2>4. \A n \in P : \E p \in 1 .. c : list[n] = Chosen(list, P)[p]
    BY <1>3, <2>1
  <2> QED BY <2>2, <2>3, <2>4, Zenon
<1>9. ASSUME Once(list)
      PROVE  Once(Chosen(list, P))
  <2> SUFFICES ASSUME NEW p \in 1 .. c, NEW q \in 1 .. c,
                      Chosen(list, P)[p].item = Chosen(list, P)[q].item
               PROVE  p = q
    BY <1>7 DEF Once
  <2>1. list[Nth(P, p)].item = list[Nth(P, q)].item
    BY <1>5
  <2>2. Nth(P, p) \in 1 .. Len(list) /\ Nth(P, q) \in 1 .. Len(list)
    BY <1>3
  <2>3. Nth(P, p) = Nth(P, q)
    BY <1>9, <2>1, <2>2 DEF Once
  <2> QED BY <1>3, <2>3
<1>10. ASSUME P = {}
       PROVE  Chosen(list, P) = << >>
  <2>1. c = 0
    BY <1>10, FS_EmptySet DEF c
  <2> QED BY <1>6, <1>7, <2>1, EmptySeq
<1> QED BY <1>6, <1>8, <1>9, <1>10

(* Two lists, one after the other, have the records of both; an item is    *)
(* once in them if it is once in each and in one only.                     *)
LEMMA ConcatFacts ==
  ASSUME NEW X, NEW a \in Seq(X), NEW b \in Seq(X)
  PROVE  /\ a \o b \in Seq(X)
         /\ Records(a \o b) = Records(a) \cup Records(b)
         /\ Once(a) /\ Once(b) /\ ItemsOf(a) \cap ItemsOf(b) = {} => Once(a \o b)
<1>1. /\ a \o b \in Seq(X) /\ Len(a \o b) = Len(a) + Len(b)
      /\ \A i \in 1 .. Len(a) + Len(b) :
           (a \o b)[i] = IF i <= Len(a) THEN a[i] ELSE b[i - Len(a)]
      /\ Len(a) \in Nat /\ Len(b) \in Nat
  BY ConcatProperties, LenProperties
<1>2. Records(a \o b) \subseteq Records(a) \cup Records(b)
  <2> SUFFICES ASSUME NEW i \in 1 .. Len(a) + Len(b)
               PROVE  (a \o b)[i] \in Records(a) \cup Records(b)
    BY <1>1 DEF Records
  <2>1. CASE i <= Len(a)
    BY <1>1, <2>1 DEF Records
  <2>2. CASE ~(i <= Len(a))
    <3>1. i - Len(a) \in 1 .. Len(b)
      BY <1>1, <2>2
    <3> QED BY <1>1, <2>2, <3>1 DEF Records
  <2> QED BY <2>1, <2>2
<1>3. Records(a) \subseteq Records(a \o b)
  <2> SUFFICES ASSUME NEW i \in 1 .. Len(a)
               PROVE  a[i] \in Records(a \o b)
    BY DEF Records
  <2>1. i \in 1 .. Len(a) + Len(b) /\ i <= Len(a)
    BY <1>1
  <2> QED BY <1>1, <2>1 DEF Records
<1>4. Records(b) \subseteq Records(a \o b)
  <2> SUFFICES ASSUME NEW i \in 1 .. Len(b)
               PROVE  b[i] \in Records(a \o b)
    BY DEF Records
  <2>1. /\ i + Len(a) \in 1 .. Len(a) + Len(b) /\ ~(i + Len(a) <= Len(a))
        /\ (i + Len(a)) - Len(a) = i
    BY <1>1
  <2>2. (a \o b)[i + Len(a)] = b[i]
    BY <1>1, <2>1
  <2> QED BY <1>1, <2>1, <2>2 DEF Records
<1>5. ASSUME Once(a), Once(b), ItemsOf(a) \cap ItemsOf(b) = {}
      PROVE  Once(a \o b)
  <2> SUFFICES ASSUME NEW i \in 1 .. Len(a) + Len(b), NEW j \in 1 .. Len(a) + Len(b),
                      (a \o b)[i].item = (a \o b)[j].item
               PROVE  i = j
    BY <1>1 DEF Once
  <2>1. \A m \in 1 .. Len(a), n \in 1 .. Len(b) : a[m].item # b[n].item
    BY <1>5 DEF ItemsOf, Records
  <2>2. CASE i <= Len(a) /\ j <= Len(a)
    <3>1. i \in 1 .. Len(a) /\ j \in 1 .. Len(a) /\ a[i].item = a[j].item
      BY <1>1, <2>2
    <3> QED BY <1>5, <3>1 DEF Once
  <2>3. CASE i <= Len(a) /\ ~(j <= Len(a))
    <3>1. i \in 1 .. Len(a) /\ j - Len(a) \in 1 .. Len(b) /\ a[i].item = b[j - Len(a)].item
      BY <1>1, <2>3
    <3> QED BY <2>1, <3>1
  <2>4. CASE ~(i <= Len(a)) /\ j <= Len(a)
    <3>1. j \in 1 .. Len(a) /\ i - Len(a) \in 1 .. Len(b) /\ a[j].item = b[i - Len(a)].item
      BY <1>1, <2>4
    <3> QED BY <2>1, <3>1
  <2>5. CASE ~(i <= Len(a)) /\ ~(j <= Len(a))
    <3>1. /\ i - Len(a) \in 1 .. Len(b) /\ j - Len(a) \in 1 .. Len(b)
          /\ b[i - Len(a)].item = b[j - Len(a)].item
      BY <1>1, <2>5
    <3>2. i - Len(a) = j - Len(a)
      BY <1>5, <3>1 DEF Once
    <3> QED BY <1>1, <3>2
  <2> QED BY <2>2, <2>3, <2>4, <2>5
<1> QED BY <1>1, <1>2, <1>3, <1>4, <1>5

----------------------------------------------------------------------------
(* Saving and restoring.                                                   *)

Occupied(inv) == {k \in Slots : inv[k] # None}

ItemsIn(inv) == {inv[k].item : k \in Occupied(inv)}

Distinct(inv) ==
  \A j, k \in Slots :
    inv[j] # None /\ inv[k] # None /\ inv[j].item = inv[k].item => j = k

Inventories == [Slots -> Stack \cup {None}]

(* A stack in a slot becomes a record of that slot.                        *)
LEMMA SerializeType ==
  ASSUME NEW inv \in Inventories, NEW k \in Occupied(inv)
  PROVE  /\ inv[k] \in Stack /\ serialize_item(k, inv[k]) \in Record
         /\ serialize_item(k, inv[k]).slot = k
         /\ serialize_item(k, inv[k]).item = inv[k].item
         /\ serialize_item(k, inv[k]).nbt = nbt_to_dict[inv[k].nbt]
<1>1. k \in Slots /\ inv[k] \in Stack
  BY DEF Occupied, Inventories
<1>2. inv[k].item \in Items /\ inv[k].nbt \in Tags
  BY <1>1 DEF Stack
<1>3. nbt_to_dict[inv[k].nbt] \in Dicts
  BY <1>2 DEF Dicts
<1> QED BY <1>1, <1>2, <1>3 DEF serialize_item, Record

(* The live records are those of the occupied slots, each slot once.       *)
LEMMA LiveRecordsFacts ==
  ASSUME NEW inv \in Inventories
  PROVE  /\ LiveRecords(inv) \in Seq(Record)
         /\ Records(LiveRecords(inv)) = {serialize_item(k, inv[k]) : k \in Occupied(inv)}
         /\ ItemsOf(LiveRecords(inv)) = ItemsIn(inv)
         /\ Distinct(inv) => Once(LiveRecords(inv))
<1> DEFINE S == Occupied(inv)
           c == Cardinality(S)
           R(k) == serialize_item(k, inv[k])
<1>1. S \in SUBSET Nat /\ IsFiniteSet(S)
  <2>1. IsFiniteSet(Slots) /\ Slots \in SUBSET Nat
    BY VaultAssumption, FS_Interval DEF Slots
  <2>2. S \in SUBSET Slots
    BY DEF Occupied
  <2> QED BY <2>1, <2>2, FS_Subset
<1>2. /\ c \in Nat /\ \A p \in 1 .. c : Nth(S, p) \in S
      /\ \A p, q \in 1 .. c : Nth(S, p) = Nth(S, q) => p = q
      /\ \A k \in S : \E p \in 1 .. c : k = Nth(S, p)
  BY <1>1, NthFacts
<1>3. \A k \in S : R(k) \in Record /\ R(k).item = inv[k].item
  BY SerializeType
<1>4. LiveRecords(inv) = [p \in 1 .. c |-> R(Nth(S, p))]
  BY DEF LiveRecords, Occupied
<1> HIDE DEF c, R, S
<1>5. LiveRecords(inv) \in [1 .. c -> Record]
  BY <1>2, <1>3, <1>4
<1>6. LiveRecords(inv) \in Seq(Record) /\ Len(LiveRecords(inv)) = c
  <2>1. LiveRecords(inv) \in Seq(Record)
    BY <1>2, <1>5, SeqDef
  <2> QED BY <1>2, <1>5, <2>1, LenProperties
<1>7. \A p \in 1 .. c : LiveRecords(inv)[p] = R(Nth(S, p))
  BY <1>4
<1>8. Records(LiveRecords(inv)) = {R(k) : k \in S}
  <2>1. Records(LiveRecords(inv)) = {LiveRecords(inv)[p] : p \in 1 .. c}
    BY <1>6 DEF Records
  <2>2. \A p \in 1 .. c : LiveRecords(inv)[p] \in {R(k) : k \in S}
    BY <1>2, <1>7
  <2>3. \A k \in S : \E p \in 1 .. c : R(k) = LiveRecords(inv)[p]
    BY <1>2, <1>7
  <2> QED BY <2>1, <2>2, <2>3, Zenon
<1>9. ItemsOf(LiveRecords(inv)) = {inv[k].item : k \in S}
  BY <1>3, <1>8 DEF ItemsOf
<1>10. ASSUME Distinct(inv)
       PROVE  Once(LiveRecords(inv))
  <2> SUFFICES ASSUME NEW p \in 1 .. c, NEW q \in 1 .. c,
                      LiveRecords(inv)[p].item = LiveRecords(inv)[q].item
               PROVE  p = q
    BY <1>6 DEF Once
  <2>1. inv[Nth(S, p)].item = inv[Nth(S, q)].item
    BY <1>2, <1>3, <1>7
  <2>2. \A k \in S : k \in Slots /\ inv[k] # None
    BY DEF S, Occupied
  <2>3. Nth(S, p) = Nth(S, q)
    BY <1>2, <1>10, <2>1, <2>2 DEF Distinct
  <2> QED BY <1>2, <2>3
<1> QED BY <1>6, <1>8, <1>9, <1>10 DEF S, R, ItemsIn

(* A save puts every stack and every vaulted record in the row, once: the  *)
(* free slots take their vaulted records, the rest stay vaulted.           *)
LEMMA SaveFacts ==
  ASSUME NEW inv \in Inventories, NEW vaulted \in Seq(Record),
         NEW r, r = SaveToRow(inv, vaulted)
  PROVE  /\ r.items \in Seq(Record) /\ r.vault \in Seq(Record)
         /\ Records(r.items) \cup Records(r.vault)
              = {serialize_item(k, inv[k]) : k \in Occupied(inv)} \cup Records(vaulted)
         /\ ItemsOf(r.items) \cup ItemsOf(r.vault) = ItemsIn(inv) \cup ItemsOf(vaulted)
         /\ Distinct(inv) /\ Once(vaulted) /\ ItemsIn(inv) \cap ItemsOf(vaulted) = {} =>
              /\ Once(r.items) /\ Once(r.vault)
              /\ ItemsOf(r.items) \cap ItemsOf(r.vault) = {}
<1> DEFINE all == 1 .. Len(vaulted)
           free == Free(inv, vaulted)
           merged == Chosen(vaulted, free)
           kept == Chosen(vaulted, all \ free)
           own == LiveRecords(inv)
<1>1. free \in SUBSET all /\ all \ free \in SUBSET all
  BY DEF Free
<1>2. /\ merged \in Seq(Record) /\ Records(merged) = {vaulted[n] : n \in free}
      /\ Once(vaulted) => Once(merged)
  BY <1>1, ChosenFacts
<1>3. /\ kept \in Seq(Record) /\ Records(kept) = {vaulted[n] : n \in all \ free}
      /\ Once(vaulted) => Once(kept)
  BY <1>1, ChosenFacts
<1>4. Records(vaulted) = {vaulted[n] : n \in all}
  BY DEF Records
<1>5. r.items = own \o merged /\ r.vault = kept
  BY DEF SaveToRow
<1> HIDE DEF merged, kept, own, free
<1>6. Records(merged) \cup Records(kept) = Records(vaulted)
  BY <1>1, <1>2, <1>3, <1>4
<1>7. /\ own \in Seq(Record)
      /\ Records(own) = {serialize_item(k, inv[k]) : k \in Occupied(inv)}
      /\ ItemsOf(own) = ItemsIn(inv)
      /\ Distinct(inv) => Once(own)
  BY LiveRecordsFacts DEF own
<1>8. /\ own \o merged \in Seq(Record)
      /\ Records(own \o merged) = Records(own) \cup Records(merged)
      /\ Once(own) /\ Once(merged) /\ ItemsOf(own) \cap ItemsOf(merged) = {}
         => Once(own \o merged)
  BY <1>2, <1>7, ConcatFacts
<1>9. ItemsOf(own \o merged) = ItemsOf(own) \cup ItemsOf(merged)
  BY <1>8 DEF ItemsOf
<1>10. ItemsOf(merged) \cup ItemsOf(kept) = ItemsOf(vaulted)
  BY <1>6 DEF ItemsOf
<1>11. ASSUME Once(vaulted)
       PROVE  ItemsOf(merged) \cap ItemsOf(kept) = {}
  <2>1. \A m \in free, n \in all \ free : vaulted[m].item # vaulted[n].item
    BY <1>1, <1>11 DEF Once
  <2> QED BY <1>2, <1>3, <2>1 DEF ItemsOf
<1> HIDE DEF all
<1>12. ASSUME Distinct(inv), Once(vaulted), ItemsIn(inv) \cap ItemsOf(vaulted) = {}
       PROVE  /\ Once(own \o merged) /\ Once(kept)
              /\ ItemsOf(own \o merged) \cap ItemsOf(kept) = {}
  <2>1. Once(own) /\ Once(merged) /\ Once(kept)
    BY <1>2, <1>3, <1>7, <1>12
  <2>2. /\ ItemsOf(own) \cap ItemsOf(merged) = {} /\ ItemsOf(own) \cap ItemsOf(kept) = {}
        /\ ItemsOf(merged) \cap ItemsOf(kept) = {}
    BY <1>7, <1>10, <1>11, <1>12
  <2>3. ItemsOf(own \o merged) \cap ItemsOf(kept) = {}
    BY <1>9, <2>2
  <2> QED BY <1>8, <2>1, <2>2, <2>3
<1>13. /\ Records(own \o merged) \cup Records(kept)
          = {serialize_item(k, inv[k]) : k \in Occupied(inv)} \cup Records(vaulted)
       /\ ItemsOf(own \o merged) \cup ItemsOf(kept) = ItemsIn(inv) \cup ItemsOf(vaulted)
  <2>1. Records(own \o merged) \cup Records(kept) = Records(own) \cup Records(vaulted)
    BY <1>6, <1>8
  <2>2. ItemsOf(own \o merged) \cup ItemsOf(kept) = ItemsOf(own) \cup ItemsOf(vaulted)
    BY <1>9, <1>10
  <2> QED BY <1>7, <2>1, <2>2
<1> QED BY <1>3, <1>5, <1>8, <1>12, <1>13, Zenon

(* A record is decoded to a stack of its item with its NBT, or not at all. *)
LEMMA DecodeFacts ==
  ASSUME NEW s \in Servers, NEW r \in Record, deserialize_item(s, r) # None
  PROVE  /\ deserialize_item(s, r) \in Stack
         /\ deserialize_item(s, r).item = r.item
         /\ nbt_to_dict[deserialize_item(s, r).nbt] = r.nbt
<1> DEFINE tag == ReadBack(s, r.item, dict_to_nbt[r.nbt])
<1>1. r.item \in Items /\ r.nbt \in Dicts
  BY DEF Record
<1>2. dict_to_nbt[r.nbt] \in Tags
  BY <1>1, RoundTrip DEF Dicts
<1>3. tag \in Tags
  BY <1>2, VaultAssumption DEF ReadBack
<1>4. deserialize_item(s, r) = [item |-> r.item, nbt |-> tag] /\ nbt_to_dict[tag] = r.nbt
  BY DEF deserialize_item
<1> HIDE DEF tag
<1> QED BY <1>1, <1>3, <1>4 DEF Stack

(* A stack is not an empty slot.                                           *)
LEMMA StackIsSome == None \notin Stack
BY VaultAssumption DEF Stack

(* A restore fills a slot with the last record decoded for it.             *)
LEMMA RestoredFacts ==
  ASSUME NEW s \in Servers, NEW list \in Seq(Record)
  PROVE  /\ Restored(s, list) \in Inventories
         /\ \A k \in Slots : Restored(s, list)[k] # None =>
              \E n \in Decoded(s, list) :
                /\ list[n].slot = k /\ Restored(s, list)[k].item = list[n].item
                /\ nbt_to_dict[Restored(s, list)[k].nbt] = list[n].nbt
         /\ \A n \in Decoded(s, list) :
              \E m \in Decoded(s, list) :
                /\ list[m].slot = list[n].slot /\ list[n].slot \in Slots
                /\ Restored(s, list)[list[n].slot] # None
                /\ Restored(s, list)[list[n].slot].item = list[m].item
<1> DEFINE D == Decoded(s, list)
           Hits(k) == {n \in D : list[n].slot = k}
           last(k) == Nth(Hits(k), Cardinality(Hits(k)))
<1>1. /\ Len(list) \in Nat /\ D \in SUBSET (1 .. Len(list))
      /\ \A n \in 1 .. Len(list) : list[n] \in Record
  BY LenProperties, ElementOfSeq DEF Decoded
<1>2. \A n \in D : /\ deserialize_item(s, list[n]) \in Stack
                   /\ deserialize_item(s, list[n]) # None
                   /\ deserialize_item(s, list[n]).item = list[n].item
                   /\ nbt_to_dict[deserialize_item(s, list[n]).nbt] = list[n].nbt
                   /\ list[n].slot \in Slots
  <2> TAKE n \in D
  <2>1. list[n] \in Record /\ deserialize_item(s, list[n]) # None
    BY <1>1 DEF Decoded
  <2>2. list[n].slot \in Slots
    BY <2>1 DEF Record
  <2> QED BY <2>1, <2>2, DecodeFacts
<1>3. ASSUME NEW k \in Slots, Hits(k) # {}
      PROVE  last(k) \in Hits(k)
  <2>1. Hits(k) \in SUBSET Nat
    BY <1>1
  <2>2. IsFiniteSet(Hits(k))
    <3>1. IsFiniteSet(1 .. Len(list))
      BY <1>1, FS_Interval
    <3>2. Hits(k) \in SUBSET (1 .. Len(list))
      BY <1>1
    <3> QED BY <3>1, <3>2, FS_Subset
  <2> DEFINE c == Cardinality(Hits(k))
  <2>3. c \in Nat /\ c # 0
    BY <1>3, <2>2, FS_CardinalityType, FS_EmptySet
  <2>4. c \in 1 .. c
    <3> HIDE DEF c
    <3> QED BY <2>3
  <2> HIDE DEF Hits
  <2> QED BY <2>1, <2>2, <2>4, NthFacts
<1>4. \A k \in Slots :
        Restored(s, list)[k] = IF Hits(k) = {} THEN None
                               ELSE deserialize_item(s, list[last(k)])
  BY DEF Restored
<1>5. Restored(s, list) = [k \in Slots |-> Restored(s, list)[k]]
  BY DEF Restored
<1> HIDE DEF last, D
<1>6. ASSUME NEW k \in Slots
      PROVE  /\ Restored(s, list)[k] \in Stack \cup {None}
             /\ Restored(s, list)[k] # None =>
                  \E n \in D :
                    /\ list[n].slot = k /\ Restored(s, list)[k].item = list[n].item
                    /\ nbt_to_dict[Restored(s, list)[k].nbt] = list[n].nbt
  <2>1. CASE Hits(k) = {}
    BY <1>4, <2>1
  <2>2. CASE Hits(k) # {}
    <3>1. last(k) \in D /\ list[last(k)].slot = k
      BY <1>3, <2>2
    <3>2. Restored(s, list)[k] = deserialize_item(s, list[last(k)])
      BY <1>4, <2>2
    <3> QED BY <1>2, <3>1, <3>2
  <2> QED BY <2>1, <2>2
<1>7. ASSUME NEW n \in D
      PROVE  \E m \in D :
               /\ list[m].slot = list[n].slot /\ list[n].slot \in Slots
               /\ Restored(s, list)[list[n].slot] # None
               /\ Restored(s, list)[list[n].slot].item = list[m].item
  <2>1. PICK k \in Slots : k = list[n].slot
    BY <1>2
  <2>2. Hits(k) # {}
    BY <2>1
  <2>3. last(k) \in D /\ list[last(k)].slot = k
    BY <1>3, <2>2
  <2>4. Restored(s, list)[k] = deserialize_item(s, list[last(k)])
    BY <1>4, <2>2
  <2> QED BY <1>2, <2>1, <2>3, <2>4
<1>8. Restored(s, list) \in Inventories
  BY <1>5, <1>6 DEF Inventories
<1> QED BY <1>6, <1>7, <1>8 DEF D

(* What it does not decode is unresolved.                                  *)
LEMMA UnresolvedFacts ==
  ASSUME NEW s \in Servers, NEW list \in Seq(Record)
  PROVE  /\ Unresolved(s, list) \in Seq(Record)
         /\ Records(Unresolved(s, list))
              = {list[n] : n \in (1 .. Len(list)) \ Decoded(s, list)}
         /\ Once(list) => Once(Unresolved(s, list))
<1>1. (1 .. Len(list)) \ Decoded(s, list) \in SUBSET (1 .. Len(list))
  OBVIOUS
<1> QED BY <1>1, ChosenFacts DEF Unresolved

(* An empty list has no records.                                           *)
LEMMA EmptyFacts ==
  << >> \in Seq(Record) /\ Records(<< >>) = {} /\ ItemsOf(<< >>) = {} /\ Once(<< >>)
BY EmptySeq DEF Records, ItemsOf, Once

----------------------------------------------------------------------------
(* The invariant, action by action.                                        *)

VaultsInv == TypeOK /\ VaultInv

Intact(list) == \A r \in Records(list) : r.nbt = nbt_to_dict[NbtOf[r.item]]

StacksIntact(inv) ==
  \A k \in Occupied(inv) : nbt_to_dict[inv[k].nbt] = nbt_to_dict[NbtOf[inv[k].item]]

(* AllIntact and the items of the slots, with the operators used here.     *)
LEMMA Restated ==
  /\ AllIntact <=> /\ Intact(row.items) /\ Intact(row.vault)
                   /\ \A s \in Servers : Intact(vault[s])
                   /\ StacksIntact(live)
  /\ LiveItems = ItemsIn(live)
  /\ (\A j, k \in Slots :
        live[j] # None /\ live[k] # None /\ live[j].item = live[k].item => j = k)
     <=> Distinct(live)
BY DEF AllIntact, Intact, StacksIntact, Occupied, LiveItems, ItemsIn, Distinct

(* The same after a step.                                                  *)
LEMMA RestatedNext ==
  /\ AllIntact' <=> /\ Intact(row'.items) /\ Intact(row'.vault)
                    /\ \A s \in Servers : Intact(vault'[s])
                    /\ StacksIntact(live')
  /\ LiveItems' = ItemsIn(live')
  /\ (\A j, k \in Slots :
        live'[j] # None /\ live'[k] # None /\ live'[j].item = live'[k].item => j = k)
     <=> Distinct(live')
BY DEF AllIntact, Intact, StacksIntact, Occupied, LiveItems, ItemsIn, Distinct

(* A save writes intact records if the stacks and the vault are intact.    *)
LEMMA SaveIntact ==
  ASSUME NEW inv \in Inventories, NEW vaulted \in Seq(Record),
         NEW r, r = SaveToRow(inv, vaulted), StacksIntact(inv), Intact(vaulted)
  PROVE  Intact(r.items) /\ Intact(r.vault)
<1>1. Records(r.items) \cup Records(r.vault)
      = {serialize_item(k, inv[k]) : k \in Occupied(inv)} \cup Records(vaulted)
  BY SaveFacts
<1>2. \A k \in Occupied(inv) :
        serialize_item(k, inv[k]).nbt = nbt_to_dict[NbtOf[serialize_item(k, inv[k]).item]]
  BY SerializeType DEF StacksIntact
<1> QED BY <1>1, <1>2 DEF Intact

(* VaultsInv holds when the player's items are put into slots.             *)
LEMMA InitVaults == Init => VaultsInv
<1> SUFFICES ASSUME Init
             PROVE  VaultsInv
  OBVIOUS
<1>1. PICK put \in [Items -> Slots] :
        /\ \A i, j \in Items : put[i] = put[j] => i = j
        /\ live = [k \in Slots |->
                     IF \E i \in Items : put[i] = k
                     THEN LET i == CHOOSE i \in Items : put[i] = k
                          IN  [item |-> i, nbt |-> NbtOf[i]]
                     ELSE None]
  BY DEF Init
<1>2. /\ vault = [s \in Servers |-> << >>] /\ row = SaveToRow(live, << >>) /\ here = None
      /\ codec \in [Servers -> Codec] /\ gone = {} /\ raised = FALSE
  BY DEF Init
<1>3. ASSUME NEW k \in Slots
      PROVE  \/ live[k] = None
             \/ \E i \in Items : put[i] = k /\ live[k] = [item |-> i, nbt |-> NbtOf[i]]
  <2>1. CASE \E i \in Items : put[i] = k
    <3> DEFINE i == CHOOSE i \in Items : put[i] = k
    <3>1. i \in Items /\ put[i] = k
      BY <2>1
    <3>2. live[k] = [item |-> i, nbt |-> NbtOf[i]]
      BY <1>1, <2>1
    <3> QED BY <3>1, <3>2
  <2>2. CASE ~\E i \in Items : put[i] = k
    BY <1>1, <2>2
  <2> QED BY <2>1, <2>2
<1>4. live \in Inventories
  <2>1. \A i \in Items : [item |-> i, nbt |-> NbtOf[i]] \in Stack
    BY VaultAssumption DEF Stack
  <2>2. \A k \in Slots : live[k] \in Stack \cup {None}
    BY <1>3, <2>1
  <2>3. live = [k \in Slots |-> live[k]]
    BY <1>1
  <2> QED BY <2>2, <2>3 DEF Inventories
<1>5. Distinct(live)
  <2> SUFFICES ASSUME NEW j \in Slots, NEW k \in Slots, live[j] # None, live[k] # None,
                      live[j].item = live[k].item
               PROVE  j = k
    BY DEF Distinct
  <2>1. PICK i \in Items : put[i] = j /\ live[j] = [item |-> i, nbt |-> NbtOf[i]]
    BY <1>3
  <2>2. PICK m \in Items : put[m] = k /\ live[k] = [item |-> m, nbt |-> NbtOf[m]]
    BY <1>3
  <2>3. i = m
    BY <2>1, <2>2
  <2> QED BY <2>1, <2>2, <2>3
<1>6. StacksIntact(live)
  <2> SUFFICES ASSUME NEW k \in Slots, live[k] # None
               PROVE  live[k].nbt = NbtOf[live[k].item]
    BY DEF StacksIntact, Occupied
  <2>1. PICK i \in Items : live[k] = [item |-> i, nbt |-> NbtOf[i]]
    BY <1>3
  <2> QED BY <2>1
<1>7. /\ row.items \in Seq(Record) /\ row.vault \in Seq(Record)
      /\ Once(row.items) /\ Once(row.vault) /\ ItemsOf(row.items) \cap ItemsOf(row.vault) = {}
  <2>1. ItemsIn(live) \cap ItemsOf(<< >>) = {}
    BY EmptyFacts
  <2> QED BY <1>2, <1>4, <1>5, <2>1, EmptyFacts, SaveFacts
<1>8. Intact(row.items) /\ Intact(row.vault) /\ Intact(<< >>)
  <2>1. Intact(<< >>)
    BY EmptyFacts DEF Intact
  <2> QED BY <1>2, <1>4, <1>6, <2>1, EmptyFacts, SaveIntact
<1>9. TypeOK
  <2>1. vault \in [Servers -> Seq(Record)]
    BY <1>2, EmptyFacts
  <2> QED BY <1>2, <1>4, <1>7, <2>1 DEF TypeOK, Inventories
<1>10. AllIntact
  <2>1. \A s \in Servers : Intact(vault[s])
    BY <1>2, <1>8
  <2> QED BY <1>6, <1>8, <2>1, Restated
<1>11. NoneMissing /\ NoneCopied
  BY <1>2, <1>7 DEF NoneMissing, NoneCopied
<1> QED BY <1>9, <1>10, <1>11 DEF VaultsInv, VaultInv

(* What the vault of a server is after a restore.                          *)
LEMMA LoadVault ==
  ASSUME VaultsInv, NEW s \in Servers, Load(s),
         NEW u, u = row.vault \o Unresolved(s, row.items)
  PROVE  /\ u \in Seq(Record)
         /\ Records(u) = Records(row.vault)
              \cup {row.items[n] : n \in (1 .. Len(row.items)) \ Decoded(s, row.items)}
         /\ vault' \in [Servers -> Seq(Record)]
         /\ \A q \in Servers \ {s} : vault'[q] = vault[q]
         /\ vault'[s] = u \/ (u = << >> /\ vault'[s] = vault[s])
<1>1. /\ row.items \in Seq(Record) /\ row.vault \in Seq(Record)
      /\ vault \in [Servers -> Seq(Record)]
  BY DEF VaultsInv, TypeOK
<1>2. /\ Unresolved(s, row.items) \in Seq(Record)
      /\ Records(Unresolved(s, row.items))
          = {row.items[n] : n \in (1 .. Len(row.items)) \ Decoded(s, row.items)}
  BY <1>1, UnresolvedFacts
<1>3. u \in Seq(Record) /\ Records(u) = Records(row.vault) \cup Records(Unresolved(s, row.items))
  BY <1>1, <1>2, ConcatFacts
<1>4. vault' = IF u = << >> THEN vault ELSE [vault EXCEPT ![s] = u]
  BY DEF Load
<1> QED BY <1>1, <1>2, <1>3, <1>4

(* A restore keeps types and NBT.                                          *)
LEMMA LoadKeeps ==
  ASSUME VaultsInv, NEW s \in Servers, Load(s)
  PROVE  TypeOK' /\ AllIntact'
<1>1. /\ live' = Restored(s, row.items) /\ here' = s
      /\ UNCHANGED <<row, codec, gone, raised>>
  BY DEF Load
<1>2. TypeOK /\ row.items \in Seq(Record) /\ row.vault \in Seq(Record)
  BY DEF VaultsInv, TypeOK
<1>3. /\ Intact(row.items) /\ Intact(row.vault)
      /\ \A q \in Servers : Intact(vault[q])
  BY Restated DEF VaultsInv, VaultInv
<1>4. live' \in Inventories
  BY <1>1, <1>2, RestoredFacts
<1>5. StacksIntact(live')
  <2> SUFFICES ASSUME NEW k \in Slots, live'[k] # None
               PROVE  nbt_to_dict[live'[k].nbt] = nbt_to_dict[NbtOf[live'[k].item]]
    BY DEF StacksIntact, Occupied
  <2>1. PICK n \in Decoded(s, row.items) :
          /\ live'[k].item = row.items[n].item
          /\ nbt_to_dict[live'[k].nbt] = row.items[n].nbt
    BY <1>1, <1>2, RestoredFacts
  <2>2. row.items[n] \in Records(row.items)
    BY DEF Decoded, Records
  <2> QED BY <1>3, <2>1, <2>2 DEF Intact
<1>6. PICK u : u = row.vault \o Unresolved(s, row.items)
  OBVIOUS
<1>7. \A r \in Records(u) : r \in Records(row.items) \cup Records(row.vault)
  <2>1. Records(u) = Records(row.vault)
          \cup {row.items[n] : n \in (1 .. Len(row.items)) \ Decoded(s, row.items)}
    BY <1>6, LoadVault
  <2>2. \A n \in 1 .. Len(row.items) : row.items[n] \in Records(row.items)
    BY DEF Records
  <2> QED BY <2>1, <2>2
<1>8. Intact(u)
  BY <1>3, <1>7 DEF Intact
<1>9. \A q \in Servers : Intact(vault'[q])
  BY <1>3, <1>6, <1>8, LoadVault
<1>10. TypeOK'
  BY <1>1, <1>2, <1>4, <1>6, LoadVault DEF TypeOK, Inventories
<1> QED BY <1>1, <1>3, <1>5, <1>9, <1>10, RestatedNext

(* After it every item of the row is in a slot or in the vault, unless it  *)
(* lost its slot to another record.                                        *)
LEMMA LoadMissesNone ==
  ASSUME VaultsInv, NEW s \in Servers, Load(s)
  PROVE  NoneMissing'
<1>1. /\ live' = Restored(s, row.items) /\ here' = s
      /\ UNCHANGED <<row, codec, gone, raised>>
  BY DEF Load
<1>2. row.items \in Seq(Record) /\ row.vault \in Seq(Record)
  BY DEF VaultsInv, TypeOK
<1>3. PICK u : u = row.vault \o Unresolved(s, row.items)
  OBVIOUS
<1>4. Records(u) \subseteq Records(vault'[s])
  BY <1>3, EmptyFacts, LoadVault
<1>5. ItemsOf(row.vault) \subseteq ItemsOf(vault'[s])
  BY <1>3, <1>4, LoadVault DEF ItemsOf
<1>6. ASSUME NEW n \in 1 .. Len(row.items)
      PROVE  row.items[n].item \in LiveItems' \cup ItemsOf(vault'[s]) \cup Contested
  <2>1. CASE n \notin Decoded(s, row.items)
    <3>1. Records(u) = Records(row.vault)
            \cup {row.items[m] : m \in (1 .. Len(row.items)) \ Decoded(s, row.items)}
      BY <1>3, LoadVault
    <3>2. row.items[n] \in Records(vault'[s])
      BY <1>4, <2>1, <3>1
    <3> QED BY <3>2 DEF ItemsOf
  <2>2. CASE n \in Decoded(s, row.items)
    <3>1. PICK m \in Decoded(s, row.items) :
            /\ row.items[m].slot = row.items[n].slot /\ row.items[n].slot \in Slots
            /\ live'[row.items[n].slot] # None
            /\ live'[row.items[n].slot].item = row.items[m].item
      BY <1>1, <1>2, <2>2, RestoredFacts
    <3>2. row.items[m].item \in LiveItems'
      BY <3>1 DEF LiveItems
    <3>3. m # n => row.items[n].item \in Contested
      BY <3>1 DEF Contested, Decoded
    <3> QED BY <3>2, <3>3
  <2> QED BY <2>1, <2>2
<1>7. ItemsOf(row.items) \subseteq LiveItems' \cup ItemsOf(vault'[s]) \cup Contested
  BY <1>6 DEF ItemsOf, Records
<1>8. Contested' = Contested /\ RowItems' = RowItems
  BY <1>1 DEF Contested, RowItems
<1> QED BY <1>1, <1>5, <1>7, <1>8 DEF NoneMissing, RowItems

(* And none is there twice.                                                *)
LEMMA LoadCopiesNone ==
  ASSUME VaultsInv, NoneCopied, NEW s \in Servers, Load(s)
  PROVE  NoneCopied'
<1>1. /\ live' = Restored(s, row.items) /\ here' = s /\ here = None
      /\ UNCHANGED <<row, codec, gone, raised>>
  BY DEF Load
<1>2. row.items \in Seq(Record) /\ row.vault \in Seq(Record)
  BY DEF VaultsInv, TypeOK
<1>3. PICK u : u = row.vault \o Unresolved(s, row.items)
  OBVIOUS
<1>4. /\ Once(row.items) /\ Once(row.vault) /\ ItemsOf(row.items) \cap ItemsOf(row.vault) = {}
      /\ \A q \in Servers : vault[q] = << >>
  BY <1>1, VaultAssumption DEF NoneCopied
<1>5. vault'[s] = u /\ \A q \in Servers \ {s} : vault'[q] = << >>
  BY <1>3, <1>4, LoadVault
<1> DEFINE rest == Unresolved(s, row.items)
<1>6. /\ rest \in Seq(Record) /\ Once(rest)
      /\ Records(rest)
          = {row.items[n] : n \in (1 .. Len(row.items)) \ Decoded(s, row.items)}
  BY <1>2, <1>4, UnresolvedFacts
<1> HIDE DEF rest
<1>7. ItemsOf(rest) \subseteq ItemsOf(row.items)
  BY <1>6 DEF ItemsOf, Records
<1>8. Once(u) /\ ItemsOf(u) = ItemsOf(row.vault) \cup ItemsOf(rest)
  <2>1. u = row.vault \o rest /\ ItemsOf(row.vault) \cap ItemsOf(rest) = {}
    BY <1>3, <1>4, <1>7 DEF rest
  <2>2. Once(u) /\ Records(u) = Records(row.vault) \cup Records(rest)
    BY <1>2, <1>4, <1>6, <2>1, ConcatFacts
  <2> QED BY <2>2 DEF ItemsOf
<1>9. \A k \in Slots : live'[k] # None =>
        \E n \in Decoded(s, row.items) :
          row.items[n].slot = k /\ live'[k].item = row.items[n].item
  BY <1>1, <1>2, RestoredFacts
<1>10. Decoded(s, row.items) \subseteq 1 .. Len(row.items)
  BY DEF Decoded
<1>11. Distinct(live')
  <2> SUFFICES ASSUME NEW j \in Slots, NEW k \in Slots, live'[j] # None, live'[k] # None,
                      live'[j].item = live'[k].item
               PROVE  j = k
    BY DEF Distinct
  <2>1. PICK m \in Decoded(s, row.items) :
          row.items[m].slot = j /\ live'[j].item = row.items[m].item
    BY <1>9
  <2>2. PICK n \in Decoded(s, row.items) :
          row.items[n].slot = k /\ live'[k].item = row.items[n].item
    BY <1>9
  <2>3. m = n
    BY <1>4, <1>10, <2>1, <2>2 DEF Once
  <2> QED BY <2>1, <2>2, <2>3
<1>12. ASSUME NEW k \in Slots, live'[k] # None
       PROVE  live'[k].item \in ItemsOf(row.items) /\ live'[k].item \notin ItemsOf(u)
  <2>1. PICK n \in Decoded(s, row.items) : live'[k].item = row.items[n].item
    BY <1>9, <1>12
  <2>2. row.items[n].item \in ItemsOf(row.items)
    BY <1>10 DEF ItemsOf, Records
  <2>3. row.items[n].item \notin ItemsOf(rest)
    <3>1. \A m \in (1 .. Len(row.items)) \ Decoded(s, row.items) :
            row.items[m].item # row.items[n].item
      BY <1>4, <1>10 DEF Once
    <3> QED BY <1>6, <3>1 DEF ItemsOf
  <2> QED BY <1>4, <1>8, <2>1, <2>2, <2>3
<1>13. LiveItems' \subseteq ItemsOf(row.items) /\ LiveItems' \cap ItemsOf(u) = {}
  BY <1>12, RestatedNext DEF ItemsIn, Occupied
<1>14. LiveItems' \cup ItemsOf(u) \subseteq RowItems
  BY <1>7, <1>8, <1>13 DEF RowItems
<1>15. vault'[here'] = u /\ row' = row /\ RowItems' = RowItems
  BY <1>1, <1>5 DEF RowItems
<1> QED
  BY <1>1, <1>4, <1>5, <1>8, <1>11, <1>13, <1>14, <1>15, RestatedNext DEF NoneCopied

(* A save writes the items of the slots and the vault to the row, none     *)
(* twice and none altered.                                                 *)
LEMMA SaveWrites ==
  ASSUME VaultsInv, here # None, row' = SaveToRow(live, vault[here])
  PROVE  /\ row'.items \in Seq(Record) /\ row'.vault \in Seq(Record)
         /\ Intact(row'.items) /\ Intact(row'.vault)
         /\ RowItems' = LiveItems \cup ItemsOf(vault[here])
         /\ NoneCopied => /\ Once(row'.items) /\ Once(row'.vault)
                          /\ ItemsOf(row'.items) \cap ItemsOf(row'.vault) = {}
<1>1. live \in Inventories /\ here \in Servers /\ vault[here] \in Seq(Record)
  BY DEF VaultsInv, TypeOK, Inventories
<1>2. StacksIntact(live) /\ Intact(vault[here])
  BY <1>1, Restated DEF VaultsInv, VaultInv
<1>3. Intact(row'.items) /\ Intact(row'.vault)
  BY <1>1, <1>2, SaveIntact
<1>4. RowItems' = ItemsOf(row'.items) \cup ItemsOf(row'.vault)
  BY DEF RowItems
<1>5. NoneCopied => /\ Distinct(live) /\ Once(vault[here])
                   /\ ItemsIn(live) \cap ItemsOf(vault[here]) = {}
  BY Restated DEF NoneCopied
<1>6. ItemsOf(row'.items) \cup ItemsOf(row'.vault) = LiveItems \cup ItemsOf(vault[here])
  BY <1>1, Restated, SaveFacts
<1> QED BY <1>1, <1>3, <1>4, <1>5, <1>6, SaveFacts

(* Saves, with the player staying or leaving.                              *)
LEMMA SaveStep ==
  ASSUME VaultsInv, Save \/ Leave
  PROVE  VaultsInv'
<1>1. /\ here # None /\ row' = SaveToRow(live, vault[here])
      /\ UNCHANGED <<live, codec, gone, raised>>
  BY DEF Save, Leave
<1>2. TypeOK /\ here \in Servers /\ vault \in [Servers -> Seq(Record)]
  BY <1>1 DEF VaultsInv, TypeOK
<1>3. /\ row'.items \in Seq(Record) /\ row'.vault \in Seq(Record)
      /\ Intact(row'.items) /\ Intact(row'.vault)
      /\ RowItems' = LiveItems \cup ItemsOf(vault[here])
      /\ NoneCopied => /\ Once(row'.items) /\ Once(row'.vault)
                       /\ ItemsOf(row'.items) \cap ItemsOf(row'.vault) = {}
  BY <1>1, SaveWrites
<1>4. LiveItems' = LiveItems
  BY <1>1 DEF LiveItems
<1>5. StacksIntact(live) /\ \A s \in Servers : Intact(vault[s])
  BY Restated DEF VaultsInv, VaultInv
<1>6. CASE Save
  <2>1. UNCHANGED <<vault, here>>
    BY <1>6 DEF Save
  <2>2. TypeOK'
    BY <1>1, <1>2, <1>3, <2>1 DEF TypeOK
  <2>3. AllIntact'
    BY <1>1, <1>3, <1>5, <2>1, RestatedNext
  <2>4. NoneMissing'
    BY <1>3, <1>4, <2>1 DEF NoneMissing
  <2>5. NoneCopied => NoneCopied'
    BY <1>1, <1>3, <1>4, <2>1 DEF NoneCopied
  <2> QED BY <1>1, <2>2, <2>3, <2>4, <2>5 DEF VaultsInv, VaultInv
<1>7. CASE Leave
  <2>1. here' = None /\ vault' = [vault EXCEPT ![here] = << >>]
    BY <1>7 DEF Leave
  <2>2. vault' \in [Servers -> Seq(Record)]
    BY <1>2, <2>1, EmptyFacts
  <2>3. TypeOK'
    BY <1>1, <1>2, <1>3, <2>1, <2>2 DEF TypeOK
  <2>4. \A s \in Servers : Intact(vault'[s])
    BY <1>2, <1>5, <2>1, EmptyFacts DEF Intact
  <2>5. AllIntact'
    BY <1>1, <1>3, <1>5, <2>4, RestatedNext
  <2>6. NoneCopied => NoneCopied'
    BY <1>2, <1>3, <2>1 DEF NoneCopied
  <2> QED BY <1>1, <2>1, <2>3, <2>5, <2>6 DEF VaultsInv, VaultInv, NoneMissing
<1> QED BY <1>6, <1>7

(* An exception in the quit handler, and a restart of a server.            *)
LEMMA DropStep ==
  ASSUME VaultsInv, LeaveRaising \/ \E s \in Servers : Restart(s)
  PROVE  VaultsInv'
<1>0. /\ TypeOK /\ vault \in [Servers -> Seq(Record)]
      /\ Intact(row.items) /\ Intact(row.vault)
      /\ StacksIntact(live) /\ \A s \in Servers : Intact(vault[s])
  BY Restated DEF VaultsInv, VaultInv, TypeOK
<1>1. CASE LeaveRaising
  <2>1. here' = None /\ raised' /\ raised' \in BOOLEAN /\ UNCHANGED <<live, vault, row, codec, gone>>
    BY <1>1 DEF LeaveRaising
  <2>2. TypeOK'
    BY <1>0, <2>1 DEF TypeOK
  <2>3. AllIntact'
    BY <1>0, <2>1, RestatedNext
  <2> QED BY <2>1, <2>2, <2>3 DEF VaultsInv, VaultInv, NoneMissing
<1>2. ASSUME NEW s \in Servers, Restart(s)
      PROVE  VaultsInv'
  <2>1. PICK c \in Codec :
          /\ here' = IF here = s THEN None ELSE here
          /\ vault' = [vault EXCEPT ![s] = << >>] /\ codec' = [codec EXCEPT ![s] = c]
          /\ UNCHANGED <<live, row, gone, raised>>
    BY <1>2 DEF Restart
  <2>2. /\ vault' \in [Servers -> Seq(Record)] /\ vault'[s] = << >>
        /\ \A q \in Servers \ {s} : vault'[q] = vault[q]
    BY <1>0, <2>1, EmptyFacts
  <2>3. TypeOK'
    <3>1. codec' \in [Servers -> Codec]
      BY <1>0, <2>1 DEF TypeOK
    <3> QED BY <1>0, <2>1, <2>2, <3>1 DEF TypeOK
  <2>4. \A q \in Servers : Intact(vault'[q])
    BY <1>0, <2>2, EmptyFacts DEF Intact
  <2>5. AllIntact'
    BY <1>0, <2>1, <2>4, RestatedNext
  <2>6. /\ LiveItems' = LiveItems /\ RowItems' = RowItems /\ Contested' = Contested
        /\ here' # None => /\ here' = here /\ here # s /\ here \in Servers
                           /\ vault'[here] = vault[here]
    BY <1>0, <2>1, <2>2 DEF LiveItems, RowItems, Contested, TypeOK
  <2>7. NoneMissing'
    BY <2>1, <2>6 DEF VaultsInv, VaultInv, NoneMissing
  <2>8. NoneCopied => NoneCopied'
    <3> SUFFICES ASSUME NoneCopied
                 PROVE  NoneCopied'
      OBVIOUS
    <3>1. \A q \in Servers \ {here'} : vault'[q] = << >>
      BY <2>1, <2>2 DEF NoneCopied
    <3> QED BY <2>1, <2>6, <3>1 DEF NoneCopied
  <2> QED BY <2>1, <2>3, <2>5, <2>7, <2>8 DEF VaultsInv, VaultInv
<1> QED BY <1>1, <1>2

(* Moves and gifts: a stack that moves is still in a slot, one that is     *)
(* given away is counted as gone.                                          *)
LEMMA PlayStep ==
  ASSUME VaultsInv,
         (\E j, k \in Slots : Move(j, k)) \/ (\E k \in Slots : GiveAway(k))
  PROVE  VaultsInv'
<1>0. /\ TypeOK /\ live \in Inventories /\ NoneMissing /\ here # None
      /\ Intact(row.items) /\ Intact(row.vault)
      /\ StacksIntact(live) /\ \A s \in Servers : Intact(vault[s])
      /\ UNCHANGED <<vault, row, here, codec, raised>>
  BY Restated DEF VaultsInv, VaultInv, TypeOK, Inventories, Move, GiveAway
<1>1. RowItems' = RowItems /\ Contested' = Contested
  BY <1>0 DEF RowItems, Contested
<1>2. SUFFICES /\ live' \in Inventories /\ StacksIntact(live')
               /\ gone' \subseteq Items /\ gone \subseteq gone'
               /\ ItemsIn(live') \subseteq ItemsIn(live)
               /\ ItemsIn(live) \subseteq ItemsIn(live') \cup gone'
               /\ Distinct(live) => Distinct(live')
  <2>1. TypeOK'
    BY <1>0, <1>2 DEF TypeOK, Inventories
  <2>2. AllIntact'
    BY <1>0, <1>2, RestatedNext
  <2>3. NoneMissing'
    BY <1>0, <1>1, <1>2, Restated, RestatedNext DEF NoneMissing
  <2>4. NoneCopied => NoneCopied'
    BY <1>0, <1>1, <1>2, Restated, RestatedNext DEF NoneCopied
  <2> QED BY <1>0, <2>1, <2>2, <2>3, <2>4 DEF VaultsInv, VaultInv
<1>3. ASSUME NEW j \in Slots, NEW k \in Slots, Move(j, k)
      PROVE  /\ live' \in Inventories /\ StacksIntact(live')
             /\ gone' \subseteq Items /\ gone \subseteq gone'
             /\ ItemsIn(live') \subseteq ItemsIn(live)
             /\ ItemsIn(live) \subseteq ItemsIn(live') \cup gone'
             /\ Distinct(live) => Distinct(live')
  <2>1. /\ live[j] # None /\ live[k] = None /\ j # k /\ gone' = gone
        /\ live' = [live EXCEPT ![j] = None, ![k] = live[j]]
    BY <1>3 DEF Move
  <2>2. /\ live' \in Inventories /\ live'[j] = None /\ live'[k] = live[j]
        /\ \A i \in Slots \ {j, k} : live'[i] = live[i]
    BY <1>0, <2>1 DEF Inventories
  <2>3. /\ Occupied(live') = (Occupied(live) \ {j}) \cup {k}
        /\ j \in Occupied(live) /\ k \notin Occupied(live)
    BY <2>1, <2>2 DEF Occupied
  <2>4. ItemsIn(live') \subseteq ItemsIn(live)
    BY <2>2, <2>3 DEF ItemsIn, Occupied
  <2>5. ItemsIn(live) \subseteq ItemsIn(live')
    <3> SUFFICES ASSUME NEW i \in Occupied(live)
                 PROVE  live[i].item \in ItemsIn(live')
      BY DEF ItemsIn
    <3>1. CASE i = j
      BY <2>2, <2>3, <3>1 DEF ItemsIn
    <3>2. CASE i # j
      <4>1. i \in Occupied(live') /\ live'[i] = live[i]
        BY <2>2, <2>3, <3>2 DEF Occupied
      <4> QED BY <4>1 DEF ItemsIn
    <3> QED BY <3>1, <3>2
  <2>6. StacksIntact(live')
    BY <1>0, <2>2, <2>3 DEF StacksIntact, Occupied
  <2>7. Distinct(live) => Distinct(live')
    BY <2>1, <2>2 DEF Distinct
  <2> QED BY <1>0, <2>1, <2>2, <2>4, <2>5, <2>6, <2>7 DEF TypeOK
<1>4. ASSUME NEW k \in Slots, GiveAway(k)
      PROVE  /\ live' \in Inventories /\ StacksIntact(live')
             /\ gone' \subseteq Items /\ gone \subseteq gone'
             /\ ItemsIn(live') \subseteq ItemsIn(live)
             /\ ItemsIn(live) \subseteq ItemsIn(live') \cup gone'
             /\ Distinct(live) => Distinct(live')
  <2>1. /\ live[k] # None /\ gone' = gone \cup {live[k].item}
        /\ live' = [live EXCEPT ![k] = None]
    BY <1>4 DEF GiveAway
  <2>2. /\ live' \in Inventories /\ live'[k] = None
        /\ \A i \in Slots \ {k} : live'[i] = live[i]
    BY <1>0, <2>1 DEF Inventories
  <2>3. Occupied(live') = Occupied(live) \ {k} /\ k \in Occupied(live)
    BY <2>1, <2>2 DEF Occupied
  <2>4. live[k].item \in Items
    BY <1>0, <2>3, SerializeType DEF Stack
  <2>5. gone' \subseteq Items
    BY <1>0, <2>1, <2>4 DEF TypeOK
  <2>6. \A i \in Occupied(live') : live'[i] = live[i] /\ i \in Occupied(live)
    BY <2>2, <2>3 DEF Occupied
  <2>7. ItemsIn(live') \subseteq ItemsIn(live)
    BY <2>6 DEF ItemsIn
  <2>8. ItemsIn(live) \subseteq ItemsIn(live') \cup gone'
    BY <2>1, <2>3, <2>6 DEF ItemsIn
  <2>9. StacksIntact(live')
    BY <1>0, <2>6 DEF StacksIntact
  <2>10. Distinct(live) => Distinct(live')
    BY <2>2 DEF Distinct
  <2> QED BY <2>1, <2>2, <2>5, <2>7, <2>8, <2>9, <2>10
<1> QED BY <1>3, <1>4

----------------------------------------------------------------------------
(* Slots, vaults and row agree on the player's items, whatever the servers *)
(* can decode.                                                             *)
THEOREM VaultsInvariant == Spec => [](TypeOK /\ VaultInv)
<1>1. Init => VaultsInv
  BY InitVaults
<1>2. VaultsInv /\ [Next]_vars => VaultsInv'
  <2> SUFFICES ASSUME VaultsInv, [Next]_vars
               PROVE  VaultsInv'
    OBVIOUS
  <2>1. ASSUME NEW s \in Servers, Load(s)
        PROVE  VaultsInv'
    <3>1. raised' = raised
      BY <2>1 DEF Load
    <3> QED
      BY <2>1, <3>1, LoadKeeps, LoadMissesNone, LoadCopiesNone DEF VaultsInv, VaultInv
  <2>2. CASE UNCHANGED vars
    <3>1. UNCHANGED <<live, vault, row, here, codec, gone, raised>>
      BY <2>2 DEF vars
    <3>2. TypeOK' /\ AllIntact'
      BY <3>1 DEF VaultsInv, VaultInv, TypeOK, AllIntact
    <3>3. NoneMissing'
      BY <3>1 DEF VaultsInv, VaultInv, NoneMissing, RowItems, LiveItems, Contested
    <3>4. NoneCopied => NoneCopied'
      BY <3>1 DEF NoneCopied, RowItems, LiveItems
    <3> QED BY <3>1, <3>2, <3>3, <3>4 DEF VaultsInv, VaultInv
  <2> QED BY <2>1, <2>2, SaveStep, DropStep, PlayStep DEF Next
<1>3. VaultsInv => TypeOK /\ VaultInv
  BY DEF VaultsInv
<1> QED BY <1>1, <1>2, <1>3, PTL DEF Spec

(* Type correctness of the vault: what a server restores is a stack with a *)
(* tag, and what it saves is a record, for tags of any depth.              *)
THEOREM TypeCorrect == Spec => []TypeOK
<1> QED BY VaultsInvariant, PTL

(* No server's losses reach the shared row: a saved item has the NBT it    *)
(* always had.                                                             *)
THEOREM Intactness == Spec => []SavedIntact
<1>1. TypeOK /\ VaultInv => SavedIntact
  <2> SUFFICES ASSUME TypeOK, VaultInv,
                      NEW n \in 1 .. Len(row.items \o row.vault)
               PROVE  (row.items \o row.vault)[n].nbt
                      = nbt_to_dict[NbtOf[(row.items \o row.vault)[n].item]]
    BY DEF SavedIntact
  <2>1. Records(row.items \o row.vault) = Records(row.items) \cup Records(row.vault)
    BY ConcatFacts DEF TypeOK
  <2>2. (row.items \o row.vault)[n] \in Records(row.items) \cup Records(row.vault)
    BY <2>1 DEF Records
  <2> QED BY <2>2 DEF VaultInv, AllIntact
<1> QED BY <1>1, VaultsInvariant, PTL

(* How often an item is in a list that has it once at most.                *)
LEMMA CopiesOf ==
  ASSUME NEW i, NEW list \in Seq(Record)
  PROVE  /\ Copies(i, list) \in Nat
         /\ Copies(i, list) = 0 <=> i \notin ItemsOf(list)
         /\ Once(list) => Copies(i, list) <= 1
<1> DEFINE P == {n \in 1 .. Len(list) : list[n].item = i}
<1>1. IsFiniteSet(P)
  <2>1. IsFiniteSet(1 .. Len(list))
    BY LenProperties, FS_Interval
  <2>2. P \in SUBSET (1 .. Len(list))
    OBVIOUS
  <2> QED BY <2>1, <2>2, FS_Subset
<1>2. Cardinality(P) \in Nat /\ (Cardinality(P) = 0 <=> P = {})
  BY <1>1, FS_CardinalityType, FS_EmptySet
<1>3. P = {} <=> i \notin ItemsOf(list)
  BY DEF ItemsOf, Records
<1>4. ASSUME Once(list)
      PROVE  Cardinality(P) <= 1
  <2>1. CASE P = {}
    BY <1>2, <2>1
  <2>2. CASE P # {}
    <3>1. PICK n \in P : TRUE
      BY <2>2
    <3>2. P = {n}
      BY <1>4, <3>1 DEF Once
    <3>3. Cardinality({n}) = 1
      BY FS_Singleton
    <3> HIDE DEF P
    <3> QED BY <3>2, <3>3
  <2> QED BY <2>1, <2>2
<1>5. Copies(i, list) = Cardinality(P)
  BY DEF Copies
<1> HIDE DEF P
<1> QED BY <1>2, <1>3, <1>4, <1>5

(* The row holds an item iff it is saved in one of its lists.              *)
LEMMA SavedIffHeld ==
  ASSUME NEW i, NEW r, r.items \in Seq(Record), r.vault \in Seq(Record)
  PROVE  /\ Saved(i, r) = 0 <=> i \notin ItemsOf(r.items) \cup ItemsOf(r.vault)
         /\ Saved(i, r) > 0 <=> i \in ItemsOf(r.items) \cup ItemsOf(r.vault)
<1>1. Copies(i, r.items) \in Nat /\ Copies(i, r.vault) \in Nat
  BY CopiesOf
<1>2. /\ Copies(i, r.items) = 0 <=> i \notin ItemsOf(r.items)
      /\ Copies(i, r.vault) = 0 <=> i \notin ItemsOf(r.vault)
  BY CopiesOf
<1>3. /\ Saved(i, r) = 0 <=> Copies(i, r.items) = 0 /\ Copies(i, r.vault) = 0
      /\ Saved(i, r) > 0 <=> ~(Copies(i, r.items) = 0 /\ Copies(i, r.vault) = 0)
  BY <1>1 DEF Saved
<1> QED BY <1>2, <1>3

(* No item is ever saved twice, although the vault in memory keeps what it *)
(* merged into the row, as long as no quit handler raises.                 *)
THEOREM NeverDuplicated == Spec => []NoDuplicate
<1>1. TypeOK /\ VaultInv => NoDuplicate
  <2> SUFFICES ASSUME TypeOK, VaultInv, ~raised, NEW i \in Items
               PROVE  Saved(i, row) <= 1
    BY DEF NoDuplicate
  <2>1. /\ Once(row.items) /\ Once(row.vault)
        /\ ItemsOf(row.items) \cap ItemsOf(row.vault) = {}
    BY DEF VaultInv, NoneCopied
  <2>2. /\ Copies(i, row.items) \in Nat /\ Copies(i, row.items) <= 1
        /\ Copies(i, row.vault) \in Nat /\ Copies(i, row.vault) <= 1
        /\ Copies(i, row.items) = 0 <=> i \notin ItemsOf(row.items)
        /\ Copies(i, row.vault) = 0 <=> i \notin ItemsOf(row.vault)
    BY <2>1, CopiesOf DEF TypeOK
  <2>3. Copies(i, row.items) = 0 \/ Copies(i, row.vault) = 0
    BY <2>1, <2>2
  <2> QED BY <2>2, <2>3 DEF Saved
<1> QED BY <1>1, VaultsInvariant, PTL

(* The row changes by a save only.                                         *)
LEMMA RowChanges ==
  ASSUME [Next]_vars, row' # row
  PROVE  here # None /\ row' = SaveToRow(live, vault[here]) /\ raised' = raised
BY DEF Next, vars, Load, Save, Leave, LeaveRaising, Restart, Move, GiveAway

(* Before and after a step the row is made of records, and after a change  *)
(* it has the items of the slots and the vault.                            *)
LEMMA RowStep ==
  ASSUME TypeOK, VaultInv, [Next]_vars, row' # row
  PROVE  /\ here # None
         /\ row.items \in Seq(Record) /\ row.vault \in Seq(Record)
         /\ row'.items \in Seq(Record) /\ row'.vault \in Seq(Record)
         /\ ItemsOf(row'.items) \cup ItemsOf(row'.vault)
              = LiveItems \cup ItemsOf(vault[here])
<1>1. VaultsInv /\ here # None /\ row' = SaveToRow(live, vault[here])
  BY RowChanges DEF VaultsInv
<1>2. RowItems' = ItemsOf(row'.items) \cup ItemsOf(row'.vault)
  BY DEF RowItems
<1>3. row.items \in Seq(Record) /\ row.vault \in Seq(Record)
  BY DEF TypeOK
<1> QED BY <1>1, <1>2, <1>3, SaveWrites

(* What a server cannot decode is never lost for that: an item leaves the  *)
(* row only if it was given away or the row listed another for its slot.   *)
THEOREM OnlyContestedLost == Spec => LostOnlyIfContested
<1>1. ASSUME TypeOK, VaultInv, [Next]_vars, NEW i \in Items,
             Saved(i, row) > 0, Saved(i, row') = 0
      PROVE  i \in gone \cup Contested
  <2>1. row' # row
    <3>1. row.items \in Seq(Record) /\ row.vault \in Seq(Record)
      BY <1>1 DEF TypeOK
    <3> QED BY <1>1, <3>1, SavedIffHeld
  <2>2. i \in RowItems /\ i \notin LiveItems \cup ItemsOf(vault[here]) /\ here # None
    BY <1>1, <2>1, RowStep, SavedIffHeld DEF RowItems
  <2> QED BY <1>1, <2>2 DEF VaultInv, NoneMissing
<1>2. TypeOK /\ VaultInv /\ [Next]_vars =>
        [\A i \in Items : Saved(i, row) > 0 /\ Saved(i, row') = 0 =>
           i \in gone \cup Contested]_vars
  BY <1>1
<1> QED BY <1>2, VaultsInvariant, PTL DEF Spec, LostOnlyIfContested

(* Nothing returns to the row that left it: the vaults of other servers    *)
(* are empty, and the one here has only what the row has.                  *)
THEOREM NothingComesBack == Spec => NothingReturns
<1>1. ASSUME TypeOK, VaultInv, [Next]_vars, NEW i \in Items,
             Saved(i, row) = 0, Saved(i, row') > 0
      PROVE  raised
  <2>1. row' # row
    <3>1. row.items \in Seq(Record) /\ row.vault \in Seq(Record)
      BY <1>1 DEF TypeOK
    <3> QED BY <1>1, <3>1, SavedIffHeld
  <2>2. i \notin RowItems /\ i \in LiveItems \cup ItemsOf(vault[here]) /\ here # None
    BY <1>1, <2>1, RowStep, SavedIffHeld DEF RowItems
  <2> QED BY <1>1, <2>2 DEF VaultInv, NoneCopied
<1>2. TypeOK /\ VaultInv /\ [Next]_vars =>
        [\A i \in Items : Saved(i, row) = 0 /\ Saved(i, row') > 0 => raised]_vars
  BY <1>1
<1> QED BY <1>2, VaultsInvariant, PTL DEF Spec, NothingReturns

(* A server that decodes an item exactly gives it back with every tag it   *)
(* ever had, however many servers saved its record in between: the record  *)
(* is intact, and dict_to_nbt inverts nbt_to_dict.                         *)
THEOREM ExactIsWhole == Spec => RestoredWhole
<1>1. ASSUME TypeOK, VaultInv, [Next]_vars, NEW i \in ItemsOf(row.items) \ Contested,
             here = None, here' # None, codec[here'][i] = "exact"
      PROVE  \E k \in Slots : live'[k] = [item |-> i, nbt |-> NbtOf[i]]
  <2>1. PICK s \in Servers : Load(s)
    BY <1>1 DEF Next, vars, Save, Leave, LeaveRaising, Restart, Move, GiveAway
  <2>2. live' = Restored(s, row.items) /\ here' = s
    BY <2>1 DEF Load
  <2> DEFINE list == row.items
  <2>3. list \in Seq(Record)
    BY <1>1 DEF TypeOK
  <2>4. PICK n \in 1 .. Len(list) : list[n].item = i
    BY <1>1 DEF ItemsOf, Records
  <2>5. list[n] \in Record /\ list[n] \in Records(list)
    BY <2>3, ElementOfSeq DEF Records
  <2>6. i \in Items /\ NbtOf[i] \in Tags
    BY <2>4, <2>5, VaultAssumption DEF Record
  <2>7. list[n].nbt = nbt_to_dict[NbtOf[i]] /\ dict_to_nbt[list[n].nbt] = NbtOf[i]
    BY <1>1, <2>4, <2>5, <2>6, RoundTrip DEF VaultInv, AllIntact
  <2>8. deserialize_item(s, list[n]) = [item |-> i, nbt |-> NbtOf[i]]
    <3>1. ReadBack(s, i, NbtOf[i]) = NbtOf[i] /\ codec[s][i] # "unknown"
      BY <1>1, <2>2 DEF ReadBack
    <3> QED BY <2>4, <2>7, <3>1 DEF deserialize_item
  <2>9. n \in Decoded(s, list)
    <3>1. [item |-> i, nbt |-> NbtOf[i]] \in Stack
      BY <2>6 DEF Stack
    <3> QED BY <2>8, <3>1, StackIsSome DEF Decoded
  <2> DEFINE k == list[n].slot
  <2>10. \A m \in 1 .. Len(list) : list[m].slot = k => m = n
    BY <1>1, <2>4 DEF Contested
  <2>11. Decoded(s, list) \subseteq 1 .. Len(list)
    BY DEF Decoded
  <2> HIDE DEF k, list
  <2>12. k \in Slots /\ live'[k] # None
    BY <2>2, <2>3, <2>9, RestoredFacts DEF list, k
  <2>13. PICK m \in Decoded(s, list) :
           /\ list[m].slot = k /\ live'[k].item = list[m].item
           /\ nbt_to_dict[live'[k].nbt] = list[m].nbt
    BY <2>2, <2>3, <2>12, RestoredFacts DEF list
  <2>14. live'[k].item = i /\ nbt_to_dict[live'[k].nbt] = nbt_to_dict[NbtOf[i]]
    BY <2>4, <2>7, <2>10, <2>11, <2>13
  <2>15. live'[k] \in Stack
    <3>1. live' \in Inventories
      BY <2>2, <2>3, RestoredFacts DEF list
    <3> QED BY <2>12, <3>1 DEF Inventories
  <2>16. live'[k].nbt = NbtOf[i]
    BY <2>6, <2>14, <2>15, DictInjective DEF Stack
  <2> QED BY <2>12, <2>14, <2>15, <2>16 DEF Stack
<1>2. TypeOK /\ VaultInv /\ [Next]_vars =>
        [\A i \in ItemsOf(row.items) \ Contested :
           here = None /\ here' # None /\ codec[here'][i] = "exact" =>
             \E k \in Slots : live'[k] = [item |-> i, nbt |-> NbtOf[i]]]_vars
  BY <1>1
<1> QED BY <1>2, VaultsInvariant, PTL DEF Spec, RestoredWhole
=============================================================================
