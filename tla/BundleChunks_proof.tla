------------------------- MODULE BundleChunks_proof -------------------------
(* For any number of messages and pieces, the record of a player is never  *)
(* made of pieces of two messages while none has strayed, and it is the    *)
(* last one that arrived whole.                                            *)
EXTENDS BundleChunks, FiniteSetTheorems, TLAPS

ChunksInv == TypeOK /\ ChunkInv

(* The table when piece i of message m has arrived.                        *)
Added(i, m) == [k \in DOMAIN chunks \cup {i} |-> IF k = i THEN m ELSE chunks[k]]

(* It holds messages at indices, if i is an index and m a message.         *)
LEMMA AddedType ==
  ASSUME TypeOK, NEW i \in Index, NEW m \in Message
  PROVE  /\ DOMAIN Added(i, m) \subseteq Index
         /\ Range(Added(i, m)) \subseteq Message
<1>1. \A k \in DOMAIN chunks : k \in Index /\ chunks[k] \in Message
  BY DEF TypeOK, Range
<1> QED BY <1>1 DEF Added, Range

(* Receive leaves such a table, or none, and a cache of messages.          *)
LEMMA ReceiveType ==
  ASSUME TypeOK, NEW i \in Index, NEW m \in Message, NEW total, Receive(i, m, total)
  PROVE  /\ DOMAIN chunks' \subseteq Index /\ Range(chunks') \subseteq Message
         /\ cache' \in (SUBSET Message) \cup {None}
<1>1. \/ cache' = Range(Added(i, m)) /\ chunks' = << >>
      \/ chunks' = Added(i, m) /\ cache' = cache
  BY DEF Receive, Added
<1>2. DOMAIN << >> \subseteq Index /\ Range(<< >>) \subseteq Message
  BY DEF Range
<1>3. cache \in (SUBSET Message) \cup {None}
  BY DEF TypeOK
<1> QED BY <1>1, <1>2, <1>3, AddedType

(* The message under way counts up to its number of pieces.                *)
LEMMA AdvanceType ==
  ASSUME ChunksInv, sending # None, Advance
  PROVE  /\ sending \in Sending /\ sending' \in Sending \cup {None}
         /\ sending' # None => /\ sending'.next < sending'.total
                               /\ sending'.next = sending.next + 1
                               /\ sending'.msg = sending.msg
                               /\ sending'.late = sending.late
         /\ sending' = None <=> sending.next + 1 = sending.total
         /\ sending.next \in Index /\ sending.next \in Nat
         /\ sending.msg \in Message /\ sending.msg \in Nat \ {0}
         /\ sending.total \in Nat \ {0} /\ sending.next < sending.total
         /\ sending.late \in BOOLEAN
<1>1. sending \in Sending /\ sending.next < sending.total
  BY DEF ChunksInv, TypeOK, ChunkInv
<1>2. /\ sending.next \in Index /\ sending.next \in Nat
      /\ sending.msg \in Message /\ sending.msg \in Nat \ {0}
      /\ sending.total \in 1 .. MaxTotal /\ sending.total \in Nat \ {0}
      /\ sending.late \in BOOLEAN
  BY <1>1, ChunkAssumption DEF Sending, Index, Message
<1>3. CASE sending.next + 1 = sending.total
  BY <1>1, <1>2, <1>3 DEF Advance
<1>4. CASE sending.next + 1 # sending.total
  <2>1. sending' = [sending EXCEPT !.next = @ + 1]
    BY <1>4 DEF Advance
  <2>2. sending.next + 1 \in Index /\ sending.next + 1 < sending.total
    BY <1>1, <1>2, <1>4, ChunkAssumption DEF Index
  <2>3. sending' \in Sending
    BY <1>1, <2>1, <2>2 DEF Sending
  <2>4. /\ sending'.next = sending.next + 1 /\ sending'.msg = sending.msg
        /\ sending'.late = sending.late /\ sending'.total = sending.total
    BY <1>1, <2>1 DEF Sending
  <2>5. sending' # None
    BY <2>3, ChunkAssumption
  <2> QED BY <1>1, <1>2, <1>4, <2>2, <2>3, <2>4, <2>5
<1> QED BY <1>3, <1>4

(* A piece in its turn: the table grows by it, or is complete and becomes  *)
(* the record of this one message.                                         *)
LEMMA InTurn ==
  ASSUME NEW n \in Nat, NEW m, NEW total \in Nat,
         chunks = [i \in 0 .. n - 1 |-> m],
         Receive(n, m, total)
  PROVE  IF n + 1 = total THEN cache' = {m} /\ chunks' = << >>
         ELSE cache' = cache /\ chunks' = [i \in 0 .. n |-> m]
<1>1. DOMAIN chunks = 0 .. n - 1 /\ \A k \in DOMAIN chunks : chunks[k] = m
  OBVIOUS
<1>2. DOMAIN chunks \cup {n} = 0 .. n
  BY <1>1
<1>3. Added(n, m) = [i \in 0 .. n |-> m]
  BY <1>1, <1>2 DEF Added
<1>4. DOMAIN Added(n, m) = 0 .. n /\ Range(Added(n, m)) = {m}
  BY <1>3 DEF Range
<1>5. Cardinality(0 .. n) = n + 1
  BY FS_Interval
<1>6. (0 .. n = 0 .. total - 1) <=> n + 1 = total
  OBVIOUS
<1>7. \/ n + 1 = total /\ cache' = {m} /\ chunks' = << >>
      \/ n + 1 # total /\ chunks' = [i \in 0 .. n |-> m] /\ cache' = cache
  BY <1>3, <1>4, <1>5, <1>6 DEF Receive, Added
<1> QED BY <1>7

----------------------------------------------------------------------------
(* ChunksInv holds before the first message.                               *)
LEMMA InitChunks == Init => ChunksInv
<1> SUFFICES ASSUME Init
             PROVE  ChunksInv
  OBVIOUS
<1>1. DOMAIN << >> \subseteq Index /\ Range(<< >>) \subseteq Message
  BY DEF Range
<1>2. 0 \in 0 .. MaxMessages
  BY ChunkAssumption
<1>3. chunks = << >>
  BY DEF Init
<1>4. DOMAIN chunks \subseteq Index /\ Range(chunks) \subseteq Message
  BY <1>1, <1>3, Zenon
<1>5. TypeOK
  BY <1>2, <1>4 DEF Init, TypeOK
<1> QED BY <1>5 DEF Init, ChunksInv, ChunkInv

(* A piece that arrives keeps it.                                          *)
LEMMA DeliverStep ==
  ASSUME ChunksInv, Deliver
  PROVE  ChunksInv'
<1>0. /\ TypeOK /\ sending # None /\ Advance
      /\ Receive(sending.next, sending.msg, sending.total)
      /\ last' = IF sending.next + 1 = sending.total /\ ~sending.late
                 THEN sending.msg ELSE last
      /\ stray' = (stray \/ sending.late) /\ UNCHANGED <<online, sent>>
  BY DEF Deliver, ChunksInv
<1>1. TypeOK'
  <2>1. /\ DOMAIN chunks' \subseteq Index /\ Range(chunks') \subseteq Message
        /\ cache' \in (SUBSET Message) \cup {None}
    BY <1>0, AdvanceType, ReceiveType
  <2>2. last' \in 0 .. MaxMessages /\ stray' \in BOOLEAN
    BY <1>0, AdvanceType, ChunkAssumption DEF TypeOK, Message
  <2> QED BY <1>0, <2>1, <2>2, AdvanceType DEF TypeOK
<1>2. ASSUME ~stray'
      PROVE  /\ chunks' = IF sending' = None \/ sending'.late THEN << >>
                          ELSE [i \in 0 .. sending'.next - 1 |-> sending'.msg]
             /\ cache' = IF last' = 0 THEN None ELSE {last'}
  <2>1. ~stray /\ ~sending.late
    BY <1>0, <1>2
  <2>2. /\ chunks = [i \in 0 .. sending.next - 1 |-> sending.msg]
        /\ cache = IF last = 0 THEN None ELSE {last}
    BY <1>0, <2>1 DEF ChunksInv, ChunkInv
  <2>3. IF sending.next + 1 = sending.total
        THEN cache' = {sending.msg} /\ chunks' = << >>
        ELSE cache' = cache /\ chunks' = [i \in 0 .. sending.next |-> sending.msg]
    BY <1>0, <2>2, AdvanceType, InTurn
  <2>4. CASE sending.next + 1 = sending.total
    BY <1>0, <2>1, <2>3, <2>4, AdvanceType
  <2>5. CASE sending.next + 1 # sending.total
    <3>1. /\ sending' # None /\ ~sending'.late /\ sending'.msg = sending.msg
          /\ sending'.next - 1 = sending.next
      BY <1>0, <2>1, <2>5, AdvanceType
    <3> QED BY <1>0, <2>2, <2>3, <2>5, <3>1
  <2> QED BY <2>4, <2>5
<1>3. sending' # None => sending'.next < sending'.total
  BY <1>0, AdvanceType
<1> QED BY <1>1, <1>2, <1>3 DEF ChunksInv, ChunkInv

(* So do a lost piece and a message that is given up: they stray unless    *)
(* they come late or none of the message has arrived.                      *)
LEMMA LossStep ==
  ASSUME ChunksInv, LosePiece \/ GiveUp
  PROVE  ChunksInv'
<1>0. /\ TypeOK /\ sending # None /\ UNCHANGED <<online, chunks, cache, sent, last>>
      /\ sending \in Sending /\ sending.next \in Nat /\ sending.late \in BOOLEAN
  BY ChunkAssumption DEF LosePiece, GiveUp, ChunksInv, TypeOK, Sending, Index
<1>1. CASE LosePiece
  <2>1. Advance /\ stray' = (stray \/ ~sending.late)
    BY <1>1 DEF LosePiece
  <2>2. TypeOK'
    BY <1>0, <2>1, AdvanceType DEF TypeOK
  <2>3. ~stray' => chunks = << >> /\ ~stray /\ (sending' # None => sending'.late)
    BY <1>0, <2>1, AdvanceType DEF ChunksInv, ChunkInv
  <2> QED BY <1>0, <2>1, <2>2, <2>3, AdvanceType DEF ChunksInv, ChunkInv
<1>2. CASE GiveUp
  <2>1. sending' = None /\ stray' = (stray \/ (sending.next > 0 /\ ~sending.late))
    BY <1>2 DEF GiveUp
  <2>2. TypeOK'
    BY <1>0, <2>1 DEF TypeOK
  <2>3. ASSUME ~stray'
        PROVE  chunks = << >> /\ ~stray
    <3>1. ~stray /\ (sending.next = 0 \/ sending.late)
      <4>1. sending.next > 0 \/ sending.next = 0
        BY <1>0
      <4> QED BY <1>0, <2>1, <2>3, <4>1
    <3>2. [i \in 0 .. 0 - 1 |-> sending.msg] = << >>
      OBVIOUS
    <3> QED BY <1>0, <3>1, <3>2 DEF ChunksInv, ChunkInv
  <2> QED BY <1>0, <2>1, <2>2, <2>3 DEF ChunksInv, ChunkInv
<1> QED BY <1>1, <1>2

(* A message that begins, or is sent whole, finds the table empty unless a *)
(* piece strayed.                                                          *)
LEMMA SendStep ==
  ASSUME ChunksInv, SendWhole \/ \E total \in 1 .. MaxTotal : Begin(total)
  PROVE  ChunksInv'
<1>0. /\ TypeOK /\ sending = None /\ sent + 1 \in Message /\ sent' = sent + 1
      /\ sent + 1 \in 0 .. MaxMessages /\ sent + 1 # 0
      /\ UNCHANGED <<online, chunks, stray>>
  BY ChunkAssumption DEF SendWhole, Begin, ChunksInv, TypeOK, Message
<1>1. ~stray => chunks = << >>
  BY <1>0 DEF ChunksInv, ChunkInv
<1>2. CASE SendWhole
  <2>1. last' = sent + 1 /\ cache' = {sent + 1} /\ sending' = sending
    BY <1>2 DEF SendWhole
  <2>2. TypeOK'
    BY <1>0, <2>1 DEF TypeOK
  <2> QED BY <1>0, <1>1, <2>1, <2>2 DEF ChunksInv, ChunkInv
<1>3. ASSUME NEW total \in 1 .. MaxTotal, Begin(total)
      PROVE  ChunksInv'
  <2>1. /\ sending' = [msg |-> sent + 1, total |-> total, next |-> 0, late |-> FALSE]
        /\ UNCHANGED <<cache, last>>
    BY <1>3 DEF Begin
  <2>2. sending' \in Sending
    BY <1>0, <2>1, ChunkAssumption DEF Sending, Index
  <2>3. TypeOK'
    BY <1>0, <2>1, <2>2 DEF TypeOK
  <2>4. [i \in 0 .. 0 - 1 |-> sent + 1] = << >>
    OBVIOUS
  <2>5. sending'.next = 0 /\ sending'.total = total /\ sending'.msg = sent + 1
        /\ ~sending'.late /\ 0 < total
    BY <2>1
  <2>6. sending' # None
    BY <2>2, ChunkAssumption
  <2>7. ~stray => chunks' = [i \in 0 .. sending'.next - 1 |-> sending'.msg]
    BY <1>0, <1>1, <2>4, <2>5
  <2> QED BY <1>0, <2>1, <2>3, <2>5, <2>6, <2>7 DEF ChunksInv, ChunkInv
<1> QED BY <1>2, <1>3

(* What is under way when its player leaves comes late.                    *)
LEMMA OutrunType ==
  ASSUME ChunksInv, sending' = Outrun
  PROVE  /\ sending' \in Sending \cup {None}
         /\ sending' # None => sending'.late /\ sending'.next < sending'.total
<1>1. CASE sending = None
  BY <1>1 DEF Outrun
<1>2. CASE sending # None
  <2>1. sending \in Sending /\ sending.next < sending.total
    BY <1>2 DEF ChunksInv, TypeOK, ChunkInv
  <2>2. sending' = [sending EXCEPT !.late = TRUE]
    BY <1>2 DEF Outrun
  <2> QED BY <2>1, <2>2 DEF Sending
<1> QED BY <1>1, <1>2

(* A player who joins has no record; one who leaves leaves none behind,    *)
(* unless the quit handler raises.                                         *)
LEMMA SessionStep ==
  ASSUME ChunksInv, Join \/ Quit \/ QuitRaising
  PROVE  ChunksInv'
<1>0. TypeOK /\ ChunkInv /\ sent' = sent
  BY DEF ChunksInv, Join, Quit, QuitRaising
<1>1. DOMAIN << >> \subseteq Index /\ Range(<< >>) \subseteq Message
  BY DEF Range
<1>2. 0 \in 0 .. MaxMessages
  BY ChunkAssumption
<1>3. CASE Join
  <2>1. TypeOK'
    BY <1>0, <1>2, <1>3 DEF Join, TypeOK
  <2> QED BY <1>0, <1>3, <2>1 DEF Join, ChunksInv, ChunkInv
<1>4. CASE Quit
  <2>1. TypeOK'
    BY <1>0, <1>1, <1>2, <1>4, OutrunType DEF Quit, TypeOK
  <2> QED BY <1>4, <2>1, OutrunType DEF Quit, ChunksInv, ChunkInv
<1>5. CASE QuitRaising
  <2>1. TypeOK'
    BY <1>0, <1>5, OutrunType DEF QuitRaising, TypeOK
  <2>2. ~stray' => ~stray /\ chunks' = << >> /\ cache' = cache /\ last' = last
    BY <1>5 DEF QuitRaising
  <2>3. sending' # None => sending'.late /\ sending'.next < sending'.total
    BY <1>5, OutrunType DEF QuitRaising
  <2> QED BY <1>0, <2>1, <2>2, <2>3 DEF ChunksInv, ChunkInv
<1> QED BY <1>3, <1>4, <1>5

----------------------------------------------------------------------------
(* While nothing has strayed, the table holds the first pieces of the      *)
(* message under way and nothing else, whatever the sizes of the messages. *)
THEOREM ChunksInvariant == Spec => [](TypeOK /\ ChunkInv)
<1>1. Init => ChunksInv
  BY InitChunks
<1>2. ChunksInv /\ [Next]_vars => ChunksInv'
  <2> SUFFICES ASSUME ChunksInv, [Next]_vars
               PROVE  ChunksInv'
    OBVIOUS
  <2>1. CASE UNCHANGED vars
    BY <2>1 DEF vars, ChunksInv, TypeOK, ChunkInv
  <2> QED BY <2>1, SessionStep, SendStep, DeliverStep, LossStep DEF Next
<1>3. ChunksInv => TypeOK /\ ChunkInv
  BY DEF ChunksInv
<1> QED BY <1>1, <1>2, <1>3, PTL DEF Spec

(* Type correctness of the reassembly: no piece has an index beyond the    *)
(* longest message, and no message is counted past its last piece.         *)
THEOREM TypeCorrect == Spec => []TypeOK
<1> QED BY ChunksInvariant, PTL

(* The record of a player is never made of pieces of two messages, until a *)
(* piece strays.                                                           *)
THEOREM NeverMixed == Spec => []NoMixedRecord
<1>1. TypeOK /\ ChunkInv => NoMixedRecord
  BY FS_Singleton DEF ChunkInv, NoMixedRecord
<1> QED BY <1>1, ChunksInvariant, PTL

(* The record is the last message that was completed, and no piece of it   *)
(* stays behind.                                                           *)
THEOREM LastIsCached == Spec => []LastRecordCached
<1>1. TypeOK /\ ChunkInv => LastRecordCached
  BY DEF ChunkInv, LastRecordCached
<1> QED BY <1>1, ChunksInvariant, PTL
=============================================================================
