---------------------------- MODULE BundleChunks ----------------------------
(***************************************************************************)
(* Reassembly of one player's companion messages.  A companion addon sends *)
(* a record whole (bundle_save) or in numbered pieces (bundle_chunk); the  *)
(* pieces of all messages share one table, and a message carries nothing   *)
(* but its number of pieces.  Pieces may be lost, messages be given up,    *)
(* and pieces still arrive after their player left.                        *)
(***************************************************************************)
EXTENDS Naturals, FiniteSets, Functions

CONSTANTS
  MaxTotal,      \* bound: pieces of one message
  MaxMessages,   \* bound: messages in one behaviour
  None

Message == 1 .. MaxMessages
Index   == 0 .. MaxTotal - 1

(* A chunked message: its pieces, the next one to arrive, and whether its  *)
(* player has left since it began.                                         *)
Sending == [msg : Message, total : 1 .. MaxTotal, next : Index, late : BOOLEAN]

ASSUME ChunkAssumption ==
  MaxTotal \in Nat \ {0} /\ MaxMessages \in Nat /\ None \notin Sending

VARIABLES
  online,   \* is the player connected?
  chunks,   \* _bundle_chunks: chunks[i] is the message that piece i is of
  cache,    \* _bundle_cache: the messages the record was made of, or None
  sending,  \* the chunked message under way, or None
  sent,     \* the latest message
  last,     \* history: the last message of this session that is complete
  stray     \* history: since the table was last emptied by a quit, a piece was
            \* lost, or left behind, or came after the player had left

vars == <<online, chunks, cache, sending, sent, last, stray>>

TypeOK ==
  /\ online \in BOOLEAN /\ stray \in BOOLEAN
  /\ DOMAIN chunks \subseteq Index /\ Range(chunks) \subseteq Message
  /\ cache \in (SUBSET Message) \cup {None}
  /\ sending \in Sending \cup {None}
  /\ sent \in 0 .. MaxMessages /\ last \in 0 .. MaxMessages

Init ==
  /\ online = FALSE /\ chunks = << >> /\ cache = None
  /\ sending = None /\ sent = 0 /\ last = 0 /\ stray = FALSE

----------------------------------------------------------------------------

(* A completed table that is not deleted.                                  *)
ReceiveKeeping(i, m, total) ==
  /\ chunks' = [k \in DOMAIN chunks \cup {i} |-> IF k = i THEN m ELSE chunks[k]]
  /\ cache' = IF DOMAIN chunks' = 0 .. total - 1 THEN Range(chunks') ELSE cache

(* Pieces counted from one.                                                *)
ReceiveFromOne(i, m, total) ==
  LET got == [k \in DOMAIN chunks \cup {i + 1} |-> IF k = i + 1 THEN m ELSE chunks[k]]
      joins == DOMAIN got = 1 .. total
  IN  /\ cache' = IF joins THEN Range(got) ELSE cache
      /\ chunks' = IF joins THEN << >> ELSE got

(* bundle_chunk: the record is made when there are as many pieces as this  *)
(* message has.  If one of them is missing, or the pieces do not parse, an *)
(* exception leaves the table as it is.  Pieces of several messages may    *)
(* parse.                                                                  *)
Receive(i, m, total) ==
  LET got == [k \in DOMAIN chunks \cup {i} |-> IF k = i THEN m ELSE chunks[k]]
      joins == Cardinality(DOMAIN got) = total /\ DOMAIN got = 0 .. total - 1
  IN  \/ joins /\ cache' = Range(got) /\ chunks' = << >>
      \/ (joins => Range(got) # {m}) /\ chunks' = got /\ UNCHANGED cache

(* _begin_join forgets the cache, but not the pieces.                      *)
Join ==
  /\ ~online /\ online' = TRUE
  /\ cache' = None /\ last' = 0
  /\ UNCHANGED <<chunks, sending, sent, stray>>

(* What is still under way will be late.                                   *)
Outrun == IF sending = None THEN None ELSE [sending EXCEPT !.late = TRUE]

(* A quit that leaves the pieces.                                          *)
QuitKeeping ==
  /\ online /\ online' = FALSE
  /\ cache' = None /\ last' = 0 /\ stray' = FALSE /\ sending' = Outrun
  /\ UNCHANGED <<sent, chunks>>

(* on_player_quit.                                                         *)
Quit ==
  /\ online /\ online' = FALSE
  /\ cache' = None /\ chunks' = << >> /\ last' = 0
  /\ stray' = FALSE /\ sending' = Outrun
  /\ UNCHANGED sent

(* _finish_session raised before the quit handler came to that.            *)
QuitRaising ==
  /\ online /\ online' = FALSE
  /\ stray' = (stray \/ chunks # << >>) /\ sending' = Outrun
  /\ UNCHANGED <<cache, chunks, sent, last>>

(* bundle_save.                                                            *)
SendWhole ==
  /\ online /\ sending = None /\ sent < MaxMessages
  /\ sent' = sent + 1 /\ last' = sent + 1 /\ cache' = {sent + 1}
  /\ UNCHANGED <<online, chunks, sending, stray>>

Begin(total) ==
  /\ online /\ sending = None /\ sent < MaxMessages
  /\ sent' = sent + 1
  /\ sending' = [msg |-> sent + 1, total |-> total, next |-> 0, late |-> FALSE]
  /\ UNCHANGED <<online, chunks, cache, last, stray>>

Advance ==
  sending' = IF sending.next + 1 = sending.total THEN None
             ELSE [sending EXCEPT !.next = @ + 1]

Deliver ==
  /\ sending # None
  /\ Receive(sending.next, sending.msg, sending.total) /\ Advance
  /\ last' = IF sending.next + 1 = sending.total /\ ~sending.late
             THEN sending.msg ELSE last
  /\ stray' = (stray \/ sending.late)
  /\ UNCHANGED <<online, sent>>

LosePiece ==
  /\ sending # None /\ Advance
  /\ stray' = (stray \/ ~sending.late)
  /\ UNCHANGED <<online, chunks, cache, sent, last>>

GiveUp ==
  /\ sending # None /\ sending' = None
  /\ stray' = (stray \/ (sending.next > 0 /\ ~sending.late))
  /\ UNCHANGED <<online, chunks, cache, sent, last>>

Next ==
  \/ Join \/ Quit \/ QuitRaising \/ SendWhole
  \/ \E total \in 1 .. MaxTotal : Begin(total)
  \/ Deliver \/ LosePiece \/ GiveUp

Spec == Init /\ [][Next]_vars

----------------------------------------------------------------------------

(* Whatever was lost, or given up, in earlier sessions: after a quit the   *)
(* record of the player is never made of pieces of two messages, until     *)
(* another piece strays.                                                   *)
NoMixedRecord == ~stray /\ cache # None => Cardinality(cache) = 1

(* Then the record is the last message that was completed, whatever the    *)
(* sizes of the messages before it, and no piece of it stays behind.       *)
LastRecordCached ==
  ~stray /\ online /\ sending = None /\ last # 0 =>
    cache = {last} /\ chunks = << >>

(* Why both hold: while nothing has strayed, the table is what has arrived *)
(* of the message under way, from its first piece on, and is empty while   *)
(* there is none or what is under way comes late; and the record is the    *)
(* last message of the session, or there is none.                          *)
ChunkInv ==
  /\ sending # None => sending.next < sending.total
  /\ ~stray =>
       /\ chunks = IF sending = None \/ sending.late THEN << >>
                   ELSE [i \in 0 .. sending.next - 1 |-> sending.msg]
       /\ cache = IF last = 0 THEN None ELSE {last}
=============================================================================
