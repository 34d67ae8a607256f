----------------------- MODULE OptionalFields_proof -----------------------
(***************************************************************************)
(* The optional fields over any number of servers, versions and failures.  *)
(***************************************************************************)
EXTENDS OptionalFields, TLAPS

(* A snapshot of a restored session is a payload.                          *)
LEMMA CaptureType ==
  ASSUME TypeOK, at \in Servers, NEW noMoney \in BOOLEAN
  PROVE  Capture(noMoney) \in Payload
<1>1. local[at] \in [Fields -> Stamp] /\ spot[at] \in Stamp /\ 0 \in Stamp
  BY FieldsAssumption DEF TypeOK, Stamp
<1>2. \A f \in Fields : Capture(noMoney).value[f] \in Stamp \cup {None}
  BY <1>1 DEF Capture
<1> QED BY <1>1, <1>2 DEF Capture, Payload, TypeOK

(* What an UPDATE leaves in the row is a version.                          *)
LEMMA UpdateType ==
  ASSUME TypeOK, at \in Servers, NEW data \in Payload \cup {None}, Update(data)
  PROVE  row' \in [Fields -> Stamp] /\ places' \in [Servers -> Stamp]
<1>1. CASE data = None
  BY <1>1 DEF Update, TypeOK
<1>2. CASE data # None
  <2>1. \A f \in Fields : Written(data)[f] \in Stamp
    BY <1>2 DEF Written, Payload, TypeOK
  <2> QED BY <1>2, <2>1 DEF Update, Written, PlacesMerged, Payload, TypeOK
<1> QED BY <1>1, <1>2

(* The types are preserved by every step.                                  *)
LEMMA TypeStep == TypeOK /\ QueueShape /\ [Next]_vars => TypeOK'
<1> SUFFICES ASSUME TypeOK, QueueShape, [Next]_vars PROVE TypeOK'
  OBVIOUS
<1> USE FieldsAssumption
<1>1. ASSUME NEW s \in Servers, Claim(s) PROVE TypeOK'
  BY <1>1 DEF Claim, TypeOK, player, Nothing
<1>2. ASSUME NEW bad \in SUBSET Fields, NEW lost \in BOOLEAN, Restore(bad, lost)
      PROVE  TypeOK'
  <2>1. at \in Servers /\ incidents' \in 0 .. MaxIncidents
    BY <1>2 DEF Restore, QueueShape, TypeOK, Incident
  <2>2. \A f \in Fields : Restored(f) \in Stamp
    BY <2>1 DEF Restored, TypeOK
  <2> PICK kept \in SUBSET bad :
         local' = [local EXCEPT ![at] =
                     [f \in Fields |-> IF f \in kept THEN local[at][f] ELSE Restored(f)]]
    BY <1>2 DEF Restore
  <2>3. local' \in [Servers -> [Fields -> Stamp]]
    BY <2>1, <2>2 DEF TypeOK
  <2>4. spot' \in [Servers -> Stamp]
    BY <1>2, <2>1 DEF Restore, TypeOK
  <2> QED BY <1>2, <2>1, <2>3, <2>4 DEF Restore, TypeOK, store
<1>3. CASE Play
  <2>1. at \in Servers
    BY <1>3 DEF Play, QueueShape, TypeOK
  <2>2. clock' \in Stamp /\ clock + 1 \in Stamp
    BY <1>3 DEF Play, TypeOK, Stamp
  <2> QED BY <1>3, <2>1, <2>2 DEF Play, TypeOK, store, memory
<1>4. CASE Abandon
  BY <1>4 DEF Abandon, TypeOK, Job, store, player
<1>5. CASE Store
  <2>1. Head(queue) \in Job /\ Tail(queue) \in Seq(Job) /\ queue # << >>
    BY <1>5 DEF Store, TypeOK
  <2>2. at \in Servers
    BY <1>5, <2>1 DEF Store, QueueShape, TypeOK
  <2>3. CASE Incident /\ UNCHANGED <<store, stage>>
    BY <1>5, <2>1, <2>3 DEF Store, Incident, TypeOK, store, player
  <2>4. CASE Update(Head(queue).data) /\ UNCHANGED incidents
    <3>1. row' \in [Fields -> Stamp] /\ places' \in [Servers -> Stamp]
      BY <2>1, <2>2, <2>4, UpdateType DEF Job
    <3>2. at' \in Servers \cup {None} /\ stage' \in {"free", "claimed", "ready", "ended"}
      BY <1>5, <2>3 DEF Store, Release, TypeOK, store
    <3> QED BY <1>5, <2>1, <2>4, <3>1, <3>2 DEF Store, TypeOK, player
  <2> QED BY <1>5, <2>3, <2>4 DEF Store
<1>6. CASE Lose
  <2>1. at \in Servers /\ stood' \in [Servers -> Stamp]
    BY <1>6 DEF Lose, QueueShape, TypeOK, Stamp
  <2> QED BY <1>6, <2>1 DEF Lose, Incident, TypeOK, store, player
<1>7. CASE Replay
  <2>1. at \in Servers
    BY <1>7 DEF Replay, QueueShape, TypeOK
  <2>2. CASE Incident /\ UNCHANGED <<store, stage>>
    BY <1>7, <2>2 DEF Replay, Incident, TypeOK, store, player, memory
  <2>3. CASE Update(journal) /\ Release /\ UNCHANGED incidents
    <3>1. row' \in [Fields -> Stamp] /\ places' \in [Servers -> Stamp]
      BY <2>1, <2>3, UpdateType DEF TypeOK
    <3> QED BY <1>7, <2>3, <3>1 DEF Replay, Release, TypeOK, player, memory
  <2> QED BY <1>7, <2>2, <2>3 DEF Replay
<1>8. ASSUME NEW noMoney \in BOOLEAN, Autosave(noMoney) PROVE TypeOK'
  <2>1. at \in Servers /\ incidents' \in 0 .. MaxIncidents
    BY <1>8 DEF Autosave, QueueShape, TypeOK, Incident
  <2>2. Capture(noMoney) \in Payload
    BY <2>1, CaptureType
  <2> QED BY <1>8, <2>1, <2>2 DEF Autosave, TypeOK, Job, store, player
<1>9. ASSUME NEW noMoney \in BOOLEAN, Quit(noMoney) PROVE TypeOK'
  <2>1. at \in Servers /\ incidents' \in 0 .. MaxIncidents
    BY <1>9 DEF Quit, QueueShape, TypeOK, Incident
  <2>2. Capture(noMoney) \in Payload
    BY <2>1, CaptureType
  <2>3. queue' \in Seq(Job)
    BY <1>9, <2>2 DEF Quit, TypeOK, Job
  <2>4. left' \in [Fields -> Stamp \cup {None}] /\ stood' \in [Servers -> Stamp]
    BY <1>9, <2>1 DEF Quit, TypeOK
  <2> QED BY <1>9, <2>1, <2>2, <2>3, <2>4 DEF Quit, TypeOK, store, player
<1>10. CASE UNCHANGED vars
  BY <1>10 DEF vars, TypeOK, store, player, memory
<1> QED
  BY <1>1, <1>2, <1>3, <1>4, <1>5, <1>6, <1>7, <1>8, <1>9, <1>10 DEF Next

(* A payload that may still be saved carries versions.                     *)
LEMMA CarriesType ==
  ASSUME TypeOK, NEW data \in Pending, NEW f \in Fields, Carries(data, f)
  PROVE  data \in Payload /\ data.value[f] \in Stamp
<1>1. data \in Payload \cup {None}
  <2>1. \A i \in 1 .. Len(queue) : queue[i] \in Job
    BY DEF TypeOK
  <2>2. \A i \in 1 .. Len(queue) : queue[i].data \in Payload \cup {None}
    BY <2>1 DEF Job
  <2> QED BY <2>2 DEF Pending, TypeOK
<1> QED BY <1>1 DEF Carries, Payload

(* The invariant holds at first.                                           *)
LEMMA FieldsInit == Init => TypeOK /\ FieldsInv
<1> SUFFICES ASSUME Init PROVE TypeOK /\ FieldsInv
  OBVIOUS
<1> USE FieldsAssumption DEF Init
<1>1. TypeOK
  BY DEF TypeOK, Stamp, Nothing
<1>2. QueueShape /\ FailedAreProtected /\ LeftIsJournaled /\ StoodIsKnown
  BY DEF QueueShape, FailedAreProtected, LeftIsJournaled, StoodIsKnown, Nothing
<1>3. NewerIsLater
  BY DEF NewerIsLater, Newer, Pending, Carries
<1> QED BY <1>1, <1>2, <1>3 DEF FieldsInv

(* A new session starts with nothing to save.                              *)
LEMMA ClaimInv ==
  ASSUME TypeOK, FieldsInv, NEW s \in Servers, Claim(s)
  PROVE  FieldsInv'
<1> USE FieldsAssumption DEF Claim, TypeOK, player
<1>1. queue = << >> /\ Pending' = {None}
  BY DEF FieldsInv, QueueShape, Pending
<1>2. QueueShape' /\ FailedAreProtected' /\ LeftIsJournaled'
  BY <1>1 DEF QueueShape, FailedAreProtected, LeftIsJournaled, Nothing
<1>3. StoodIsKnown'
  BY DEF FieldsInv, QueueShape, StoodIsKnown
<1>4. NewerIsLater'
  BY <1>1 DEF FieldsInv, NewerIsLater, Newer, Carries
<1> QED BY <1>2, <1>3, <1>4 DEF FieldsInv

(* A restore gives each field that does not fail its saved version.        *)
LEMMA RestoreInv ==
  ASSUME TypeOK, FieldsInv, NEW bad \in SUBSET Fields, NEW lost \in BOOLEAN,
         Restore(bad, lost)
  PROVE  FieldsInv'
<1> USE FieldsAssumption DEF TypeOK, store
<1>1. /\ queue = << >> /\ journal = None /\ at \in Servers
      /\ stage = "claimed" /\ stage' = "ready"
      /\ preserved' = bad /\ failed' = bad
      /\ UNCHANGED <<store, clock, journal, queue, left, stood>>
  BY DEF Restore, FieldsInv, QueueShape
<1>2. Pending' = {None}
  BY <1>1 DEF Pending
<1>3. QueueShape' /\ FailedAreProtected' /\ LeftIsJournaled'
  BY <1>1, <1>2 DEF FieldsInv, QueueShape, FailedAreProtected, LeftIsJournaled
<1>4. StoodIsKnown'
  BY <1>1 DEF FieldsInv, StoodIsKnown
<1>5. NewerIsLater'
  <2> PICK kept \in SUBSET bad :
         local' = [local EXCEPT ![at] =
                     [f \in Fields |-> IF f \in kept THEN local[at][f] ELSE Restored(f)]]
    BY DEF Restore
  <2>1. \A f \in Fields, s \in Servers : local'[s][f] <= clock'
    BY <1>1 DEF FieldsInv, NewerIsLater, Newer, Restored
  <2>2. \A f \in Fields \ bad : row[f] <= local'[at][f]
    BY <1>1 DEF Restored, Stamp
  <2> QED BY <1>1, <1>2, <2>1, <2>2 DEF FieldsInv, NewerIsLater, Newer, Carries
<1> QED BY <1>3, <1>4, <1>5 DEF FieldsInv

(* Play makes everything newer.                                            *)
LEMMA PlayInv == ASSUME TypeOK, FieldsInv, Play PROVE FieldsInv'
<1> USE FieldsAssumption DEF Play, TypeOK, store, memory, Stamp
<1>1. Pending' = Pending /\ at \in Servers
  BY DEF Pending, FieldsInv, QueueShape
<1>2. QueueShape' /\ FailedAreProtected' /\ LeftIsJournaled' /\ StoodIsKnown'
  BY <1>1 DEF FieldsInv, QueueShape, FailedAreProtected, LeftIsJournaled,
              StoodIsKnown, Carries
<1>3. NewerIsLater'
  <2> SUFFICES ASSUME NEW f \in Fields
               PROVE  Newer(f)'
    BY DEF NewerIsLater
  <2>1. local' = [local EXCEPT ![at] = [g \in Fields |-> clock + 1]] /\ clock' = clock + 1
    OBVIOUS
  <2>2. row[f] \in Nat /\ clock \in Nat /\ \A s \in Servers : local[s][f] \in Nat
    OBVIOUS
  <2>3. \A s \in Servers : local'[s][f] <= clock'
    BY <2>1, <2>2 DEF FieldsInv, NewerIsLater, Newer
  <2>4. row[f] <= clock' /\ row[f] <= local'[at][f]
    BY <1>1, <2>1, <2>2 DEF FieldsInv, NewerIsLater, Newer
  <2>5. \A data \in Pending : Carries(data, f) =>
          /\ row[f] <= data.value[f] /\ data.value[f] <= clock'
          /\ data.value[f] <= local'[at][f]
    <3> SUFFICES ASSUME NEW data \in Pending, Carries(data, f)
                 PROVE  /\ row[f] <= data.value[f] /\ data.value[f] <= clock'
                        /\ data.value[f] <= local'[at][f]
      OBVIOUS
    <3>1. data.value[f] \in Nat
      BY CarriesType
    <3> QED BY <1>1, <2>1, <2>2, <3>1 DEF FieldsInv, NewerIsLater, Newer
  <2> QED BY <1>1, <2>3, <2>4, <2>5 DEF FieldsInv, NewerIsLater, Newer, Carries
<1> QED BY <1>2, <1>3 DEF FieldsInv

(* A snapshot protects what failed and carries what the player has.        *)
LEMMA CaptureFacts ==
  ASSUME TypeOK, FieldsInv, stage = "ready", NEW noMoney \in BOOLEAN
  PROVE  /\ at \in Servers /\ Capture(noMoney) \in Payload
         /\ Capture(noMoney) # None
         /\ Capture(noMoney).preserve = failed
         /\ Capture(noMoney).spot = spot[at]
         /\ \A f \in Fields :
              /\ Carries(Capture(noMoney), f) =>
                   f \notin failed /\ Capture(noMoney).value[f] = local[at][f]
              /\ f \notin failed /\ ~(f = "money" /\ noMoney) =>
                   Carries(Capture(noMoney), f)
<1>1. at \in Servers /\ preserved = failed
  BY FieldsAssumption DEF FieldsInv, QueueShape, FailedAreProtected, TypeOK
<1>2. Capture(noMoney) \in Payload
  BY <1>1, CaptureType
<1>3. \A f \in Fields : local[at][f] # None
  BY <1>1, FieldsAssumption DEF TypeOK, Stamp
<1> QED BY <1>1, <1>2, <1>3, PayloadAssumption DEF Capture, Carries

(* An autosave is the only job.                                            *)
LEMMA AutosaveInv ==
  ASSUME TypeOK, FieldsInv, NEW noMoney \in BOOLEAN, Autosave(noMoney)
  PROVE  FieldsInv'
<1> DEFINE snap == Capture(noMoney)
<1>1. /\ stage = "ready" /\ journal' = snap
      /\ queue' = <<[data |-> snap, release |-> FALSE]>>
      /\ UNCHANGED <<row, places, at, local, spot, clock, stage, preserved, failed, left, stood>>
  BY DEF Autosave, store, player
<1>2. /\ snap \in Payload /\ snap # None /\ at \in Servers
      /\ snap.preserve = failed
      /\ \A f \in Fields : Carries(snap, f) =>
           f \notin failed /\ snap.value[f] = local[at][f]
  BY <1>1, CaptureFacts
<1> HIDE DEF snap
<1>3. Pending' = {snap} /\ Len(queue') = 1 /\ queue'[1].data = snap /\ ~queue'[1].release
  BY <1>1 DEF Pending
<1>4. QueueShape' /\ FailedAreProtected' /\ LeftIsJournaled' /\ StoodIsKnown'
  BY <1>1, <1>2, <1>3 DEF FieldsInv, QueueShape, FailedAreProtected,
     LeftIsJournaled, StoodIsKnown
<1>5. NewerIsLater'
  <2> SUFFICES ASSUME NEW f \in Fields PROVE Newer(f)'
    BY DEF NewerIsLater
  <2>1. Newer(f)
    BY DEF FieldsInv, NewerIsLater
  <2>2. local[at][f] \in Nat
    BY <1>2 DEF TypeOK, Stamp
  <2> QED BY <1>1, <1>2, <1>3, <2>1, <2>2 DEF Newer, Carries
<1> QED BY <1>4, <1>5 DEF FieldsInv

(* A quit appends the newest snapshot, which the journal holds as well.    *)
LEMMA QuitInv ==
  ASSUME TypeOK, FieldsInv, NEW noMoney \in BOOLEAN, Quit(noMoney)
  PROVE  FieldsInv'
<1> USE FieldsAssumption
<1> DEFINE snap == Capture(noMoney)
           job  == [data |-> snap, release |-> TRUE]
<1>1. /\ stage = "ready" /\ stage' = "ended" /\ journal' = snap
      /\ queue' = Append(queue, job) /\ preserved' = {}
      /\ left' = [f \in Fields |-> IF f \in failed \/ (f = "money" /\ noMoney)
                                   THEN None ELSE local[at][f]]
      /\ stood' = [stood EXCEPT ![at] = spot[at]]
      /\ UNCHANGED <<row, places, at, local, spot, clock, failed>>
  BY DEF Quit, store, player
<1>2. /\ snap \in Payload /\ snap # None /\ at \in Servers
      /\ snap.preserve = failed /\ snap.spot = spot[at]
      /\ \A f \in Fields :
           /\ Carries(snap, f) => f \notin failed /\ snap.value[f] = local[at][f]
           /\ f \notin failed /\ ~(f = "money" /\ noMoney) => Carries(snap, f)
  BY <1>1, CaptureFacts
<1> HIDE DEF snap
<1>3. /\ Len(queue') = Len(queue) + 1 /\ Len(queue) \in Nat
      /\ \A i \in 1 .. Len(queue) : queue'[i] = queue[i]
      /\ queue'[Len(queue')] = job
  BY <1>1 DEF TypeOK
<1>4. \A i \in 1 .. Len(queue') : i \in 1 .. Len(queue) \/ i = Len(queue')
  BY <1>3
<1>5. \A i \in 1 .. Len(queue) : ~queue[i].release /\ queue[i].data \in Pending
  BY <1>1 DEF FieldsInv, QueueShape, Pending
<1>6. \A data \in Pending' : data = snap \/ data \in Pending
  BY <1>1, <1>3, <1>4, <1>5 DEF Pending
<1>7. QueueShape'
  BY <1>1, <1>2, <1>3, <1>4, <1>5 DEF FieldsInv, QueueShape
<1>8. FailedAreProtected'
  BY <1>1, <1>2, <1>6 DEF FieldsInv, FailedAreProtected
<1>9. LeftIsJournaled'
  BY <1>1, <1>2 DEF LeftIsJournaled
<1>10. StoodIsKnown'
  BY <1>1, <1>2 DEF FieldsInv, StoodIsKnown, TypeOK
<1>11. NewerIsLater'
  <2> SUFFICES ASSUME NEW f \in Fields PROVE Newer(f)'
    BY DEF NewerIsLater
  <2>1. Newer(f)
    BY DEF FieldsInv, NewerIsLater
  <2>2. local[at][f] \in Nat /\ clock \in Nat
    BY <1>2 DEF TypeOK, Stamp
  <2>3. \A data \in Pending' : Carries(data, f) =>
          row[f] <= data.value[f] /\ data.value[f] <= clock
    BY <1>1, <1>2, <1>6, <2>1, <2>2 DEF Newer
  <2>4. \A i \in 1 .. Len(queue) : Carries(queue[i].data, f) =>
          queue[i].data.value[f] <= local[at][f]
    BY <1>1, <1>5, <2>1 DEF Newer
  <2>5. \A i \in 1 .. Len(queue') : Carries(queue'[i].data, f) /\ Carries(snap, f) =>
          queue'[i].data.value[f] <= snap.value[f]
    BY <1>2, <1>3, <1>4, <2>2, <2>4
  <2>6. \A i, j \in 1 .. Len(queue') :
          i < j /\ Carries(queue'[i].data, f) /\ Carries(queue'[j].data, f) =>
            queue'[i].data.value[f] <= queue'[j].data.value[f]
    <3> SUFFICES ASSUME NEW i \in 1 .. Len(queue'), NEW j \in 1 .. Len(queue'), i < j,
                        Carries(queue'[i].data, f), Carries(queue'[j].data, f)
                 PROVE  queue'[i].data.value[f] <= queue'[j].data.value[f]
      OBVIOUS
    <3>1. i \in 1 .. Len(queue) /\ queue'[i] = queue[i]
      BY <1>3
    <3>2. CASE j = Len(queue')
      BY <1>3, <2>5, <3>2
    <3>3. CASE j \in 1 .. Len(queue)
      BY <1>3, <2>1, <3>1, <3>3 DEF Newer
    <3> QED BY <1>4, <3>2, <3>3
  <2> QED BY <1>1, <2>1, <2>3, <2>5, <2>6 DEF Newer, Carries
<1> QED BY <1>7, <1>8, <1>9, <1>10, <1>11 DEF FieldsInv

(* A session that was never restored has only its marker to release.       *)
LEMMA AbandonInv == ASSUME TypeOK, FieldsInv, Abandon PROVE FieldsInv'
<1> USE FieldsAssumption
<1>1. /\ stage = "claimed" /\ stage' = "ended" /\ journal = None /\ queue = << >>
      /\ queue' = Append(queue, [data |-> None, release |-> TRUE])
      /\ UNCHANGED <<row, places, at, local, spot, clock, journal, failed, left, stood>>
  BY DEF Abandon, FieldsInv, QueueShape, store, player
<1>2. Pending' = {None} /\ Len(queue') = 1 /\ queue'[1] = [data |-> None, release |-> TRUE]
  <2>1. Len(queue') = 1 /\ queue'[1] = [data |-> None, release |-> TRUE]
    BY <1>1
  <2> QED BY <1>1, <2>1 DEF Pending
<1>3. QueueShape' /\ FailedAreProtected' /\ LeftIsJournaled' /\ StoodIsKnown'
  BY <1>1, <1>2 DEF FieldsInv, QueueShape, FailedAreProtected, LeftIsJournaled,
     StoodIsKnown
<1>4. NewerIsLater'
  BY <1>1, <1>2 DEF FieldsInv, NewerIsLater, Newer, Carries
<1> QED BY <1>3, <1>4 DEF FieldsInv

(* Without its memory a session is what its journal says.                  *)
LEMMA LoseInv == ASSUME TypeOK, FieldsInv, Lose PROVE FieldsInv'
<1> USE FieldsAssumption
<1>1. /\ stage # "free" /\ stage' = "ended" /\ queue' = << >>
      /\ stood' = IF stage = "ready" THEN [stood EXCEPT ![at] = 0] ELSE stood
      /\ UNCHANGED <<row, places, at, local, spot, clock, journal, failed, left>>
  BY DEF Lose, store, player
<1>2. Pending' = {journal} /\ journal \in Pending /\ at \in Servers
  BY <1>1 DEF Pending, FieldsInv, QueueShape, TypeOK
<1>3. QueueShape' /\ FailedAreProtected' /\ LeftIsJournaled'
  BY <1>1, <1>2 DEF FieldsInv, QueueShape, FailedAreProtected, LeftIsJournaled, Carries,
     TypeOK
<1>4. StoodIsKnown'
  BY <1>1, <1>2 DEF FieldsInv, QueueShape, StoodIsKnown, TypeOK
<1>5. NewerIsLater'
  BY <1>1, <1>2 DEF FieldsInv, NewerIsLater, Newer, Carries
<1> QED BY <1>3, <1>4, <1>5 DEF FieldsInv

(* An UPDATE with a pending payload: protected fields stay, the others get *)
(* what it carries, which is not older.                                    *)
LEMMA UpdateFacts ==
  ASSUME TypeOK, FieldsInv, stage # "free", NEW data \in Pending, Update(data)
  PROVE  \A f \in Fields :
           /\ row'[f] = IF Carries(data, f) THEN data.value[f] ELSE row[f]
           /\ f \in failed => row'[f] = row[f]
           /\ row'[f] >= row[f] /\ row'[f] <= clock
<1> SUFFICES ASSUME NEW f \in Fields
             PROVE  /\ row'[f] = IF Carries(data, f) THEN data.value[f] ELSE row[f]
                    /\ f \in failed => row'[f] = row[f]
                    /\ row'[f] >= row[f] /\ row'[f] <= clock
  OBVIOUS
<1>1. row'[f] = IF Carries(data, f) THEN data.value[f] ELSE row[f]
  BY DEF Update, Written, Carries
<1>2. f \in failed => ~Carries(data, f)
  BY DEF FieldsInv, FailedAreProtected, Carries
<1>3. row[f] \in Nat /\ row[f] <= clock
  BY DEF TypeOK, Stamp, FieldsInv, NewerIsLater, Newer
<1>4. Carries(data, f) => row[f] <= data.value[f] /\ data.value[f] <= clock
                          /\ data.value[f] \in Nat
  BY CarriesType DEF FieldsInv, NewerIsLater, Newer, Stamp
<1> QED BY <1>1, <1>2, <1>3, <1>4

(* A release with what the journal holds.                                  *)
LEMMA ReleaseInv ==
  ASSUME TypeOK, FieldsInv, stage = "ended", Update(journal), Release, queue' = << >>,
         UNCHANGED <<player, preserved, journal, failed, left, stood>>
  PROVE  FieldsInv'
<1> USE FieldsAssumption DEF player, Release
<1>1. \A f \in Fields : row'[f] <= clock
  BY UpdateFacts DEF Pending
<1>2. Pending' = {journal} /\ journal \in Pending
  BY DEF Pending
<1>3. QueueShape' /\ FailedAreProtected' /\ LeftIsJournaled'
  BY <1>2 DEF FieldsInv, QueueShape, FailedAreProtected, LeftIsJournaled
<1>4. StoodIsKnown'
  BY DEF FieldsInv, QueueShape, StoodIsKnown, Update, PlacesMerged, TypeOK
<1>5. NewerIsLater'
  BY <1>1 DEF FieldsInv, NewerIsLater, Newer
<1> QED BY <1>3, <1>4, <1>5 DEF FieldsInv

(* The worker deals with the first job; those behind it are not older.     *)
LEMMA StoreInv == ASSUME TypeOK, FieldsInv, Store PROVE FieldsInv'
<1> USE FieldsAssumption
<1>1. /\ queue # << >> /\ queue' = Tail(queue) /\ stage # "free"
      /\ UNCHANGED <<player, preserved, journal, failed, left, stood>>
  BY DEF Store, FieldsInv, QueueShape
<1>2. /\ Head(queue) = queue[1] /\ 1 \in 1 .. Len(queue)
      /\ Len(queue') = Len(queue) - 1 /\ Len(queue) \in Nat
      /\ \A i \in 1 .. Len(queue') : i + 1 \in 1 .. Len(queue) /\ queue'[i] = queue[i + 1]
  BY <1>1 DEF TypeOK
<1>3. Head(queue).data \in Pending /\ Pending' \subseteq Pending
  BY <1>1, <1>2 DEF Pending
<1>4. CASE Head(queue).release /\ Update(Head(queue).data) /\ Release
  <2>1. Len(queue) = 1 /\ stage = "ended" /\ Head(queue).data = journal
    BY <1>2, <1>4 DEF FieldsInv, QueueShape
  <2>2. queue' = << >>
    BY <1>1, <1>2, <2>1 DEF TypeOK
  <2> QED BY <1>1, <1>4, <2>1, <2>2, ReleaseInv
<1>5. ASSUME UNCHANGED <<at, stage>>,
             \/ UNCHANGED <<row, places>>
             \/ Update(Head(queue).data) /\ ~Head(queue).release
      PROVE  FieldsInv'
  <2>1. stage # "claimed" /\ at \in Servers
    BY <1>1 DEF FieldsInv, QueueShape, TypeOK
  <2>2. QueueShape'
    <3>1. \A i \in 1 .. Len(queue') :
            /\ queue'[i].data # None => journal # None
            /\ queue'[i].release =>
                 i = Len(queue') /\ stage = "ended" /\ queue'[i].data = journal
      BY <1>2 DEF FieldsInv, QueueShape
    <3>2. stage \notin {"free", "claimed"} /\ UNCHANGED <<at, stage, journal>>
      BY <1>1, <1>5, <2>1
    <3> QED BY <2>1, <3>1, <3>2 DEF QueueShape
  <2>3. FailedAreProtected' /\ LeftIsJournaled'
    BY <1>1, <1>3, <1>5 DEF FieldsInv, FailedAreProtected, LeftIsJournaled, Carries
  <2>4. StoodIsKnown'
    <3>1. \A s \in Servers : s # at => places'[s] = places[s]
      BY <1>5 DEF Update, PlacesMerged, TypeOK
    <3>2. journal = None => places' = places
      BY <1>2, <1>5 DEF FieldsInv, QueueShape, Update
    <3> QED BY <1>1, <1>5, <2>1, <3>1, <3>2 DEF FieldsInv, StoodIsKnown
  <2>5. NewerIsLater'
    <3> SUFFICES ASSUME NEW f \in Fields PROVE Newer(f)'
      BY DEF NewerIsLater
    <3>1. Newer(f)
      BY DEF FieldsInv, NewerIsLater
    <3>2. CASE row'[f] = row[f]
      BY <1>1, <1>2, <1>3, <1>5, <3>1, <3>2 DEF Newer, Carries, player
    <3>3. CASE row'[f] # row[f]
      <4> DEFINE head == Head(queue).data
      <4>1. Update(head) /\ Carries(head, f) /\ row'[f] = head.value[f]
        BY <1>1, <1>3, <1>5, <3>3, UpdateFacts
      <4>2. f \notin failed /\ row'[f] <= clock
        BY <1>1, <1>3, <3>3, <4>1, UpdateFacts
      <4>3. stage = "ready" => row'[f] <= local[at][f]
        BY <1>1, <1>3, <3>1, <4>1 DEF Newer
      <4>4. Carries(journal, f) => row'[f] <= journal.value[f]
        BY <1>2, <3>1, <4>1 DEF Newer
      <4>5. \A i \in 1 .. Len(queue') : Carries(queue'[i].data, f) =>
              row'[f] <= queue'[i].data.value[f]
        <5> SUFFICES ASSUME NEW i \in 1 .. Len(queue'), Carries(queue'[i].data, f)
                     PROVE  row'[f] <= queue'[i].data.value[f]
          OBVIOUS
        <5>1. i + 1 \in 1 .. Len(queue) /\ 1 < i + 1 /\ queue'[i] = queue[i + 1]
          BY <1>2
        <5>2. 1 \in 1 .. Len(queue) /\ Head(queue).data = queue[1].data
          BY <1>2
        <5>3. \A k, m \in 1 .. Len(queue) :
                k < m /\ Carries(queue[k].data, f) /\ Carries(queue[m].data, f)
                  => queue[k].data.value[f] <= queue[m].data.value[f]
          BY <3>1 DEF Newer
        <5>4. queue[1].data.value[f] <= queue[i + 1].data.value[f]
          BY <4>1, <5>1, <5>2, <5>3
        <5> QED BY <4>1, <5>1, <5>2, <5>4
      <4>6. \A data \in Pending' : Carries(data, f) => row'[f] <= data.value[f]
        BY <1>1, <4>4, <4>5 DEF Pending
      <4> QED BY <1>1, <1>2, <1>3, <1>5, <3>1, <4>2, <4>3, <4>6 DEF Newer, Carries, player
    <3> QED BY <3>2, <3>3
  <2> QED BY <2>2, <2>3, <2>4, <2>5 DEF FieldsInv
<1> QED BY <1>4, <1>5 DEF Store, store

(* A replay does the same from the journal.                                *)
LEMMA ReplayInv == ASSUME TypeOK, FieldsInv, Replay PROVE FieldsInv'
<1>1. CASE Update(journal) /\ Release
  BY <1>1, ReleaseInv DEF Replay, memory
<1>2. CASE UNCHANGED <<store, stage>>
  BY <1>2 DEF Replay, memory, store, player, FieldsInv, QueueShape, FailedAreProtected,
     LeftIsJournaled, StoodIsKnown, NewerIsLater, Newer, Pending, Carries
<1> QED BY <1>1, <1>2 DEF Replay

(* Every step preserves the invariant.                                     *)
LEMMA FieldsStep == TypeOK /\ FieldsInv /\ [Next]_vars => (TypeOK /\ FieldsInv)'
<1>1. ASSUME TypeOK, FieldsInv, UNCHANGED vars PROVE FieldsInv'
  BY <1>1 DEF vars, memory, store, player, FieldsInv, QueueShape, FailedAreProtected,
     LeftIsJournaled, StoodIsKnown, NewerIsLater, Newer, Pending, Carries
<1>2. ASSUME TypeOK, FieldsInv, Next PROVE FieldsInv'
  BY <1>2, ClaimInv, RestoreInv, PlayInv, AutosaveInv, QuitInv, AbandonInv, LoseInv,
     StoreInv, ReplayInv DEF Next
<1> QED BY <1>1, <1>2, TypeStep DEF FieldsInv

(* The types and the invariant hold in every reachable state.              *)
THEOREM FieldsInvariant == Spec => [](TypeOK /\ FieldsInv)
BY FieldsInit, FieldsStep, PTL DEF Spec

(* Only an UPDATE with a pending payload changes the row.                  *)
LEMMA RowChanges ==
  ASSUME TypeOK, FieldsInv, [Next]_vars, row' # row
  PROVE  \A f \in Fields :
           /\ f \in failed => row'[f] = row[f]
           /\ row'[f] >= row[f]
<1> SUFFICES \E data \in Pending : stage # "free" /\ Update(data)
  BY UpdateFacts
<1>1. CASE Store
  <2>1. queue # << >> /\ Head(queue) = queue[1] /\ 1 \in 1 .. Len(queue)
    BY <1>1 DEF Store, TypeOK
  <2> QED BY <1>1, <2>1 DEF Store, store, Pending, FieldsInv, QueueShape
<1>2. CASE Replay
  BY <1>2 DEF Replay, store, Pending
<1> QED
  BY <1>1, <1>2 DEF Next, vars, Claim, Restore, Play, Autosave, Quit, Abandon, Lose, store

(* A field that could not be restored keeps its saved value.               *)
THEOREM FailedKept == Spec => FailedFieldKept
<1>1. TypeOK /\ FieldsInv /\ [Next]_vars =>
        [\A f \in Fields : row'[f] # row[f] => f \notin failed]_vars
  BY RowChanges
<1> QED BY <1>1, FieldsInvariant, PTL DEF Spec, FailedFieldKept

(* No saved field goes back to an earlier version.                         *)
THEOREM NeverOlder == Spec => NoOlderField
<1>1. TypeOK /\ FieldsInv /\ [Next]_vars =>
        [\A f \in Fields : row'[f] >= row[f]]_vars
  <2> SUFFICES ASSUME TypeOK, FieldsInv, [Next]_vars, NEW f \in Fields
               PROVE  row'[f] >= row[f]
    OBVIOUS
  <2>1. row[f] \in Nat
    BY DEF TypeOK, Stamp
  <2> QED BY <2>1, RowChanges
<1> QED BY <1>1, FieldsInvariant, PTL DEF Spec, NoOlderField

(* Type correctness of the optional fields: every payload on its way to a  *)
(* row is one the store can write.                                         *)
THEOREM TypeCorrect == Spec => []TypeOK
<1> QED BY FieldsInvariant, PTL

(* A server has the location at which it saw the player leave.             *)
THEOREM PlacesKept == Spec => []PlaceKept
<1>1. TypeOK /\ FieldsInv => PlaceKept
  BY FieldsAssumption DEF TypeOK, FieldsInv, QueueShape, StoodIsKnown, PlaceKept
<1> QED BY <1>1, FieldsInvariant, PTL

(* A session whose quit was seen is released with what the player had.     *)
THEOREM ReleaseIsFull == Spec => ReleaseCarriesFields
<1>1. ASSUME TypeOK, FieldsInv, [Next]_vars, at # None, at' = None, NEW f \in Fields,
             left[f] # None
      PROVE  row'[f] = left[f]
  <2>1. stage = "ended" /\ Update(journal)
    <3>1. CASE Store
      <4>1. Head(queue).release /\ Update(Head(queue).data)
        BY <1>1, <3>1 DEF Store, store
      <4>2. queue # << >> /\ Head(queue) = queue[1] /\ 1 \in 1 .. Len(queue)
        BY <3>1 DEF Store, TypeOK
      <4> QED BY <4>1, <4>2, <1>1 DEF FieldsInv, QueueShape
    <3>2. CASE Replay
      BY <1>1, <3>2 DEF Replay, store
    <3>3. CASE \E s \in Servers : Claim(s)
      BY <1>1, <3>3, FieldsAssumption DEF Claim
    <3> QED
      BY <1>1, <3>1, <3>2, <3>3 DEF Next, vars, Restore, Play, Autosave, Quit, Abandon,
         Lose, store
  <2>2. Carries(journal, f) /\ journal.value[f] = left[f]
    BY <1>1, <2>1 DEF FieldsInv, LeftIsJournaled
  <2> QED BY <1>1, <2>1, <2>2, UpdateFacts DEF Pending
<1>2. TypeOK /\ FieldsInv /\ [Next]_vars =>
        [at # None /\ at' = None =>
           \A f \in Fields : left[f] # None => row'[f] = left[f]]_vars
  BY <1>1
<1> QED BY <1>2, FieldsInvariant, PTL DEF Spec, ReleaseCarriesFields
=============================================================================
