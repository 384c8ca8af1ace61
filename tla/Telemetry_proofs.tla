-------------------------- MODULE Telemetry_proofs --------------------------
(***************************************************************************)
(* The telemetry of a run for any players, queue and length, with whatever *)
(* clients come and go.                                                    *)
(*                                                                         *)
(* What the reader of a sink is shown depends on what was queued before a  *)
(* player left, so every invariant is about the queue:                     *)
(*   GoneInv    behind the last sample of a player that left there is the  *)
(*              record of its removal, or that record has been written;    *)
(*   MirrorInv  the set of declared objects is what the file knows, and    *)
(*              each of them was shown to it with an identity;             *)
(*   LoopInv    without a T/C thread, the queue holds the samples of one   *)
(*              frame, all of them of players whose identity is published, *)
(*              followed by the removals of the list that was swapped.     *)
(***************************************************************************)
EXTENDS Telemetry, FiniteSetTheorems, SequenceTheorems, TLAPS

Modes      == {"unborn", "queued", "active", "deleting", "gone"}
Identities == {"none", "real", "guess"}
Showings   == {"nothing", "bare", "guess", "real"}
Records    == [what : {"data", "removed"}, id : Players, time : Nat]
BgPcs      == {"frame", "publish", "players", "drain", "scan", "beam", "stop", "stopped"}

TypeOK ==
  /\ concurrent \in BOOLEAN
  /\ mode \in [Players -> Modes] /\ players \subseteq Players
  /\ execTime \in Nat /\ tcPc \in {"out", "in"} /\ sampleLeft \subseteq Players
  /\ queue \in Seq(Records)
  /\ bgPc \in BgPcs /\ ending \in BOOLEAN
  /\ scanTime \in Nat /\ scanLeft \subseteq Players
  /\ cache \in [Players -> Identities] /\ declared \subseteq Players
  /\ streamTime \in Nat
  /\ listening \in BOOLEAN /\ open \in [Sinks -> BOOLEAN]
  /\ known \in [Sinks -> SUBSET Players]
  /\ shown \in [Sinks -> [Players -> Showings]]

Data(i)    == queue[i].what = "data"
Removed(i) == queue[i].what = "removed"

\* No reader sees p.
Unseen(p) == \A s \in Sinks : open[s] => shown[s][p] = "nothing"

\* What became of p, once it left.
GoneOf(p) ==
  mode[p] = "gone" =>
    /\ \A i \in DOMAIN queue : queue[i].id = p /\ Data(i)
         => \E j \in DOMAIN queue : i < j /\ queue[j].id = p /\ Removed(j)
    /\ (\A i \in DOMAIN queue : queue[i].id # p) => Unseen(p)

GoneInv == \A p \in Players : GoneOf(p)

MirrorInv ==
  open["file"] => /\ known["file"] = declared
                  /\ \A p \in declared : shown["file"][p] # "nothing"
                  /\ \A p \in Players : shown["file"][p] # "bare"

\* The identity of p is the player's own wherever it is asked for.
Named(p) == p \in Scenario \/ cache[p] = "real"

Swapped == bgPc \in {"drain", "scan", "beam", "stop", "stopped"}

OrderInv ==
  /\ ~Swapped => \A i \in DOMAIN queue : Data(i)
  /\ \A i, j \in DOMAIN queue : i < j /\ Removed(i) => Removed(j)

NameInv ==
  /\ bgPc \in {"frame", "publish"} => \A i \in DOMAIN queue : queue[i].id \in players
  /\ bgPc \notin {"frame", "publish"} => \A i \in DOMAIN queue : Data(i) => Named(queue[i].id)
  /\ tcPc = "in" => sampleLeft \subseteq players
  /\ \A p \in Players : cache[p] # "guess"
  /\ \A s \in Sinks, p \in Players : shown[s][p] # "guess"

TimeInv ==
  /\ \A i \in DOMAIN queue : queue[i].time = execTime
  /\ streamTime <= execTime

PhaseInv ==
  /\ bgPc \notin {"scan", "beam"}
  /\ tcPc = "in" => bgPc = "frame"
  /\ bgPc = "frame" /\ tcPc = "out" => queue = <<>>

LoopInv == ~concurrent => PhaseInv /\ OrderInv /\ NameInv /\ TimeInv

TelemetryInv == TypeOK /\ GoneInv /\ MirrorInv /\ LoopInv

-----------------------------------------------------------------------------
(* The records of the players that leave.                                  *)

\* A finite set made into a sequence: its elements, each at some place.
LEMMA SeqOfSet ==
  ASSUME NEW S, IsFiniteSet(S)
  PROVE  /\ SetToSeq(S) \in Seq(S)
         /\ \A x \in S : \E i \in 1 .. Len(SetToSeq(S)) : SetToSeq(S)[i] = x
<1> DEFINE n == Cardinality(S)
           f == SetToSeq(S)
<1>1. n \in Nat /\ ExistsBijection(1 .. n, S)
  BY FS_CardinalityType
<1>2. \E g \in [1 .. n -> S] : IsInjective(g)
  BY <1>1 DEF ExistsBijection, Bijection, Injection
<1>3. f \in [1 .. n -> S] /\ IsInjective(f)
  BY <1>2 DEF SetToSeq
<1>4. f \in Seq(S)
  BY <1>1, <1>3, SeqDef
<1>5. Len(f) = n
  BY <1>1, <1>3, <1>4, LenProperties
<1>6. f \in Surjection(1 .. n, S)
  <2>1. f \in Injection(1 .. n, S)
    BY <1>3 DEF Injection
  <2>2. Cardinality(1 .. n) = n
    BY <1>1, FS_Interval
  <2> HIDE DEF n, f
  <2> QED
    BY <2>1, <2>2, FS_Injection DEF n
<1> QED
  BY <1>1, <1>4, <1>5, <1>6 DEF Surjection

LEMMA Removals ==
  ASSUME NEW out \in SUBSET Players, execTime \in Nat
  PROVE  LET r == SetToSeq({Removal(p) : p \in out})
         IN  /\ r \in Seq(Records)
             /\ \A i \in 1 .. Len(r) : \E p \in out : r[i] = Removal(p)
             /\ \A p \in out : \E i \in 1 .. Len(r) : r[i] = Removal(p)
<1> DEFINE S == {Removal(p) : p \in out}
           m == [p \in out |-> Removal(p)]
<1>1. IsFiniteSet(out)
  <2>1. IsFiniteSet(Players)
    BY TelemetryAssumption, FS_Union DEF TelemetryAssumption, Players
  <2> QED
    BY <2>1, FS_Subset
<1>2. IsFiniteSet(S)
  <2>1. m \in Surjection(out, S)
    BY DEF Surjection
  <2> QED
    BY <1>1, <2>1, FS_Surjection
<1>3. S \subseteq Records
  BY DEF Removal, Records
<1>4. /\ SetToSeq(S) \in Seq(S)
      /\ \A x \in S : \E i \in 1 .. Len(SetToSeq(S)) : SetToSeq(S)[i] = x
  BY <1>2, SeqOfSet
<1>5. SetToSeq(S) \in Seq(Records)
  BY <1>3, <1>4, SeqMonotonic
<1>6. \A i \in 1 .. Len(SetToSeq(S)) : SetToSeq(S)[i] \in S
  BY <1>4, ElementOfSeq
<1> QED
  BY <1>4, <1>5, <1>6

-----------------------------------------------------------------------------
(* Types.                                                                  *)

LEMMA TypeInit == Init => TypeOK
<1> SUFFICES ASSUME Init PROVE TypeOK
  OBVIOUS
<1>1. mode \in [Players -> Modes] /\ players \subseteq Players
  BY DEF Init, Modes, Players
<1>2. queue \in Seq(Records) /\ bgPc \in BgPcs
  BY DEF Init, LoopStart, BgPcs
<1>3. /\ cache \in [Players -> Identities]
      /\ open \in [Sinks -> BOOLEAN]
      /\ known \in [Sinks -> SUBSET Players]
      /\ shown \in [Sinks -> [Players -> Showings]]
  BY DEF Init, Identities, Showings, Unknown
<1>4. /\ concurrent \in BOOLEAN /\ tcPc \in {"out", "in"} /\ sampleLeft \subseteq Players
      /\ ending \in BOOLEAN /\ scanLeft \subseteq Players /\ declared \subseteq Players
      /\ execTime \in Nat /\ scanTime \in Nat /\ streamTime \in Nat /\ listening \in BOOLEAN
  BY DEF Init
<1> QED
  BY <1>1, <1>2, <1>3, <1>4 DEF TypeOK

\* The records of a frame and of a list swap.
LEMMA RecordTypes ==
  ASSUME NEW p \in Players, execTime \in Nat
  PROVE  [what |-> "data", id |-> p, time |-> execTime] \in Records
  BY DEF Records

LEMMA IdentityType == ASSUME TypeOK, NEW p \in Players PROVE Identity(p) \in {"real", "guess"}
  BY DEF TypeOK, Identities, Identity

\* One frame of the T/C thread.
LEMMA TcTypes == TypeOK /\ TcNext /\ UNCHANGED concurrent => TypeOK'
<1> SUFFICES ASSUME TypeOK, TcNext, UNCHANGED concurrent PROVE TypeOK'
  OBVIOUS
<1> USE DEF bgVars, outputVars
<1>1. CASE TcBegin
  BY <1>1 DEF TypeOK, TcBegin
<1>2. CASE \E p \in Players : TcSample(p)
  <2>1. PICK p \in Players : TcSample(p)
    BY <1>2
  <2>2. queue' \in Seq(Records)
    BY <2>1, RecordTypes, AppendProperties DEF TcSample, TypeOK
  <2> QED
    BY <2>1, <2>2 DEF TypeOK, TcSample
<1>3. CASE \E p \in Players : TcNoSample(p)
  BY <1>3 DEF TypeOK, TcNoSample
<1>4. CASE \E p \in Players : TcRelease(p)
  BY <1>4 DEF TypeOK, TcRelease, Modes
<1>5. CASE \E p \in Players : TcDelete(p)
  BY <1>5 DEF TypeOK, TcDelete, Modes
<1>6. CASE TcEnd
  BY <1>6 DEF TypeOK, TcEnd, BgPcs
<1> QED
  BY <1>1, <1>2, <1>3, <1>4, <1>5, <1>6 DEF TcNext, TcFrame

\* One record written.
LEMMA WriteTypes ==
  ASSUME TypeOK, NEW sent \in BOOLEAN, ProcessRecord(sent), UNCHANGED concurrent
  PROVE  TypeOK'
<1> USE DEF worldVars, bgVars
<1>1. /\ queue' \in Seq(Records)
      /\ Head(queue) \in Records
  BY HeadTailProperties DEF TypeOK, ProcessRecord
<1>2. Head(queue).id \in Players /\ Head(queue).time \in Nat
  BY <1>1 DEF Records
<1>3. UNCHANGED <<concurrent, mode, players, execTime, tcPc, sampleLeft, bgPc, ending,
                  scanTime, scanLeft, listening>>
  BY DEF ProcessRecord
<1>4. /\ streamTime' \in Nat
      /\ open' \in [Sinks -> BOOLEAN]
  BY <1>2 DEF ProcessRecord, FrameAndSend, TypeOK
<1>5. /\ declared' \subseteq Players
      /\ cache' \in [Players -> Identities]
      /\ known' \in [Sinks -> SUBSET Players]
      /\ shown' \in [Sinks -> [Players -> Showings]]
  <2>1. CASE ~Active
    BY <2>1 DEF ProcessRecord, TypeOK
  <2>2. CASE Active /\ EmitState(Head(queue).id)
    <3> DEFINE p == Head(queue).id
    <3>1. p \in Players /\ Identity(p) \in {"real", "guess"}
      BY <1>2, IdentityType
    <3>2. declared' \subseteq Players /\ cache' \in [Players -> Identities]
      BY <2>2, <3>1 DEF EmitState, TypeOK, Identities
    <3>3. known' \in [Sinks -> SUBSET Players]
      BY <2>2, <3>1 DEF EmitState, TypeOK
    <3>4. shown' \in [Sinks -> [Players -> Showings]]
      BY <2>2, <3>1 DEF EmitState, TypeOK, Showings
    <3> QED
      BY <3>2, <3>3, <3>4
  <2>3. CASE Active /\ RemoveObject(Head(queue).id)
    <3>1. declared' \subseteq Players /\ cache' \in [Players -> Identities]
      BY <2>3, <1>2 DEF RemoveObject, TypeOK, Identities
    <3>2. known' \in [Sinks -> SUBSET Players]
      BY <2>3 DEF RemoveObject, TypeOK
    <3>3. shown' \in [Sinks -> [Players -> Showings]]
      BY <2>3, <1>2 DEF RemoveObject, TypeOK, Showings
    <3> QED
      BY <3>1, <3>2, <3>3
  <2> QED
    BY <2>1, <2>2, <2>3 DEF ProcessRecord
<1> QED
  BY <1>1, <1>3, <1>4, <1>5 DEF TypeOK

\* The background loop, and the end of the run.
LEMMA BgTypes ==
  TypeOK /\ (BgWork \/ AcceptClient \/ LastUpdate) /\ UNCHANGED concurrent => TypeOK'
<1> SUFFICES ASSUME TypeOK, BgWork \/ AcceptClient \/ LastUpdate, UNCHANGED concurrent
             PROVE  TypeOK'
  OBVIOUS
<1> USE DEF worldVars, bgVars, outputVars
<1>1. CASE Publish
  BY <1>1 DEF TypeOK, Publish, Identities, BgPcs
<1>2. CASE UpdatePlayerList
  <2>1. Deleting \subseteq Players /\ Arriving \subseteq Players
    BY DEF TypeOK, Deleting, Arriving
  <2>2. queue' \in Seq(Records)
    BY <1>2, <2>1, Removals, ConcatProperties DEF TypeOK, UpdatePlayerList
  <2>3. mode' \in [Players -> Modes] /\ players' \subseteq Players
    BY <1>2, <2>1 DEF TypeOK, UpdatePlayerList, Modes
  <2> QED
    BY <1>2, <2>2, <2>3 DEF TypeOK, UpdatePlayerList, BgPcs
<1>3. CASE DrainDone
  BY <1>3 DEF TypeOK, DrainDone, LoopStart, BgPcs
<1>4. CASE ScanBegin
  BY <1>4 DEF TypeOK, ScanBegin, BgPcs
<1>5. CASE ScanDone
  BY <1>5 DEF TypeOK, ScanDone, LoopStart, BgPcs
<1>6. CASE Stop
  BY <1>6 DEF TypeOK, Stop, BgPcs
<1>7. CASE \E sent \in BOOLEAN : ProcessRecord(sent)
  BY <1>7, WriteTypes
<1>8. CASE \E p \in Players : NoBeam(p)
  BY <1>8 DEF TypeOK, NoBeam
<1>9. CASE \E p \in Players, sent \in BOOLEAN : BeamLine(p, sent)
  BY <1>9 DEF TypeOK, BeamLine, FrameAndSend
<1>10. CASE AcceptClient
  <2>1. /\ open' \in [Sinks -> BOOLEAN] /\ known' \in [Sinks -> SUBSET Players]
        /\ shown' \in [Sinks -> [Players -> Showings]]
    BY <1>10 DEF TypeOK, AcceptClient, Unknown, Showings
  <2> QED
    BY <1>10, <2>1 DEF TypeOK, AcceptClient
<1>11. CASE LastUpdate
  BY <1>11 DEF TypeOK, LastUpdate, BgPcs
<1> QED
  BY <1>1, <1>2, <1>3, <1>4, <1>5, <1>6, <1>7, <1>8, <1>9, <1>10, <1>11 DEF BgWork

LEMMA TypeKeeps == TypeOK /\ [Next]_vars => TypeOK'
<1>1. TypeOK /\ UNCHANGED vars => TypeOK'
  BY DEF TypeOK, vars, stepVars, worldVars, bgVars, outputVars
<1> QED
  BY <1>1, TcTypes, BgTypes DEF Next

-----------------------------------------------------------------------------
(* What the steps do to the queue.                                         *)

LEMMA QueueSampled ==
  ASSUME TypeOK, NEW q \in Players, TcSample(q)
  PROVE  /\ Len(queue) \in Nat /\ DOMAIN queue = 1 .. Len(queue)
         /\ DOMAIN queue' = 1 .. Len(queue) + 1
         /\ \A i \in DOMAIN queue : queue'[i] = queue[i]
         /\ queue'[Len(queue) + 1] = [what |-> "data", id |-> q, time |-> execTime]
<1>1. /\ queue' \in Seq(Records) /\ Len(queue') = Len(queue) + 1
      /\ \A i \in 1 .. Len(queue) : queue'[i] = queue[i]
      /\ queue'[Len(queue) + 1] = [what |-> "data", id |-> q, time |-> execTime]
  BY RecordTypes, AppendProperties DEF TcSample, TypeOK
<1> QED
  BY <1>1, LenProperties DEF TypeOK

LEMMA QueueSwapped ==
  ASSUME TypeOK, UpdatePlayerList
  PROVE  /\ DOMAIN queue \subseteq DOMAIN queue' /\ DOMAIN queue' \subseteq Int
         /\ \A i \in DOMAIN queue : queue'[i] = queue[i]
         /\ \A i \in DOMAIN queue' \ DOMAIN queue : \E q \in Deleting : queue'[i] = Removal(q)
         /\ \A i \in DOMAIN queue, j \in DOMAIN queue' \ DOMAIN queue : i < j
         /\ \A q \in Deleting : \E j \in DOMAIN queue' \ DOMAIN queue : queue'[j] = Removal(q)
<1> DEFINE r == SetToSeq({Removal(q) : q \in Deleting})
<1>1. /\ r \in Seq(Records)
      /\ \A i \in 1 .. Len(r) : \E q \in Deleting : r[i] = Removal(q)
      /\ \A q \in Deleting : \E i \in 1 .. Len(r) : r[i] = Removal(q)
  BY Removals DEF TypeOK, Deleting
<1>2. queue' = queue \o r
  BY DEF UpdatePlayerList
<1> HIDE DEF r
<1>3. /\ Len(queue) \in Nat /\ Len(r) \in Nat
      /\ DOMAIN queue = 1 .. Len(queue) /\ DOMAIN queue' = 1 .. Len(queue) + Len(r)
      /\ \A i \in 1 .. Len(queue) : queue'[i] = queue[i]
      /\ \A i \in Len(queue) + 1 .. Len(queue) + Len(r) : queue'[i] = r[i - Len(queue)]
  BY <1>1, <1>2, LenProperties, ConcatProperties DEF TypeOK
<1>4. DOMAIN queue' \ DOMAIN queue = Len(queue) + 1 .. Len(queue) + Len(r)
  BY <1>3
<1>5. \A i \in DOMAIN queue' \ DOMAIN queue :
        i - Len(queue) \in 1 .. Len(r) /\ queue'[i] = r[i - Len(queue)]
  BY <1>3, <1>4
<1>6. ASSUME NEW i \in 1 .. Len(r)
      PROVE  \E j \in DOMAIN queue' \ DOMAIN queue : queue'[j] = r[i]
  <2>1. Len(queue) + i \in Len(queue) + 1 .. Len(queue) + Len(r)
    BY <1>3
  <2>2. (Len(queue) + i) - Len(queue) = i
    BY <1>3
  <2> QED
    BY <1>3, <1>4, <2>1, <2>2
<1>7. \A i \in DOMAIN queue, j \in DOMAIN queue' \ DOMAIN queue : i < j
  BY <1>3, <1>4
<1>8. DOMAIN queue \subseteq DOMAIN queue' /\ DOMAIN queue' \subseteq Int
  BY <1>3
<1>9. \A i \in DOMAIN queue : queue'[i] = queue[i]
  BY <1>3
<1>10. \A i \in DOMAIN queue' \ DOMAIN queue : \E q \in Deleting : queue'[i] = Removal(q)
  <2> SUFFICES ASSUME NEW i \in DOMAIN queue' \ DOMAIN queue
               PROVE  \E q \in Deleting : queue'[i] = Removal(q)
    OBVIOUS
  <2>1. PICK q \in Deleting : r[i - Len(queue)] = Removal(q)
    BY <1>1, <1>5
  <2> QED
    BY <1>5, <2>1
<1>11. \A q \in Deleting : \E j \in DOMAIN queue' \ DOMAIN queue : queue'[j] = Removal(q)
  <2> SUFFICES ASSUME NEW q \in Deleting
               PROVE  \E j \in DOMAIN queue' \ DOMAIN queue : queue'[j] = Removal(q)
    OBVIOUS
  <2>1. PICK i \in 1 .. Len(r) : r[i] = Removal(q)
    BY <1>1
  <2> QED
    BY <1>6, <2>1
<1> QED
  BY <1>7, <1>8, <1>9, <1>10, <1>11

LEMMA QueueWritten ==
  ASSUME TypeOK, NEW sent \in BOOLEAN, ProcessRecord(sent)
  PROVE  /\ Head(queue) \in Records /\ 1 \in DOMAIN queue /\ Head(queue) = queue[1]
         /\ DOMAIN queue \subseteq Nat \ {0} /\ DOMAIN queue' \subseteq Nat \ {0}
         /\ \A i \in DOMAIN queue' : i + 1 \in DOMAIN queue /\ queue'[i] = queue[i + 1]
         /\ \A i \in DOMAIN queue : i > 1 => i - 1 \in DOMAIN queue' /\ queue'[i - 1] = queue[i]
<1>1. /\ queue # <<>> /\ queue' = Tail(queue) /\ queue' \in Seq(Records)
      /\ Len(queue') = Len(queue) - 1 /\ Head(queue) \in Records /\ Head(queue) = queue[1]
      /\ \A i \in 1 .. Len(queue') : queue'[i] = queue[i + 1]
  BY HeadTailProperties DEF ProcessRecord, TypeOK
<1>2. /\ Len(queue) \in Nat \ {0} /\ DOMAIN queue = 1 .. Len(queue)
      /\ DOMAIN queue' = 1 .. Len(queue) - 1
  BY <1>1, LenProperties, EmptySeq DEF TypeOK
<1>3. \A i \in DOMAIN queue' : i + 1 \in DOMAIN queue /\ queue'[i] = queue[i + 1]
  BY <1>1, <1>2
<1>4. \A i \in DOMAIN queue : i > 1 => i - 1 \in DOMAIN queue' /\ queue'[i - 1] = queue[i]
  BY <1>1, <1>2
<1> QED
  BY <1>1, <1>2, <1>3, <1>4

-----------------------------------------------------------------------------
(* What the file was told.                                                 *)

\* The steps that write nothing.
LEMMA QuietSteps ==
  \/ TcNext \/ UpdatePlayerList \/ DrainDone \/ ScanBegin \/ ScanDone \/ LastUpdate
  \/ (\E p \in Players : NoBeam(p)) \/ UNCHANGED vars
  => UNCHANGED outputVars
<1>1. UNCHANGED vars => UNCHANGED outputVars
  BY DEF vars, stepVars, outputVars
<1>2. TcNext => UNCHANGED outputVars
  BY DEF TcNext, TcFrame, TcBegin, TcSample, TcNoSample, TcRelease, TcDelete, TcEnd
<1> QED
  BY <1>1, <1>2 DEF UpdatePlayerList, DrainDone, ScanBegin, ScanDone, LastUpdate, NoBeam

LEMMA QuietOr ==
  [Next]_vars => \/ UNCHANGED outputVars \/ Publish \/ AcceptClient \/ Stop
                 \/ \E sent \in BOOLEAN : ProcessRecord(sent)
                 \/ \E p \in Players, sent \in BOOLEAN : BeamLine(p, sent)
  BY QuietSteps DEF Next, BgWork

LEMMA MirrorWrite ==
  ASSUME TypeOK, MirrorInv, NEW sent \in BOOLEAN, ProcessRecord(sent)
  PROVE  MirrorInv'
<1> SUFFICES ASSUME open'["file"]
             PROVE  /\ known'["file"] = declared'
                    /\ \A q \in declared' : shown'["file"][q] # "nothing"
                    /\ \A q \in Players : shown'["file"][q] # "bare"
  BY DEF MirrorInv
<1> DEFINE p == Head(queue).id
<1>1. p \in Players
  <2>1. Head(queue) \in Records
    BY HeadTailProperties DEF TypeOK, ProcessRecord
  <2> QED
    BY <2>1 DEF Records
<1>2. open["file"] /\ "file" \in Sinks
  BY DEF ProcessRecord, FrameAndSend, TypeOK, Sinks
<1>3. Active
  BY <1>2 DEF Active
<1>4. /\ known["file"] = declared
      /\ \A q \in declared : shown["file"][q] # "nothing"
      /\ \A q \in Players : shown["file"][q] # "bare"
  BY <1>2 DEF MirrorInv
<1>5. CASE EmitState(p)
  <2>1. Identity(p) \notin {"nothing", "bare"}
    BY <1>1, IdentityType
  <2>2. known'["file"] = declared'
    BY <1>2, <1>4, <1>5 DEF EmitState
  <2>3. shown'["file"] = [shown["file"] EXCEPT ![p] =
                            IF First(p) /\ p \notin known["file"] THEN Identity(p)
                            ELSE IF @ = "nothing" THEN "bare" ELSE @]
    BY <1>2, <1>5 DEF EmitState
  <2>4. shown["file"] \in [Players -> Showings]
    BY <1>2 DEF TypeOK
  <2>5. \A q \in Players : shown'["file"][q] =
          IF q # p THEN shown["file"][q] ELSE IF p \notin declared THEN Identity(p) ELSE shown["file"][p]
    BY <1>1, <1>4, <2>3, <2>4 DEF First
  <2>6. declared' = declared \cup {p} /\ declared \subseteq Players
    BY <1>5 DEF EmitState, TypeOK
  <2> QED
    BY <1>1, <1>4, <2>1, <2>2, <2>5, <2>6
<1>6. CASE RemoveObject(p)
  <2>1. known'["file"] = declared'
    BY <1>2, <1>4, <1>6 DEF RemoveObject
  <2>2. shown'["file"] = [shown["file"] EXCEPT ![p] = "nothing"]
    BY <1>2, <1>6 DEF RemoveObject
  <2>3. shown["file"] \in [Players -> Showings]
    BY <1>2 DEF TypeOK
  <2>4. declared' = declared \ {p} /\ declared \subseteq Players
    BY <1>6 DEF RemoveObject, TypeOK
  <2> QED
    BY <1>1, <1>4, <2>1, <2>2, <2>3, <2>4
<1> QED
  BY <1>3, <1>5, <1>6 DEF ProcessRecord

LEMMA MirrorKeeps == TypeOK /\ MirrorInv /\ [Next]_vars => MirrorInv'
<1> SUFFICES ASSUME TypeOK, MirrorInv, [Next]_vars PROVE MirrorInv'
  OBVIOUS
<1>1. CASE UNCHANGED outputVars
  BY <1>1 DEF MirrorInv, outputVars
<1>2. CASE Publish
  BY <1>2 DEF MirrorInv, Publish
<1>3. CASE AcceptClient
  BY <1>3 DEF MirrorInv, AcceptClient, TypeOK, Sinks
<1>4. CASE Stop
  BY <1>4 DEF MirrorInv, Stop, Sinks
<1>5. CASE \E sent \in BOOLEAN : ProcessRecord(sent)
  BY <1>5, MirrorWrite
<1>6. CASE \E p \in Players, sent \in BOOLEAN : BeamLine(p, sent)
  BY <1>6 DEF MirrorInv, BeamLine, FrameAndSend, TypeOK, Sinks
<1> QED
  BY <1>1, <1>2, <1>3, <1>4, <1>5, <1>6, QuietOr

-----------------------------------------------------------------------------
(* Who left stays away.                                                    *)

\* A player of the frame is sampled: it has not left.
LEMMA GoneSample ==
  ASSUME TypeOK, NEW q \in Players, TcSample(q), NEW p \in Players, GoneOf(p)
  PROVE  GoneOf(p)'
<1> SUFFICES ASSUME mode'[p] = "gone"
             PROVE  /\ \A i \in DOMAIN queue' : queue'[i].id = p /\ Data(i)'
                         => \E j \in DOMAIN queue' : i < j /\ queue'[j].id = p /\ Removed(j)'
                    /\ (\A i \in DOMAIN queue' : queue'[i].id # p) => Unseen(p)'
  BY DEF GoneOf
<1>1. mode[p] = "gone" /\ q # p /\ UNCHANGED outputVars
  BY DEF TcSample
<1>2. /\ Len(queue) \in Nat /\ DOMAIN queue = 1 .. Len(queue)
      /\ DOMAIN queue' = 1 .. Len(queue) + 1
      /\ \A i \in DOMAIN queue : queue'[i] = queue[i]
      /\ queue'[Len(queue) + 1].id = q
  <2>1. queue'[Len(queue) + 1] = [what |-> "data", id |-> q, time |-> execTime]
    BY QueueSampled
  <2> QED
    BY <2>1, QueueSampled
<1>3. \A i \in DOMAIN queue' : queue'[i].id = p => i \in DOMAIN queue /\ queue'[i] = queue[i]
  BY <1>1, <1>2
<1>4. DOMAIN queue \subseteq DOMAIN queue' /\ \A i \in DOMAIN queue : queue'[i] = queue[i]
  BY <1>2
<1>5. Unseen(p)' = Unseen(p)
  BY <1>1 DEF Unseen, outputVars
<1> QED
  BY <1>1, <1>3, <1>4, <1>5 DEF GoneOf, Data, Removed

\* The lists are swapped: who leaves does so with a record behind all others.
LEMMA GoneSwap ==
  ASSUME TypeOK, UpdatePlayerList, NEW p \in Players, GoneOf(p)
  PROVE  GoneOf(p)'
<1> SUFFICES ASSUME mode'[p] = "gone"
             PROVE  /\ \A i \in DOMAIN queue' : queue'[i].id = p /\ Data(i)'
                         => \E j \in DOMAIN queue' : i < j /\ queue'[j].id = p /\ Removed(j)'
                    /\ (\A i \in DOMAIN queue' : queue'[i].id # p) => Unseen(p)'
  BY DEF GoneOf
<1>1. /\ DOMAIN queue \subseteq DOMAIN queue'
      /\ \A i \in DOMAIN queue : queue'[i] = queue[i]
      /\ \A i \in DOMAIN queue, j \in DOMAIN queue' \ DOMAIN queue : i < j
  BY QueueSwapped
<1>2. Unseen(p)' = Unseen(p)
  BY DEF UpdatePlayerList, Unseen, outputVars
<1>3. \A i \in DOMAIN queue' : Data(i)' => i \in DOMAIN queue /\ Data(i)
  BY QueueSwapped DEF Data, Removal
<1>4. CASE p \in Deleting
  <2>1. PICK j \in DOMAIN queue' \ DOMAIN queue : queue'[j] = Removal(p)
    BY <1>4, QueueSwapped
  <2>2. queue'[j].id = p /\ Removed(j)'
    BY <2>1 DEF Removal, Removed
  <2>3. \A i \in DOMAIN queue' : Data(i)' => i < j
    BY <1>1, <1>3
  <2> QED
    BY <2>2, <2>3
<1>5. CASE p \notin Deleting
  <2>1. mode[p] = "gone"
    BY <1>5 DEF UpdatePlayerList, Arriving
  <2> QED
    BY <1>1, <1>2, <1>3, <2>1 DEF GoneOf, Data, Removed
<1> QED
  BY <1>4, <1>5

\* A record is written: the last sample of p is followed by its removal, and
\* after that nobody sees it.
LEMMA GoneWrite ==
  ASSUME TypeOK, NEW sent \in BOOLEAN, ProcessRecord(sent), NEW p \in Players, GoneOf(p)
  PROVE  GoneOf(p)'
<1> SUFFICES ASSUME mode'[p] = "gone"
             PROVE  /\ \A i \in DOMAIN queue' : queue'[i].id = p /\ Data(i)'
                         => \E j \in DOMAIN queue' : i < j /\ queue'[j].id = p /\ Removed(j)'
                    /\ (\A i \in DOMAIN queue' : queue'[i].id # p) => Unseen(p)'
  BY DEF GoneOf
<1> DEFINE q == Head(queue).id
<1>1. mode[p] = "gone"
  BY DEF ProcessRecord, worldVars
<1>2. Head(queue) \in Records /\ 1 \in DOMAIN queue /\ Head(queue) = queue[1]
  BY QueueWritten
<1>3. DOMAIN queue \subseteq Nat \ {0} /\ DOMAIN queue' \subseteq Nat \ {0}
  BY QueueWritten
<1>4. \A i \in DOMAIN queue' : i + 1 \in DOMAIN queue /\ queue'[i] = queue[i + 1]
  BY QueueWritten
<1>5. \A i \in DOMAIN queue : i > 1 => i - 1 \in DOMAIN queue' /\ queue'[i - 1] = queue[i]
  BY QueueWritten
<1>6. \A i \in DOMAIN queue' : queue'[i].id = p /\ Data(i)'
         => \E j \in DOMAIN queue' : i < j /\ queue'[j].id = p /\ Removed(j)'
  <2> SUFFICES ASSUME NEW i \in DOMAIN queue', queue'[i].id = p, Data(i)'
               PROVE  \E j \in DOMAIN queue' : i < j /\ queue'[j].id = p /\ Removed(j)'
    OBVIOUS
  <2>1. PICK k \in DOMAIN queue : i + 1 < k /\ queue[k].id = p /\ Removed(k)
    BY <1>1, <1>4 DEF GoneOf, Data
  <2>2. k - 1 \in DOMAIN queue' /\ i < k - 1 /\ queue'[k - 1] = queue[k]
    BY <1>3, <1>5, <2>1
  <2> QED
    BY <2>1, <2>2 DEF Removed
<1>7. ASSUME \A i \in DOMAIN queue' : queue'[i].id # p
      PROVE  Unseen(p)'
  <2>1. \A i \in DOMAIN queue : queue[i].id = p => i = 1
    BY <1>3, <1>5, <1>7
  <2>2. \A s \in Sinks : open'[s] => open[s]
    BY DEF ProcessRecord, FrameAndSend, TypeOK, Sinks
  <2>3. CASE ~Active
    BY <2>2, <2>3 DEF Active, Unseen
  <2>4. CASE Active /\ q = p
    <3>1. Removed(1)
      <4>1. ~Data(1)
        BY <1>1, <1>2, <1>3, <2>1, <2>4 DEF GoneOf
      <4> QED
        BY <1>2, <4>1 DEF Data, Removed, Records
    <3>2. RemoveObject(p)
      BY <1>2, <2>4, <3>1 DEF ProcessRecord, Removed
    <3>3. \A s \in Sinks : open[s] => shown'[s][p] = "nothing"
      BY <3>2 DEF RemoveObject, TypeOK
    <3> QED
      BY <2>2, <3>3 DEF Unseen
  <2>5. CASE Active /\ q # p
    <3>1. Unseen(p)
      <4>1. \A i \in DOMAIN queue : queue[i].id # p
        BY <1>2, <2>1, <2>5
      <4> QED
        BY <1>1, <4>1 DEF GoneOf
    <3>2. \A s \in Sinks : shown'[s][p] = shown[s][p]
      <4>1. q \in Players
        BY <1>2 DEF Records
      <4>2. CASE EmitState(q)
        BY <2>5, <4>1, <4>2 DEF EmitState, TypeOK
      <4>3. CASE RemoveObject(q)
        BY <2>5, <4>1, <4>3 DEF RemoveObject, TypeOK
      <4> QED
        BY <2>5, <4>2, <4>3 DEF ProcessRecord
    <3> QED
      BY <2>2, <3>1, <3>2 DEF Unseen
  <2> QED
    BY <2>3, <2>4, <2>5
<1> QED
  BY <1>6, <1>7

\* No other step queues a record, shows an object or lets a player leave.
LEMMA GoneElse ==
  ASSUME TypeOK, [Next]_vars, NEW p \in Players, GoneOf(p),
         \A q \in Players : ~TcSample(q), ~UpdatePlayerList,
         \A sent \in BOOLEAN : ~ProcessRecord(sent)
  PROVE  GoneOf(p)'
<1>1. UNCHANGED queue
  BY DEF Next, TcNext, TcFrame, TcBegin, TcNoSample, TcRelease, TcDelete, TcEnd, BgWork, Publish,
    AcceptClient, DrainDone, ScanBegin, ScanDone, NoBeam, BeamLine, LastUpdate, Stop, vars,
    stepVars
<1>2. mode'[p] = "gone" => mode[p] = "gone"
  <2>1. CASE \E q \in Players : TcRelease(q) \/ TcDelete(q)
    BY <2>1 DEF TcRelease, TcDelete, TypeOK
  <2>2. CASE ~\E q \in Players : TcRelease(q) \/ TcDelete(q)
    BY <2>2 DEF Next, TcNext, TcFrame, TcBegin, TcNoSample, TcEnd, BgWork, Publish,
      AcceptClient, DrainDone, ScanBegin, ScanDone, NoBeam, BeamLine, LastUpdate, Stop, vars,
      stepVars, worldVars
  <2> QED
    BY <2>1, <2>2
<1>3. Unseen(p) => Unseen(p)'
  <2>1. CASE UNCHANGED outputVars
    BY <2>1 DEF Unseen, outputVars
  <2>2. CASE Publish
    BY <2>2 DEF Unseen, Publish
  <2>3. CASE AcceptClient
    BY <2>3 DEF Unseen, AcceptClient, Unknown, TypeOK, Sinks
  <2>4. CASE Stop
    BY <2>4 DEF Unseen, Stop
  <2>5. CASE \E q \in Players, sent \in BOOLEAN : BeamLine(q, sent)
    BY <2>5 DEF Unseen, BeamLine, FrameAndSend, TypeOK, Sinks
  <2> QED
    BY <2>1, <2>2, <2>3, <2>4, <2>5, QuietOr
<1> QED
  BY <1>1, <1>2, <1>3 DEF GoneOf, Data, Removed

LEMMA GoneKeeps == TypeOK /\ GoneInv /\ [Next]_vars => GoneInv'
<1> SUFFICES ASSUME TypeOK, GoneInv, [Next]_vars, NEW p \in Players PROVE GoneOf(p)'
  BY DEF GoneInv
<1>1. GoneOf(p)
  BY DEF GoneInv
<1> QED
  BY <1>1, GoneSample, GoneSwap, GoneWrite, GoneElse

-----------------------------------------------------------------------------
(* Without a T/C thread.                                                   *)

LEMMA LoopInit == Init => LoopInv
<1> SUFFICES ASSUME Init, ~concurrent PROVE PhaseInv /\ OrderInv /\ NameInv /\ TimeInv
  BY DEF LoopInv
<1>1. queue = <<>> /\ DOMAIN queue = {} /\ bgPc = "frame" /\ tcPc = "out"
  BY DEF Init, LoopStart
<1>2. PhaseInv /\ OrderInv
  BY <1>1 DEF PhaseInv, OrderInv, Swapped
<1>3. NameInv /\ TimeInv
  BY <1>1 DEF NameInv, TimeInv, Init, Unknown
<1> QED
  BY <1>2, <1>3

\* A frame is begun with the queue drained, and adds samples of its players.
LEMMA LoopTc ==
  ASSUME TypeOK, LoopInv, ~concurrent, TcNext
  PROVE  PhaseInv' /\ OrderInv' /\ NameInv' /\ TimeInv'
<1> USE DEF bgVars, outputVars
<1>1. PhaseInv /\ OrderInv /\ NameInv /\ TimeInv
  BY DEF LoopInv
<1>2. CASE TcBegin
  <2>1. queue = <<>> /\ queue' = <<>> /\ DOMAIN queue' = {} /\ bgPc = "frame"
    BY <1>1, <1>2 DEF TcBegin, PhaseInv
  <2>2. PhaseInv' /\ OrderInv'
    BY <1>2, <2>1 DEF TcBegin, PhaseInv, OrderInv, Swapped
  <2>3. NameInv'
    BY <1>1, <1>2, <2>1 DEF TcBegin, NameInv
  <2>4. TimeInv'
    BY <1>1, <1>2, <2>1 DEF TcBegin, TimeInv, TypeOK
  <2> QED
    BY <2>2, <2>3, <2>4
<1>3. CASE \E p \in Players : TcSample(p)
  <2>1. PICK p \in Players : TcSample(p)
    BY <1>3
  <2>2. /\ Len(queue) \in Nat /\ DOMAIN queue = 1 .. Len(queue)
        /\ DOMAIN queue' = 1 .. Len(queue) + 1
        /\ \A i \in DOMAIN queue : queue'[i] = queue[i]
        /\ queue'[Len(queue) + 1] = [what |-> "data", id |-> p, time |-> execTime]
    BY <2>1, QueueSampled
  <2>3. bgPc = "frame" /\ tcPc = "in" /\ p \in players
    BY <1>1, <2>1 DEF TcSample, PhaseInv, NameInv
  <2>4. \A i \in DOMAIN queue' : /\ queue'[i].what = "data" /\ queue'[i].id \in players
                                 /\ queue'[i].time = execTime
    <3> SUFFICES ASSUME NEW i \in DOMAIN queue'
                 PROVE  /\ queue'[i].what = "data" /\ queue'[i].id \in players
                        /\ queue'[i].time = execTime
      OBVIOUS
    <3>1. CASE i \in DOMAIN queue
      BY <1>1, <2>2, <2>3, <3>1 DEF OrderInv, Swapped, NameInv, TimeInv, Data
    <3>2. CASE i = Len(queue) + 1
      BY <2>2, <2>3, <3>2
    <3> QED
      BY <2>2, <3>1, <3>2
  <2>5. PhaseInv'
    BY <1>1, <2>1 DEF TcSample, PhaseInv
  <2>6. OrderInv'
    BY <2>4 DEF OrderInv, Data, Removed
  <2>7. NameInv'
    BY <1>1, <2>1, <2>3, <2>4 DEF TcSample, NameInv
  <2>8. TimeInv'
    BY <1>1, <2>1, <2>4 DEF TcSample, TimeInv
  <2> QED
    BY <2>5, <2>6, <2>7, <2>8
<1>4. CASE \E p \in Players : TcNoSample(p) \/ TcRelease(p) \/ TcDelete(p)
  <2>1. /\ UNCHANGED <<players, execTime, tcPc, queue, bgVars, outputVars>>
        /\ sampleLeft' \subseteq sampleLeft
    BY <1>4 DEF TcNoSample, TcRelease, TcDelete
  <2> QED
    BY <1>1, <2>1 DEF PhaseInv, OrderInv, Swapped, Data, Removed, NameInv, Named, TimeInv
<1>5. CASE TcEnd
  <2>1. UNCHANGED <<players, execTime, queue, outputVars>>
    BY <1>5 DEF TcEnd
  <2>2. bgPc = "frame" /\ bgPc' = "publish" /\ tcPc' = "out"
    BY <1>1, <1>5 DEF TcEnd, PhaseInv
  <2> QED
    BY <1>1, <2>1, <2>2 DEF PhaseInv, OrderInv, Swapped, Data, Removed, NameInv, Named, TimeInv
<1> QED
  BY <1>2, <1>3, <1>4, <1>5 DEF TcNext, TcFrame

\* The lists are swapped with every sample of the frame in the queue.
LEMMA LoopSwap ==
  ASSUME TypeOK, LoopInv, ~concurrent, UpdatePlayerList
  PROVE  PhaseInv' /\ OrderInv' /\ NameInv' /\ TimeInv'
<1>1. PhaseInv /\ OrderInv /\ NameInv /\ TimeInv
  BY DEF LoopInv
<1>2. /\ bgPc = "players" /\ bgPc' = "drain" /\ tcPc = "out"
      /\ UNCHANGED <<execTime, tcPc, sampleLeft, outputVars>>
  BY <1>1 DEF UpdatePlayerList, PhaseInv, TypeOK
<1>3. /\ \A i \in DOMAIN queue : queue'[i] = queue[i]
      /\ \A i \in DOMAIN queue, j \in DOMAIN queue' \ DOMAIN queue : i < j
      /\ DOMAIN queue' \subseteq Int
  BY QueueSwapped
<1>4. \A i \in DOMAIN queue' \ DOMAIN queue :
        queue'[i].what = "removed" /\ queue'[i].time = execTime
  BY QueueSwapped DEF Removal
<1>5. \A i \in DOMAIN queue : queue[i].what = "data"
  BY <1>1, <1>2 DEF OrderInv, Swapped, Data
<1>6. PhaseInv'
  BY <1>2 DEF PhaseInv
<1>7. OrderInv'
  <2>1. Swapped'
    BY <1>2 DEF Swapped
  <2>2. \A i, j \in DOMAIN queue' : i < j /\ Removed(i)' => Removed(j)'
    <3> SUFFICES ASSUME NEW i \in DOMAIN queue', NEW j \in DOMAIN queue', i < j, Removed(i)'
                 PROVE  Removed(j)'
      OBVIOUS
    <3>1. i \notin DOMAIN queue
      BY <1>3, <1>5 DEF Removed
    <3>2. j \notin DOMAIN queue
      BY <1>3, <3>1
    <3> QED
      BY <1>4, <3>2 DEF Removed
  <2> QED
    BY <2>1, <2>2 DEF OrderInv
<1>8. NameInv'
  <2>1. \A i \in DOMAIN queue' : Data(i)' => Named(queue[i].id)'
    BY <1>1, <1>2, <1>3, <1>4 DEF NameInv, Data, Named, outputVars
  <2> QED
    BY <1>1, <1>2, <2>1 DEF NameInv, outputVars
<1>9. TimeInv'
  BY <1>1, <1>2, <1>3, <1>4 DEF TimeInv, outputVars
<1> QED
  BY <1>6, <1>7, <1>8, <1>9

\* Whoever a record declares is named, and no removal comes before a sample.
LEMMA LoopWrite ==
  ASSUME TypeOK, LoopInv, ~concurrent, NEW sent \in BOOLEAN, ProcessRecord(sent)
  PROVE  PhaseInv' /\ OrderInv' /\ NameInv' /\ TimeInv'
<1>1. PhaseInv /\ OrderInv /\ NameInv /\ TimeInv
  BY DEF LoopInv
<1>2. bgPc = "drain" /\ bgPc' = "drain" /\ UNCHANGED <<worldVars, bgVars>>
  BY DEF ProcessRecord, bgVars
<1>3. tcPc' = "out" /\ UNCHANGED execTime
  BY <1>1, <1>2 DEF PhaseInv, TypeOK, worldVars
<1>4. /\ Head(queue) \in Records /\ 1 \in DOMAIN queue /\ Head(queue) = queue[1]
      /\ DOMAIN queue \subseteq Nat \ {0} /\ DOMAIN queue' \subseteq Nat \ {0}
      /\ \A i \in DOMAIN queue' : i + 1 \in DOMAIN queue /\ queue'[i] = queue[i + 1]
  BY QueueWritten
<1>5. PhaseInv'
  BY <1>2, <1>3 DEF PhaseInv
<1>6. OrderInv'
  <2>1. \A i, j \in DOMAIN queue' : i < j => i + 1 < j + 1
    BY <1>4
  <2> QED
    BY <1>1, <1>2, <1>4, <2>1 DEF OrderInv, Swapped, Removed
<1>7. NameInv'
  <2> DEFINE p == Head(queue).id
  <2>1. p \in Players
    BY <1>4 DEF Records
  <2>2. \A i \in DOMAIN queue' : Data(i)' => Data(i + 1) /\ Named(queue[i + 1].id)
    BY <1>1, <1>2, <1>4 DEF NameInv, Data
  <2>3. CASE ~Active
    <3>1. UNCHANGED <<cache, shown>>
      BY <2>3 DEF ProcessRecord
    <3> QED
      BY <1>1, <1>2, <1>3, <1>4, <2>2, <3>1 DEF NameInv, Named
  <2>4. CASE Active /\ Data(1)
    <3>1. EmitState(p) /\ Named(p)
      BY <1>1, <1>2, <1>4, <2>4 DEF ProcessRecord, NameInv, Data
    <3>2. Identity(p) = "real"
      BY <1>1, <2>1, <3>1 DEF Identity, Named, NameInv, TypeOK, Identities
    <3>3. \A q \in Players : cache'[q] = IF q = p THEN "real" ELSE cache[q]
      BY <2>1, <3>1, <3>2 DEF EmitState, TypeOK
    <3>4. \A s \in Sinks, q \in Players : shown'[s][q] \in {shown[s][q], "real", "bare"}
      <4> SUFFICES ASSUME NEW s \in Sinks, NEW q \in Players
                   PROVE  shown'[s][q] \in {shown[s][q], "real", "bare"}
        OBVIOUS
      <4>1. shown[s] \in [Players -> Showings]
        BY DEF TypeOK
      <4>2. shown'[s] = IF ~open[s] THEN shown[s]
                        ELSE [shown[s] EXCEPT ![p] = IF First(p) /\ p \notin known[s] THEN Identity(p)
                                                     ELSE IF @ = "nothing" THEN "bare" ELSE @]
        BY <3>1 DEF EmitState
      <4> QED
        BY <2>1, <3>2, <4>1, <4>2
    <3>5. \A q : Named(q) /\ q \in Players => Named(q)'
      BY <3>3 DEF Named
    <3>6. \A i \in DOMAIN queue' : Data(i)' => Named(queue[i].id)'
      <4>1. \A i \in DOMAIN queue' : queue'[i].id \in Players
        <5>1. \A i \in DOMAIN queue : queue[i] \in Records
          BY LenProperties DEF TypeOK
        <5> QED
          BY <1>4, <5>1 DEF Records
      <4> QED
        BY <1>4, <2>2, <3>5, <4>1
    <3> QED
      BY <1>1, <1>2, <1>3, <3>3, <3>4, <3>6 DEF NameInv
  <2>5. CASE Active /\ ~Data(1)
    <3>1. RemoveObject(p) /\ Removed(1)
      BY <1>4, <2>5 DEF ProcessRecord, Data, Removed, Records
    <3>2. \A i \in DOMAIN queue' : ~Data(i)'
      <4> SUFFICES ASSUME NEW i \in DOMAIN queue' PROVE ~Data(i)'
        OBVIOUS
      <4>1. i + 1 \in DOMAIN queue /\ 1 < i + 1 /\ queue'[i] = queue[i + 1]
        BY <1>4
      <4>2. Removed(i + 1)
        BY <1>1, <1>4, <3>1, <4>1 DEF OrderInv
      <4> QED
        BY <4>1, <4>2 DEF Data, Removed
    <3>3. \A q \in Players : cache'[q] # "guess"
      BY <1>1, <2>1, <3>1 DEF RemoveObject, NameInv, TypeOK
    <3>4. \A s \in Sinks, q \in Players : shown'[s][q] \in {shown[s][q], "nothing"}
      BY <2>1, <3>1 DEF RemoveObject, TypeOK
    <3> QED
      BY <1>1, <1>2, <1>3, <3>2, <3>3, <3>4 DEF NameInv
  <2> QED
    BY <2>3, <2>4, <2>5
<1>8. TimeInv'
  <2>1. streamTime' = streamTime \/ streamTime' = Head(queue).time
    BY DEF ProcessRecord, FrameAndSend
  <2>2. Head(queue).time = execTime /\ \A i \in DOMAIN queue' : queue'[i].time = execTime
    BY <1>1, <1>4 DEF TimeInv
  <2> QED
    BY <1>1, <1>3, <2>1, <2>2 DEF TimeInv, TypeOK
<1> QED
  BY <1>5, <1>6, <1>7, <1>8

LEMMA LoopElse ==
  ASSUME TypeOK, LoopInv, ~concurrent,
         Publish \/ AcceptClient \/ DrainDone \/ LastUpdate \/ Stop \/ UNCHANGED vars
  PROVE  PhaseInv' /\ OrderInv' /\ NameInv' /\ TimeInv'
<1>1. PhaseInv /\ OrderInv /\ NameInv /\ TimeInv
  BY DEF LoopInv
<1> USE DEF worldVars
<1>2. CASE Publish
  <2>1. bgPc = "publish" /\ bgPc' = "players" /\ tcPc' = "out"
    BY <1>1, <1>2 DEF Publish, PhaseInv, TypeOK
  <2>2. \A p \in Players : cache'[p] = IF p \in players THEN "real" ELSE cache[p]
    BY <1>2 DEF Publish
  <2>3. NameInv'
    <3>1. \A i \in DOMAIN queue : queue[i].id \in players /\ players \subseteq Players
      BY <1>1, <2>1 DEF NameInv, TypeOK
    <3>2. \A i \in DOMAIN queue' : Named(queue[i].id)'
      BY <1>2, <2>2, <3>1 DEF Publish, Named
    <3> QED
      BY <1>1, <1>2, <2>1, <2>2, <3>2 DEF NameInv, Publish
  <2> QED
    BY <1>1, <1>2, <2>1, <2>3 DEF PhaseInv, OrderInv, Swapped, Data, Removed, TimeInv, Publish
<1>3. CASE AcceptClient
  <2>1. UNCHANGED <<players, execTime, tcPc, sampleLeft, queue, bgPc, cache, streamTime>>
    BY <1>3 DEF AcceptClient, bgVars
  <2>2. \A s \in Sinks, p \in Players : shown'[s][p] \in {shown[s][p], "nothing"}
    BY <1>3 DEF AcceptClient, Unknown, TypeOK
  <2> QED
    BY <1>1, <2>1, <2>2 DEF PhaseInv, OrderInv, Swapped, Data, Removed, NameInv, Named, TimeInv
<1>4. CASE DrainDone
  <2>1. /\ queue = <<>> /\ DOMAIN queue' = {} /\ bgPc' \in {"frame", "stop"} /\ tcPc' = "out"
        /\ UNCHANGED <<worldVars, queue, outputVars>>
    BY <1>1, <1>4 DEF DrainDone, PhaseInv, LoopStart, TypeOK
  <2> QED
    BY <1>1, <2>1 DEF PhaseInv, OrderInv, Data, Removed, NameInv, TimeInv, outputVars
<1>5. CASE LastUpdate
  <2>1. /\ queue = <<>> /\ DOMAIN queue' = {} /\ bgPc' = "players" /\ tcPc' = "out"
        /\ UNCHANGED <<worldVars, queue, outputVars>>
    BY <1>1, <1>5 DEF LastUpdate, PhaseInv, LoopStart
  <2> QED
    BY <1>1, <2>1 DEF PhaseInv, OrderInv, Data, Removed, NameInv, TimeInv, outputVars
<1>6. CASE Stop
  <2>1. /\ UNCHANGED <<players, execTime, tcPc, sampleLeft, queue, cache, streamTime, shown>>
        /\ bgPc = "stop" /\ bgPc' = "stopped"
    BY <1>6 DEF Stop
  <2> QED
    BY <1>1, <2>1 DEF PhaseInv, OrderInv, Swapped, Data, Removed, NameInv, Named, TimeInv
<1>7. CASE UNCHANGED vars
  BY <1>1, <1>7 DEF PhaseInv, OrderInv, Swapped, Data, Removed, NameInv, Named, TimeInv, vars,
    stepVars, bgVars, outputVars
<1> QED
  BY <1>2, <1>3, <1>4, <1>5, <1>6, <1>7

LEMMA LoopKeeps == TypeOK /\ LoopInv /\ [Next]_vars => LoopInv'
<1> SUFFICES ASSUME TypeOK, LoopInv, [Next]_vars, ~concurrent'
             PROVE  PhaseInv' /\ OrderInv' /\ NameInv' /\ TimeInv'
  BY DEF LoopInv
<1>1. ~concurrent
  BY DEF Next, vars
<1>2. ~ScanBegin /\ ~ScanDone /\ \A p \in Players : ~NoBeam(p) /\ \A sent \in BOOLEAN : ~BeamLine(p, sent)
  BY <1>1 DEF LoopInv, PhaseInv, ScanBegin, ScanDone, NoBeam, BeamLine
<1> QED
  BY <1>1, <1>2, LoopTc, LoopSwap, LoopWrite, LoopElse DEF Next, BgWork

-----------------------------------------------------------------------------
LEMMA InvariantHolds == Spec => []TelemetryInv
<1>1. Init => TelemetryInv
  <2>1. Init => GoneInv
    BY DEF Init, GoneInv, GoneOf
  <2>2. Init => MirrorInv
    BY DEF Init, MirrorInv, Unknown, Sinks
  <2> QED
    BY <2>1, <2>2, TypeInit, LoopInit DEF TelemetryInv
<1>2. TelemetryInv /\ [Next]_vars => TelemetryInv'
  BY TypeKeeps, GoneKeeps, MirrorKeeps, LoopKeeps DEF TelemetryInv
<1> QED
  BY <1>1, <1>2, PTL DEF Spec

\* Every variable keeps its type: no record, line or identity is of an object
\* that does not exist.
THEOREM TypeCorrect == Spec => []TypeOK
<1>1. TelemetryInv => TypeOK
  BY DEF TelemetryInv
<1> QED
  BY <1>1, InvariantHolds, PTL

\* A player whose removal was written stays away from every reader, although
\* the T/C thread goes on with the old list (TacviewOutput.cpp:497-504,
\* Simulation.cpp:998): for any players, clients and order of steps.
THEOREM GhostsNever == Spec => []NoGhosts
<1>1. TelemetryInv => NoGhosts
  BY DEF TelemetryInv, GoneInv, GoneOf, Unseen, NoGhosts, InQueue
<1> QED
  BY <1>1, InvariantHolds, PTL

\* The two classes that keep track of what the file was told agree
\* (TacviewOutput.cpp:425, RealtimeTelemetryServer.cpp:257-267).
THEOREM FileMirrors == Spec => []FileMirrorsDeclared
<1>1. TelemetryInv => FileMirrorsDeclared
  BY DEF TelemetryInv, MirrorInv, FileMirrorsDeclared
<1> QED
  BY <1>1, InvariantHolds, PTL

\* The file is never given an object without Name, Type and Color, whatever
\* clients of the socket share its set of declared objects
\* (TacviewOutput.cpp:256-260).  Of the socket the same is not true.
THEOREM FileHasIdentities ==
  Spec => [](open["file"] => \A p \in Players : shown["file"][p] # "bare")
<1>1. TelemetryInv => (open["file"] => \A p \in Players : shown["file"][p] # "bare")
  BY DEF TelemetryInv, MirrorInv
<1> QED
  BY <1>1, InvariantHolds, PTL

\* The deterministic runner publishes before updateData(), and that is enough
\* for every record of the frame (DeterministicRun.cpp:36-39).
THEOREM IdentitiesReal == Spec => []IdentityIsReal
<1>1. TelemetryInv => IdentityIsReal
  BY DEF TelemetryInv, LoopInv, NameInv, IdentityIsReal
<1> QED
  BY <1>1, InvariantHolds, PTL

\* '#<t>' never goes back in a run without a T/C thread (TacviewOutput.hpp:149).
THEOREM TimeRunsOn == Spec => TimeNeverRunsBack
<1>1. TelemetryInv /\ [Next]_vars => [~concurrent => streamTime' >= streamTime]_vars
  <2> SUFFICES ASSUME TelemetryInv, [Next]_vars, ~concurrent PROVE streamTime' >= streamTime
    OBVIOUS
  <2>1. streamTime \in Nat /\ PhaseInv /\ TimeInv
    BY DEF TelemetryInv, TypeOK, LoopInv
  <2>2. CASE UNCHANGED outputVars
    BY <2>1, <2>2 DEF outputVars
  <2>3. CASE Publish \/ AcceptClient \/ Stop
    BY <2>1, <2>3 DEF Publish, AcceptClient, Stop
  <2>4. CASE \E sent \in BOOLEAN : ProcessRecord(sent)
    <3>1. PICK sent \in BOOLEAN : ProcessRecord(sent)
      BY <2>4
    <3>2. streamTime' = streamTime \/ streamTime' = Head(queue).time
      BY <3>1 DEF ProcessRecord, FrameAndSend
    <3>3. 1 \in DOMAIN queue /\ Head(queue) = queue[1]
      BY <3>1, QueueWritten DEF TelemetryInv
    <3>4. execTime \in Nat
      BY DEF TelemetryInv, TypeOK
    <3> QED
      BY <2>1, <3>2, <3>3, <3>4 DEF TimeInv
  <2>5. CASE \E p \in Players, sent \in BOOLEAN : BeamLine(p, sent)
    BY <2>1, <2>5 DEF BeamLine, PhaseInv
  <2> QED
    BY <2>2, <2>3, <2>4, <2>5, QuietOr
<1> QED
  BY <1>1, InvariantHolds, PTL DEF Spec, TimeNeverRunsBack

\* A beam that reaches the file is of an object the file was told of
\* (TacviewOutput.hpp:76-77).
THEOREM BeamsKnown == Spec => BeamsOfKnownObjects
<1>1. TelemetryInv => \A p \in Players, sent \in BOOLEAN :
                        BeamLine(p, sent) /\ open["file"] => shown["file"][p] # "nothing"
  BY DEF TelemetryInv, MirrorInv, BeamLine
<1>2. TelemetryInv /\ [Next]_vars
      => [\A p \in Players, sent \in BOOLEAN :
            BeamLine(p, sent) /\ open["file"] => shown["file"][p] # "nothing"]_vars
  BY <1>1
<1> QED
  BY <1>2, InvariantHolds, PTL DEF Spec, BeamsOfKnownObjects
=============================================================================
