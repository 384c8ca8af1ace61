----------------------------- MODULE Telemetry -----------------------------
(***************************************************************************)
(* libs/xtacview: TacviewOutput and RealtimeTelemetryServer, fed by the    *)
(* framework's recorder and driven by the background loop of the           *)
(* dashboard, or by the deterministic runner, which has no T/C thread.     *)
(*                                                                         *)
(* The T/C thread samples the players of its frame into the recorder's     *)
(* queue; the background loop publishes identities, updates the player     *)
(* list, drains the queue into the sinks (the .acmi file and the client of *)
(* the socket) and adds the radar beams.  Only PLAYER_DATA and             *)
(* PLAYER_REMOVED are enabled in the scenarios (enabledList).              *)
(*                                                                         *)
(* The identity of an object (Name, Type, Color) is "real" when it comes   *)
(* from the player, "guess" when only its name was known and "bare" when   *)
(* the reader was given a position without any.                            *)
(***************************************************************************)
EXTENDS Naturals, Sequences, SequencesExt

CONSTANTS
  Scenario,    \* players declared in the scenario file, with a radar
  Runtime,     \* players created while the simulation runs (weapons)
  MaxTime,     \* bound: frames of the run
  QueueBound   \* bound: records waiting in the queue

ASSUME TelemetryAssumption ==
  /\ Scenario \cap Runtime = {}
  /\ IsFiniteSet(Scenario) /\ IsFiniteSet(Runtime)
  /\ MaxTime \in Nat /\ QueueBound \in Nat

Players == Scenario \cup Runtime
Sinks   == {"file", "socket"}

VARIABLES
  concurrent,  \* never changes: a T/C thread runs (dashboard), or not (the
               \* deterministic runner)
  mode,        \* of each player
  players,     \* Simulation: the player list
  execTime,    \* Simulation: frames since the start
  tcPc,
  sampleLeft,  \* T/C: players of the frame not yet sampled (phase 0)
  queue,       \* OutputHandler: records to be written
  bgPc,
  ending,      \* the T/C thread is silent, this is the last updateData()
  scanTime,    \* background: the time given to the radar beams
  scanLeft,    \* background: players whose beam is still to be pushed
  cache,       \* resolvedCache
  declared,
  streamTime,  \* currentFrameTime (0: no frame open)
  listening,   \* the listen socket is up
  open,        \* of each sink: recording, a client connected
  known,       \* knownObjectsFile_, knownObjectsSocket_
  shown        \* what the reader of each sink was told of each object

worldVars  == <<mode, players, execTime, tcPc, sampleLeft>>
bgVars     == <<bgPc, ending, scanTime, scanLeft>>
outputVars == <<cache, declared, streamTime, listening, open, known, shown>>
stepVars   == <<worldVars, queue, bgVars, outputVars>>
vars       == <<stepVars, concurrent>>

LoopStart == IF concurrent THEN "publish" ELSE "frame"

Unknown == [p \in Players |-> "nothing"]

\* The first record (FILE_ID) has opened the sinks: either may have failed,
\* independently of the other.
Init ==
  /\ concurrent \in BOOLEAN
  /\ mode = [p \in Players |-> IF p \in Scenario THEN "active" ELSE "unborn"]
  /\ players = Scenario
  /\ execTime = 0 /\ tcPc = "out" /\ sampleLeft = {}
  /\ queue = <<>>
  /\ bgPc = LoopStart /\ ending = FALSE /\ scanTime = 0 /\ scanLeft = {}
  /\ cache = [p \in Players |-> "none"]
  /\ declared = {} /\ streamTime = 0
  /\ listening \in BOOLEAN
  /\ open \in {[s \in Sinks |-> s = "file" /\ recording] : recording \in BOOLEAN}
  /\ known = [s \in Sinks |-> {}]
  /\ shown = [s \in Sinks |-> Unknown]

-----------------------------------------------------------------------------
(* The T/C thread: one frame of Simulation::updateTC().                    *)

\* The list of players is held for the whole frame.
TcBegin ==
  /\ tcPc = "out"
  /\ execTime < MaxTime
  /\ IF concurrent THEN ~ending ELSE bgPc = "frame"
  /\ tcPc' = "in"
  /\ execTime' = execTime + 1
  /\ sampleLeft' = players
  /\ UNCHANGED <<mode, players, queue, bgVars, outputVars>>

\* Mutant: the mode of the player is not tested.
TcSample_AnyMode(p) ==
  /\ tcPc = "in"
  /\ p \in sampleLeft
  /\ Len(queue) < QueueBound
  /\ queue' = Append(queue, [what |-> "data", id |-> p, time |-> execTime])
  /\ sampleLeft' = sampleLeft \ {p}
  /\ UNCHANGED <<mode, players, execTime, tcPc, bgVars, outputVars>>

\* Phase 0: an active player whose log timer has run out is recorded.
TcSample(p) ==
  /\ tcPc = "in"
  /\ p \in sampleLeft
  /\ mode[p] = "active"
  /\ Len(queue) < QueueBound
  /\ queue' = Append(queue, [what |-> "data", id |-> p, time |-> execTime])
  /\ sampleLeft' = sampleLeft \ {p}
  /\ UNCHANGED <<mode, players, execTime, tcPc, bgVars, outputVars>>

TcNoSample(p) ==
  /\ tcPc = "in"
  /\ p \in sampleLeft
  /\ sampleLeft' = sampleLeft \ {p}
  /\ UNCHANGED <<mode, players, execTime, tcPc, queue, bgVars, outputVars>>

\* Phase 3: a weapon is released (addNewPlayer()) ...
TcRelease(p) ==
  /\ tcPc = "in" /\ sampleLeft = {}
  /\ mode[p] = "unborn"
  /\ mode' = [mode EXCEPT ![p] = "queued"]
  /\ UNCHANGED <<players, execTime, tcPc, sampleLeft, queue, bgVars, outputVars>>

\* ... or asks to be removed, having been detonated for a while.
TcDelete(p) ==
  /\ tcPc = "in" /\ sampleLeft = {}
  /\ p \in Runtime /\ mode[p] = "active"
  /\ mode' = [mode EXCEPT ![p] = "deleting"]
  /\ UNCHANGED <<players, execTime, tcPc, sampleLeft, queue, bgVars, outputVars>>

TcEnd ==
  /\ tcPc = "in" /\ sampleLeft = {}
  /\ tcPc' = "out"
  /\ bgPc' = IF concurrent THEN bgPc ELSE "publish"
  /\ UNCHANGED <<mode, players, execTime, sampleLeft, queue, ending, scanTime,
                 scanLeft, outputVars>>

\* The steps a frame cannot do without.
TcFrame == (\E p \in Players : TcSample(p) \/ TcNoSample(p)) \/ TcEnd

TcNext == TcBegin \/ TcFrame \/ \E p \in Players : TcRelease(p) \/ TcDelete(p)

-----------------------------------------------------------------------------
(* The background loop, or the body of the deterministic one.              *)

\* Mutant: nobody publishes.
Publish_Nothing ==
  /\ bgPc = "publish"
  /\ bgPc' = "players"
  /\ UNCHANGED <<worldVars, queue, ending, scanTime, scanLeft, outputVars>>

\* publishIdentities(): every player of the list.
Publish ==
  /\ bgPc = "publish"
  /\ bgPc' = "players"
  /\ cache' = [p \in Players |-> IF p \in players THEN "real" ELSE cache[p]]
  /\ UNCHANGED <<worldVars, queue, ending, scanTime, scanLeft, declared,
                 streamTime, listening, open, known, shown>>

Deleting == {p \in players : mode[p] = "deleting"}
Arriving == {p \in Players : mode[p] = "queued"}

\* Mutant: the record carries no time, which is read as 0.
Removal_NoTime(p) == [what |-> "removed", id |-> p, time |-> 0]

Removal(p) == [what |-> "removed", id |-> p, time |-> execTime]

\* Mutant: the list is only swapped when there is somebody new.
UpdatePlayerList_NewOnly ==
  /\ bgPc = "players"
  /\ bgPc' = "drain"
  /\ LET out == IF Arriving = {} THEN {} ELSE Deleting
     IN  /\ queue' = queue \o SetToSeq({Removal(p) : p \in out})
         /\ players' = (players \ out) \cup Arriving
         /\ mode' = [p \in Players |-> IF p \in out THEN "gone"
                                       ELSE IF p \in Arriving THEN "active" ELSE mode[p]]
  /\ UNCHANGED <<execTime, tcPc, sampleLeft, ending, scanTime, scanLeft, outputVars>>

\* updateData() begins with updatePlayerList(): who asked for it leaves, with
\* a record, who was released enters, and the lists are swapped.
UpdatePlayerList ==
  /\ bgPc = "players"
  /\ bgPc' = "drain"
  /\ queue' = queue \o SetToSeq({Removal(p) : p \in Deleting})
  /\ players' = (players \ Deleting) \cup Arriving
  /\ mode' = [p \in Players |-> IF p \in Deleting THEN "gone"
                                ELSE IF p \in Arriving THEN "active" ELSE mode[p]]
  /\ UNCHANGED <<execTime, tcPc, sampleLeft, ending, scanTime, scanLeft, outputVars>>

\* acceptIfNeeded(), with which every record and every beam begins, finds
\* somebody waiting.  It knows nothing yet.
AcceptClient ==
  /\ \/ bgPc = "drain" /\ queue # <<>>
     \/ bgPc = "beam" /\ scanLeft # {}
  /\ listening /\ ~open["socket"]
  /\ open' = [open EXCEPT !["socket"] = TRUE]
  /\ known' = [known EXCEPT !["socket"] = {}]
  /\ shown' = [shown EXCEPT !["socket"] = Unknown]
  /\ UNCHANGED <<worldVars, queue, bgVars, cache, declared, streamTime, listening>>

Active == \E s \in Sinks : open[s]

\* syncFrame(t), and a client that stops reading or left is closed (~sent).
FrameAndSend(t, sent) ==
  /\ streamTime' = t
  /\ open' = [open EXCEPT !["socket"] = @ /\ sent]

\* resolveInfo(): the cache, and for who is not in it the name, which only
\* helps for players the scenario file maps.
Identity(p) == IF cache[p] # "none" THEN cache[p]
               ELSE IF p \in Scenario THEN "real" ELSE "guess"

First(p) == p \notin declared

\* emitState() and updateObject(): the identity goes with the line when the
\* object is new to the output and to the sink.
EmitState(p) ==
  /\ declared' = declared \cup {p}
  /\ cache' = [cache EXCEPT ![p] = Identity(p)]
  /\ known' = [s \in Sinks |-> IF open[s] THEN known[s] \cup {p} ELSE known[s]]
  /\ shown' = [s \in Sinks |->
       IF ~open[s] THEN shown[s]
       ELSE [shown[s] EXCEPT ![p] = IF First(p) /\ p \notin known[s] THEN Identity(p)
                                    ELSE IF @ = "nothing" THEN "bare" ELSE @]]

\* Mutant: the object stays declared.
RemoveObject_KeepsDeclared(p) ==
  /\ UNCHANGED declared
  /\ cache' = [cache EXCEPT ![p] = "none"]
  /\ known' = [s \in Sinks |-> known[s] \ {p}]
  /\ shown' = [s \in Sinks |-> IF open[s] THEN [shown[s] EXCEPT ![p] = "nothing"] ELSE shown[s]]

RemoveObject(p) ==
  /\ declared' = declared \ {p}
  /\ cache' = [cache EXCEPT ![p] = "none"]
  /\ known' = [s \in Sinks |-> known[s] \ {p}]
  /\ shown' = [s \in Sinks |-> IF open[s] THEN [shown[s] EXCEPT ![p] = "nothing"] ELSE shown[s]]

\* processQueue() takes one record; processRecordImp() drops it when there is
\* neither a file nor a client.
ProcessRecord(sent) ==
  /\ bgPc = "drain"
  /\ queue # <<>>
  /\ queue' = Tail(queue)
  /\ IF Active
     THEN /\ FrameAndSend(Head(queue).time, sent)
          /\ IF Head(queue).what = "data" THEN EmitState(Head(queue).id)
             ELSE RemoveObject(Head(queue).id)
     ELSE UNCHANGED <<cache, declared, streamTime, open, known, shown>>
  /\ UNCHANGED <<worldVars, bgVars, listening>>

DrainDone ==
  /\ bgPc = "drain"
  /\ queue = <<>>
  /\ bgPc' = IF ending THEN "stop" ELSE IF concurrent THEN "scan" ELSE LoopStart
  /\ UNCHANGED <<worldVars, queue, ending, scanTime, scanLeft, outputVars>>

\* The dashboard's loop reads the time and then looks for players.
ScanBegin ==
  /\ bgPc = "scan"
  /\ bgPc' = "beam"
  /\ scanTime' = execTime
  /\ scanLeft' = players \cap Scenario
  /\ UNCHANGED <<worldVars, queue, ending, outputVars>>

\* Mutant: declared is not consulted.
BeamLine_AnyObject(p, sent) ==
  /\ bgPc = "beam"
  /\ p \in scanLeft
  /\ Active
  /\ FrameAndSend(scanTime, sent)
  /\ scanLeft' = scanLeft \ {p}
  /\ UNCHANGED <<worldVars, queue, bgPc, ending, scanTime, cache, declared,
                 listening, known, shown>>

\* updateRadarScan() with a line to write ...
BeamLine(p, sent) ==
  /\ bgPc = "beam"
  /\ p \in scanLeft
  /\ Active
  /\ p \in declared
  /\ FrameAndSend(scanTime, sent)
  /\ scanLeft' = scanLeft \ {p}
  /\ UNCHANGED <<worldVars, queue, bgPc, ending, scanTime, cache, declared,
                 listening, known, shown>>

\* ... and without: no valid radar on the board, nobody to write to, or an
\* object that was never declared.
NoBeam(p) ==
  /\ bgPc = "beam"
  /\ p \in scanLeft
  /\ scanLeft' = scanLeft \ {p}
  /\ UNCHANGED <<worldVars, queue, bgPc, ending, scanTime, outputVars>>

ScanDone ==
  /\ bgPc = "beam"
  /\ scanLeft = {}
  /\ bgPc' = LoopStart
  /\ UNCHANGED <<worldVars, queue, ending, scanTime, scanLeft, outputVars>>

\* The run ends: with the T/C thread silent, one more updateData() ...
LastUpdate ==
  /\ bgPc = LoopStart /\ tcPc = "out" /\ ~ending
  /\ bgPc' = "players"
  /\ ending' = TRUE
  /\ UNCHANGED <<worldVars, queue, scanTime, scanLeft, outputVars>>

\* ... and shutdownNotification() closes both sinks.
Stop ==
  /\ bgPc = "stop"
  /\ bgPc' = "stopped"
  /\ open' = [s \in Sinks |-> FALSE]
  /\ listening' = FALSE
  /\ UNCHANGED <<worldVars, queue, ending, scanTime, scanLeft, cache, declared,
                 streamTime, known, shown>>

\* The steps of the loop that do not depend on a client or on the user.
BgWork ==
  \/ Publish \/ UpdatePlayerList \/ DrainDone \/ ScanBegin \/ ScanDone \/ Stop
  \/ \E sent \in BOOLEAN : ProcessRecord(sent)
  \/ \E p \in Players : NoBeam(p) \/ \E sent \in BOOLEAN : BeamLine(p, sent)

Next ==
  /\ TcNext \/ BgWork \/ AcceptClient \/ LastUpdate
  /\ UNCHANGED concurrent

Spec == Init /\ [][Next]_vars

\* A frame begun is finished and the background loop keeps running.  Frames
\* need not begin, clients need not come, the run need not end.
FairSpec == Spec /\ WF_stepVars(TcFrame) /\ WF_stepVars(BgWork)

-----------------------------------------------------------------------------
(* Properties.                                                             *)

InQueue(p) == \E i \in DOMAIN queue : queue[i].id = p

\* Once the removal of a player has been written no reader sees it again:
\* there is no record of it behind its removal, although the T/C thread still
\* holds the old player list when it is swapped (TacviewOutput.cpp:497-504).
NoGhosts ==
  \A p \in Players : mode[p] = "gone" /\ ~InQueue(p)
    => \A s \in Sinks : open[s] => shown[s][p] = "nothing"

\* What the output believes declared is exactly what the file was told of
\* (declared and knownObjectsFile_ are kept by two classes).
FileMirrorsDeclared == open["file"] => known["file"] = declared

\* A player that asked to be removed disappears from the file
\* (Simulation.cpp:960-1006, TacviewOutput.cpp:497-504).
RemovalIsWritten ==
  \A p \in Runtime :
    mode[p] = "deleting" ~> mode[p] = "gone" /\ (open["file"] => shown["file"][p] = "nothing")

\* Without a T/C thread, publishing before updateData() is enough: nobody is
\* told a guess for an identity (DeterministicRun.cpp:36-39, TacviewOutput.hpp:111-118).
IdentityIsReal ==
  ~concurrent => \A s \in Sinks : \A p \in Players : shown[s][p] # "guess"

\* 'Emite "#<t>" quando o tempo do registro avanca' (TacviewOutput.hpp:149):
\* without a T/C thread the time of the stream never runs back.
TimeNeverRunsBack == [][~concurrent => streamTime' >= streamTime]_vars

\* "sem isso o Tacview receberia RadarAzimuth= para um id desconhecido"
\* (TacviewOutput.hpp:76-77): a beam only reaches the file for an object the
\* file was told of and not told to forget.
BeamsOfKnownObjects ==
  [][\A p \in Players, sent \in BOOLEAN :
       BeamLine(p, sent) /\ open["file"] => shown["file"][p] # "nothing"]_vars

=============================================================================
