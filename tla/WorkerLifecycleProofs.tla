------------------------ MODULE WorkerLifecycleProofs ------------------------
(***************************************************************************)
(* Proofs about WorkerLifecycle: for any set of initialize transactions,   *)
(* the journal of a runtime never takes an outcome back, tells the truth   *)
(* about it, and covers everything a controller was told.                  *)
(***************************************************************************)
EXTENDS WorkerLifecycle, TLAPS

-----------------------------------------------------------------------------
(* The journal *)

\* A terminal record on disk is the sealed one.
SealInv == disk.phase = "terminal" => seal = {disk}

\* What a write may do to a terminal record: nothing, except acknowledge it.
Kept ==
    disk.phase = "terminal" =>
        /\ disk'.phase = "terminal" /\ disk'.outcome = disk.outcome
        /\ disk.acknowledged => disk'.acknowledged

\* The file has its type, is sealed when terminal, and kept a terminal record.
FileGood == disk' \in Record /\ seal' \subseteq Record /\ SealInv' /\ Kept

\* Whatever record a writer offers, successfully or not, check_seal protects the
\* terminal record on disk.
LEMMA WriteEffect ==
    ASSUME TypeOK, SealInv, NEW r \in Record, Persisted(r) \/ NotPersisted
    PROVE  FileGood /\ (disk' = disk \/ disk' = r)
<1>1. CASE NotPersisted
    BY <1>1 DEF NotPersisted, fileVars, TypeOK, SealInv, Kept, FileGood
<1>2. CASE Persisted(r)
    <2>1. disk' = r /\ seal' = IF r.phase = "terminal" THEN {r} ELSE seal
        BY <1>2 DEF Persisted
    <2>2. disk' \in Record /\ seal' \subseteq Record
        BY <2>1 DEF TypeOK
    <2>3. ASSUME disk.phase = "terminal" PROVE Kept /\ r.phase = "terminal"
        <3>1. /\ [r EXCEPT !.acknowledged = disk.acknowledged] = disk
              /\ disk.acknowledged => r.acknowledged
            BY <1>2, <2>3 DEF Persisted, CheckSeal, SealInv
        <3>2. /\ [r EXCEPT !.acknowledged = disk.acknowledged].phase = r.phase
              /\ [r EXCEPT !.acknowledged = disk.acknowledged].outcome = r.outcome
            BY DEF Record
        <3>3. r.phase = "terminal" /\ r.outcome = disk.outcome
            BY <2>3, <3>1, <3>2
        <3> QED BY <2>1, <3>1, <3>3 DEF Kept
    <2>4. Kept
        BY <2>3 DEF Kept
    <2>5. SealInv'
        BY <2>1, <2>3 DEF SealInv
    <2> QED BY <2>1, <2>2, <2>4, <2>5 DEF FileGood
<1> QED BY <1>1, <1>2

\* A step that leaves the file alone.
LEMMA NoWriteEffect ==
    ASSUME TypeOK, SealInv, UNCHANGED fileVars
    PROVE  FileGood
BY DEF fileVars, TypeOK, SealInv, Kept, FileGood

\* What mark_runtime_faulted and the shutdown leave behind.
FaultGood ==
    /\ FileGood /\ record' \in Record
    /\ disk' = disk \/ disk'.phase = "faulted"
    /\ phase' = "faulted" /\ shutdown' = TRUE
    /\ coord' \in Coord /\ coord'.at = "done"

\* mark_runtime_faulted writes a faulted record, never a terminal one.
LEMMA FaultEffect ==
    ASSUME TypeOK, SealInv, MarkFaulted
    PROVE  FaultGood
<1>1. PICK r : r = [record EXCEPT !.phase = "faulted"]
    OBVIOUS
<1>2. r \in Record /\ r.phase = "faulted"
    BY <1>1 DEF TypeOK, Record
<1>3. Persisted(r) \/ NotPersisted
    BY <1>1 DEF MarkFaulted
<1>4. /\ record' = r /\ phase' = "faulted" /\ shutdown' = TRUE
      /\ coord' = [coord EXCEPT !.at = "done"]
    BY <1>1 DEF MarkFaulted, Turns
<1>5. coord' \in Coord /\ coord'.at = "done"
    BY <1>4 DEF TypeOK, Coord
<1> QED BY <1>2, <1>3, <1>4, <1>5, WriteEffect DEF FaultGood

-----------------------------------------------------------------------------
(* PtyOwner::stop *)

\* What a step of stop called by w leaves behind.
StopGood(w) ==
    /\ cleanup' \in Cleanup /\ stopper' \in Stopper
    /\ output' \in {"open", "eof", "forced"} /\ signalled' \in Signalled
    /\ output # "open" => output' = output
    /\ signalled'.by = signalled.by \/ (signalled.by = "none" /\ signalled'.by = w)

\* What a call of stop does, at any of its steps: a closed output keeps its
\* completion, and the first signaller stays on record.
LEMMA StopEffect ==
    ASSUME TypeOK, NEW w \in {"handler", "coord"},
           StopRuns(w) \/ StopOk(w) \/ StopErr(w)
    PROVE  StopGood(w)
<1> USE DEF StopGood
<1>0. /\ cleanup \in Cleanup /\ stopper \in Stopper
      /\ output \in {"open", "eof", "forced"} /\ signalled \in Signalled
      /\ [who |-> "none", at |-> "none"] \in Stopper
    BY DEF TypeOK, Stopper
<1>1. CASE StopBegins(w)
    BY <1>0, <1>1 DEF StopBegins, Stopper, Signalled
<1>2. CASE StopEscalates(w)
    BY <1>0, <1>2 DEF StopEscalates, Stopper, Signalled
<1>3. CASE StopReturnsOk \/ StopReturnsErr
    BY <1>0, <1>3 DEF StopReturnsOk, StopReturnsErr, ForceClosed, SealedCleanup, Cleanup
<1>4. CASE StopDrained(w, "finished") \/ StopDrained(w, "authority_released")
    BY <1>0, <1>4 DEF StopDrained, Unlocked, Cleanup
<1>5. CASE StopForces(w, SealedCleanup) \/ StopForces(w, "forced_closing")
    BY <1>0, <1>5 DEF StopForces, Unlocked, ForceClosed, SealedCleanup, Cleanup
<1>6. CASE StopUnobservable(w)
    BY <1>0, <1>6 DEF StopUnobservable, Unlocked, Signalled, ForceClosed, Cleanup
<1>7. CASE StopGivesUp(w)
    BY <1>0, <1>7 DEF StopGivesUp, Unlocked
<1> QED BY <1>1, <1>2, <1>3, <1>4, <1>5, <1>6, <1>7 DEF StopRuns, StopOk, StopErr

-----------------------------------------------------------------------------
(* The inductive invariant *)

\* The child is spawned once: nothing is known of a runtime before it.
SpawnInv ==
    /\ phase = "uninitialized" => ~pty
    /\ handler.at \in {"begin", "starting"} => ~pty
    /\ ~pty => /\ observed = "none" /\ output = "open"
               /\ signalled.by = "none" /\ coord.at = "none" /\ disk.phase # "terminal"

\* How far the coordinator is says what has become of the runtime.
CoordInv ==
    /\ observed = "exited" => child = "exited"
    /\ coord.at \in {"exited", "drain", "expired", "finish", "sweep", "commit", "retain"} =>
          observed = "exited"
    /\ coord.at \in {"finish", "sweep", "commit"} =>
          output # "open" /\ (coord.forced <=> output = "forced")
    /\ coord.at = "commit" /\ coord.forced => outsider # "attributable"

\* Every signal of the handler to a runtime that is coordinated is a stop request,
\* and the coordinator reads the request after the exit it caused.
StopInv ==
    /\ handler.op = "stop" => pty /\ stopRequested
    /\ handler.at \in {"spawned", "failed"} => pty /\ coord.at = "none"
    /\ handler.at = "spawned" => signalled.by = "none"
    /\ cause = "handler" => signalled.by = "handler"
    /\ signalled.by = "handler" /\ coord.at # "none" => stopRequested
    /\ coord.at \in {"drain", "expired", "finish", "sweep", "commit"} /\ cause = "handler" =>
          coord.stopped

\* The memory of a committed end, and every answer about it, follow the file.
TellInv ==
    /\ phase = "exited" => disk.phase = "terminal" /\ record.outcome = disk.outcome
    /\ handler.op = "acknowledge" => disk.phase = "terminal" /\ disk.acknowledged
    /\ answer.what = "stopped" => disk.phase = "terminal" /\ disk.outcome = answer.outcome
    /\ answer.what = "acknowledged" => disk.phase = "terminal" /\ disk.acknowledged

WatchInv ==
    /\ armed \/ initialized
    /\ initialized => coord.at # "none"
    /\ coord.at = "done" => shutdown

Truth == /\ SpawnInv /\ CoordInv /\ StopInv /\ TellInv /\ WatchInv
         /\ TerminalTruthful /\ StopAttributed

IInv == TypeOK /\ SealInv /\ Truth

-----------------------------------------------------------------------------
(* Types and the file *)

Good == TypeOK' /\ SealInv' /\ Kept

\* The accept loop, the process and the PTY threads keep the types and the file.
LEMMA ServeTypes == ASSUME TypeOK, SealInv, ServeStep \/ PtyStep PROVE Good
<1>a. UNCHANGED fileVars => FileGood
    BY NoWriteEffect
<1>b. \A r \in Record : Persisted(r) \/ NotPersisted => FileGood
    BY WriteEffect
<1> USE DEF serveVars, stateVars, fileVars, ptyVars, stopVars
<1>1. CASE Reselect \/ DeadlineExpires \/ ServeShutdown \/ ProcessEnds
    <2>1. CASE Reselect
        <3>1. armed' \in BOOLEAN
            BY <2>1 DEF Reselect, TypeOK
        <3> QED BY <1>a, <2>1, <3>1 DEF Reselect, TypeOK, Good, FileGood
    <2>2. CASE DeadlineExpires BY <2>2, <1>a DEF DeadlineExpires, TypeOK, Good, FileGood
    <2>3. CASE ServeShutdown   BY <2>3, <1>a DEF ServeShutdown, TypeOK, Good, FileGood
    <2>4. CASE ProcessEnds
        <3>1. alive' \in BOOLEAN
            BY <2>4 DEF ProcessEnds
        <3> QED BY <1>a, <2>4, <3>1 DEF ProcessEnds, TypeOK, Good, FileGood
    <2> QED BY <1>1, <2>1, <2>2, <2>3, <2>4
<1>2. CASE RecordNeverInitialized
    <2>1. PICK r : r = [record EXCEPT !.phase = "never_initialized"]
        OBVIOUS
    <2>2. r \in Record
        BY <2>1 DEF TypeOK, Record
    <2>3. record' = r /\ (Persisted(r) \/ NotPersisted)
        BY <1>2, <2>1 DEF RecordNeverInitialized
    <2> QED BY <1>2, <2>2, <2>3, <1>b DEF RecordNeverInitialized, TypeOK, Good, FileGood
<1>3. CASE ChildExits
    <2>1. signalled.by \in {"none", "handler", "coord"}
        BY DEF TypeOK, Signalled
    <2> QED BY <1>3, <2>1, <1>a DEF ChildExits, TypeOK, Good, FileGood
<1>4. CASE OutsiderExits \/ OutputEof
    <2>1. CASE OutsiderExits
        <3>1. outsider' \in Outsiders
            BY <2>1 DEF OutsiderExits, Outsiders
        <3> QED BY <1>a, <2>1, <3>1 DEF OutsiderExits, TypeOK, Good, FileGood
    <2>2. CASE OutputEof     BY <2>2, <1>a DEF OutputEof, TypeOK, Good, FileGood
    <2> QED BY <1>4, <2>1, <2>2
<1>5. ASSUME NEW what \in {"exited", "failed"}, RootObserved(what) PROVE Good
    <2>1. observed' \in {"none", "exited", "failed"}
        BY <1>5 DEF RootObserved
    <2> QED BY <1>5, <2>1, <1>a DEF RootObserved, TypeOK, Good, FileGood
<1> QED BY <1>1, <1>2, <1>3, <1>4, <1>5 DEF ServeStep, PtyStep

\* The handlers keep the types and the file.
LEMMA HandlerTypes == ASSUME TypeOK, SealInv, Request \/ HandlerStep PROVE Good
<1>a. UNCHANGED fileVars => FileGood
    BY NoWriteEffect
<1>b. \A r \in Record : Persisted(r) \/ NotPersisted => FileGood
    BY WriteEffect
<1>c. \A w \in {"handler", "coord"} : StopRuns(w) \/ StopOk(w) \/ StopErr(w) => StopGood(w)
    BY StopEffect
<1> USE DEF serveVars, stateVars, fileVars, ptyVars, stopVars
<1>0. /\ Idle \in Handler /\ NoOutcome \in Outcome /\ Stopped \in Answer
      /\ \A what \in {"none", "initialized", "stopped", "acknowledged", "error"} :
            Said(what) \in Answer
      /\ handler.by \in Transactions \union {None}
      /\ \A at \in {"starting", "spawned", "failed", "commit"} :
            [handler EXCEPT !.at = at] \in Handler
    <2>1. Idle \in Handler /\ NoOutcome \in Outcome
        BY DEF Idle, Handler, NoOutcome, Outcome
    <2>2. Stopped \in Answer
        BY DEF Stopped, Answer, TypeOK, Record
    <2>3. \A what \in {"none", "initialized", "stopped", "acknowledged", "error"} :
             Said(what) \in Answer
        BY <2>1 DEF Said, Answer
    <2>4. handler.by \in Transactions \union {None}
        BY DEF TypeOK, Handler
    <2>5. \A at \in {"starting", "spawned", "failed", "commit"} :
             [handler EXCEPT !.at = at] \in Handler
        BY DEF TypeOK, Handler
    <2> QED BY <2>1, <2>2, <2>3, <2>4, <2>5
<1>1. ASSUME NEW t \in Transactions, Initialize(t) PROVE Good
    <2>1. handler' \in Handler /\ answer' \in Answer
        BY <1>0, <1>1 DEF Initialize, Answers, TypeOK, Handler
    <2> QED BY <1>1, <2>1, <1>a DEF Initialize, TypeOK, Good, FileGood
<1>2. CASE InitializeStarts
    <2>1. PICK r : r = [record EXCEPT !.phase = "starting"]
        OBVIOUS
    <2>2. r \in Record
        BY <2>1 DEF TypeOK, Record
    <2>3. record' = r /\ (Persisted(r) \/ NotPersisted)
        BY <1>2, <2>1 DEF InitializeStarts
    <2>4. handler' \in Handler /\ answer' \in Answer
        BY <1>0, <1>2 DEF InitializeStarts, Goes, Answers, TypeOK
    <2> QED BY <1>0, <1>2, <2>2, <2>3, <2>4, <1>b DEF InitializeStarts, TypeOK, Good, FileGood
<1>3. CASE LaunchFails \/ SpawnUnwired
    <2>1. CASE LaunchFails
        BY <1>0, <2>1, <1>a DEF LaunchFails, Answers, TypeOK, Good, FileGood
    <2>2. CASE SpawnUnwired
        BY <1>0, <2>2, <1>a DEF SpawnUnwired, Answers, TypeOK, Good, FileGood
    <2> QED BY <1>3, <2>1, <2>2
<1>4. CASE SpawnRunning
    <2>1. PICK r : r = [record EXCEPT !.phase = "live"]
        OBVIOUS
    <2>2. r \in Record
        BY <2>1 DEF TypeOK, Record
    <2>3. record' = r /\ (Persisted(r) \/ NotPersisted)
        BY <1>4, <2>1 DEF SpawnRunning
    <2>4. handler' \in Handler /\ answer' \in Answer
        BY <1>0, <1>4 DEF SpawnRunning, Goes, TypeOK
    <2> QED BY <1>4, <2>2, <2>3, <2>4, <1>b DEF SpawnRunning, TypeOK, Good, FileGood
<1>5. CASE UndoSpawn
    <2>1. StopRuns("handler") \/ StopOk("handler") \/ StopErr("handler")
        BY <1>5 DEF UndoSpawn
    <2>2. handler' \in Handler /\ answer' \in Answer
        BY <1>0, <1>5 DEF UndoSpawn, Answers, TypeOK
    <2> QED BY <1>5, <2>1, <2>2, <1>c, <1>a DEF UndoSpawn, TypeOK, Good, FileGood, StopGood
<1>6. CASE InitializeEnds
    <2>1. [coord EXCEPT !.at = "wait"] \in Coord
        BY DEF TypeOK, Coord
    <2> QED BY <1>0, <1>6, <2>1, <1>a DEF InitializeEnds, Answers, TypeOK, Good, FileGood
<1>7. CASE Stop
    <2>1. [op |-> "stop", at |-> "stop", by |-> None] \in Handler
        BY DEF Handler
    <2>2. handler' \in Handler /\ answer' \in Answer
        BY <1>0, <1>7, <2>1 DEF Stop, Answers, TypeOK
    <2>3. /\ phase' \in {"uninitialized", "starting", "running", "stopping", "exited", "faulted"}
          /\ stopRequested' \in BOOLEAN
        BY <1>7 DEF Stop, TypeOK
    <2>4. UNCHANGED <<alive, serveVars, shutdown, transaction, pty, record, fileVars, ptyVars,
                      stopVars, coord>>
        BY <1>7 DEF Stop
    <2> QED BY <2>2, <2>3, <2>4, <1>a DEF TypeOK, Good, FileGood
<1>8. CASE StopCall
    <2>1. StopRuns("handler") \/ StopOk("handler") \/ StopErr("handler")
        BY <1>8 DEF StopCall
    <2>2. handler' \in Handler /\ answer' \in Answer
        BY <1>0, <1>8 DEF StopCall, Goes, Answers, TypeOK
    <2> QED BY <1>8, <2>1, <2>2, <1>c, <1>a DEF StopCall, TypeOK, Good, FileGood, StopGood
<1>9. CASE StopCommitted
    BY <1>0, <1>9, <1>a DEF StopCommitted, Answers, TypeOK, Good, FileGood
<1>10. CASE Acknowledge
    <2>1. PICK r : r = [record EXCEPT !.acknowledged = TRUE]
        OBVIOUS
    <2>2. r \in Record
        BY <2>1 DEF TypeOK, Record
    <2>3. (record' = r /\ (Persisted(r) \/ NotPersisted)) \/ UNCHANGED <<record, fileVars>>
        BY <1>10, <2>1 DEF Acknowledge
    <2>4. [op |-> "acknowledge", at |-> "drain", by |-> None] \in Handler
        BY DEF Handler
    <2>5. handler' \in Handler /\ answer' \in Answer
        BY <1>0, <1>10, <2>4 DEF Acknowledge, Answers, TypeOK
    <2> QED BY <1>10, <2>2, <2>3, <2>5, <1>b, <1>a DEF Acknowledge, TypeOK, Good, FileGood
<1>11. CASE AcknowledgeEnds
    BY <1>0, <1>11, <1>a DEF AcknowledgeEnds, Answers, TypeOK, Good, FileGood
<1> QED BY <1>1, <1>2, <1>3, <1>4, <1>5, <1>6, <1>7, <1>8, <1>9, <1>10, <1>11
        DEF Request, HandlerStep

\* The coordinator keeps the types and the file.
LEMMA CoordTypes == ASSUME TypeOK, SealInv, CoordStep PROVE Good
<1>a. UNCHANGED fileVars => FileGood
    BY NoWriteEffect
<1>b. \A r \in Record : Persisted(r) \/ NotPersisted => FileGood
    BY WriteEffect
<1>c. \A w \in {"handler", "coord"} : StopRuns(w) \/ StopOk(w) \/ StopErr(w) => StopGood(w)
    BY StopEffect
<1>d. MarkFaulted => FaultGood
    BY FaultEffect
<1> USE DEF serveVars, stateVars, fileVars, ptyVars, stopVars
<1>0. /\ \A at \in {"exited", "failed", "expired", "sweep", "commit", "retain", "done", "drain",
                    "finish"} :
            [coord EXCEPT !.at = at] \in Coord
      /\ \A k \in Coord, b \in BOOLEAN : [k EXCEPT !.stopped = b] \in Coord
      /\ \A k \in Coord, b \in BOOLEAN : [k EXCEPT !.forced = b] \in Coord
    BY DEF TypeOK, Coord
<1>1. CASE RootEnds
    BY <1>0, <1>1, <1>a DEF RootEnds, Turns, TypeOK, Good, FileGood
<1>2. CASE ObservationFails
    <2>1. StopRuns("coord") \/ StopOk("coord") \/ StopErr("coord")
        BY <1>2 DEF ObservationFails
    <2>2. CASE MarkFaulted
        BY <1>2, <2>1, <2>2, <1>c, <1>d DEF ObservationFails, TypeOK, Good, FileGood, StopGood, FaultGood
    <2>3. CASE NoFault /\ UNCHANGED coord
        BY <1>2, <2>1, <2>3, <1>c, <1>a DEF ObservationFails, NoFault, TypeOK, Good, FileGood, StopGood
    <2> QED BY <1>2, <2>2, <2>3 DEF ObservationFails
<1>3. CASE ReadStopRequested
    <2>1. coord' = [[coord EXCEPT !.at = "drain"] EXCEPT !.stopped = stopRequested]
        BY <1>3 DEF ReadStopRequested
    <2>2. coord' \in Coord
        BY <1>0, <2>1 DEF TypeOK
    <2> QED BY <1>3, <2>2, <1>a DEF ReadStopRequested, TypeOK, Good, FileGood
<1>4. CASE OutputDrained
    <2>1. coord' = [[coord EXCEPT !.at = "finish"] EXCEPT !.forced = (output = "forced")]
        BY <1>4 DEF OutputDrained
    <2>2. coord' \in Coord
        BY <1>0, <2>1
    <2> QED BY <1>4, <2>2, <1>a DEF OutputDrained, TypeOK, Good, FileGood
<1>5. CASE OutputLost
    BY <1>5, <1>d DEF OutputLost, TypeOK, Good, FileGood, FaultGood
<1>6. CASE DrainExpires
    BY <1>0, <1>6, <1>a DEF DrainExpires, Turns, TypeOK, Good, FileGood
<1>7. CASE DrainStop
    <2>1. StopRuns("coord") \/ StopOk("coord") \/ StopErr("coord")
        BY <1>7 DEF DrainStop
    <2>2. CASE MarkFaulted
        BY <1>7, <2>1, <2>2, <1>c, <1>d DEF DrainStop, TypeOK, Good, FileGood, StopGood, FaultGood
    <2>3. CASE NoFault
        <3>1. \/ UNCHANGED coord
              \/ coord' = [[coord EXCEPT !.at = "finish"] EXCEPT !.forced = (output' = "forced")]
              \/ MarkFaulted
            BY <1>7 DEF DrainStop
        <3>2. PICK b \in BOOLEAN : b = (output' = "forced")
            OBVIOUS
        <3>3. [[coord EXCEPT !.at = "finish"] EXCEPT !.forced = b] \in Coord
            BY <1>0
        <3>4. coord' \in Coord \/ MarkFaulted
            <4>1. CASE UNCHANGED coord
                BY <4>1 DEF TypeOK
            <4> QED BY <3>1, <3>2, <3>3, <4>1
        <3> QED BY <1>7, <2>1, <2>2, <2>3, <3>4, <1>c, <1>a
                DEF DrainStop, NoFault, TypeOK, Good, FileGood, StopGood
    <2> QED BY <1>7, <2>2, <2>3 DEF DrainStop
<1>8. CASE FinishNatural
    <2>1. /\ cleanup' \in Cleanup /\ output' \in {"open", "eof", "forced"}
          /\ stopper' = stopper /\ signalled' = signalled
        BY <1>8 DEF FinishNatural, TypeOK, Cleanup, ForceClosed, SealedCleanup
    <2>2. MarkFaulted \/ (NoFault /\ (Turns("sweep") \/ Turns("commit")))
        BY <1>8 DEF FinishNatural
    <2>3. CASE MarkFaulted
        BY <1>8, <2>1, <2>3, <1>d DEF FinishNatural, TypeOK, Good, FileGood, FaultGood
    <2>4. CASE NoFault /\ (Turns("sweep") \/ Turns("commit"))
        <3>1. coord' \in Coord
            BY <1>0, <2>4 DEF Turns
        <3> QED BY <1>8, <2>1, <2>4, <3>1, <1>a DEF FinishNatural, NoFault, TypeOK, Good, FileGood
    <2> QED BY <2>2, <2>3, <2>4
<1>9. CASE SweepOutsiders
    <2>0. outsider' \in Outsiders
        BY <1>9 DEF SweepOutsiders, TypeOK, Outsiders
    <2>1. CASE MarkFaulted
        BY <1>9, <2>0, <2>1, <1>d DEF SweepOutsiders, TypeOK, Good, FileGood, FaultGood
    <2>2. CASE Turns("commit") /\ NoFault
        BY <1>0, <1>9, <2>0, <2>2, <1>a DEF SweepOutsiders, Turns, NoFault, TypeOK, Good, FileGood
    <2>3. CASE UNCHANGED coord /\ NoFault
        BY <1>9, <2>0, <2>3, <1>a DEF SweepOutsiders, NoFault, TypeOK, Good, FileGood
    <2> QED BY <1>9, <2>1, <2>2, <2>3 DEF SweepOutsiders
<1>10. CASE CommitTerminal
    <2>1. Terminal \in Record
        BY DEF Terminal, TypeOK, Record, Outcome, Coord
    <2>2. PICK r \in Record : r = Terminal
        BY <2>1
    <2>3. record' = r /\ Persisted(r) /\ coord' = [coord EXCEPT !.at = "retain"]
        BY <1>10, <2>2 DEF CommitTerminal, Turns
    <2> QED BY <1>0, <1>10, <2>3, <1>b DEF CommitTerminal, TypeOK, Good, FileGood
<1>11. CASE RetentionEnds
    BY <1>0, <1>11, <1>a DEF RetentionEnds, Turns, TypeOK, Good, FileGood
<1> QED BY <1>1, <1>2, <1>3, <1>4, <1>5, <1>6, <1>7, <1>8, <1>9, <1>10, <1>11
        DEF CoordStep

-----------------------------------------------------------------------------
(* What the steps keep true *)

\* A write that is not the commit leaves the file non-terminal, or terminal with
\* the same outcome.
SameEnd == Kept /\ (disk'.phase = "terminal" => disk.phase = "terminal")

\* A write of a record that is not terminal is no end.
LEMMA NoEnd ==
    ASSUME TypeOK, SealInv, NEW r \in Record, r.phase # "terminal", Persisted(r) \/ NotPersisted
    PROVE  SameEnd
BY WriteEffect DEF FileGood, SameEnd

\* No step of the accept loop or of the PTY makes the coordinator's knowledge wrong.
LEMMA ServeTruth == ASSUME IInv, ServeStep \/ PtyStep PROVE Truth'
<1> USE DEF Truth, SpawnInv, CoordInv, StopInv, TellInv, WatchInv, TerminalTruthful,
            StopAttributed, serveVars, stateVars, fileVars, ptyVars, stopVars
<1>0. TypeOK /\ SealInv /\ Truth
    BY DEF IInv
<1>1. CASE Reselect
    BY <1>0, <1>1, ZenonT(60) DEF Reselect
<1>2. CASE DeadlineExpires \/ ServeShutdown \/ ProcessEnds
    BY <1>0, <1>2 DEF DeadlineExpires, ServeShutdown, ProcessEnds
<1>3. CASE RecordNeverInitialized
    <2>1. PICK r : r = [record EXCEPT !.phase = "never_initialized"]
        OBVIOUS
    <2>2. r \in Record /\ r.phase # "terminal"
        BY <1>0, <2>1 DEF TypeOK, Record
    <2>3. Persisted(r) \/ NotPersisted
        BY <1>3, <2>1 DEF RecordNeverInitialized
    <2>4. SameEnd
        BY <1>0, <2>2, <2>3, NoEnd
    <2> QED BY <1>0, <1>3, <2>4 DEF RecordNeverInitialized, SameEnd, Kept
<1>4. CASE ChildExits
    BY <1>0, <1>4 DEF ChildExits
<1>5. CASE OutsiderExits
    BY <1>0, <1>5 DEF OutsiderExits
<1>6. CASE OutputEof
    BY <1>0, <1>6 DEF OutputEof
<1>7. ASSUME NEW what \in {"exited", "failed"}, RootObserved(what) PROVE Truth'
    BY <1>0, <1>7 DEF RootObserved
<1> QED BY <1>1, <1>2, <1>3, <1>4, <1>5, <1>6, <1>7 DEF ServeStep, PtyStep

\* No request handler makes the coordinator's knowledge wrong, and no answer runs
\* ahead of the file.
LEMMA HandlerTruth == ASSUME IInv, Request \/ HandlerStep PROVE Truth'
<1> USE DEF Truth, SpawnInv, CoordInv, StopInv, TellInv, WatchInv, TerminalTruthful,
            StopAttributed, serveVars, stateVars, fileVars, ptyVars, stopVars
<1>0. TypeOK /\ SealInv /\ Truth
    BY DEF IInv
<1>a. /\ Idle.op = "idle" /\ Idle.at = "idle"
      /\ \A what : Said(what).what = what
      /\ Stopped.what = "stopped" /\ Stopped.outcome = record.outcome
    BY DEF Idle, Said, Stopped
<1>b. \A at : /\ [handler EXCEPT !.at = at].op = handler.op
              /\ [handler EXCEPT !.at = at].at = at
    BY <1>0 DEF TypeOK, Handler
<1>1. ASSUME NEW t \in Transactions, Initialize(t) PROVE Truth'
    <2>1. \/ handler' = Idle /\ (answer' = Said("initialized") \/ answer' = Said("error"))
          \/ /\ phase = "uninitialized" /\ answer' = answer
             /\ handler' = [op |-> "initialize", at |-> "begin", by |-> t]
        BY <1>1 DEF Initialize, Answers
    <2> QED BY <1>0, <1>1, <1>a, <2>1 DEF Initialize
<1>2. CASE InitializeStarts
    <2>1. PICK r : r = [record EXCEPT !.phase = "starting"]
        OBVIOUS
    <2>2. r \in Record /\ r.phase # "terminal"
        BY <1>0, <2>1 DEF TypeOK, Record
    <2>3. Persisted(r) \/ NotPersisted
        BY <1>2, <2>1 DEF InitializeStarts
    <2>4. SameEnd
        BY <1>0, <2>2, <2>3, NoEnd
    <2>5. \/ handler' = Idle /\ answer' = Said("error")
          \/ handler'.op = handler.op /\ handler'.at = "starting" /\ answer' = answer
        BY <1>2, <1>b DEF InitializeStarts, Goes, Answers
    <2>6. phase' = "starting" /\ handler.op = "initialize" /\ handler.at = "begin"
        BY <1>2 DEF InitializeStarts, Handling
    <2>7. UNCHANGED <<alive, serveVars, shutdown, pty, stopRequested, ptyVars, stopVars, coord>>
        BY <1>2 DEF InitializeStarts
    <2> QED BY <1>0, <1>a, <2>4, <2>5, <2>6, <2>7 DEF SameEnd, Kept
<1>3. CASE LaunchFails \/ SpawnUnwired
    <2>1. CASE LaunchFails
        BY <1>0, <1>a, <2>1 DEF LaunchFails, Answers
    <2>2. CASE SpawnUnwired
        <3>1. /\ handler.at = "starting" /\ handler' = Idle /\ answer' = Said("error")
              /\ UNCHANGED <<alive, serveVars, shutdown, stateVars, fileVars, observed, output,
                             signalled, cause, stopVars, coord>>
            BY <2>2 DEF SpawnUnwired, Handling, Answers
        <3>2. ~pty /\ observed = "none" /\ coord.at = "none" /\ disk.phase # "terminal"
            BY <1>0, <3>1
        <3> QED BY <1>0, <1>a, <3>1, <3>2
    <2> QED BY <1>3, <2>1, <2>2
<1>4. CASE SpawnRunning
    <2>1. PICK r : r = [record EXCEPT !.phase = "live"]
        OBVIOUS
    <2>2. r \in Record /\ r.phase # "terminal"
        BY <1>0, <2>1 DEF TypeOK, Record
    <2>3. Persisted(r) \/ NotPersisted
        BY <1>4, <2>1 DEF SpawnRunning
    <2>4. SameEnd
        BY <1>0, <2>2, <2>3, NoEnd
    <2>5. answer' = answer /\ handler'.op = handler.op /\ handler'.at \in {"spawned", "failed"}
        BY <1>4, <1>b DEF SpawnRunning, Goes
    <2>6. /\ phase' = "running" /\ handler.op = "initialize" /\ handler.at = "starting"
          /\ pty' = TRUE /\ child' = "running"
          /\ UNCHANGED <<alive, serveVars, shutdown, transaction, stopRequested, observed,
                         output, signalled, cause, stopVars, coord>>
        BY <1>4 DEF SpawnRunning, Handling
    <2> QED BY <1>0, <2>4, <2>5, <2>6 DEF SameEnd, Kept
<1>5. CASE UndoSpawn
    <2>1. StopRuns("handler") \/ StopOk("handler") \/ StopErr("handler")
        BY <1>5 DEF UndoSpawn
    <2>2. StopGood("handler")
        BY <1>0, <2>1, StopEffect
    <2>3. \/ UNCHANGED <<handler, answer>>
          \/ handler' = Idle /\ answer' = Said("error")
        BY <1>5 DEF UndoSpawn, Answers
    <2>4. /\ handler.at = "failed"
          /\ UNCHANGED <<alive, serveVars, shutdown, stateVars, fileVars, child, observed,
                         outsider, cause, coord>>
        BY <1>5 DEF UndoSpawn, Handling
    <2> QED BY <1>0, <1>a, <2>2, <2>3, <2>4 DEF StopGood
<1>6. CASE InitializeEnds
    <2>1. coord'.at = "wait" /\ coord'.forced = coord.forced /\ coord'.stopped = coord.stopped
        BY <1>0, <1>6 DEF InitializeEnds, TypeOK, Coord
    <2>2. handler.at = "spawned" /\ handler' = Idle /\ answer' = Said("initialized")
        BY <1>6 DEF InitializeEnds, Handling, Answers
    <2> QED BY <1>0, <1>6, <1>a, <2>1, <2>2 DEF InitializeEnds
<1>7. CASE Stop
    <2>1. \/ /\ UNCHANGED <<phase, stopRequested>> /\ handler' = Idle
             /\ ((phase = "exited" /\ answer' = Stopped) \/ answer' = Said("error"))
          \/ /\ pty /\ phase' = "stopping" /\ stopRequested' = TRUE
             /\ handler' = [op |-> "stop", at |-> "stop", by |-> None] /\ answer' = answer
        BY <1>7 DEF Stop, Answers
    <2>2. UNCHANGED <<alive, serveVars, shutdown, transaction, pty, record, fileVars, ptyVars,
                      stopVars, coord>>
        BY <1>7 DEF Stop
    <2> QED BY <1>0, <1>a, <2>1, <2>2
<1>8. CASE StopCall
    <2>1. StopRuns("handler") \/ StopOk("handler") \/ StopErr("handler")
        BY <1>8 DEF StopCall
    <2>2. StopGood("handler")
        BY <1>0, <2>1, StopEffect
    <2>3. \/ UNCHANGED <<handler, answer>>
          \/ handler'.op = handler.op /\ handler'.at = "commit" /\ answer' = answer
          \/ handler' = Idle /\ answer' = Said("error")
        BY <1>8, <1>b DEF StopCall, Goes, Answers
    <2>4. /\ handler.op = "stop" /\ handler.at = "stop"
          /\ UNCHANGED <<alive, serveVars, shutdown, stateVars, fileVars, child, observed,
                         outsider, cause, coord>>
        BY <1>8 DEF StopCall, Handling
    <2> QED BY <1>0, <1>a, <2>2, <2>3, <2>4 DEF StopGood
<1>9. CASE StopCommitted
    BY <1>0, <1>9, <1>a DEF StopCommitted, Answers
<1>10. CASE Acknowledge
    <2>1. PICK r : r = [record EXCEPT !.acknowledged = TRUE]
        OBVIOUS
    <2>2. r \in Record /\ r.outcome = record.outcome /\ r.acknowledged
        BY <1>0, <2>1 DEF TypeOK, Record
    <2>3. CASE phase # "exited"
        BY <1>0, <1>10, <1>a, <2>3 DEF Acknowledge, Answers
    <2>4. CASE phase = "exited"
        <3>1. record' = r /\ (Persisted(r) \/ NotPersisted)
            BY <1>10, <2>1, <2>4 DEF Acknowledge
        <3>2. FileGood
            BY <1>0, <2>2, <3>1, WriteEffect
        <3>3. disk.phase = "terminal" /\ record.outcome = disk.outcome
            BY <1>0, <2>4
        <3>4. \/ /\ Persisted(r) /\ answer' = answer
                 /\ handler' = [op |-> "acknowledge", at |-> "drain", by |-> None]
              \/ handler' = Idle /\ answer' = Said("error")
            BY <1>10, <2>1, <2>4 DEF Acknowledge, Answers
        <3>5. Persisted(r) => disk'.acknowledged
            BY <2>2 DEF Persisted
        <3>6. UNCHANGED <<alive, serveVars, shutdown, phase, transaction, pty, stopRequested,
                          ptyVars, stopVars, coord>>
            BY <1>10 DEF Acknowledge
        <3> QED BY <1>0, <1>a, <2>2, <3>1, <3>2, <3>3, <3>4, <3>5, <3>6 DEF FileGood, Kept
    <2> QED BY <2>3, <2>4
<1>11. CASE AcknowledgeEnds
    BY <1>0, <1>11, <1>a DEF AcknowledgeEnds, Answers, Handling
<1> QED BY <1>1, <1>2, <1>3, <1>4, <1>5, <1>6, <1>7, <1>8, <1>9, <1>10, <1>11
        DEF Request, HandlerStep

\* The coordinator's steps carry its knowledge forward, and the commit writes
\* what it knows.
LEMMA CoordTruth == ASSUME IInv, CoordStep PROVE Truth'
<1> USE DEF Truth, SpawnInv, CoordInv, StopInv, TellInv, WatchInv, TerminalTruthful,
            StopAttributed, serveVars, stateVars, fileVars, ptyVars, stopVars
<1>0. TypeOK /\ SealInv /\ Truth
    BY DEF IInv
<1>a. \A at : Turns(at) => /\ coord'.at = at /\ coord'.forced = coord.forced
                           /\ coord'.stopped = coord.stopped
    BY <1>0 DEF Turns, TypeOK, Coord
<1>b. StopRuns("coord") \/ StopOk("coord") \/ StopErr("coord") => StopGood("coord")
    BY <1>0, StopEffect
<1>c. MarkFaulted => FaultGood
    BY <1>0, FaultEffect
<1>1. CASE RootEnds
    <2>1. /\ coord.at = "wait" /\ coord'.forced = coord.forced /\ coord'.stopped = coord.stopped
          /\ \/ coord'.at = "exited" /\ observed = "exited"
             \/ coord'.at = "failed"
        BY <1>1, <1>a DEF RootEnds, At
    <2> QED BY <1>0, <1>1, <2>1 DEF RootEnds
<1>2. CASE ObservationFails
    <2>1. StopGood("coord")
        BY <1>2, <1>b DEF ObservationFails
    <2>2. /\ coord.at = "failed"
          /\ UNCHANGED <<alive, serveVars, transaction, pty, stopRequested, child, observed,
                         outsider, cause, handler, answer>>
        BY <1>2 DEF ObservationFails, At
    <2>3. CASE MarkFaulted
        BY <1>0, <1>c, <2>1, <2>2, <2>3 DEF StopGood, FaultGood, FileGood, Kept
    <2>4. CASE NoFault /\ UNCHANGED coord
        BY <1>0, <2>1, <2>2, <2>4 DEF StopGood, NoFault
    <2> QED BY <1>2, <2>3, <2>4 DEF ObservationFails
<1>3. CASE ReadStopRequested
    <2>1. /\ coord.at = "exited" /\ coord'.at = "drain" /\ coord'.forced = coord.forced
          /\ coord'.stopped = stopRequested
        BY <1>0, <1>3 DEF ReadStopRequested, At, TypeOK, Coord
    <2> QED BY <1>0, <1>3, <2>1 DEF ReadStopRequested
<1>4. CASE OutputDrained
    <2>1. /\ coord.at = "drain" /\ coord'.at = "finish" /\ coord'.stopped = coord.stopped
          /\ coord'.forced = (output = "forced") /\ output # "open"
        BY <1>0, <1>4 DEF OutputDrained, At, TypeOK, Coord
    <2> QED BY <1>0, <1>4, <2>1 DEF OutputDrained
<1>5. CASE OutputLost
    <2>1. FaultGood /\ coord.at = "drain"
        BY <1>5, <1>c DEF OutputLost, At
    <2>2. UNCHANGED <<alive, serveVars, transaction, pty, stopRequested, ptyVars, stopVars,
                      handler, answer>>
        BY <1>5 DEF OutputLost
    <2> QED BY <1>0, <2>1, <2>2 DEF FaultGood, FileGood, Kept
<1>6. CASE DrainExpires
    <2>1. /\ coord.at = "drain" /\ coord'.at = "expired" /\ coord'.forced = coord.forced
          /\ coord'.stopped = coord.stopped
        BY <1>6, <1>a DEF DrainExpires, At
    <2> QED BY <1>0, <1>6, <2>1 DEF DrainExpires
<1>7. CASE DrainStop
    <2>1. StopGood("coord")
        BY <1>7, <1>b DEF DrainStop
    <2>2. /\ coord.at = "expired"
          /\ UNCHANGED <<alive, serveVars, transaction, pty, stopRequested, child, observed,
                         outsider, cause, handler, answer>>
        BY <1>7 DEF DrainStop, At
    <2>3. CASE MarkFaulted
        BY <1>0, <1>c, <2>1, <2>2, <2>3 DEF StopGood, FaultGood, FileGood, Kept
    <2>4. CASE NoFault /\ UNCHANGED coord
        BY <1>0, <2>1, <2>2, <2>4 DEF StopGood, NoFault
    <2>5. CASE /\ NoFault /\ output' # "open"
               /\ coord' = [coord EXCEPT !.at = "finish", !.forced = (output' = "forced")]
        <3>1. /\ coord'.at = "finish" /\ coord'.stopped = coord.stopped
              /\ coord'.forced = (output' = "forced")
            BY <1>0, <2>5 DEF TypeOK, Coord
        <3> QED BY <1>0, <2>1, <2>2, <2>5, <3>1, ZenonT(60) DEF StopGood, NoFault
    <2> QED BY <1>7, <2>3, <2>4, <2>5 DEF DrainStop
<1>8. CASE FinishNatural
    <2>1. /\ coord.at = "finish" /\ stopper' = stopper /\ signalled' = signalled
          /\ UNCHANGED <<alive, serveVars, transaction, pty, stopRequested, child, observed,
                         outsider, cause, handler, answer>>
        BY <1>8 DEF FinishNatural, At
    <2>2. output' = output
        BY <1>0, <1>8, <2>1 DEF FinishNatural, ForceClosed
    <2>3. CASE MarkFaulted
        BY <1>0, <1>c, <2>1, <2>2, <2>3 DEF FaultGood, FileGood, Kept
    <2>4. CASE NoFault /\ Turns(IF coord.forced THEN "sweep" ELSE "commit")
        <3>1. /\ coord'.forced = coord.forced /\ coord'.stopped = coord.stopped
              /\ (coord'.at = "sweep" \/ (coord'.at = "commit" /\ ~coord.forced))
            BY <1>a, <2>4
        <3> QED BY <1>0, <2>1, <2>2, <2>4, <3>1 DEF NoFault
    <2> QED BY <1>8, <2>3, <2>4 DEF FinishNatural
<1>9. CASE SweepOutsiders
    <2>1. /\ coord.at = "sweep"
          /\ UNCHANGED <<alive, serveVars, transaction, pty, stopRequested, child, observed,
                         output, signalled, cause, stopVars, handler, answer>>
        BY <1>9 DEF SweepOutsiders, At
    <2>2. CASE MarkFaulted /\ UNCHANGED outsider
        BY <1>0, <1>c, <2>1, <2>2 DEF FaultGood, FileGood, Kept
    <2>3. CASE outsider # "attributable" /\ UNCHANGED outsider /\ Turns("commit") /\ NoFault
        <3>1. /\ coord'.forced = coord.forced /\ coord'.stopped = coord.stopped
              /\ coord'.at = "commit"
            BY <1>a, <2>3
        <3> QED BY <1>0, <2>1, <2>3, <3>1 DEF NoFault
    <2>4. CASE outsider' = "none" /\ UNCHANGED coord /\ NoFault
        BY <1>0, <2>1, <2>4 DEF NoFault
    <2> QED BY <1>9, <2>2, <2>3, <2>4 DEF SweepOutsiders
<1>10. CASE CommitTerminal
    <2>1. Terminal \in Record
        BY <1>0 DEF Terminal, TypeOK, Record, Outcome, Coord
    <2>2. PICK r \in Record : r = Terminal
        BY <2>1
    <2>3. /\ r.phase = "terminal" /\ r.outcome.forced = coord.forced
          /\ (coord.stopped => r.outcome.reason = "explicit_stop")
        BY <1>0, <2>2 DEF Terminal, TypeOK, Record
    <2>4. record' = r /\ disk' = r /\ phase' = "exited"
        BY <1>10, <2>2 DEF CommitTerminal, Persisted
    <2>5. FileGood
        BY <1>0, <1>10, <2>2, WriteEffect DEF CommitTerminal
    <2>6. /\ coord.at = "commit" /\ coord'.at = "retain" /\ coord'.forced = coord.forced
          /\ coord'.stopped = coord.stopped
          /\ UNCHANGED <<alive, serveVars, shutdown, transaction, pty, stopRequested, ptyVars,
                         stopVars, handler, answer>>
        BY <1>10, <1>a DEF CommitTerminal, At
    <2> QED BY <1>0, <2>3, <2>4, <2>5, <2>6 DEF FileGood, Kept
<1>11. CASE RetentionEnds
    <2>1. /\ coord.at = "retain" /\ coord'.at = "done" /\ coord'.forced = coord.forced
          /\ coord'.stopped = coord.stopped
        BY <1>11, <1>a DEF RetentionEnds, At
    <2> QED BY <1>0, <1>11, <2>1 DEF RetentionEnds
<1> QED BY <1>1, <1>2, <1>3, <1>4, <1>5, <1>6, <1>7, <1>8, <1>9, <1>10, <1>11
        DEF CoordStep

-----------------------------------------------------------------------------
(* The theorems *)

\* A worker starts with an empty journal and no runtime.
LEMMA InitIInv == ASSUME Init PROVE IInv
<1>1. TypeOK
    BY DEF Init, TypeOK, Record, Outcome, NoOutcome, Bootstrap, Signalled, Stopper, Cleanup,
           Handler, Idle, Coord, Answer, Said, Outsiders
<1>2. SealInv /\ Truth
    BY DEF Init, SealInv, Truth, SpawnInv, CoordInv, StopInv, TellInv, WatchInv,
           TerminalTruthful, StopAttributed, Bootstrap, Idle, Said
<1> QED BY <1>1, <1>2 DEF IInv

\* Every step of the worker preserves the invariant and keeps a terminal record.
LEMMA StepIInv == ASSUME IInv, [Next]_vars PROVE IInv' /\ Kept
<1>1. TypeOK /\ SealInv /\ Truth
    BY DEF IInv
<1>2. CASE ServeStep \/ PtyStep
    BY <1>1, <1>2, ServeTypes, ServeTruth DEF IInv, Good
<1>3. CASE Request \/ HandlerStep
    BY <1>1, <1>3, HandlerTypes, HandlerTruth DEF IInv, Good
<1>4. CASE CoordStep
    BY <1>1, <1>4, CoordTypes, CoordTruth DEF IInv, Good
<1>5. CASE UNCHANGED vars
    <2>1. TypeOK'
        BY <1>1, <1>5 DEF vars, serveVars, stateVars, fileVars, ptyVars, stopVars, TypeOK
    <2>2. SealInv' /\ Truth' /\ Kept
        BY <1>1, <1>5 DEF vars, serveVars, stateVars, fileVars, ptyVars, stopVars, SealInv,
           Kept, Truth, SpawnInv, CoordInv, StopInv, TellInv, WatchInv, TerminalTruthful,
           StopAttributed
    <2> QED BY <2>1, <2>2 DEF IInv
<1> QED BY <1>2, <1>3, <1>4, <1>5 DEF Next

\* The strengthened invariant of the runtime's life: types, the sealed file, and
\* what each party knows at each point of its work.
THEOREM Invariance == Spec => []IInv
<1>1. Init => IInv
    BY InitIInv
<1>2. IInv /\ [Next]_vars => IInv'
    BY StepIInv
<1> QED BY <1>1, <1>2, PTL DEF Spec

\* Every variable keeps its type, whatever the transactions.
THEOREM TypeCorrect == Spec => []TypeOK
<1>1. IInv => TypeOK
    BY DEF IInv
<1> QED BY <1>1, Invariance, PTL

\* A terminal journal tells the truth about the runtime: the root is gone, the
\* output sealed as recorded, and no process that can be attributed to the runtime
\* survives a forced close.
THEOREM TerminalSafe == Spec => []TerminalTruthful
<1>1. IInv => TerminalTruthful
    BY DEF IInv, Truth
<1> QED BY <1>1, Invariance, PTL

\* A runtime that exited under an explicit stop's signal is recorded as stopped.
THEOREM AttributionSafe == Spec => []StopAttributed
<1>1. IInv => StopAttributed
    BY DEF IInv, Truth
<1> QED BY <1>1, Invariance, PTL

\* Everything a controller was told about the end of the runtime is journaled.
THEOREM AnswersSafe == Spec => []AnswersDurable
<1>1. IInv => AnswersDurable
    BY DEF IInv, Truth, TellInv, AnswersDurable
<1> QED BY <1>1, Invariance, PTL

\* A live worker never leaves a running child to itself.
THEOREM WatchedSafe == Spec => []RuntimeWatched
<1>1. IInv => RuntimeWatched
    <2>1. SUFFICES ASSUME IInv, child = "running" PROVE RuntimeWatched
        BY DEF RuntimeWatched
    <2>2. TypeOK /\ SpawnInv /\ CoordInv /\ WatchInv
        BY <2>1 DEF IInv, Truth
    <2>3. coord.at \in {"none", "wait", "failed", "exited", "drain", "expired", "done"}
        BY <2>1, <2>2 DEF CoordInv, TypeOK, Coord
    <2> QED BY <2>2, <2>3 DEF WatchInv, RuntimeWatched
<1> QED BY <1>1, Invariance, PTL

\* No writer ever changes a journaled outcome or loses its acknowledgement.
THEOREM OutcomeSafe == Spec => OutcomeFinal
<1>1. IInv /\ [Next]_vars => [Kept]_vars
    BY StepIInv
<1> QED BY <1>1, Invariance, PTL DEF Spec, OutcomeFinal, Kept
=============================================================================
