--------------------------- MODULE WorkerLifecycle ---------------------------
(***************************************************************************)
(* The life of one runtime inside its session worker                       *)
(* (crates/session-worker/src/server.rs and pty.rs): initialization racing *)
(* its deadline, the child and its PTY, the two parties that may stop it,  *)
(* the coordinator that turns its end into a journal record, and the       *)
(* acknowledgement that lets the worker go.                                *)
(*                                                                         *)
(* The control lease admits one controller and a connection runs one       *)
(* handler at a time (module WorkerControl), so there is one handler.      *)
(* Everything the code does under one hold of the state lock, the journal  *)
(* write included, is one step; every await outside it separates steps.    *)
(***************************************************************************)
EXTENDS Naturals, TLC

CONSTANTS Transactions,   \* initialize transaction ids
          None            \* Option::None

ASSUME NoneAssumption == None \notin Transactions

VARIABLES
    alive,        \* the worker process
    serve,        \* the accept loop: "select", "expired" (deadline taken), "returned"
    armed,        \* the deadline's `if !*initialized.borrow()`, as this select! saw it
    initialized,  \* initialized_tx
    shutdown,     \* the shutdown token
    phase,        \* State.phase
    transaction,  \* State.initialize_transaction
    pty,          \* State.pty is Some
    stopRequested,\* State.stop_requested
    record,       \* State.journal
    disk,         \* the journal file
    seal,         \* Journal.sealed: empty, or the one record
    child,        \* the root process of the PTY
    observed,     \* exit_rx: what the child thread reported of the root
    outsider,     \* a process outside the group that still holds the PTY slave
    output,       \* OutputHub completion: "open", "eof" or "forced"
    signalled,    \* strongest signal sent to the group, and for whom
    cleanup,      \* PtyOwner.cleanup
    stopper,      \* who holds the cleanup lock inside stop, and how far it is
    handler,      \* the controller's request being handled
    coord,        \* coordinate_runtime_completion
    answer,       \* the last response, for the properties
    cause         \* whose signal preceded the root's exit, for the properties

serveVars == <<serve, armed, initialized>>
stateVars == <<phase, transaction, pty, stopRequested, record>>
fileVars  == <<disk, seal>>
ptyVars   == <<child, observed, outsider, output, signalled, cause>>
stopVars  == <<cleanup, stopper>>
vars == <<alive, serveVars, shutdown, stateVars, fileVars, ptyVars, stopVars,
          handler, coord, answer>>

-----------------------------------------------------------------------------
NoOutcome == [reason |-> "none", forced |-> FALSE]
Outcome   == [reason : {"none", "natural_exit", "explicit_stop"}, forced : BOOLEAN]
Record    == [phase : {"bootstrap", "starting", "live", "terminal",
                       "never_initialized", "faulted"},
              outcome : Outcome, acknowledged : BOOLEAN]

Bootstrap == [phase |-> "bootstrap", outcome |-> NoOutcome, acknowledged |-> FALSE]

Idle    == [op |-> "idle", at |-> "idle", by |-> None]
Handler == [op : {"idle", "initialize", "stop", "acknowledge"},
            at : {"idle", "begin", "starting", "spawned", "failed", "stop", "commit", "drain"},
            by : Transactions \union {None}]
Coord == [at : {"none", "wait", "failed", "exited", "drain", "expired", "finish",
                "sweep", "commit", "retain", "done"},
          stopped : BOOLEAN, forced : BOOLEAN]

Signalled == [by : {"none", "handler", "coord"}, kill : BOOLEAN]
Stopper   == [who : {"none", "handler", "coord"}, at : {"none", "term", "kill", "reap"}]
Cleanup   == {"active", "authority_released", "forced_closing", "forced_closed",
              "observation_failed", "finished"}

\* A process of the runtime outside its group: none, one that carries the runtime's
\* marker or whose descent from the worker the host can prove, or one that
\* scrubbed its environment on a host without fork lineage.
Outsiders == {"none", "attributable", "invisible"}

Said(what)   == [what |-> what, outcome |-> NoOutcome]
Answer       == [what : {"none", "initialized", "stopped", "acknowledged", "error"},
                 outcome : Outcome]

Init ==
    /\ alive = TRUE
    /\ serve = "select" /\ armed = TRUE /\ initialized = FALSE
    /\ shutdown = FALSE
    /\ phase = "uninitialized" /\ transaction = None /\ pty = FALSE
    /\ stopRequested = FALSE
    /\ record = Bootstrap /\ disk = Bootstrap
    /\ seal = {}
    /\ child = "none" /\ observed = "none" /\ outsider = "none"
    /\ output = "open" /\ signalled = [by |-> "none", kill |-> FALSE] /\ cause = "none"
    /\ cleanup = "active" /\ stopper = [who |-> "none", at |-> "none"]
    /\ handler = Idle
    /\ coord = [at |-> "none", stopped |-> FALSE, forced |-> FALSE]
    /\ answer = Said("none")

-----------------------------------------------------------------------------
(* The journal *)

\* Mutant: nothing is refused over a terminal record.
CheckSealNever(r) == TRUE

\* Journal::check_seal: over a sealed record only its acknowledgement passes.
CheckSeal(r) ==
    \A sealed \in seal :
        /\ [r EXCEPT !.acknowledged = sealed.acknowledged] = sealed
        /\ sealed.acknowledged => r.acknowledged

\* persist returns Ok: the file is replaced, and a terminal record is sealed.  A
\* rename whose directory sync failed counts as committed.
Persisted(r) ==
    /\ CheckSeal(r)
    /\ disk' = r
    /\ seal' = IF r.phase = "terminal" THEN {r} ELSE seal

\* persist returns Err: the seal refuses, or the write fails before its rename.
NotPersisted == UNCHANGED fileVars

-----------------------------------------------------------------------------
(* The accept loop: Server::serve *)

\* Another branch of select! ran; the loop enters select! again.
Reselect ==
    /\ alive /\ serve = "select"
    /\ armed' = ~initialized
    /\ UNCHANGED <<alive, serve, initialized, shutdown, stateVars, fileVars, ptyVars,
                   stopVars, handler, coord, answer>>

\* The deadline branch is taken; record_never_initialized awaits the state lock.
DeadlineExpires ==
    /\ alive /\ serve = "select" /\ armed
    /\ serve' = "expired"
    /\ UNCHANGED <<alive, armed, initialized, shutdown, stateVars, fileVars, ptyVars,
                   stopVars, handler, coord, answer>>

\* record_never_initialized; whatever persist says, serve returns an error.
RecordNeverInitialized ==
    LET r == [record EXCEPT !.phase = "never_initialized"]
    IN  /\ alive /\ serve = "expired"
        /\ phase' = "faulted"
        /\ record' = r
        /\ Persisted(r) \/ NotPersisted
        /\ serve' = "returned"
        /\ UNCHANGED <<alive, armed, initialized, shutdown, transaction, pty,
                       stopRequested, ptyVars, stopVars, handler, coord, answer>>

ServeShutdown ==
    /\ alive /\ serve = "select" /\ shutdown
    /\ serve' = "returned"
    /\ UNCHANGED <<alive, armed, initialized, shutdown, stateVars, fileVars, ptyVars,
                   stopVars, handler, coord, answer>>

\* main returns after serve, or the process dies at any other moment: every
\* task ends with it.
ProcessEnds ==
    /\ alive
    /\ alive' = FALSE
    /\ UNCHANGED <<serveVars, shutdown, stateVars, fileVars, ptyVars, stopVars,
                   handler, coord, answer>>

-----------------------------------------------------------------------------
(* The child and its PTY: external processes and the two PTY threads *)

ChildExits ==
    /\ child = "running"
    /\ child' = "exited"
    /\ cause' = signalled.by
    /\ UNCHANGED <<alive, serveVars, shutdown, stateVars, fileVars, observed, outsider,
                   output, signalled, stopVars, handler, coord, answer>>

OutsiderExits ==
    /\ outsider # "none"
    /\ outsider' = "none"
    /\ UNCHANGED <<alive, serveVars, shutdown, stateVars, fileVars, child, observed,
                   output, signalled, cause, stopVars, handler, coord, answer>>

\* The child thread publishes the root's exit, or that it cannot observe it.
RootObserved(what) ==
    /\ alive /\ pty /\ observed = "none"
    /\ what = "exited" => child = "exited"
    /\ observed' = what
    /\ UNCHANGED <<alive, serveVars, shutdown, stateVars, fileVars, child, outsider,
                   output, signalled, cause, stopVars, handler, coord, answer>>

\* The reader ends, at EOF or because a read failed, and marks the exit; close
\* keeps the completion that came first.
OutputEof ==
    /\ alive /\ pty /\ output = "open"
    /\ output' = "eof"
    /\ UNCHANGED <<alive, serveVars, shutdown, stateVars, fileVars, child, observed,
                   outsider, signalled, cause, stopVars, handler, coord, answer>>

-----------------------------------------------------------------------------
(* PtyOwner::stop and finish_natural, under the cleanup lock *)

ForceClosed == IF output = "open" THEN "forced" ELSE output

\* Mutant: the completion itself is kept as the cleanup state.
SealedCleanupRaw == ForceClosed

\* seal_and_release_output, finish_sealed_cleanup from ForcedClosing.
SealedCleanup == IF ForceClosed = "forced" THEN "forced_closed" ELSE "finished"

CanLock == stopper.who = "none"

\* stop(who) takes the lock while the cleanup is active and sends SIGTERM.
StopBegins(who) ==
    /\ CanLock /\ cleanup = "active"
    /\ stopper' = [who |-> who, at |-> "term"]
    /\ signalled' = IF signalled.by = "none" THEN [signalled EXCEPT !.by = who] ELSE signalled
    /\ UNCHANGED <<cleanup, output>>

\* stop returns at once, by what an earlier cleanup left behind.
StopReturnsOk ==
    /\ CanLock
    /\ \/ /\ cleanup \in {"finished", "forced_closed"}
          /\ UNCHANGED <<cleanup, output>>
       \/ /\ cleanup = "authority_released" /\ observed = "exited"
          /\ cleanup' = "finished" /\ UNCHANGED output
       \/ /\ cleanup = "forced_closing"
          /\ output' = ForceClosed /\ cleanup' = SealedCleanup
    /\ UNCHANGED <<stopper, signalled>>

\* The same with an error: the root is unobservable, a thread cannot be joined,
\* the reader cannot be cancelled, or the group cannot be signalled.
StopReturnsErr ==
    /\ CanLock
    /\ \/ /\ cleanup \in {"observation_failed", "authority_released", "active"}
          /\ UNCHANGED output
       \/ /\ cleanup = "forced_closing"
          /\ output' = ForceClosed
    /\ UNCHANGED <<cleanup, stopper, signalled>>

InStop(who, steps) == stopper.who = who /\ stopper.at \in steps

Unlocked == stopper' = [who |-> "none", at |-> "none"]

\* wait_root_and_output succeeds within grace; the threads are joined, or not.
StopDrained(who, released) ==
    /\ InStop(who, {"term", "kill"})
    /\ observed = "exited" /\ output # "open"
    /\ cleanup' = released /\ Unlocked
    /\ UNCHANGED <<output, signalled>>

\* Mutant: after SIGKILL the output is awaited without a bound.
StopEscalatesOnce(who) ==
    /\ InStop(who, {"term"})
    /\ stopper' = [stopper EXCEPT !.at = "kill"]
    /\ signalled' = [signalled EXCEPT !.kill = TRUE]
    /\ UNCHANGED <<cleanup, output>>

\* Neither happened within grace: SIGKILL, and after another grace only the root
\* is awaited.
StopEscalates(who) ==
    /\ InStop(who, {"term", "kill"})
    /\ stopper' = [stopper EXCEPT !.at = IF @ = "term" THEN "kill" ELSE "reap"]
    /\ signalled' = [signalled EXCEPT !.kill = TRUE]
    /\ UNCHANGED <<cleanup, output>>

\* The root is gone and the output has had its grace: it is force-closed.  When
\* the reader cannot be cancelled or the reaper not joined, a later call goes on
\* from forced_closing (ForcedClosing and OutputAuthorityReleased in the code).
StopForces(who, forced) ==
    /\ InStop(who, {"reap"}) /\ observed = "exited"
    /\ output' = ForceClosed
    /\ cleanup' = forced /\ Unlocked
    /\ UNCHANGED signalled

\* The root cannot be observed: the output is closed and the cleanup given up, or
\* left active when the reader cannot be cancelled.
StopUnobservable(who) ==
    /\ InStop(who, {"term", "kill", "reap"}) /\ observed = "failed"
    /\ signalled' = [signalled EXCEPT !.kill = TRUE]
    /\ output' = ForceClosed
    /\ cleanup' \in {"observation_failed", "active"} /\ Unlocked

\* An error that leaves the cleanup active for a later stop: SIGKILL could not be
\* sent, wait_output_exit was never given the Exit of a closed output
\* (OutputHub!EndedAfterExit), or the root outlived kill_reap.
StopGivesUp(who) ==
    /\ \/ InStop(who, {"term"})
       \/ InStop(who, {"kill"}) /\ output # "open"
       \/ InStop(who, {"reap"}) /\ observed = "none"
    /\ Unlocked
    /\ UNCHANGED <<cleanup, output, signalled>>

StopOk(who)  == \/ StopReturnsOk
                \/ StopDrained(who, "finished")
                \/ StopForces(who, SealedCleanup)
StopErr(who) == \/ StopReturnsErr
                \/ StopDrained(who, "authority_released")
                \/ StopForces(who, "forced_closing")
                \/ StopUnobservable(who)
                \/ StopGivesUp(who)

\* stop as its caller sees it: still running, returned Ok, or returned Err.
StopRuns(who) == StopBegins(who) \/ StopEscalates(who)

-----------------------------------------------------------------------------
(* The controller's requests *)

Handling(op, at) == alive /\ handler.op = op /\ handler.at = at
Goes(at)  == handler' = [handler EXCEPT !.at = at] /\ UNCHANGED answer
Answers(a) == handler' = Idle /\ answer' = a

\* initialize_request up to its first lock: repeated, refused or admitted.
Initialize(t) ==
    /\ alive /\ handler = Idle
    /\ IF transaction # None /\ pty
       THEN Answers(Said(IF transaction = t THEN "initialized" ELSE "error"))
       ELSE IF phase # "uninitialized" THEN Answers(Said("error"))
       ELSE handler' = [op |-> "initialize", at |-> "begin", by |-> t] /\ UNCHANGED answer
    /\ UNCHANGED <<alive, serveVars, shutdown, stateVars, fileVars, ptyVars, stopVars, coord>>

\* The second lock: Starting is committed, or the write fails and it stays so in
\* memory only.
InitializeStarts ==
    LET r == [record EXCEPT !.phase = "starting"]
    IN  /\ Handling("initialize", "begin")
        /\ phase' = "starting"
        /\ transaction' = handler.by
        /\ record' = r
        /\ \/ Persisted(r) /\ Goes("starting")
           \/ NotPersisted /\ Answers(Said("error"))
        /\ UNCHANGED <<alive, serveVars, shutdown, pty, stopRequested, ptyVars, stopVars, coord>>

\* A limit is invalid or the spawn fails: the worker stays Starting.
LaunchFails ==
    /\ Handling("initialize", "starting")
    /\ Answers(Said("error"))
    /\ UNCHANGED <<alive, serveVars, shutdown, stateVars, fileVars, ptyVars, stopVars, coord>>

\* spawn_running: the child exists and Running is committed in one lock hold, or
\* the commit failed and the child is stopped again.
SpawnRunning ==
    LET r == [record EXCEPT !.phase = "live"]
    IN  /\ Handling("initialize", "starting")
        /\ phase' = "running"
        /\ pty' = TRUE
        /\ record' = r
        /\ child' = "running"
        /\ outsider' \in Outsiders
        /\ \/ Persisted(r) /\ Goes("spawned")
           \/ NotPersisted /\ Goes("failed")
        /\ UNCHANGED <<alive, serveVars, shutdown, transaction, stopRequested, observed,
                       output, signalled, cause, stopVars, coord>>

\* spawn_running returns before it takes hold of the child: the child's identity
\* has no wire form.  The child runs on, unknown to the state.
SpawnUnwired ==
    /\ Handling("initialize", "starting")
    /\ child' = "running"
    /\ outsider' \in Outsiders
    /\ Answers(Said("error"))
    /\ UNCHANGED <<alive, serveVars, shutdown, stateVars, fileVars, observed, output,
                   signalled, cause, stopVars, coord>>

\* pty.stop("journal-failure"), whose result is ignored.
UndoSpawn ==
    /\ Handling("initialize", "failed")
    /\ \/ StopRuns("handler") /\ UNCHANGED <<handler, answer>>
       \/ (StopOk("handler") \/ StopErr("handler")) /\ Answers(Said("error"))
    /\ UNCHANGED <<alive, serveVars, shutdown, stateVars, fileVars, child, observed,
                   outsider, cause, coord>>

\* arm_placement_check, initialized_tx, spawn_runtime_monitors.
InitializeEnds ==
    /\ Handling("initialize", "spawned")
    /\ initialized' = TRUE
    /\ coord' = [coord EXCEPT !.at = "wait"]
    /\ Answers(Said("initialized"))
    /\ UNCHANGED <<alive, serve, armed, shutdown, stateVars, fileVars, ptyVars, stopVars>>

Stopped == [what |-> "stopped", outcome |-> record.outcome]

\* stop_request up to prepare_stop.  validate_scope needs the runtime's instance
\* id, which exists from Starting on.
Stop ==
    /\ alive /\ handler = Idle /\ transaction # None
    /\ IF phase = "exited" THEN Answers(Stopped) /\ UNCHANGED <<phase, stopRequested>>
       ELSE IF phase = "faulted" \/ ~pty
       THEN Answers(Said("error")) /\ UNCHANGED <<phase, stopRequested>>
       ELSE /\ phase' = "stopping" /\ stopRequested' = TRUE
            /\ handler' = [op |-> "stop", at |-> "stop", by |-> None] /\ UNCHANGED answer
    /\ UNCHANGED <<alive, serveVars, shutdown, transaction, pty, record, fileVars, ptyVars,
                   stopVars, coord>>

StopCall ==
    /\ Handling("stop", "stop")
    /\ \/ StopRuns("handler") /\ UNCHANGED <<handler, answer>>
       \/ StopOk("handler") /\ Goes("commit")
       \/ StopErr("handler") /\ Answers(Said("error"))
    /\ UNCHANGED <<alive, serveVars, shutdown, stateVars, fileVars, child, observed,
                   outsider, cause, coord>>

\* wait_for_terminal_commit under its timeout.
StopCommitted ==
    /\ Handling("stop", "commit")
    /\ \/ phase = "exited" /\ Answers(Stopped)
       \/ Answers(Said("error"))
    /\ UNCHANGED <<alive, serveVars, shutdown, stateVars, fileVars, ptyVars, stopVars, coord>>

\* acknowledge_request: the record is changed in memory before it is written.
Acknowledge ==
    LET r == [record EXCEPT !.acknowledged = TRUE]
    IN  /\ alive /\ handler = Idle /\ transaction # None
        /\ \/ /\ phase = "exited"
              /\ record' = r
              /\ \/ /\ Persisted(r)
                    /\ handler' = [op |-> "acknowledge", at |-> "drain", by |-> None]
                    /\ UNCHANGED answer
                 \/ NotPersisted /\ Answers(Said("error"))
           \/ /\ phase # "exited"
              /\ Answers(Said("error"))
              /\ UNCHANGED <<record, fileVars>>
        /\ UNCHANGED <<alive, serveVars, shutdown, phase, transaction, pty, stopRequested,
                       ptyVars, stopVars, coord>>

\* The attached streams are drained, or the bound passes.
AcknowledgeEnds ==
    /\ Handling("acknowledge", "drain")
    /\ shutdown' = TRUE
    /\ Answers(Said("acknowledged"))
    /\ UNCHANGED <<alive, serveVars, stateVars, fileVars, ptyVars, stopVars, coord>>

Request == (\E t \in Transactions : Initialize(t)) \/ Stop \/ Acknowledge

HandlerStep == InitializeStarts \/ LaunchFails \/ SpawnRunning \/ SpawnUnwired \/ UndoSpawn
               \/ InitializeEnds \/ StopCall \/ StopCommitted \/ AcknowledgeEnds

-----------------------------------------------------------------------------
(* coordinate_runtime_completion *)

At(at)     == alive /\ coord.at = at
Turns(at)  == coord' = [coord EXCEPT !.at = at]

\* Mutant: the worker of a faulted runtime stays.
MarkFaultedOnly ==
    LET r == [record EXCEPT !.phase = "faulted"]
    IN  /\ phase' = "faulted"
        /\ record' = r
        /\ Persisted(r) \/ NotPersisted
        /\ Turns("done")
        /\ UNCHANGED shutdown

\* mark_runtime_faulted and the shutdown that follows it.
MarkFaulted ==
    LET r == [record EXCEPT !.phase = "faulted"]
    IN  /\ phase' = "faulted"
        /\ record' = r
        /\ Persisted(r) \/ NotPersisted
        /\ shutdown' = TRUE
        /\ Turns("done")

NoFault == UNCHANGED <<phase, record, fileVars, shutdown>>

\* wait_runtime_exit
RootEnds ==
    /\ At("wait") /\ observed # "none"
    /\ Turns(IF observed = "exited" THEN "exited" ELSE "failed")
    /\ UNCHANGED <<alive, serveVars, shutdown, stateVars, fileVars, ptyVars, stopVars,
                   handler, answer>>

\* stop("root-observation-failure"), whatever it returns, then the fault.
ObservationFails ==
    /\ At("failed")
    /\ \/ StopRuns("coord") /\ NoFault /\ UNCHANGED coord
       \/ (StopOk("coord") \/ StopErr("coord")) /\ MarkFaulted
    /\ UNCHANGED <<alive, serveVars, transaction, pty, stopRequested, child, observed,
                   outsider, cause, handler, answer>>

\* Mutant: the phase is taken for the stop request.
ReadStoppingPhase ==
    /\ At("exited")
    /\ coord' = [coord EXCEPT !.at = "drain", !.stopped = (phase = "stopping")]
    /\ UNCHANGED <<alive, serveVars, shutdown, stateVars, fileVars, ptyVars, stopVars,
                   handler, answer>>

\* The state lock after the placement check: was this a stop?
ReadStopRequested ==
    /\ At("exited")
    /\ coord' = [coord EXCEPT !.at = "drain", !.stopped = stopRequested]
    /\ UNCHANGED <<alive, serveVars, shutdown, stateVars, fileVars, ptyVars, stopVars,
                   handler, answer>>

\* wait_for_output_completion: the monitor reports the sealed completion.
OutputDrained ==
    /\ At("drain") /\ output # "open"
    /\ coord' = [coord EXCEPT !.at = "finish", !.forced = (output = "forced")]
    /\ UNCHANGED <<alive, serveVars, shutdown, stateVars, fileVars, ptyVars, stopVars,
                   handler, answer>>

\* The monitor ended without the Exit event (OutputHub!EndedAfterExit).
OutputLost ==
    /\ At("drain") /\ output # "open"
    /\ MarkFaulted
    /\ UNCHANGED <<alive, serveVars, transaction, pty, stopRequested, ptyVars, stopVars,
                   handler, answer>>

DrainExpires ==
    /\ At("drain")
    /\ Turns("expired")
    /\ UNCHANGED <<alive, serveVars, shutdown, stateVars, fileVars, ptyVars, stopVars,
                   handler, answer>>

\* stop("natural-drain-timeout"), and the completion it must have sealed.
DrainStop ==
    /\ At("expired")
    /\ \/ StopRuns("coord") /\ NoFault /\ UNCHANGED coord
       \/ /\ StopOk("coord") /\ output' # "open" /\ NoFault
          /\ coord' = [coord EXCEPT !.at = "finish", !.forced = (output' = "forced")]
       \/ StopOk("coord") /\ output' = "open" /\ MarkFaulted
       \/ StopErr("coord") /\ MarkFaulted
    /\ UNCHANGED <<alive, serveVars, transaction, pty, stopRequested, child, observed,
                   outsider, cause, handler, answer>>

\* finish_natural, where a forced close already known is no error.
FinishNatural ==
    /\ At("finish") /\ CanLock
    /\ UNCHANGED <<stopper, signalled>>
    /\ LET next == IF coord.forced THEN "sweep" ELSE "commit"
       IN  \/ /\ cleanup \in {"finished", "active", "authority_released"}
              /\ cleanup' = "finished" /\ UNCHANGED output
              /\ Turns(next) /\ NoFault
           \/ /\ cleanup \in {"active", "authority_released"}
              /\ cleanup' = "authority_released" /\ UNCHANGED output
              /\ MarkFaulted
           \/ /\ cleanup = "forced_closed" /\ UNCHANGED <<cleanup, output>>
              /\ IF coord.forced THEN Turns(next) /\ NoFault ELSE MarkFaulted
           \/ /\ cleanup = "forced_closing"
              /\ output' = ForceClosed
              /\ \/ /\ cleanup' = SealedCleanup
                    /\ IF output' = "forced" /\ ~coord.forced THEN MarkFaulted
                       ELSE Turns(next) /\ NoFault
                 \/ UNCHANGED cleanup /\ MarkFaulted
           \/ /\ cleanup = "observation_failed" /\ UNCHANGED <<cleanup, output>>
              /\ MarkFaulted
    /\ UNCHANGED <<alive, serveVars, transaction, pty, stopRequested, child, observed,
                   outsider, cause, handler, answer>>

\* Mutant: a forced close is committed without the sweep.
SweepSkipped ==
    /\ At("sweep")
    /\ Turns("commit") /\ NoFault
    /\ UNCHANGED <<alive, serveVars, transaction, pty, stopRequested, ptyVars, stopVars,
                   handler, answer>>

\* confirm_forced_close_cleanup: a pass ends the process it can attribute to the
\* runtime, and another pass follows; a pass that attributes none confirms the
\* cleanup; or it cannot be confirmed (a process survives, the sweep aborts).
SweepOutsiders ==
    /\ At("sweep")
    /\ \/ /\ outsider = "attributable" /\ outsider' = "none"
          /\ UNCHANGED coord /\ NoFault
       \/ outsider # "attributable" /\ UNCHANGED outsider /\ Turns("commit") /\ NoFault
       \/ UNCHANGED outsider /\ MarkFaulted
    /\ UNCHANGED <<alive, serveVars, transaction, pty, stopRequested, child, observed,
                   output, signalled, cause, stopVars, handler, answer>>

Terminal ==
    [record EXCEPT !.phase = "terminal",
                   !.outcome = [reason |-> IF coord.stopped THEN "explicit_stop"
                                           ELSE "natural_exit",
                                forced |-> coord.forced]]

\* Mutant: a failed write is taken for a commit.
CommitUnchecked ==
    /\ At("commit")
    /\ Persisted(Terminal) \/ NotPersisted
    /\ phase' = "exited"
    /\ record' = Terminal
    /\ Turns("retain")
    /\ UNCHANGED <<alive, serveVars, shutdown, transaction, pty, stopRequested, ptyVars,
                   stopVars, handler, answer>>

\* retry_runtime_completion: memory follows the file, and a failed write changes
\* nothing and is retried (its way out at a shutdown is never taken: until the
\* coordinator is done, only an acknowledgement of a committed end shuts down).
CommitTerminal ==
    /\ At("commit")
    /\ Persisted(Terminal)
    /\ phase' = "exited"
    /\ record' = Terminal
    /\ Turns("retain")
    /\ UNCHANGED <<alive, serveVars, shutdown, transaction, pty, stopRequested, ptyVars,
                   stopVars, handler, answer>>

RetentionEnds ==
    /\ At("retain")
    /\ shutdown' = TRUE
    /\ Turns("done")
    /\ UNCHANGED <<alive, serveVars, stateVars, fileVars, ptyVars, stopVars, handler, answer>>

CoordStep == RootEnds \/ ObservationFails \/ ReadStopRequested \/ OutputDrained
             \/ OutputLost \/ DrainExpires \/ DrainStop \/ FinishNatural
             \/ SweepOutsiders \/ CommitTerminal \/ RetentionEnds

-----------------------------------------------------------------------------
ServeStep == Reselect \/ DeadlineExpires \/ RecordNeverInitialized \/ ServeShutdown
             \/ ProcessEnds

PtyStep == ChildExits \/ OutsiderExits \/ OutputEof
           \/ \E what \in {"exited", "failed"} : RootObserved(what)

Next == ServeStep \/ PtyStep \/ Request \/ HandlerStep \/ CoordStep

Spec == Init /\ [][Next]_vars

\* Timers fire, tasks are scheduled and SIGKILL works; the cleanup lock is a
\* FIFO mutex; a disk that refuses writes for ever is excluded, one that refuses
\* any number of them is not.
FairSpec ==
    /\ Spec
    /\ WF_vars(Reselect) /\ WF_vars(DeadlineExpires) /\ WF_vars(RecordNeverInitialized)
    /\ WF_vars(ServeShutdown)
    /\ WF_vars(serve = "returned" /\ ProcessEnds)
    /\ WF_vars(signalled.kill /\ ChildExits)
    /\ WF_vars(child = "exited" /\ \E what \in {"exited", "failed"} : RootObserved(what))
    /\ WF_vars(HandlerStep)
    /\ WF_vars(RootEnds) /\ WF_vars(ReadStopRequested)
    /\ WF_vars(OutputDrained \/ OutputLost \/ DrainExpires)
    /\ SF_vars(ObservationFails) /\ SF_vars(DrainStop) /\ SF_vars(FinishNatural)
    /\ WF_vars(SweepOutsiders) /\ WF_vars(CommitTerminal) /\ WF_vars(RetentionEnds)

-----------------------------------------------------------------------------
(* Properties *)

TypeOK ==
    /\ alive \in BOOLEAN /\ armed \in BOOLEAN /\ initialized \in BOOLEAN
    /\ shutdown \in BOOLEAN /\ pty \in BOOLEAN /\ stopRequested \in BOOLEAN
    /\ outsider \in Outsiders
    /\ serve \in {"select", "expired", "returned"}
    /\ phase \in {"uninitialized", "starting", "running", "stopping", "exited", "faulted"}
    /\ transaction \in Transactions \union {None}
    /\ record \in Record /\ disk \in Record /\ seal \subseteq Record
    /\ child \in {"none", "running", "exited"}
    /\ observed \in {"none", "exited", "failed"}
    /\ output \in {"open", "eof", "forced"}
    /\ signalled \in Signalled
    /\ cause \in {"none", "handler", "coord"}
    /\ cleanup \in Cleanup
    /\ stopper \in Stopper
    /\ handler \in Handler
    /\ coord \in Coord
    /\ answer \in Answer

\* A terminal record in the journal is the truth about a runtime that is gone:
\* the root exited, the output is sealed the way the record says, and a forced
\* close left no process behind that can be attributed to the runtime.  One that
\* scrubbed its environment on a host without lineage may be left
\* (coordinate_runtime_completion, confirm_runtime_cleanup).
TerminalTruthful ==
    disk.phase = "terminal" =>
        /\ child = "exited" /\ observed = "exited"
        /\ output # "open"
        /\ disk.outcome.forced <=> output = "forced"
        /\ disk.outcome.forced => outsider # "attributable"

\* A root that exited under the signal of an explicit stop is recorded as
\* stopped, although the stop, the exit and the record are three tasks
\* (prepare_stop, coordinate_runtime_completion).
StopAttributed ==
    disk.phase = "terminal" /\ cause = "handler" => disk.outcome.reason = "explicit_stop"

\* What a controller was told about the end of the runtime is in the journal:
\* it never hears of an outcome a restart could take back.
AnswersDurable ==
    /\ answer.what = "stopped" =>
          disk.phase = "terminal" /\ disk.outcome = answer.outcome
    /\ answer.what = "acknowledged" => disk.acknowledged
    /\ phase = "exited" => disk.phase = "terminal"

\* A journaled outcome is never changed or taken back, and an acknowledgement
\* never lost, by whichever writer comes last (persist, check_seal).
OutcomeFinal ==
    [][disk.phase = "terminal" =>
          /\ disk'.phase = "terminal" /\ disk'.outcome = disk.outcome
          /\ disk.acknowledged => disk'.acknowledged]_vars

\* A live worker that holds a running child is watching it, about to, or still
\* bound by the initialization deadline: no runtime is left to itself.
RuntimeWatched ==
    alive /\ child = "running" =>
        \/ coord.at \in {"wait", "failed", "exited", "drain", "expired"}
        \/ handler.op = "initialize"
        \/ armed \/ serve # "select"
        \/ shutdown

\* Once the root exited, its worker records it and goes: no combination of a
\* pending stop, a held PTY, a failed write or a failed initialization keeps
\* the worker for ever.
WorkerEnds == child = "exited" ~> ~alive

\* A stop request is answered unless the worker ends first: neither a PTY held
\* from outside nor the coordinator's own stop keeps it waiting (PtyOwner::stop,
\* stop_request).
StopAnswered == handler.op = "stop" ~> (handler.op # "stop" \/ ~alive)

\* "Whether the journal proves the PTY runtime is no longer running": what the
\* daemon concludes from a terminal or never_initialized journal
\* (JournalFacts::runtime_ended).
JournalProvesEnded ==
    disk.phase \in {"terminal", "never_initialized"} => child # "running"
=============================================================================
