--------------------------- MODULE DaemonSession ---------------------------
(***************************************************************************)
(* The daemon's side of one session with one worker generation: the        *)
(* durable record, the registry entry, and the tasks that change them.     *)
(*                                                                         *)
(*   - a client's stop or remove request, the startup reconciliation, the  *)
(*     supervision retry and the classification of a lost worker run under *)
(*     the session's lifecycle lock: tx is the task that holds it;         *)
(*   - the worker exit watcher w polls, reconnects and commits exits       *)
(*     WITHOUT that lock, against a memory base and a durable base;        *)
(*   - the acknowledgement task ack releases the worker once its outcome   *)
(*     is committed;                                                       *)
(*   - the worker, its supervisor job and its journal live outside the     *)
(*     daemon and survive it.                                              *)
(*                                                                         *)
(* A step that fails (a store write, a supervisor call, a worker exchange, *)
(* a sweep that confirms nothing, a commit that exhausts its attempts)     *)
(* spends one of Faults.                                                   *)
(***************************************************************************)
EXTENDS Naturals

CONSTANTS
  Faults, Crashes, Requests,  \* how often each may happen
  None                        \* no record, no entry, nothing to undo

ASSUME BudgetAssumption == Faults \in Nat /\ Crashes \in Nat /\ Requests \in Nat

VARIABLES
  up,        \* the daemon runs
  phase,     \* the worker: running, exited (answers), closing, gone
  hung,      \* the worker is alive and does not answer
  outcome,   \* how the root process ended; user: ended by a stop request
  journal,   \* the worker's journal: running, terminal, deleted
  loose,     \* the terminal journal may not survive a host crash
  acked,     \* the worker took a terminal acknowledgement
  job,       \* the generation's supervisor job is registered
  rec,       \* the durable session record, or None
  undo,      \* the record a host crash may bring back, or None
  mem,       \* the registry entry, or None
  tx,        \* the task holding the session's lifecycle lock
  w,         \* the worker exit watcher
  ack,       \* the terminal acknowledgement task
  retry,     \* the supervision retry of the session
  rq,        \* the client request in progress
  stopOk,    \* some stop was answered stopped: true
  reverted,  \* a host crash brought an older record back
  faults, crashes, requests

worker == <<phase, hung, outcome, journal, loose, acked, job>>
store  == <<rec, undo>>
ghosts == <<stopOk, reverted>>
vars   == <<up, worker, store, mem, tx, w, ack, retry, rq, ghosts,
            faults, crashes, requests>>

Live  == "live"
Ended == {"done", "failed", "stopped"}       \* SessionState::is_terminal

\* Runtime states. Three are `reconnecting`: reconn waits for the supervision
\* retry, lostconn is owned by the watcher, nodetector is what an adoption
\* leaves that could not open the detector stream.
Reconnecting == {"reconn", "lostconn", "nodetector"}
RuntimeStates == {"live", "conflict", "lost", "terminal"} \cup Reconnecting
DesiredStates == {"running", "stopped", "removed"}

Bases   == [st : Ended \cup {Live}, des : DesiredStates, rt : RuntimeStates]
Records == [st : Ended \cup {Live}, des : DesiredStates, rt : RuntimeStates,
            txn : {"none", "stop", "remove"}]
\* handle: a worker whose connection works or is torn, or Unavailable (none).
\* unp: the entry is a placeholder whose classification was never written.
Entries == [st : Ended \cup {Live}, des : DesiredStates, rt : RuntimeStates,
            handle : {"worker", "torn", "none"}, stopping : BOOLEAN,
            unp : BOOLEAN]

ASSUME NoneAssumption == None \notin Bases \cup Records \cup Entries

-----------------------------------------------------------------------------
(* Records and entries *)

BaseOf(e) == [st |-> e.st, des |-> e.des, rt |-> e.rt]

session_record(e, txn) == [st |-> e.st, des |-> e.des, rt |-> e.rt, txn |-> txn]

unavailable_entry(r) ==
  [st |-> r.st, des |-> r.des, rt |-> r.rt, handle |-> "none",
   stopping |-> FALSE, unp |-> FALSE]

\* Unavailable, and not proven gone.
unreachable_live_state(e) ==
  e.handle = "none" /\ e.rt \notin {"terminal", "lost"}

is_pending_stop(r) == r.des = "stopped" /\ r.txn = "stop"

\* Mutant: the exit status decides, although a stop was requested.
ExitStateObserved(stopped) == IF outcome = "done" THEN "done" ELSE "failed"

\* The outcome an observed exit gives a session.
ExitState(stopped) ==
  IF stopped THEN "stopped" ELSE IF outcome = "done" THEN "done" ELSE "failed"

\* Mutant: the runtime state is presented as the session state.
present_lost_runtime_raw(st, des, proven) ==
  IF ~proven \/ st \in Ended THEN st ELSE "lost"

\* Mutant: an outcome that is already recorded is replaced.
present_lost_runtime_always(st, des, proven) ==
  IF ~proven THEN st ELSE IF des = "running" THEN "failed" ELSE "stopped"

\* A proven loss ends a session that has not ended; an unproven one does not.
present_lost_runtime(st, des, proven) ==
  IF ~proven \/ st \in Ended THEN st
  ELSE IF des = "running" THEN "failed" ELSE "stopped"

Answers == phase \in {"running", "exited"} /\ ~hung

-----------------------------------------------------------------------------
(* Store, supervisor, and the tasks' bookkeeping *)

Fault  == faults > 0 /\ faults' = faults - 1
NoFault == UNCHANGED faults

\* Mutant: a write that did not take effect is reported as applied.
WriteAssumed(r) ==
  \/ NoFault /\ rec' = r /\ undo' = None
  \/ Fault /\ UNCHANGED store

\* A write that took effect. Its directory sync may have failed: the daemon
\* treats it as committed, and a host crash may bring the last synced record
\* back.
Write(r) ==
  /\ rec' = r
  /\ \/ NoFault /\ undo' = None
     \/ Fault /\ undo' = IF undo = None THEN rec ELSE undo

\* Retiring the job ends whatever process it still runs.
Retire ==
  /\ job' = FALSE
  /\ phase' = "gone"
  /\ hung' = FALSE
  /\ UNCHANGED <<outcome, journal, loose, acked>>

\* rec, base, prev: the records a commit is conditional on and rolls back to;
\* des: the desired state before the request; same: the entry still holds the
\* connection the stop was sent on; direct: the runtime is not ended through
\* its worker; proven: the sweep was confirmed; pend: a classification.
NoTx == [who |-> "none", pc |-> "idle", rec |-> None, base |-> None,
         prev |-> None, des |-> "running", same |-> TRUE, direct |-> FALSE,
         proven |-> TRUE, pend |-> "live"]
\* stopped: the exit being committed counts as a stop; only: classify a
\* proven end only.
WatchOff == [pc |-> "off", base |-> None, rec |-> None, stopped |-> FALSE,
             only |-> TRUE, cancel |-> FALSE]
Watching == [WatchOff EXCEPT !.pc = "poll"]

Free == tx.who = "none"
At(pc) == up /\ tx.pc = pc
GoTo(pc) == tx' = [tx EXCEPT !.pc = pc]

\* runtime_watch_cancel.cancel(): an exit commit that already started runs on.
Cancelled(watch) ==
  IF watch.pc = "exit" THEN [watch EXCEPT !.cancel = TRUE] ELSE WatchOff

\* Mutant: the session is not put in the pending set.
schedule_nothing == UNCHANGED retry

schedule_supervision_retry == retry' = [retry EXCEPT !.pending = TRUE]

Answer(stopped) ==
  /\ tx' = NoTx
  /\ rq' = "none"
  /\ stopOk' = (stopOk \/ stopped)

\* The request goes on.
Pending == UNCHANGED <<rq, stopOk>>

clear_stopping(e) == IF e.st \in Ended THEN e ELSE [e EXCEPT !.stopping = FALSE]

rollback_stop_intent(e, des) ==
  IF e.st \in Ended \/ ~e.stopping THEN e
  ELSE [e EXCEPT !.stopping = FALSE, !.des = des]

-----------------------------------------------------------------------------
(* Stop and remove requests *)

Request ==
  /\ up /\ tx.who # "start" /\ rq = "none" /\ requests > 0
  /\ rq' \in {"stop", "remove"}
  /\ requests' = requests - 1
  /\ UNCHANGED <<up, worker, store, mem, tx, w, ack, retry, ghosts, faults,
                 crashes>>

\* Marks the entry as stopping; from here on an exit counts as a stop.
MarkStopping(des, conflict) ==
  /\ mem' = [mem EXCEPT !.stopping = TRUE, !.des = des]
  /\ tx' = [NoTx EXCEPT !.who = "op", !.pc = "intent", !.des = mem.des,
                        !.direct = conflict]
  /\ NoFault /\ Pending

\* What the request finds once it has the lifecycle lock.
OpBegin ==
  /\ up /\ Free /\ rq # "none"
  /\ \/ /\ mem = None \* session_not_found
        /\ Answer(FALSE) /\ NoFault /\ UNCHANGED mem
     \/ /\ mem # None /\ rq = "stop" /\ mem.st \in Ended \* stopped: false
        /\ Answer(FALSE) /\ NoFault /\ UNCHANGED mem
     \/ /\ mem # None /\ rq = "stop" /\ mem.st = Live /\ mem.handle = "none"
        /\ \/ mem.rt # "conflict" /\ Answer(FALSE) /\ NoFault /\ UNCHANGED mem
           \/ mem.rt = "conflict" /\ Fault \* not proven the recorded worker
              /\ Answer(FALSE) /\ UNCHANGED mem
           \/ mem.rt = "conflict" /\ MarkStopping("stopped", TRUE)
     \/ /\ mem # None /\ mem.st = Live /\ mem.handle # "none"
        /\ MarkStopping(IF rq = "stop" THEN "stopped" ELSE "removed", FALSE)
     \/ /\ mem # None /\ rq = "remove"
        /\ mem.st \in Ended \/ mem.handle = "none"
        /\ tx' = [NoTx EXCEPT !.who = "op", !.pc = "retire", !.direct = TRUE]
        /\ NoFault /\ Pending /\ UNCHANGED mem
  /\ UNCHANGED <<worker, store, w, ack, retry>>

\* commit_intent: the record is rebuilt from the entry under the sessions
\* lock; a session that ended meanwhile is reported, with nothing written.
OpIntent ==
  /\ At("intent")
  /\ \/ /\ mem.st \in Ended
        /\ w' = Cancelled(w)
        /\ IF rq = "stop" THEN Answer(mem.st = "stopped")
                          ELSE GoTo("retire") /\ Pending
        /\ NoFault /\ UNCHANGED <<store, mem>>
     \/ /\ mem.st = Live
        /\ LET intent == session_record(mem, rq)
           IN  /\ Write(intent)
               /\ tx' = [tx EXCEPT !.pc = IF tx.direct THEN "release" ELSE "rpc",
                                   !.rec = intent, !.prev = rec]
        /\ Pending /\ UNCHANGED <<mem, w>>
     \/ /\ mem.st = Live /\ Fault
        /\ mem' = rollback_stop_intent(mem, tx.des)
        /\ Answer(FALSE) /\ UNCHANGED <<store, w>>
  /\ UNCHANGED <<worker, ack, retry>>

\* The worker takes a stop: it ends its root process and commits its journal,
\* synced or not, before it answers.
WorkerStops ==
  /\ phase' = "exited"
  /\ journal' = "terminal"
  /\ outcome' = IF phase = "running" THEN "user" ELSE outcome
  /\ loose' \in IF phase = "running" THEN BOOLEAN ELSE {loose}
  /\ UNCHANGED <<hung, acked, job>>

\* The stop exchange on the connection the entry held when it was marked.
OpRpc ==
  /\ At("rpc")
  /\ LET connected == tx.same /\ mem.handle = "worker"
     IN  \/ /\ connected /\ Answers
            /\ WorkerStops /\ GoTo("exit")
            /\ NoFault /\ Pending /\ UNCHANGED mem
         \/ /\ connected /\ Answers /\ Fault \* refused, or the answer was lost
            /\ WorkerStops \/ UNCHANGED worker
            /\ mem' = clear_stopping(mem) /\ Answer(FALSE)
         \/ /\ connected /\ hung /\ rq = "stop" \* unanswered
            /\ GoTo("release")
            /\ NoFault /\ Pending /\ UNCHANGED <<worker, mem>>
         \/ /\ ~connected \/ (~Answers /\ ~(hung /\ rq = "stop"))
            /\ mem' = clear_stopping(mem) /\ Answer(FALSE)
            /\ NoFault /\ UNCHANGED worker
  /\ UNCHANGED <<store, w, ack, retry>>

\* settle_failed_release takes the intent back while it is still the record;
\* this write can fail as well, which is only logged, or stay unsynced.
RollBack ==
  \/ /\ rec = tx.rec /\ rec' = tx.prev
     /\ undo' \in {None, IF undo = None THEN rec ELSE undo}
  \/ UNCHANGED store

\* release_conflicted_runtime: ends a worker through its supervisor, for a
\* conflicted runtime (direct) or one that did not answer its stop. A failure
\* that left the worker untouched rolls a conflicted stop back; any other
\* keeps the intent for the supervision retry. (The check that the entry still
\* holds the unanswered connection cannot fail: replacing it takes the lock.)
OpRelease ==
  /\ At("release")
  /\ \/ /\ Retire /\ GoTo("exit")
        /\ NoFault /\ Pending /\ UNCHANGED <<store, mem, retry>>
     \/ /\ Fault \* partially stopped: cleanup not confirmed
        /\ Retire
        /\ mem' = clear_stopping(mem) /\ Answer(FALSE)
        /\ schedule_supervision_retry /\ UNCHANGED store
     \/ /\ Fault \* not stopped
        /\ Answer(FALSE)
        /\ IF tx.direct
           THEN /\ mem' = rollback_stop_intent(mem, tx.des)
                /\ RollBack
                /\ schedule_supervision_retry
           ELSE /\ mem' = clear_stopping(mem) /\ UNCHANGED <<store, retry>>
        /\ UNCHANGED worker
  /\ UNCHANGED <<w, ack>>

-----------------------------------------------------------------------------
(* Committing an exit, by the stop request and by the watcher *)

ExitRecord(e, stopped) ==
  [st |-> ExitState(stopped), des |-> e.des, rt |-> "terminal", txn |-> "none"]

\* Mutant: the transition is applied to whatever the entry and the record are.
BasesUnchecked(base, r) == mem # None

\* commit_runtime_transition: applied only while the entry and the record are
\* the ones the transition was derived from. The sessions lock is held from
\* the check through the write to the install.
BasesCurrent(base, r) == mem # None /\ BaseOf(mem) = base /\ rec = r

InstallExit(r) ==
  /\ Write(r)
  /\ mem' = [mem EXCEPT !.st = r.st, !.rt = "terminal", !.stopping = FALSE,
                        !.unp = FALSE]
  /\ ack' = IF mem.handle # "none" /\ mem.des # "removed"
            THEN [pc |-> "want", conn |-> mem.handle = "worker"] ELSE ack

\* record_exit of the stop: reads the entry, or finds the stop applied.
OpExit ==
  /\ At("exit")
  /\ tx' = IF mem.st = "stopped" /\ ~mem.stopping
           THEN [tx EXCEPT !.pc = "done"]
           ELSE [tx EXCEPT !.pc = "commit", !.base = BaseOf(mem)]
  /\ UNCHANGED <<worker, store, mem, w, ack, retry, rq, stopOk, faults>>

\* Mutant: a stale attempt is repeated with the bases it already had.
RetryStale == GoTo("commit")

\* A stale attempt starts again from the entry and the record as they are.
Reload == tx' = [tx EXCEPT !.pc = "exit", !.rec = rec, !.base = None]

\* The first attempt is conditional on the committed intent, the next ones on
\* the record as loaded. The stop of a conflicted runtime that cannot commit
\* leaves its intent to the supervision retry.
OpCommit ==
  /\ At("commit")
  /\ \/ /\ BasesCurrent(tx.base, tx.rec)
        /\ InstallExit(ExitRecord(mem, TRUE))
        /\ GoTo("done") /\ Pending
        /\ w' = IF mem.handle = "none" THEN Cancelled(w) ELSE w
        /\ UNCHANGED retry
     \/ /\ ~BasesCurrent(tx.base, tx.rec)
        /\ Reload /\ NoFault /\ Pending /\ UNCHANGED <<store, mem, w, ack, retry>>
     \/ /\ Fault
        /\ Answer(FALSE)
        /\ IF tx.direct
           THEN schedule_supervision_retry /\ UNCHANGED mem
           ELSE mem' = clear_stopping(mem) /\ UNCHANGED retry
        /\ UNCHANGED <<store, w, ack>>
  /\ UNCHANGED worker

\* Only now are the watchers cancelled and the request answered.
OpDone ==
  /\ At("done")
  /\ w' = Cancelled(w)
  /\ IF rq = "stop" THEN Answer(TRUE)
                    ELSE GoTo("retire") /\ Pending
  /\ UNCHANGED <<worker, store, mem, ack, retry, faults>>

-----------------------------------------------------------------------------
(* Removal *)

\* retire_unstopped_job: a terminal or an unreachable runtime's job goes
\* before the removal is recorded; any other runtime's is left alone. A call
\* that fails may have taken effect.
OpRetire ==
  /\ At("retire")
  /\ LET target == mem.rt = "terminal" \/ unreachable_live_state(mem)
     IN  \/ /\ IF target THEN Retire ELSE UNCHANGED worker
            /\ GoTo(IF tx.direct THEN "record" ELSE "sweep")
            /\ NoFault /\ Pending
         \/ target /\ Fault /\ Answer(FALSE) /\ (Retire \/ UNCHANGED worker)
  /\ UNCHANGED <<store, mem, w, ack, retry>>

\* write_entry_record: the entry takes the intent before the store does, and
\* keeps it when the store fails.
OpRecord ==
  /\ At("record")
  /\ mem' = [mem EXCEPT !.des = "removed"]
  /\ \/ Write(session_record(mem', "remove")) /\ GoTo("sweep") /\ Pending
     \/ Fault /\ Answer(FALSE) /\ UNCHANGED store
  /\ UNCHANGED <<worker, w, ack, retry>>

\* Ends the lock holder's task without a result to report: a request answers,
\* a reconciliation classifies the session and stays pending.
Fail(pend) ==
  IF tx.who = "op" THEN Answer(FALSE)
  ELSE tx' = [tx EXCEPT !.pc = "pend", !.pend = pend] /\ Pending

\* release_removed_session, shared by the request and the reconciliation: the
\* sweep, then the entry, then the record, and the journals last.
Sweep ==
  /\ At("sweep")
  /\ \/ NoFault /\ GoTo("evict") /\ Pending
     \/ Fault /\ Fail("conflict")
  /\ UNCHANGED <<worker, store, mem, w, ack, retry>>

Evict ==
  /\ At("evict")
  /\ mem' = None
  /\ w' = Cancelled(w)
  /\ tx' = [tx EXCEPT !.pc = "delete", !.base = mem]
  /\ NoFault /\ Pending
  /\ UNCHANGED <<worker, store, ack, retry>>

\* What follows a finished removal: the request answers removed, the
\* reconciliation is settled.
Removed ==
  IF tx.who = "op" THEN Answer(FALSE) /\ UNCHANGED retry
  ELSE /\ tx' = NoTx /\ Pending
       /\ retry' = [retry EXCEPT !.serving = FALSE]

\* Mutant: the journals go although the deletion may not be durable.
DeleteForgetting ==
  /\ At("delete")
  /\ \/ Write(None) /\ GoTo("journals") /\ Pending /\ UNCHANGED <<mem, retry>>
     \/ /\ Fault /\ Fail("reconn")
        /\ mem' = tx.base /\ UNCHANGED <<store, retry>>
  /\ UNCHANGED <<worker, w, ack>>

\* A delete whose directory sync failed keeps the journals: a host crash may
\* bring the record back, and its removal is then proven from them. A failed
\* delete lists the entry again.
Delete ==
  /\ At("delete")
  /\ \/ /\ Write(None) /\ UNCHANGED mem
        /\ IF undo' = None THEN GoTo("journals") /\ Pending /\ UNCHANGED retry
                           ELSE Removed
     \/ /\ Fault /\ Fail("reconn")
        /\ mem' = tx.base /\ UNCHANGED <<store, retry>>
  /\ UNCHANGED <<worker, w, ack>>

Journals ==
  /\ At("journals")
  /\ journal' = "deleted"
  /\ Removed
  /\ UNCHANGED <<phase, hung, outcome, loose, acked, job, store, mem, w, ack,
                 faults>>

-----------------------------------------------------------------------------
(* The worker exit watcher, which holds no lifecycle lock *)

\* The next turn of the watcher's loop, unless it was cancelled.
Again(pc) == IF w.cancel THEN WatchOff ELSE [WatchOff EXCEPT !.pc = pc]

\* A snapshot of an exited worker: record_exit derives the transition from the
\* entry and loads the record it will be conditional on. The entry's intent
\* decides whether the exit is a stop.
WatchExit ==
  /\ up /\ w.pc = "poll" /\ Answers /\ phase = "exited"
  /\ mem # None /\ mem.handle = "worker"
  /\ w' = IF mem.st \in Ended /\ ~mem.stopping THEN WatchOff
          ELSE [w EXCEPT !.pc = "exit", !.base = BaseOf(mem), !.rec = rec,
                         !.stopped = mem.stopping \/ mem.des # "running"]
  /\ UNCHANGED <<worker, store, mem, tx, ack, retry, rq, stopOk, faults>>

WatchCommit ==
  /\ up /\ w.pc = "exit"
  /\ \/ /\ BasesCurrent(w.base, w.rec)
        /\ InstallExit(ExitRecord(mem, w.stopped))
        /\ w' = WatchOff
     \/ /\ ~BasesCurrent(w.base, w.rec)
        /\ w' = Again("poll")
        /\ NoFault /\ UNCHANGED <<store, mem, ack>>
     \/ /\ Fault /\ w' = Again("poll")
        /\ UNCHANGED <<store, mem, ack>>
  /\ UNCHANGED <<worker, tx, retry, rq, stopOk>>

\* The exchange fails: the entry shows the connection lost, whatever state it
\* is in.
WatchLost ==
  /\ up /\ w.pc = "poll"
  /\ mem # None /\ (mem.handle = "torn" \/ ~Answers)
  /\ mem' = [mem EXCEPT !.rt = "lostconn", !.handle = "torn"]
  /\ w' = [w EXCEPT !.pc = "classify", !.only = TRUE]
  /\ UNCHANGED <<worker, store, tx, ack, retry, rq, stopOk, faults>>

Mark(rt, proven) ==
  /\ tx' = [NoTx EXCEPT !.who = "watch", !.pc = "mark", !.pend = rt,
                        !.proven = proven]
  /\ UNCHANGED w

\* classify_lost_worker takes the lifecycle lock and decides what the
\* unreachable worker is, from its process and its job; the phase of its
\* journal is not read. Without proof of its end (only) nothing is marked.
\* An ended generation is retired before it is called lost.
Classify ==
  /\ up /\ w.pc = "classify" /\ Free
  /\ \/ /\ w.only
        /\ (phase # "gone" /\ NoFault) \/ Fault \* alive, or no evidence
        /\ w' = Again("reconnect") /\ UNCHANGED <<worker, tx>>
     \/ /\ ~w.only
        /\ \/ phase # "gone" /\ NoFault /\ Mark("conflict", TRUE)
           \/ Fault /\ Mark("reconn", TRUE) \* no supervisor evidence
        /\ UNCHANGED worker
     \/ /\ phase = "gone"
        /\ \/ NoFault /\ Retire /\ Mark("lost", TRUE)
           \/ Fault /\ Retire /\ Mark("lost", FALSE) \* sweep unconfirmed
           \/ Fault /\ UNCHANGED worker /\ Mark("reconn", TRUE)
  /\ UNCHANGED <<store, mem, ack, retry, rq, stopOk>>

\* mark_worker_unavailable.
MarkUnavailable ==
  /\ At("mark")
  /\ LET st == IF tx.pend = "lost"
               THEN present_lost_runtime(mem.st, mem.des, tx.proven)
               ELSE mem.st
         e  == [mem EXCEPT !.st = st, !.rt = tx.pend, !.handle = "none"]
     IN  \/ /\ Write(session_record(e, "none"))
            /\ mem' = e
            /\ w' = WatchOff
            /\ IF tx.pend = "lost" THEN UNCHANGED retry
                                   ELSE schedule_supervision_retry
         \/ /\ Fault /\ w' = Again("reconnect")
            /\ UNCHANGED <<store, mem, retry>>
  /\ tx' = NoTx
  /\ UNCHANGED <<worker, ack, rq, stopOk>>

\* adopt_reconnected_worker: a fresh connection; the record is written with no
\* transaction, and the entry's state is not looked at.
WatchReconnect ==
  /\ up /\ w.pc = "reconnect" /\ Answers /\ mem # None
  /\ \/ /\ mem' = [mem EXCEPT !.rt = "live", !.handle = "worker"]
        /\ Write(session_record(mem', "none"))
        /\ tx' = [tx EXCEPT !.same = tx.who # "op"]
        /\ w' = Again("poll")
     \/ Fault /\ UNCHANGED <<store, mem, tx, w>>
  /\ UNCHANGED <<worker, ack, retry, rq, stopOk>>

\* The connect deadline passes.
WatchUnreachable ==
  /\ up /\ w.pc = "reconnect" /\ ~Answers
  /\ w' = [w EXCEPT !.pc = "classify", !.only = FALSE]
  /\ UNCHANGED <<worker, store, mem, tx, ack, retry, rq, stopOk, faults>>

-----------------------------------------------------------------------------
(* The terminal acknowledgement *)

AckOff == [pc |-> "off", conn |-> FALSE]
AckAt(pc) == up /\ ack.pc = pc

\* The lifecycle lock is only a barrier: a request in flight finishes first.
AckBarrier ==
  /\ AckAt("want") /\ Free
  /\ ack' = IF mem # None /\ mem.st \in Ended /\ mem.des # "removed"
            THEN [ack EXCEPT !.pc = "send"] ELSE AckOff
  /\ UNCHANGED <<worker, store, mem, tx, w, retry, rq, stopOk, faults>>

\* The worker is inspected, then acknowledged, on the connection of the
\* commit. A failure may follow an acknowledgement that took effect.
AckSend ==
  /\ AckAt("send")
  /\ \/ /\ ack.conn /\ Answers /\ acked' = TRUE
        /\ ack' = [ack EXCEPT !.pc = "retire"]
        /\ NoFault /\ UNCHANGED retry
     \/ /\ ack.conn /\ Answers /\ Fault
        /\ acked' \in {acked, TRUE}
        /\ ack' = AckOff /\ schedule_supervision_retry
     \/ /\ ~(ack.conn /\ Answers)
        /\ ack' = AckOff /\ schedule_supervision_retry
        /\ NoFault /\ UNCHANGED acked
  /\ UNCHANGED <<phase, hung, outcome, journal, loose, job, store, mem, tx, w,
                 rq, stopOk>>

\* A removal retires the job itself.
AckRetire ==
  /\ AckAt("retire") /\ Free
  /\ \/ /\ mem # None => mem.des = "removed"
        /\ NoFault /\ UNCHANGED <<worker, retry>>
     \/ /\ mem # None /\ mem.des # "removed"
        /\ \/ NoFault /\ Retire /\ UNCHANGED retry
           \/ Fault /\ job /\ schedule_supervision_retry /\ UNCHANGED worker
  /\ ack' = AckOff
  /\ UNCHANGED <<store, mem, tx, w, rq, stopOk>>

-----------------------------------------------------------------------------
(* Reconciliation: at startup, and again by the supervision retry *)

\* A reconciliation ends; again: the session stays pending.
Settle(again) ==
  /\ tx' = NoTx
  /\ retry' = [serving |-> IF tx.who = "retry" THEN FALSE ELSE retry.serving,
               pending |-> retry.pending \/ again]

\* write_record_and_install: unconditional, and the entry it replaces loses
\* its watchers.
Install(r, e) ==
  /\ Write(r)
  /\ mem' = e
  /\ w' = IF e.handle = "worker" THEN Watching ELSE Cancelled(w)

\* list_pending: a classification that could not be written leaves a
\* placeholder where no entry is listed.
ListPending(r) ==
  /\ Fault
  /\ mem' = IF mem # None THEN mem
            ELSE [unavailable_entry([r EXCEPT !.rt = "reconn"]) EXCEPT !.unp = TRUE]
  /\ UNCHANGED <<store, w>>

\* insert_classified_record, and what the caller does next.
Insert(r, again) ==
  \/ Install(r, unavailable_entry(r)) /\ Settle(again)
  \/ ListPending(tx.rec) /\ Settle(TRUE)

\* The decision of reconcile_logical, from the record, the socket and the
\* journal: the step that settles it.
Decision(r) ==
  IF Answers
  THEN IF r.des = "removed" THEN "rpc"
       ELSE IF phase = "exited" THEN "import"
       ELSE IF r.des = "stopped" THEN "rpc" ELSE "adopt"
  ELSE IF journal = "terminal"
       THEN IF r.des = "removed" THEN "rmretire" ELSE "journal"
       ELSE IF r.des = "removed" THEN "rmretire" ELSE "ended"

RcProbe ==
  /\ At("probe")
  /\ \/ /\ hung \* its slot does not answer in time
        /\ tx' = [tx EXCEPT !.rec = rec, !.pc = "pend", !.pend = "conflict"]
        /\ NoFault
     \/ /\ ~hung
        /\ tx' = [tx EXCEPT !.rec = rec, !.pc = Decision(rec)]
        /\ NoFault
     \/ /\ Fault \* the journals cannot be scanned
        /\ tx' = [tx EXCEPT !.rec = rec, !.pc = "pend", !.pend = "conflict"]
  /\ UNCHANGED <<worker, store, mem, w, ack, retry, rq, stopOk>>

\* mark_pending: the runtime state is recorded, the intent stays.
RcPend ==
  /\ At("pend")
  /\ IF tx.who = "retry" /\ mem # None /\ ~mem.unp /\ mem.rt = tx.pend
     THEN Settle(TRUE) /\ NoFault /\ UNCHANGED <<store, mem, w>>
     ELSE Insert([tx.rec EXCEPT !.rt = tx.pend], TRUE)
  /\ UNCHANGED <<worker, ack, rq, stopOk>>

\* finish_reconciled_stop and finish_reconciled_removal replay the stop.
RcRpc ==
  /\ At("rpc") /\ tx.who # "op"
  /\ \/ /\ Answers /\ WorkerStops /\ NoFault
        /\ GoTo(IF tx.rec.des = "removed" THEN "rmretire" ELSE "stopped")
     \/ /\ Answers /\ Fault
        /\ WorkerStops \/ UNCHANGED worker
        /\ tx' = [tx EXCEPT !.pc = "pend", !.pend = "reconn"]
     \/ /\ ~Answers /\ NoFault /\ UNCHANGED worker
        /\ tx' = [tx EXCEPT !.pc = "pend", !.pend = "reconn"]
  /\ UNCHANGED <<store, mem, w, ack, retry, rq, stopOk>>

\* The outcome of a worker that still answers is imported; then the worker is
\* acknowledged.
RcImport ==
  /\ up /\ tx.pc \in {"import", "stopped"}
  /\ LET stopped == tx.pc = "stopped" \/ outcome = "user" \/ tx.rec.des # "running"
         r == ExitRecord(tx.rec, stopped)
     IN  \/ /\ Install(r, unavailable_entry(r)) /\ Settle(FALSE)
            /\ ack' = [pc |-> "want", conn |-> TRUE]
         \/ /\ ListPending(tx.rec) /\ Settle(TRUE) /\ UNCHANGED ack
  /\ UNCHANGED <<worker, rq, stopOk>>

\* adopt_live_record: an adoption that cannot open the detector stream leaves
\* the session reconnecting, and not pending.
RcAdopt ==
  /\ At("adopt")
  /\ LET r == [tx.rec EXCEPT !.st = Live, !.rt = "live", !.txn = "none"]
         e == [unavailable_entry(r) EXCEPT !.des = "running", !.handle = "worker"]
         n == [tx.rec EXCEPT !.rt = "nodetector"]
     IN  \/ Answers /\ Install(r, e) /\ Settle(FALSE)
         \/ Answers /\ ListPending(r) /\ Settle(TRUE)
         \/ Insert(n, FALSE) \* the detector stream could not be opened
  /\ UNCHANGED <<worker, ack, rq, stopOk>>

\* No worker answers and its journal is terminal: the outcome is imported.
\* A pending stop first needs its cleanup confirmed.
RcJournal ==
  /\ At("journal")
  /\ LET r == ExitRecord(tx.rec, tx.rec.des # "running")
     IN  \/ /\ Install(r, unavailable_entry(r))
            /\ GoTo("jobretire") /\ UNCHANGED retry
         \/ /\ ListPending(tx.rec) /\ Settle(TRUE)
         \/ /\ is_pending_stop(tx.rec) /\ Fault
            /\ tx' = [tx EXCEPT !.pc = "pend", !.pend = "conflict"]
            /\ UNCHANGED <<store, mem, w, retry>>
  /\ UNCHANGED <<worker, ack, rq, stopOk>>

\* retire_terminal_generation.
RcJobRetire ==
  /\ At("jobretire")
  /\ \/ Retire /\ NoFault /\ Settle(FALSE)
     \/ job /\ Fault /\ Settle(TRUE) /\ UNCHANGED worker
  /\ UNCHANGED <<store, mem, w, ack, rq, stopOk>>

\* No worker answers, its journal is not terminal and its process is gone. A
\* retry without supervisor evidence leaves a recorded classification alone.
RcEnded ==
  /\ At("ended")
  /\ \/ Retire /\ NoFault /\ GoTo("lost") /\ UNCHANGED retry
     \/ Retire /\ Fault /\ tx' = [tx EXCEPT !.pc = "lost", !.proven = FALSE]
        /\ UNCHANGED retry
     \/ /\ Fault /\ UNCHANGED worker
        /\ tx' = [tx EXCEPT !.pc = "pend", !.pend = "reconn"]
        /\ UNCHANGED retry
     \/ /\ Fault /\ UNCHANGED worker
        /\ tx.who = "retry" /\ ~mem.unp
        /\ Settle(TRUE)
  /\ UNCHANGED <<store, mem, w, ack, rq, stopOk>>

\* A requested stop is settled as stopped, once its cleanup is confirmed; any
\* other ended runtime is lost.
RcLost ==
  /\ At("lost")
  /\ LET stop == [tx.rec EXCEPT !.st = "stopped", !.rt = "terminal", !.txn = "none"]
         lost == [tx.rec EXCEPT !.rt = "lost",
                    !.st = present_lost_runtime(tx.rec.st, tx.rec.des, tx.proven)]
     IN  \/ Insert(IF tx.rec.des = "stopped" THEN stop ELSE lost, FALSE)
         \/ /\ tx.rec.des = "stopped" /\ Fault
            /\ tx' = [tx EXCEPT !.pc = "pend", !.pend = "conflict"]
            /\ UNCHANGED <<store, mem, w, retry>>
  /\ UNCHANGED <<worker, ack, rq, stopOk>>

\* finish_removal_intent; the release follows.
RcRemove ==
  /\ At("rmretire")
  /\ \/ Retire /\ NoFault /\ GoTo("sweep")
     \/ /\ Fault /\ UNCHANGED worker
        /\ \E p \in {"reconn", "conflict"} :
             tx' = [tx EXCEPT !.pc = "pend", !.pend = p]
  /\ UNCHANGED <<store, mem, w, ack, retry, rq, stopOk>>

\* run_supervision_retries: the session leaves the pending set before its pass.
RetryTake ==
  /\ up /\ retry.pending /\ ~retry.serving
  /\ retry' = [pending |-> FALSE, serving |-> TRUE]
  /\ UNCHANGED <<worker, store, mem, tx, w, ack, rq, stopOk, faults>>

\* retry_supervised_session: what the entry waits for.
WaitsForEvidence ==
  mem # None /\ mem.handle = "none" /\ mem.rt \in {"reconn", "conflict"}
WaitsForRetirement == mem # None /\ mem.rt = "terminal"

ServeDone(again) ==
  /\ retry' = [pending |-> retry.pending \/ again, serving |-> FALSE]
  /\ UNCHANGED tx

ServeBy(pc) ==
  /\ tx' = [NoTx EXCEPT !.who = "retry", !.pc = pc]
  /\ UNCHANGED retry

RetryServe ==
  /\ up /\ retry.serving /\ Free
  /\ \/ ~WaitsForEvidence /\ ~WaitsForRetirement /\ ServeDone(FALSE)
     \/ WaitsForEvidence /\ ServeBy("probe")
     \/ /\ WaitsForRetirement
        /\ \/ hung /\ ServeDone(TRUE)
           \/ (Answers \/ (~hung /\ journal # "terminal")) /\ ServeDone(FALSE)
           \/ ~Answers /\ ~hung /\ journal = "terminal" /\ ServeBy("jobretire")
  /\ UNCHANGED <<worker, store, mem, w, ack, rq, stopOk, faults>>

\* reconcile_workers, before the daemon serves requests. Without a record only
\* the job of a worker that is gone is retired.
Start ==
  /\ ~up /\ up' = TRUE
  /\ IF rec = None
     THEN job' = (job /\ phase # "gone") /\ UNCHANGED tx
     ELSE tx' = [NoTx EXCEPT !.who = "start", !.pc = "probe"] /\ UNCHANGED job
  /\ UNCHANGED <<phase, hung, outcome, journal, loose, acked, store, mem, w,
                 ack, retry, rq, ghosts, faults, crashes, requests>>

-----------------------------------------------------------------------------
(* The worker and the hosts *)

daemon == <<up, store, mem, tx, w, ack, retry, rq, ghosts, crashes, requests>>

\* The root process ends. The journal is committed before the exit is shown;
\* its directory sync may have failed.
WorkerExits ==
  /\ phase = "running" /\ ~hung
  /\ phase' = "exited" /\ journal' = "terminal"
  /\ outcome' \in {"done", "failed"}
  /\ \/ NoFault /\ loose' = FALSE
     \/ Fault /\ loose' = TRUE
  /\ UNCHANGED <<hung, acked, job, daemon>>

\* Acknowledged, or its retention is over: it closes its socket, then exits.
WorkerCloses ==
  /\ phase = "exited" /\ ~hung /\ phase' = "closing"
  /\ UNCHANGED <<hung, outcome, journal, loose, acked, job, daemon, faults>>

WorkerGone ==
  /\ phase = "closing" /\ phase' = "gone"
  /\ UNCHANGED <<hung, outcome, journal, loose, acked, job, daemon, faults>>

WorkerKilled ==
  /\ phase \in {"running", "exited"} /\ phase' = "gone" /\ hung' = FALSE
  /\ UNCHANGED <<outcome, journal, loose, acked, job, daemon, faults>>

WorkerHangs ==
  /\ phase \in {"running", "exited"} /\ ~hung /\ Fault /\ hung' = TRUE
  /\ UNCHANGED <<phase, outcome, journal, loose, acked, job, daemon>>

WorkerThaws ==
  /\ hung /\ hung' = FALSE
  /\ UNCHANGED <<phase, outcome, journal, loose, acked, job, daemon, faults>>

ConnectionLost ==
  /\ up /\ mem # None /\ mem.handle = "worker" /\ Fault
  /\ mem' = [mem EXCEPT !.handle = "torn"]
  /\ UNCHANGED <<up, worker, store, tx, w, ack, retry, rq, ghosts, crashes,
                 requests>>

\* Everything the daemon held in memory is gone, its tasks with it.
Forget ==
  /\ up /\ crashes > 0 /\ crashes' = crashes - 1 /\ up' = FALSE
  /\ mem' = None /\ tx' = NoTx /\ w' = WatchOff /\ ack' = AckOff
  /\ retry' = [pending |-> FALSE, serving |-> FALSE]
  /\ rq' = "none"
  /\ UNCHANGED <<outcome, acked, faults, requests>>

DaemonCrash ==
  /\ Forget
  /\ UNCHANGED <<phase, hung, journal, loose, job, store, ghosts>>

\* The worker and its job end; what was not synced may be undone.
HostCrash ==
  /\ Forget
  /\ phase' = "gone" /\ hung' = FALSE /\ job' = FALSE
  /\ \/ rec' = rec /\ UNCHANGED ghosts
     \/ undo # None /\ rec' = undo /\ reverted' = TRUE /\ UNCHANGED stopOk
  /\ undo' = None
  /\ journal' \in IF loose /\ journal = "terminal"
                  THEN {"running", "terminal"} ELSE {journal}
  /\ loose' = FALSE

-----------------------------------------------------------------------------
(* The specification *)

Init ==
  /\ up = TRUE /\ phase = "running" /\ hung = FALSE /\ outcome = "none"
  /\ journal = "running" /\ loose = FALSE /\ acked = FALSE /\ job = TRUE
  /\ rec = [st |-> Live, des |-> "running", rt |-> "live", txn |-> "none"]
  /\ undo = None
  /\ mem = [unavailable_entry(rec) EXCEPT !.handle = "worker"]
  /\ tx = NoTx /\ w = Watching /\ ack = AckOff
  /\ retry = [pending |-> FALSE, serving |-> FALSE]
  /\ rq = "none" /\ stopOk = FALSE /\ reverted = FALSE
  /\ faults = Faults /\ crashes = Crashes /\ requests = Requests

OpStep ==
  /\ tx.who = "op"
  /\ \/ OpIntent \/ OpRpc \/ OpRelease \/ OpExit \/ OpCommit \/ OpDone
     \/ OpRetire \/ OpRecord

ReleaseStep == Sweep \/ Evict \/ Delete \/ Journals

RcStep ==
  \/ RcProbe \/ RcPend \/ RcRpc \/ RcImport \/ RcAdopt \/ RcJournal
  \/ RcJobRetire \/ RcEnded \/ RcLost \/ RcRemove

HolderStep == OpStep \/ ReleaseStep \/ RcStep \/ MarkUnavailable

WatchStep == WatchExit \/ WatchCommit \/ WatchLost \/ WatchReconnect
             \/ WatchUnreachable

\* What no step of the daemon changes.
Frame == UNCHANGED <<up, reverted, crashes, requests>>

AckStep == AckBarrier \/ AckSend \/ AckRetire

RetryStep == RetryTake \/ RetryServe

DaemonStep ==
  /\ \/ HolderStep \/ WatchStep \/ Classify \/ AckStep \/ RetryStep \/ OpBegin
  /\ Frame

WorkerStep ==
  \/ WorkerExits \/ WorkerCloses \/ WorkerGone \/ WorkerKilled
  \/ WorkerHangs \/ WorkerThaws

Next ==
  \/ DaemonStep \/ WorkerStep \/ Request \/ Start
  \/ ConnectionLost \/ DaemonCrash \/ HostCrash

Spec == Init /\ [][Next]_vars

\* Every task that can run runs, a closing worker exits, and a daemon that
\* ended is started again. The lifecycle lock is a FIFO mutex: a request waits
\* out a retry that takes the lock over and over. Nothing that depends on
\* the worker, a fault or a client is assumed to happen.
Fairness ==
  /\ WF_vars(HolderStep /\ Frame) /\ WF_vars(WatchStep /\ Frame)
  /\ WF_vars(Classify /\ Frame) /\ WF_vars(AckStep /\ Frame)
  /\ WF_vars(RetryStep /\ Frame) /\ SF_vars(OpBegin /\ Frame)
  /\ WF_vars(WorkerGone) /\ WF_vars(Start)

FairSpec == Spec /\ Fairness

-----------------------------------------------------------------------------
(* Properties *)

\* The values each variable takes; a rebuilt entry, a record and a commit base
\* are never mixed up.
TypeOK ==
  /\ up \in BOOLEAN /\ hung \in BOOLEAN /\ loose \in BOOLEAN
  /\ acked \in BOOLEAN /\ job \in BOOLEAN
  /\ phase \in {"running", "exited", "closing", "gone"}
  /\ outcome \in {"none", "done", "failed", "user"}
  /\ journal \in {"running", "terminal", "deleted"}
  /\ rec \in Records \cup {None} /\ undo \in Records \cup {None}
  /\ mem \in Entries \cup {None}
  /\ tx.who \in {"none", "op", "watch", "start", "retry"}
  /\ tx.rec \in Records \cup {None} /\ tx.prev \in Records \cup {None}
  /\ tx.base \in Bases \cup Entries \cup {None}
  /\ w.rec \in Records \cup {None} /\ w.base \in Bases \cup {None}
  /\ rq \in {"none", "stop", "remove"}
  /\ faults \in 0..Faults /\ crashes \in 0..Crashes /\ requests \in 0..Requests

\* A stop that was answered stopped: true is never taken back: whatever crashes
\* and reconciles later, the session is stopped or removed. Only a host crash
\* that undoes an unsynced write may lose it (stop_with_intent answers after
\* commit_user_stop_exit).
StopAnswerHonoured ==
  stopOk /\ ~reverted => rec = None \/ rec.st = "stopped"

\* A worker is acknowledged, and so allowed to go, only once its outcome is in
\* the store (acknowledge_committed_terminal after the terminal commit; the
\* startup import writes before it spawns the acknowledgement).
AcknowledgedDurable ==
  acked /\ ~reverted => rec = None \/ rec.st \in Ended

\* An end the registry shows is the end the store has, at every step: a commit
\* that fails leaves the entry alone, and no later writer splits the two
\* (commit_runtime_transition, write_record_and_install, list_pending).
MemoryFollowsStore ==
  mem # None /\ mem.st \in Ended => rec # None /\ rec.st = mem.st

\* The journals of a removed session go only when no host crash can bring its
\* record back (release_removed_session): without them the removal of the
\* returned record could not be proven.
JournalsLast == journal = "deleted" => rec = None /\ undo = None

\* When a session ends under a stop or removal intent that entry and record
\* hold, it ends as stopped, whoever commits the end: the request, the watcher,
\* the loss classification or a reconciliation (exit_transition,
\* present_lost_runtime, settle_ended_stop).
IntentDecides ==
  [][(/\ rec # None /\ rec' # None /\ up'
      /\ rec.des # "running" /\ (mem # None => mem.des # "running")
      /\ rec.st = Live /\ rec'.st \in Ended)
     => rec'.st = "stopped"]_vars

\* An outcome that was recorded from the worker or its journal stays the
\* session's outcome: no late watcher, loss classification, retry or restart
\* replaces it. (The end presumed for a lost worker may still be corrected from
\* its journal.)
OutcomeFinal ==
  [][(rec # None /\ rec' # None /\ up' /\ rec.st \in Ended /\ rec.rt = "terminal")
     => rec'.st = rec.st]_vars

\* Every stop and remove request is answered, however the worker, the watcher
\* and the retries behave; a daemon that goes down takes its requests with it
\* (stop, remove: the commit loops and the lifecycle lock).
RequestsAnswered == rq # "none" ~> rq = "none"

\* A session whose worker is gone does not stay open for ever: it gets an end or
\* is presented as lost, by the watcher, the retry or the next start. The
\* exception is an adoption that lost the detector stream, which nobody follows
\* up (adopt_live_record).
Settled == rec = None \/ rec.rt \in {"terminal", "lost"} \/ rec.st \in Ended
Stranded == mem # None /\ mem.rt = "nodetector"
EndedSettles == phase = "gone" ~> (Settled \/ Stranded)

=============================================================================
