------------------------- MODULE DaemonSessionProofs -------------------------
(***************************************************************************)
(* Proofs about DaemonSession, for every number of faults, crashes and     *)
(* requests: an answered stop is kept, a worker is acknowledged only when  *)
(* its outcome is stored, the registry follows the store, the journals go  *)
(* last, the intent decides the end, and a recorded outcome is final.      *)
(*                                                                         *)
(* Each of these relates the record to something another task did. None is *)
(* inductive: the writers check little, and are right because of what the  *)
(* lifecycle lock, the watcher and the worker rule out. The invariant says *)
(* what that is:                                                           *)
(*                                                                         *)
(*   Good         a record and an entry agree with themselves: stopped     *)
(*                only under an intent, ended only when the process has,   *)
(*                and an outcome taken from the worker is the worker's;    *)
(*   EntryInv     the entry has the record's session state, and does not   *)
(*                forget an intent that ended the worker;                  *)
(*   WatchInv     an entry without a handle has no watcher, but for an     *)
(*                exit commit that was already cancelled, whose memory     *)
(*                base such an entry cannot match;                         *)
(*   LockInv, SavedInv, OpInv, BackInv, RcInv                              *)
(*                what the task that holds the lifecycle lock may rely on  *)
(*                at each of its steps: above all, that the record a       *)
(*                reconciliation read at its start is still the record     *)
(*                when it writes, though the write is unconditional.       *)
(*                                                                         *)
(* Each action has one lemma: it keeps the invariant, and what it does to  *)
(* the record is allowed (RecordStep). A few lemmas carry most of them: a  *)
(* task ends (TaskEnds), a task goes on (Moves), a record is written       *)
(* (StateWritten), the entry changes under the lock's holder (TxEntry).    *)
(***************************************************************************)
EXTENDS DaemonSession, TLAPS

\* The steps of a stop or remove request before its exit is committed.
OpEarly == {"intent", "rpc", "release", "exit", "commit"}

\* The steps of a request.
OpPcs == OpEarly \cup {"done", "retire", "record", "sweep", "evict", "delete", "journals"}

\* The steps of a reconciliation that act on the record it read.
Known == {"pend", "rpc", "import", "stopped", "adopt", "journal", "ended", "lost",
          "rmretire", "sweep", "evict", "delete"}

\* The steps of a reconciliation.
RcPcs == Known \cup {"probe", "jobretire", "journals"}

\* What tx.pc may be.
Pcs == OpPcs \cup RcPcs \cup {"idle", "mark"}

\* The phases of the worker.
Phases == {"running", "exited", "closing", "gone"}

\* How the root process ended.
Outcomes == {"none", "done", "failed", "user"}

\* The task that holds the lifecycle lock.
Txs == [who : {"none", "op", "watch", "start", "retry"}, pc : Pcs,
        rec : Records \cup {None}, base : Bases \cup Entries \cup {None},
        prev : Records \cup {None}, des : DesiredStates, same : BOOLEAN,
        direct : BOOLEAN, proven : BOOLEAN, pend : RuntimeStates]

\* The worker exit watcher.
Watches == [pc : {"off", "poll", "exit", "classify", "reconnect"},
            base : Bases \cup {None}, rec : Records \cup {None},
            stopped : BOOLEAN, only : BOOLEAN, cancel : BOOLEAN]

\* The acknowledgement task.
Acks == [pc : {"off", "want", "send", "retire"}, conn : BOOLEAN]

\* The supervision retry of the session.
Retries == [pending : BOOLEAN, serving : BOOLEAN]

\* The types of the worker's variables.
WorkerType ==
  /\ hung \in BOOLEAN /\ loose \in BOOLEAN /\ acked \in BOOLEAN /\ job \in BOOLEAN
  /\ phase \in Phases /\ outcome \in Outcomes
  /\ journal \in {"running", "terminal", "deleted"}

\* The types of the record, of what a crash may bring back, and of the entry.
StoreType ==
  /\ rec \in Records \cup {None} /\ undo \in Records \cup {None}
  /\ mem \in Entries \cup {None}

\* The types of the daemon's tasks.
TaskType ==
  /\ tx \in Txs /\ w \in Watches /\ ack \in Acks /\ retry \in Retries
  /\ rq \in {"none", "stop", "remove"}

\* The types of the flags and of the budgets.
CountType ==
  /\ up \in BOOLEAN /\ stopOk \in BOOLEAN /\ reverted \in BOOLEAN
  /\ faults \in 0..Faults /\ crashes \in 0..Crashes /\ requests \in 0..Requests

\* The types of all variables.
TypeInv == WorkerType /\ StoreType /\ TaskType /\ CountType

\* A record or an entry r, for a worker in phase ph that ended with out, agrees
\* with itself: stopped needs an intent, an end needs the end of the process,
\* and an end taken from the worker is the one the worker had.
Good(r, ph, out) ==
  /\ r.st = "stopped" => r.des # "running"
  /\ r.des = "stopped" => r.st \in {"live", "stopped"}
  /\ r.st \in Ended => ph # "running"
  /\ r.st \in Ended /\ r.rt = "terminal" /\ r.des = "running" =>
       r.st = IF out = "done" THEN "done" ELSE "failed"

\* A stop mark needs an intent and a session that runs; the runtime is live
\* through a working handle and never without one.
EntryOk(e) ==
  /\ e.stopping => e.st = "live" /\ e.des # "running"
  /\ e.handle = "worker" /\ e.st = "live" => e.rt = "live"
  /\ e.handle = "none" => e.rt # "live"

\* Entry e and record r have one session state, and once a stop ended the worker
\* (and no host crash undid a write) an entry with a handle has an intent. One
\* without a handle may have lost it: a failed stop takes the intent out of the
\* entry even when it cannot take it out of the record.
Paired(e, r, out, rev) ==
  /\ r # None /\ r.st = e.st
  /\ e.handle # "none" /\ out = "user" /\ ~rev => e.des # "running"

\* No handle, so nothing to watch.
Unwatched(e) == e = None \/ e.handle = "none"

\* The registry entry.
EntryInv ==
  mem # None => /\ Good(mem, phase, outcome) /\ EntryOk(mem)
                /\ Paired(mem, rec, outcome, reverted)

\* The durable record, and the record a host crash may bring back.
RecordInv ==
  /\ rec # None => Good(rec, phase, outcome)
  /\ undo # None => Good(undo, phase, outcome)
  /\ outcome = "user" /\ ~reverted /\ rec # None => rec.des # "running"

\* The worker, its journal, and the last part of a removal.
WorkerInv ==
  /\ journal = "terminal" => phase # "running"
  /\ reverted => phase = "gone"
  /\ JournalsLast

\* A watcher follows an entry that has a handle. What an exit commit is based
\* on is a live session, and the intent of that session decides the exit.
WatchInv ==
  /\ w.cancel => w.pc = "exit"
  /\ Unwatched(mem) => w.pc = "off" \/ w.cancel
  /\ w.pc = "exit" => /\ w.base # None /\ w.base.st = "live" /\ w.base.rt = "live"
                      /\ w.stopped <=> w.base.des # "running"
                      /\ phase # "running"

\* What was answered to a client, or to the worker, is in the store.
AnswerInv ==
  /\ StopAnswerHonoured
  /\ AcknowledgedDurable
  /\ ack.pc = "send" /\ ~reverted => rec = None \/ rec.st \in Ended

\* The lock is held by the startup reconciliation or by a retry.
Reconciling == tx.who \in {"start", "retry"}

\* Who holds the lifecycle lock, and what nobody else can have done meanwhile.
LockInv ==
  /\ tx.who = "none" => tx.pc = "idle"
  /\ tx.who = "watch" =>
       /\ tx.pc = "mark" /\ w.pc = "classify" /\ tx.pend \in {"conflict", "reconn", "lost"}
       /\ tx.pend = "lost" => phase = "gone"
  /\ ~up => tx.who = "none" /\ mem = None
  /\ rec = None => tx.who = "none" \/ tx.pc = "journals"
  /\ tx.pc \in {"delete", "journals"} => mem = None
  /\ tx.pc = "journals" => rec = None /\ undo = None
  /\ mem # None /\ mem.stopping =>
       mem.handle = "none" \/ (tx.who = "op" /\ tx.pc \in OpEarly)

\* The entry a removal took out may be listed again.
SavedInv ==
  tx.pc = "delete" =>
    /\ tx.base \in Entries \cup {None}
    /\ tx.base # None =>
         /\ Good(tx.base, phase, outcome) /\ EntryOk(tx.base)
         /\ Paired(tx.base, rec, outcome, reverted)
         /\ tx.base.stopping \/ Reconciling => tx.base.handle = "none"

\* What a request relies on at each of its steps.
OpInv ==
  tx.who = "op" =>
    /\ tx.pc \in OpPcs
    /\ tx.pc \notin {"delete", "journals"} => mem # None
    /\ tx.pc \in OpEarly => mem.des # "running" /\ mem.st \in {"live", "stopped"}
    /\ tx.pc \in OpEarly /\ tx.pc # "intent" => rec.des # "running"
    /\ tx.pc \in OpEarly => (tx.direct <=> mem.handle = "none")
    /\ tx.pc = "rpc" => ~tx.direct
    /\ tx.pc \in {"exit", "commit", "done"} => phase # "running"
    /\ tx.pc = "done" => mem.st = "stopped"

\* What a stop that fails rolls back to.
BackInv ==
  tx.who = "op" =>
    /\ ~tx.direct /\ outcome = "user" /\ ~reverted /\ tx.pc \in {"intent", "rpc", "release"} =>
         tx.des # "running"
    /\ tx.direct /\ tx.pc = "release" =>
         /\ tx.rec = rec /\ rec.st = "live" /\ tx.prev # None /\ tx.prev.st = "live"
         /\ outcome = "user" /\ ~reverted => tx.prev.des # "running"

\* What a reconciliation relies on at each of its steps.
RcInv ==
  Reconciling =>
    /\ tx.pc \in RcPcs
    /\ tx.pc \in Known => tx.rec = rec
    /\ tx.pc \in Known \cup {"probe"} => Unwatched(mem)
    /\ tx.pc = "pend" => tx.pend \in {"reconn", "conflict"}
    /\ tx.pc = "rpc" => tx.rec.des # "running"
    /\ tx.pc \in {"import", "stopped"} => ~reverted
    /\ tx.pc \in {"import", "journal"} => tx.rec.des # "removed"
    /\ tx.pc = "stopped" => tx.rec.des = "stopped"
    /\ tx.pc = "adopt" => tx.rec.des = "running" /\ tx.rec.st = "live"
    /\ tx.pc \in {"import", "stopped", "journal", "lost"} => phase # "running"

\* The part of the invariant about the holder of the lock.
TxInv == LockInv /\ SavedInv /\ OpInv /\ BackInv /\ RcInv

\* The part of the invariant about the state the tasks share.
StateInv == EntryInv /\ RecordInv /\ WorkerInv /\ WatchInv /\ AnswerInv

\* The inductive invariant.
IInv == TypeInv /\ StateInv /\ TxInv

-----------------------------------------------------------------------------
USE DEF Live, Ended

\* None is no record, no entry and no commit base.
LEMMA NoneDistinct ==
  /\ \A r \in Records : r # None
  /\ \A e \in Entries : e # None
  /\ \A b \in Bases : b # None
BY NoneAssumption

\* The task goes to another step.
LEMMA TxTo ==
  ASSUME TypeInv, NEW p \in Pcs, tx' = [tx EXCEPT !.pc = p]
  PROVE  /\ tx' \in Txs /\ tx'.pc = p /\ tx'.who = tx.who /\ tx'.rec = tx.rec
         /\ tx'.base = tx.base /\ tx'.prev = tx.prev /\ tx'.des = tx.des
         /\ tx'.direct = tx.direct /\ tx'.pend = tx.pend
BY DEF TypeInv, TaskType, Txs

\* The task goes on to record a pending classification.
LEMMA TxToPend ==
  ASSUME TypeInv, NEW p \in {"reconn", "conflict"},
         tx' = [tx EXCEPT !.pc = "pend", !.pend = p]
  PROVE  /\ tx' \in Txs /\ tx'.pc = "pend" /\ tx'.who = tx.who /\ tx'.rec = tx.rec
         /\ tx'.pend = p
BY DEF TypeInv, TaskType, Txs, Pcs, OpPcs, RcPcs, OpEarly, Known, RuntimeStates, Reconnecting

\* The released lock.
LEMMA TxFree ==
  /\ NoTx \in Txs /\ NoTx.who = "none" /\ NoTx.pc = "idle"
BY DEF NoTx, Txs, Pcs, OpPcs, RcPcs, OpEarly, Known, RuntimeStates, Reconnecting, DesiredStates

\* A write that took effect: the record is the new one, and a host crash may
\* bring back the old one or what it could have brought back before.
LEMMA WriteEffect ==
  ASSUME TypeInv, NEW r \in Records \cup {None}, Write(r)
  PROVE  /\ rec' = r /\ rec' \in Records \cup {None} /\ undo' \in Records \cup {None}
         /\ undo' \in {None, rec, undo} /\ faults' \in 0..Faults
BY BudgetAssumption DEF TypeInv, StoreType, CountType, Write, Fault, NoFault

\* The budget of faults keeps its type.
LEMMA FaultEffect ==
  ASSUME TypeInv, Fault \/ NoFault
  PROVE  faults' \in 0..Faults
BY BudgetAssumption DEF TypeInv, CountType, Fault, NoFault

\* What starting and cancelling a watcher leaves.
LEMMA WatchEffect ==
  ASSUME w \in Watches
  PROVE  /\ WatchOff \in Watches /\ WatchOff.pc = "off" /\ ~WatchOff.cancel
         /\ Watching \in Watches /\ Watching.pc = "poll" /\ ~Watching.cancel
         /\ Cancelled(w) \in Watches
         /\ Cancelled(w).pc = "off" \/ (w.pc = "exit" /\ Cancelled(w).pc = "exit")
         /\ Cancelled(w).pc = "exit" => Cancelled(w).cancel /\ Cancelled(w).base = w.base
                                        /\ Cancelled(w).stopped = w.stopped
         /\ Cancelled(w).pc = "off" => ~Cancelled(w).cancel
<1>1. WatchOff \in Watches /\ WatchOff.pc = "off" /\ ~WatchOff.cancel
  BY DEF WatchOff, Watches
<1>2. Watching \in Watches /\ Watching.pc = "poll" /\ ~Watching.cancel
  BY DEF WatchOff, Watching, Watches
<1>3. CASE w.pc = "exit"
  <2> DEFINE v == [w EXCEPT !.cancel = TRUE]
  <2>1. Cancelled(w) = v BY <1>3 DEF Cancelled
  <2>2. /\ v \in Watches /\ v.pc = "exit" /\ v.cancel /\ v.base = w.base
        /\ v.stopped = w.stopped
    BY <1>3 DEF Watches
  <2> QED BY <1>1, <1>2, <1>3, <2>1, <2>2
<1>4. CASE w.pc # "exit"
  <2>1. Cancelled(w) = WatchOff BY <1>4 DEF Cancelled
  <2> QED BY <1>1, <1>2, <2>1
<1> QED BY <1>3, <1>4

\* The retry of the session keeps its type.
LEMMA RetryEffect ==
  ASSUME retry \in Retries, schedule_supervision_retry \/ UNCHANGED retry
  PROVE  retry' \in Retries
BY DEF schedule_supervision_retry, Retries

-----------------------------------------------------------------------------
(* What a step may do to the worker, and to the record *)

\* The worker only ages: an ended process stays ended with the outcome it had,
\* a journal is terminal only after the end and is not deleted by the way.
Ages ==
  /\ phase # "running" => phase' # "running" /\ outcome' = outcome
  /\ journal' = "terminal" => phase' # "running"
  /\ journal' = "deleted" => journal = "deleted"
  /\ phase = "gone" => phase' = "gone"

\* The worker ages, and no stop ends it.
Unstopped == Ages /\ (outcome' = "user" => outcome = "user")

\* The record, and an entry with a handle, hold a stop or removal intent.
Intended ==
  /\ rec # None => rec.des # "running"
  /\ ~Unwatched(mem) => mem.des # "running"

\* The worker ages; a stop ends it only under an intent.
Aged == Ages /\ (outcome' = "user" => outcome = "user" \/ Intended)

\* A worker that does nothing ages.
LEMMA SameAges ==
  ASSUME IInv, UNCHANGED <<phase, outcome, journal>>
  PROVE  Unstopped /\ Aged
BY DEF IInv, StateInv, WorkerInv, Ages, Unstopped, Aged

\* Retiring the supervisor job ages the worker.
LEMMA RetireAges ==
  ASSUME IInv, Retire
  PROVE  /\ Unstopped /\ Aged /\ phase' = "gone" /\ WorkerType'
         /\ UNCHANGED <<outcome, journal, acked>>
BY DEF IInv, StateInv, WorkerInv, TypeInv, WorkerType, Phases, Retire, Ages, Unstopped,
       Aged

\* A stop the worker took ages it.
LEMMA StopAges ==
  ASSUME IInv, Answers, WorkerStops
  PROVE  Ages /\ phase' = "exited" /\ WorkerType' /\ UNCHANGED acked
BY DEF IInv, StateInv, WorkerInv, TypeInv, WorkerType, Phases, Outcomes, WorkerStops, Ages, Answers

\* Good survives the ageing of the worker.
LEMMA GoodKept ==
  ASSUME NEW r, Good(r, phase, outcome), Ages
  PROVE  Good(r, phase', outcome')
BY DEF Good, Ages

\* The shared state is kept when only the worker ages and the watcher is off,
\* cancelled or as it was.
LEMMA StateKept ==
  ASSUME IInv, Aged, UNCHANGED <<rec, undo, mem, reverted>>,
         UNCHANGED w \/ w' = WatchOff \/ w' = Cancelled(w)
  PROVE  EntryInv' /\ RecordInv' /\ WorkerInv' /\ WatchInv'
<1> USE DEF IInv, StateInv
<1>1. EntryInv' BY GoodKept DEF EntryInv, Aged, Intended, Unwatched, Paired, EntryOk
<1>2. RecordInv' BY GoodKept DEF RecordInv, Aged, Intended, Unwatched
<1>3. WorkerInv' BY DEF WorkerInv, Aged, Ages, JournalsLast
<1>4. w \in Watches BY DEF TypeInv, TaskType
<1>5. WatchInv' BY <1>4, WatchEffect DEF WatchInv, Aged, Ages, Unwatched
<1> QED BY <1>1, <1>2, <1>3, <1>5

\* The holder of the lock keeps what it relies on when only the worker ages.
LEMMA TxKept ==
  ASSUME IInv, Unstopped, UNCHANGED <<tx, rec, undo, mem, reverted, up>>,
         tx.who = "watch" => w'.pc = "classify"
  PROVE  TxInv'
<1> USE DEF IInv, TxInv
<1>1. LockInv' BY DEF LockInv, Unstopped, Ages
<1>2. SavedInv' BY GoodKept DEF SavedInv, Reconciling, Unstopped, Paired, EntryOk
<1>3. OpInv' BY DEF OpInv, Unstopped, Ages
<1>4. BackInv' BY DEF BackInv, Unstopped, Ages
<1>5. RcInv' BY DEF RcInv, Reconciling, Unstopped, Ages, Unwatched
<1> QED BY <1>1, <1>2, <1>3, <1>4, <1>5

\* What a step may do to the record: it is never created again, an ended
\* session stays ended and a stopped one stopped, an outcome taken from the
\* worker stays, and a session that ends under an intent ends as stopped.
RecordStep ==
  /\ rec = None => rec' = None
  /\ rec # None /\ rec' # None =>
       /\ rec.st \in Ended => rec'.st \in Ended
       /\ rec.st = "stopped" => rec'.st = "stopped"
       /\ rec.st \in Ended /\ rec.rt = "terminal" => rec'.st = rec.st
       /\ (/\ rec.st = "live" /\ rec'.st \in Ended /\ rec.des # "running"
           /\ mem # None => mem.des # "running") => rec'.st = "stopped"

\* A step that keeps the session state, or removes the record, is allowed.
LEMMA RecordSame ==
  ASSUME rec' = rec \/ rec' = None \/ (rec # None /\ rec'.st = rec.st)
  PROVE  RecordStep
BY DEF RecordStep

\* The answers stay true over an allowed step that answers nothing untrue.
LEMMA AnswersKept ==
  ASSUME IInv, RecordStep, UNCHANGED reverted,
         stopOk' => stopOk \/ rec' = None \/ rec'.st = "stopped",
         acked' => acked \/ ack.pc = "send",
         ack'.pc = "send" => ack.pc = "send" \/ rec' = None \/ rec'.st \in Ended
  PROVE  AnswerInv'
BY DEF IInv, StateInv, AnswerInv, StopAnswerHonoured, AcknowledgedDurable, RecordStep

\* What each action is shown to do.
Step == IInv' /\ RecordStep

-----------------------------------------------------------------------------
(* Typing, and the ends of a task *)

\* The types after a step of the daemon, from those of what it changed.
LEMMA TypeMoves ==
  ASSUME TypeInv, WorkerType', StoreType', tx' \in Txs, w' \in Watches, ack' \in Acks,
         retry' \in Retries, rq' \in {"none", "stop", "remove"}, stopOk' \in BOOLEAN,
         faults' \in 0..Faults, Frame
  PROVE  TypeInv'
BY DEF TypeInv, TaskType, CountType, Frame

\* A step that leaves the worker alone.
LEMMA WorkerSame ==
  ASSUME TypeInv, UNCHANGED worker
  PROVE  WorkerType' /\ UNCHANGED <<phase, outcome, journal, acked>>
BY DEF TypeInv, WorkerType, worker

\* The types of the variables the steps change.
LEMMA TypeParts ==
  ASSUME TypeInv
  PROVE  /\ tx \in Txs /\ w \in Watches /\ ack \in Acks /\ retry \in Retries
         /\ rq \in {"none", "stop", "remove"} /\ stopOk \in BOOLEAN /\ faults \in 0..Faults
         /\ rec \in Records \cup {None} /\ undo \in Records \cup {None}
         /\ mem \in Entries \cup {None}
BY DEF TypeInv, TaskType, StoreType, CountType

\* A released lock leaves nothing to rely on.
LEMMA TxFreed ==
  ASSUME tx' = NoTx, ~up' => mem' = None,
         mem' # None /\ mem'.stopping => mem'.handle = "none"
  PROVE  TxInv' /\ tx' \in Txs
BY TxFree DEF TxInv, LockInv, SavedInv, OpInv, BackInv, RcInv, Reconciling

\* A request is answered.
LEMMA Answered ==
  ASSUME TypeInv, NEW b \in BOOLEAN, Answer(b)
  PROVE  tx' = NoTx /\ rq' \in {"none", "stop", "remove"} /\ stopOk' \in BOOLEAN
         /\ (stopOk' => stopOk \/ b)
BY DEF Answer, TypeInv, CountType

\* A record is written, and the entry is installed with it: the shared state is
\* kept when both are Good, agree, and do not forget the intent.
LEMMA StateWritten ==
  ASSUME IInv, UNCHANGED <<phase, outcome, journal, reverted>>, rec # None,
         NEW r \in Records, Write(r), Good(r, phase, outcome),
         outcome = "user" /\ ~reverted => r.des # "running",
         mem' # None => /\ Good(mem', phase, outcome) /\ EntryOk(mem')
                        /\ Paired(mem', r, outcome, reverted)
  PROVE  EntryInv' /\ RecordInv' /\ WorkerInv'
<1> USE DEF IInv, StateInv
<1>1. rec' = r /\ undo' \in {None, rec, undo} /\ r # None
  BY WriteEffect, NoneDistinct
<1>2. EntryInv' BY <1>1 DEF EntryInv
<1>3. RecordInv' BY <1>1 DEF RecordInv
<1>4. WorkerInv' BY DEF WorkerInv, JournalsLast
<1> QED BY <1>2, <1>3, <1>4

\* clear_stopping.
LEMMA ClearEffect ==
  ASSUME NEW e \in Entries, EntryOk(e)
  PROVE  LET f == clear_stopping(e)
         IN  /\ f \in Entries /\ f.st = e.st /\ f.rt = e.rt /\ f.handle = e.handle
             /\ f.des = e.des /\ ~f.stopping
BY DEF clear_stopping, EntryOk, Entries

\* rollback_stop_intent.
LEMMA RollbackEffect ==
  ASSUME NEW e \in Entries, EntryOk(e), NEW des \in DesiredStates
  PROVE  LET f == rollback_stop_intent(e, des)
         IN  /\ f \in Entries /\ f.st = e.st /\ f.rt = e.rt /\ f.handle = e.handle
             /\ f.des = e.des \/ (e.st = "live" /\ f.des = des)
             /\ ~f.stopping
BY DEF rollback_stop_intent, EntryOk, Entries

\* A task ends without touching the store; it may have cleared a stop mark.
LEMMA TaskEnds ==
  ASSUME IInv, Aged, WorkerType', UNCHANGED <<acked, rec, undo, ack>>, tx' = NoTx, Frame,
         w' \in {w, Cancelled(w), WatchOff}, retry' \in Retries,
         rq' \in {"none", "stop", "remove"}, stopOk' \in BOOLEAN,
         stopOk' => stopOk \/ (rec # None /\ rec.st = "stopped"), faults' \in 0..Faults,
         \/ mem' = mem /\ (mem # None /\ mem.stopping => mem.handle = "none")
         \/ /\ mem # None /\ mem' \in Entries /\ mem'.st = mem.st /\ mem'.rt = mem.rt
            /\ mem'.handle = mem.handle
            /\ mem'.stopping => mem.stopping /\ mem.handle = "none" /\ mem'.des # "running"
            /\ \/ mem'.des \in {mem.des, "removed"}
               \/ /\ mem.st = "live" /\ outcome' = outcome
                  /\ mem.handle # "none" /\ outcome = "user" /\ ~reverted =>
                       mem'.des # "running"
  PROVE  Step
<1>1. UNCHANGED <<reverted, up>> /\ TypeInv BY DEF Frame, IInv
<1>2. w \in Watches BY <1>1, TypeParts
<1>3. mem' # None => mem # None BY NoneDistinct
<1>4. TypeInv'
  <2>1. StoreType' BY <1>1, TypeParts DEF StoreType
  <2>2. tx' \in Txs /\ w' \in Watches /\ ack' \in Acks
    BY <1>1, <1>2, TypeParts, TxFree, WatchEffect
  <2> QED BY <1>1, <2>1, <2>2, TypeMoves
<1>5. RecordInv' /\ WorkerInv'
  BY <1>1, GoodKept DEF IInv, StateInv, RecordInv, WorkerInv, Aged, Ages, Intended, JournalsLast
<1>6. WatchInv'
  <2>1. Unwatched(mem') <=> Unwatched(mem) BY <1>3, NoneDistinct DEF Unwatched
  <2>2. phase # "running" => phase' # "running" BY DEF Aged, Ages
  <2>3. WatchInv BY DEF IInv, StateInv
  <2>4. CASE w' = w BY <2>1, <2>2, <2>3, <2>4 DEF WatchInv
  <2>5. CASE w' = WatchOff BY <1>2, <2>5, WatchEffect DEF WatchInv
  <2>6. CASE w' = Cancelled(w)
    BY <1>2, <2>2, <2>3, <2>6, WatchEffect DEF WatchInv
  <2> QED BY <2>4, <2>5, <2>6
<1>7. EntryInv'
  <2> SUFFICES ASSUME mem' # None
               PROVE  /\ Good(mem', phase', outcome') /\ EntryOk(mem')
                      /\ Paired(mem', rec, outcome', reverted)
    BY <1>1 DEF EntryInv
  <2>1. /\ Good(mem, phase, outcome) /\ EntryOk(mem) /\ Paired(mem, rec, outcome, reverted)
    BY <1>3 DEF IInv, StateInv, EntryInv
  <2>2. Good(mem, phase', outcome') BY <2>1, GoodKept DEF Aged
  <2>3. Good(mem', phase', outcome') BY <2>2 DEF Good
  <2>4. EntryOk(mem') BY <2>1 DEF EntryOk
  <2>5. Paired(mem', rec, outcome', reverted)
    BY <1>3, <2>1 DEF Paired, Aged, Intended, Unwatched
  <2> QED BY <2>3, <2>4, <2>5
<1>8. RecordStep BY RecordSame
<1>9. AnswerInv' BY <1>1, <1>8, AnswersKept
<1>10. TxInv' BY <1>1, <1>3, TxFreed DEF IInv, TxInv, LockInv
<1> QED BY <1>4, <1>5, <1>6, <1>7, <1>8, <1>9, <1>10 DEF Step, IInv, StateInv

\* A task goes on without touching the store or the entry.
LEMMA Moves ==
  ASSUME IInv, Aged, WorkerType', UNCHANGED <<rec, undo, mem, rq, stopOk>>, Frame,
         w' \in Watches, ack' \in Acks, retry' \in Retries, faults' \in 0..Faults,
         tx' \in Txs, WatchInv', TxInv',
         acked' => acked \/ ack.pc = "send",
         ack'.pc = "send" => ack.pc = "send" \/ rec = None \/ rec.st \in Ended
  PROVE  Step
<1>1. UNCHANGED <<reverted, up>> /\ TypeInv BY DEF Frame, IInv
<1>2. TypeInv'
  <2>1. StoreType' BY <1>1, TypeParts DEF StoreType
  <2> QED BY <1>1, <2>1, TypeParts, TypeMoves
<1>3. EntryInv'
  BY <1>1, GoodKept DEF IInv, StateInv, EntryInv, Aged, Intended, Unwatched, Paired, EntryOk
<1>4. RecordInv' BY <1>1, GoodKept DEF IInv, StateInv, RecordInv, Aged, Intended, Unwatched
<1>5. WorkerInv' BY <1>1 DEF IInv, StateInv, WorkerInv, Aged, Ages, JournalsLast
<1>6. RecordStep BY RecordSame
<1>7. AnswerInv' BY <1>1, <1>6, AnswersKept
<1> QED BY <1>2, <1>3, <1>4, <1>5, <1>6, <1>7 DEF Step, IInv, StateInv

\* A task goes on, and at most cancels the watcher.
LEMMA TaskMoves ==
  ASSUME IInv, Aged, WorkerType', UNCHANGED <<acked, rec, undo, mem, ack, rq, stopOk>>, Frame,
         w' \in {w, Cancelled(w)}, retry' \in Retries, faults' \in 0..Faults,
         tx' \in Txs, TxInv'
  PROVE  Step
<1>1. UNCHANGED reverted /\ TypeInv BY DEF Frame, IInv
<1>2. w' \in Watches /\ ack' \in Acks BY <1>1, TypeParts, WatchEffect
<1>3. WatchInv' BY <1>1, StateKept
<1> QED BY <1>2, <1>3, Moves

\* The request keeps the lock.
LEMMA OpMoves ==
  ASSUME IInv, tx'.who = "op", rec' # None, mem' # None, up', OpInv', BackInv',
         tx'.pc \notin {"idle", "delete", "journals"},
         mem'.stopping => mem'.handle = "none" \/ tx'.pc \in OpEarly
  PROVE  TxInv'
BY DEF TxInv, LockInv, SavedInv, RcInv, Reconciling

\* The reconciliation keeps the lock.
LEMMA RcMoves ==
  ASSUME IInv, Reconciling', rec' # None, up', RcInv',
         tx'.pc \notin {"idle", "delete", "journals"},
         mem' # None /\ mem'.stopping => mem'.handle = "none"
  PROVE  TxInv'
BY DEF TxInv, LockInv, SavedInv, OpInv, BackInv, Reconciling

\* The registry entry changes while somebody else may hold the lock.
LEMMA TxEntry ==
  ASSUME IInv, UNCHANGED <<phase, outcome, reverted, up>>,
         mem # None, mem.handle # "none", mem' # None, mem'.handle # "none",
         mem'.des = mem.des, mem'.stopping => mem.stopping,
         \/ mem'.st = mem.st
         \/ mem.st = "live" /\ (mem.des # "running" => mem'.st = "stopped"),
         rec' = rec \/ (rec' # None /\ rec'.des = mem.des),
         tx'.who = tx.who, tx'.pc = tx.pc, tx'.base = tx.base, tx'.des = tx.des,
         tx'.direct = tx.direct, tx'.pend = tx.pend, tx'.rec = tx.rec, tx'.prev = tx.prev,
         tx.who = "watch" => w'.pc = "classify"
  PROVE  TxInv'
<1> USE DEF IInv, TxInv
<1>1. EntryInv /\ rec # None /\ rec' # None BY DEF StateInv, EntryInv, Paired
<1>2. tx.pc \notin {"delete", "journals"} BY <1>1 DEF LockInv
<1>3. LockInv' BY <1>1, <1>2 DEF LockInv
<1>4. SavedInv' BY <1>2 DEF SavedInv
<1>5. OpInv' BY <1>1, <1>2 DEF OpInv
<1>6. BackInv' BY <1>1, <1>2 DEF BackInv, OpInv, OpEarly
<1>7. RcInv'
  <2>1. ~Unwatched(mem) BY DEF Unwatched
  <2>2. Reconciling => tx.pc \notin Known \cup {"probe"} BY <2>1 DEF RcInv
  <2>3. Reconciling' <=> Reconciling BY DEF Reconciling
  <2> QED BY <2>2, <2>3 DEF RcInv, Known
<1> QED BY <1>3, <1>4, <1>5, <1>6, <1>7

-----------------------------------------------------------------------------
(* The steps of a request *)

\* A request marks the entry as stopping and takes the lock.
LEMMA MarkStoppingEffect ==
  ASSUME IInv, mem # None, mem.st = "live", tx.who = "none",
         NEW des \in {"stopped", "removed"}, NEW conflict \in BOOLEAN,
         conflict <=> mem.handle = "none",
         MarkStopping(des, conflict), UNCHANGED <<worker, store, w, ack, retry>>, Frame
  PROVE  Step
<1>1. mem \in Entries /\ TypeInv BY DEF IInv, TypeInv, StoreType
<1>2. /\ mem' \in Entries /\ mem'.st = "live" /\ mem'.des = des /\ mem'.rt = mem.rt
      /\ mem'.handle = mem.handle /\ mem'.stopping /\ des # "running"
  BY <1>1 DEF MarkStopping, Entries, DesiredStates
<1>3. /\ tx' \in Txs /\ tx'.who = "op" /\ tx'.pc = "intent" /\ tx'.des = mem.des
      /\ tx'.direct = conflict
  <2>1. mem.des \in DesiredStates /\ tx' = [NoTx EXCEPT !.who = "op", !.pc = "intent",
                                                        !.des = mem.des, !.direct = conflict]
    BY <1>1 DEF MarkStopping, Entries
  <2> QED BY <2>1 DEF NoTx, Txs, Pcs, OpPcs, OpEarly, RcPcs, Known, RuntimeStates, Reconnecting
<1>4. /\ UNCHANGED <<rec, undo, w, ack, retry, rq, stopOk, faults, up, reverted>>
      /\ WorkerType' /\ UNCHANGED <<phase, outcome, journal, acked>>
  BY <1>1, WorkerSame DEF store, MarkStopping, Pending, NoFault, Frame
<1>5. mem' # None /\ rec # None /\ rec.st = "live" /\ EntryInv
  BY <1>1, <1>2, NoneDistinct DEF IInv, StateInv, EntryInv, Paired
<1>6. TypeInv'
  <2>1. StoreType' BY <1>1, <1>2, <1>4, TypeParts DEF StoreType
  <2> QED BY <1>1, <1>3, <1>4, <2>1, TypeParts, TypeMoves
<1>7. EntryInv' BY <1>2, <1>4, <1>5 DEF EntryInv, Good, EntryOk, Paired
<1>8. RecordInv' /\ WorkerInv'
  BY <1>4 DEF IInv, StateInv, RecordInv, WorkerInv, JournalsLast
<1>9. WatchInv' BY <1>2, <1>4, <1>5 DEF IInv, StateInv, WatchInv, Unwatched
<1>10. RecordStep BY <1>4, RecordSame
<1>11. AnswerInv' BY <1>4, <1>10, AnswersKept
<1>12. LockInv' BY <1>2, <1>3, <1>4, <1>5 DEF IInv, TxInv, LockInv, OpEarly
<1>13. SavedInv' /\ RcInv' BY <1>3 DEF SavedInv, RcInv, Reconciling
<1>14. OpInv' BY <1>2, <1>3, <1>4, <1>5 DEF OpInv, OpPcs, OpEarly
<1>15. BackInv' BY <1>2, <1>3, <1>4, <1>5 DEF BackInv, EntryInv, Paired
<1> QED BY <1>6, <1>7, <1>8, <1>9, <1>10, <1>11, <1>12, <1>13, <1>14, <1>15
     DEF Step, IInv, StateInv, TxInv

\* Who holds the lock at a program counter.
LEMMA Holder ==
  ASSUME IInv, up
  PROVE  /\ tx.pc # "idle" => tx.who # "none" /\ (rec # None \/ tx.pc = "journals")
         /\ tx.pc = "mark" => tx.who = "watch"
         /\ tx.pc \in {"sweep", "evict", "delete", "journals"} => tx.who = "op" \/ Reconciling
         /\ tx.pc \in RcPcs \ OpPcs => Reconciling
         /\ tx.who = "none" => tx.pc = "idle"
<1>1. tx.who \in {"none", "op", "watch", "start", "retry"} BY TypeParts DEF IInv, Txs
<1>2. tx.who = "op" => tx.pc \in OpPcs BY DEF IInv, TxInv, OpInv
<1>3. Reconciling => tx.pc \in RcPcs BY DEF IInv, TxInv, RcInv
<1>4. LockInv BY DEF IInv, TxInv
<1> QED BY <1>1, <1>2, <1>3, <1>4
     DEF LockInv, Reconciling, OpPcs, RcPcs, OpEarly, Known

\* The entry's relation to the record, and the stop mark.
LEMMA Entry ==
  ASSUME IInv, mem # None
  PROVE  /\ mem \in Entries /\ rec \in Records /\ rec # None /\ rec.st = mem.st
         /\ Good(mem, phase, outcome) /\ EntryOk(mem) /\ Paired(mem, rec, outcome, reverted)
         /\ tx.who # "op" \/ tx.pc \notin OpEarly => (mem.stopping => mem.handle = "none")
BY DEF IInv, TypeInv, StoreType, StateInv, EntryInv, Paired, TxInv, LockInv

\* A request takes the lock and looks at the entry.
LEMMA OpBeginStep ==
  ASSUME IInv, OpBegin, Frame
  PROVE  Step
<1>1. TypeInv /\ up /\ tx.who = "none" BY DEF IInv, OpBegin, Free
<1>2. mem # None /\ mem.stopping => mem.handle = "none" BY <1>1, Entry
<1>3. UNCHANGED <<worker, store, w, ack, retry>> BY DEF OpBegin
<1>4. /\ WorkerType' /\ UNCHANGED <<phase, outcome, journal, acked>>
      /\ UNCHANGED <<rec, undo>> /\ Aged
  BY <1>1, <1>3, WorkerSame, SameAges DEF store
<1>5. ASSUME Answer(FALSE), UNCHANGED mem, Fault \/ NoFault PROVE Step
  <2>1. tx' = NoTx /\ rq' \in {"none", "stop", "remove"} /\ stopOk' \in BOOLEAN
        /\ (stopOk' => stopOk)
    BY <1>1, <1>5, Answered
  <2>2. faults' \in 0..Faults BY <1>1, <1>5, FaultEffect
  <2>3. retry' \in Retries BY <1>1, <1>3, TypeParts
  <2> QED BY <1>2, <1>3, <1>4, <1>5, <2>1, <2>2, <2>3, TaskEnds
<1>6. CASE mem # None /\ rq = "remove" /\ (mem.st \in Ended \/ mem.handle = "none")
           /\ tx' = [NoTx EXCEPT !.who = "op", !.pc = "retire", !.direct = TRUE]
           /\ NoFault /\ Pending /\ UNCHANGED mem
  <2>1. tx' \in Txs /\ tx'.who = "op" /\ tx'.pc = "retire"
    BY <1>6 DEF NoTx, Txs, Pcs, OpPcs, OpEarly, RcPcs, Known, RuntimeStates, Reconnecting,
                DesiredStates
  <2>2. OpInv' /\ BackInv' BY <1>6, <2>1 DEF OpInv, BackInv, OpPcs, OpEarly
  <2>3. TxInv' BY <1>1, <1>2, <1>4, <1>6, <2>1, <2>2, OpMoves, Entry DEF Frame
  <2>4. retry' \in Retries /\ faults' \in 0..Faults BY <1>1, <1>3, <1>6, TypeParts DEF NoFault
  <2> QED BY <1>3, <1>4, <1>6, <2>1, <2>3, <2>4, TaskMoves DEF Pending
<1>7. ASSUME NEW des \in {"stopped", "removed"}, NEW c \in BOOLEAN, mem # None,
             mem.st = "live", MarkStopping(des, c), c <=> mem.handle = "none"
      PROVE  Step
  BY <1>1, <1>3, <1>7, MarkStoppingEffect
<1>8. CASE mem # None /\ mem.st = "live" /\ mem.handle # "none"
           /\ MarkStopping(IF rq = "stop" THEN "stopped" ELSE "removed", FALSE)
  BY <1>7, <1>8
<1>9. CASE mem # None /\ mem.st = "live" /\ mem.handle = "none" /\ MarkStopping("stopped", TRUE)
  BY <1>7, <1>9
<1> QED BY <1>5, <1>6, <1>8, <1>9 DEF OpBegin

\* A request commits its intent (commit_intent).
LEMMA OpIntentStep ==
  ASSUME IInv, OpIntent, tx.who = "op", Frame
  PROVE  Step
<1>1. TypeInv /\ up /\ tx.pc = "intent" BY DEF IInv, OpIntent, At
<1>2. UNCHANGED <<worker, ack, retry>> /\ UNCHANGED up BY DEF OpIntent, Frame
<1>3. /\ WorkerType' /\ UNCHANGED <<phase, outcome, journal, acked>> /\ Aged
      /\ retry' \in Retries /\ ack' \in Acks
  BY <1>1, <1>2, WorkerSame, SameAges, TypeParts
<1>4. mem # None /\ mem.des # "running" /\ (tx.direct <=> mem.handle = "none")
  BY <1>1 DEF IInv, TxInv, OpInv, OpEarly
<1>5. /\ mem \in Entries /\ rec \in Records /\ rec # None /\ rec.st = mem.st
      /\ Good(mem, phase, outcome) /\ EntryOk(mem) /\ Paired(mem, rec, outcome, reverted)
  BY <1>4, Entry
<1>6. CASE mem.st \in Ended /\ w' = Cancelled(w) /\ NoFault /\ UNCHANGED <<store, mem>>
  <2>1. ~mem.stopping /\ faults' \in 0..Faults /\ UNCHANGED <<rec, undo, mem>>
    BY <1>1, <1>5, <1>6, TypeParts DEF EntryOk, NoFault, store
  <2>2. CASE Answer(mem.st = "stopped")
    <3>1. tx' = NoTx /\ rq' \in {"none", "stop", "remove"} /\ stopOk' \in BOOLEAN
          /\ (stopOk' => stopOk \/ mem.st = "stopped")
      BY <1>1, <2>2, Answered
    <3> QED BY <1>2, <1>3, <1>5, <1>6, <2>1, <3>1, TaskEnds
  <2>3. CASE GoTo("retire") /\ Pending
    <3>1. tx' \in Txs /\ tx'.who = "op" /\ tx'.pc = "retire"
      BY <1>1, <2>3, TxTo DEF GoTo, Pcs, OpPcs
    <3>2. OpInv' /\ BackInv' BY <1>4, <2>1, <3>1 DEF OpInv, BackInv, OpPcs, OpEarly
    <3>3. TxInv' BY <1>1, <1>2, <1>4, <1>5, <2>1, <3>1, <3>2, OpMoves
    <3> QED BY <1>2, <1>3, <1>6, <2>1, <2>3, <3>1, <3>3, TaskMoves DEF Pending
  <2> QED BY <1>6, <2>2, <2>3 DEF OpIntent
<1>7. CASE /\ mem.st = "live" /\ Write(session_record(mem, rq))
           /\ tx' = [tx EXCEPT !.pc = IF tx.direct THEN "release" ELSE "rpc",
                               !.rec = session_record(mem, rq), !.prev = rec]
           /\ Pending /\ UNCHANGED <<mem, w>>
  <2> DEFINE r == session_record(mem, rq)
  <2>1. r \in Records /\ r.st = mem.st /\ r.des = mem.des /\ r.rt = mem.rt
    BY <1>1, <1>5, TypeParts DEF session_record, Records, Entries
  <2> HIDE DEF r
  <2>2. /\ rec' = r /\ undo' \in Records \cup {None} /\ faults' \in 0..Faults /\ r # None
    BY <1>1, <1>7, <2>1, WriteEffect, NoneDistinct DEF r
  <2>3. /\ tx' \in Txs /\ tx'.who = "op" /\ tx'.pc = (IF tx.direct THEN "release" ELSE "rpc")
        /\ tx'.rec = r /\ tx'.prev = rec /\ tx'.des = tx.des /\ (tx'.direct <=> tx.direct)
    <3>1. tx' = [tx EXCEPT !.pc = IF tx.direct THEN "release" ELSE "rpc", !.rec = r,
                           !.prev = rec]
      BY <1>7 DEF r
    <3> QED BY <1>1, <1>5, <2>1, <3>1, TypeParts DEF Txs, Pcs, OpPcs, OpEarly
  <2>4. UNCHANGED reverted BY DEF Frame
  <2>5. Good(r, phase, outcome) BY <1>5, <2>1 DEF Good
  <2>6. /\ outcome = "user" /\ ~reverted => r.des # "running"
        /\ Paired(mem, r, outcome, reverted)
    BY <1>4, <1>5, <2>1, <2>2 DEF Paired
  <2>7. EntryInv' /\ RecordInv' /\ WorkerInv'
    BY <1>3, <1>5, <1>7, <2>1, <2>4, <2>5, <2>6, StateWritten DEF r
  <2>8. WatchInv' BY <1>3, <1>7 DEF IInv, StateInv, WatchInv
  <2>9. RecordStep BY <1>5, <2>1, <2>2, RecordSame
  <2>10. AnswerInv' BY <1>2, <1>3, <1>7, <2>4, <2>9, AnswersKept DEF Pending
  <2>11. OpInv'
    BY <1>1, <1>4, <1>7, <2>1, <2>2, <2>3 DEF OpInv, OpPcs, OpEarly, IInv, TxInv
  <2>12. BackInv'
    <3>1. BackInv /\ RecordInv BY DEF IInv, TxInv, StateInv
    <3> QED BY <1>1, <1>3, <1>5, <1>7, <2>1, <2>2, <2>3, <2>4, <3>1 DEF BackInv, RecordInv
  <2>13. TxInv'
    BY <1>1, <1>2, <1>4, <1>7, <2>2, <2>3, <2>11, <2>12, OpMoves DEF OpEarly
  <2>14. TypeInv'
    <3>1. StoreType' BY <1>5, <1>7, <2>1, <2>2 DEF StoreType
    <3> QED BY <1>1, <1>2, <1>3, <1>7, <2>2, <2>3, <3>1, TypeParts, TypeMoves DEF Pending
  <2> QED BY <2>7, <2>8, <2>9, <2>10, <2>13, <2>14 DEF Step, IInv, StateInv
<1>8. CASE /\ mem.st = "live" /\ Fault /\ mem' = rollback_stop_intent(mem, tx.des)
           /\ Answer(FALSE) /\ UNCHANGED <<store, w>>
  <2>1. tx.des \in DesiredStates BY <1>1, TypeParts DEF Txs
  <2>2. /\ mem' \in Entries /\ mem'.st = mem.st /\ mem'.rt = mem.rt
        /\ mem'.handle = mem.handle /\ ~mem'.stopping /\ mem'.des \in {mem.des, tx.des}
    BY <1>5, <1>8, <2>1, RollbackEffect
  <2>3. tx' = NoTx /\ rq' \in {"none", "stop", "remove"} /\ stopOk' \in BOOLEAN
        /\ (stopOk' => stopOk)
    BY <1>1, <1>8, Answered
  <2>4. BackInv BY DEF IInv, TxInv
  <2>5. mem.handle # "none" /\ outcome = "user" /\ ~reverted => mem'.des # "running"
    BY <1>1, <1>4, <2>2, <2>4 DEF BackInv
  <2>6. faults' \in 0..Faults /\ UNCHANGED <<rec, undo, w>>
    BY <1>1, <1>8, FaultEffect DEF store
  <2> QED BY <1>2, <1>3, <1>4, <1>8, <2>2, <2>3, <2>5, <2>6, TaskEnds
<1> QED BY <1>6, <1>7, <1>8 DEF OpIntent

\* A request sends the stop: the worker may take it although the answer is lost.
LEMMA OpRpcStep ==
  ASSUME IInv, OpRpc, tx.who = "op", Frame
  PROVE  Step
<1>1. TypeInv /\ up /\ tx.pc = "rpc" BY DEF IInv, OpRpc, At
<1>2. /\ UNCHANGED <<w, ack, retry, rec, undo, up>> /\ retry' \in Retries
  BY <1>1, TypeParts DEF OpRpc, Frame, store
<1>3. mem # None /\ mem.des # "running" /\ rec.des # "running" /\ ~tx.direct
      /\ (tx.direct <=> mem.handle = "none")
  BY <1>1 DEF IInv, TxInv, OpInv, OpEarly
<1>4. mem \in Entries /\ rec # None /\ EntryOk(mem)
  BY <1>3, Entry
<1>5. ASSUME Answers, WorkerStops
      PROVE  Aged /\ WorkerType' /\ UNCHANGED acked /\ phase' = "exited"
  BY <1>3, <1>5, StopAges DEF Aged, Intended, Unwatched
<1>6. ASSUME UNCHANGED worker PROVE Aged /\ WorkerType' /\ UNCHANGED <<phase, outcome, acked>>
  BY <1>1, <1>6, WorkerSame, SameAges
<1>7. ASSUME Aged, WorkerType', UNCHANGED acked, mem' = clear_stopping(mem), Answer(FALSE),
             Fault \/ NoFault
      PROVE  Step
  <2>1. /\ mem' \in Entries /\ mem'.st = mem.st /\ mem'.rt = mem.rt
        /\ mem'.handle = mem.handle /\ mem'.des = mem.des /\ ~mem'.stopping
    BY <1>4, <1>7, ClearEffect
  <2>2. tx' = NoTx /\ rq' \in {"none", "stop", "remove"} /\ stopOk' \in BOOLEAN
        /\ (stopOk' => stopOk)
    BY <1>1, <1>7, Answered
  <2>3. faults' \in 0..Faults BY <1>1, <1>7, FaultEffect
  <2> QED BY <1>2, <1>3, <1>7, <2>1, <2>2, <2>3, TaskEnds
<1>8. ASSUME Aged, WorkerType', UNCHANGED <<acked, mem>>, NoFault, Pending,
             NEW p \in {"exit", "release"}, GoTo(p), p = "exit" => phase' = "exited",
             p = "release" => UNCHANGED <<phase, outcome>>
      PROVE  Step
  <2>1. /\ tx' \in Txs /\ tx'.who = "op" /\ tx'.pc = p /\ (tx'.direct <=> tx.direct)
        /\ tx'.des = tx.des
    BY <1>1, <1>8, TxTo DEF GoTo, Pcs, OpPcs, OpEarly
  <2>2. OpInv' BY <1>1, <1>2, <1>3, <1>8, <2>1 DEF OpInv, OpPcs, OpEarly, IInv, TxInv
  <2>3. BackInv' BY <1>1, <1>3, <1>8, <2>1 DEF BackInv, IInv, TxInv, Frame
  <2>4. TxInv' BY <1>1, <1>2, <1>3, <1>4, <1>8, <2>1, <2>2, <2>3, OpMoves DEF OpEarly
  <2>5. faults' \in 0..Faults BY <1>1, <1>8, TypeParts DEF NoFault
  <2> QED BY <1>2, <1>8, <2>1, <2>4, <2>5, TaskMoves DEF Pending
<1>9. CASE Answers /\ WorkerStops /\ GoTo("exit") /\ NoFault /\ Pending /\ UNCHANGED mem
  BY <1>5, <1>8, <1>9
<1>10. CASE Answers /\ Fault /\ (WorkerStops \/ UNCHANGED worker)
            /\ mem' = clear_stopping(mem) /\ Answer(FALSE)
  BY <1>5, <1>6, <1>7, <1>10
<1>11. CASE GoTo("release") /\ NoFault /\ Pending /\ UNCHANGED <<worker, mem>>
  BY <1>6, <1>8, <1>11
<1>12. CASE mem' = clear_stopping(mem) /\ Answer(FALSE) /\ NoFault /\ UNCHANGED worker
  BY <1>6, <1>7, <1>12
<1> QED BY <1>9, <1>10, <1>11, <1>12 DEF OpRpc

\* A request ends the worker through its supervisor, or rolls its intent back
\* (release_conflicted_runtime).
LEMMA OpReleaseStep ==
  ASSUME IInv, OpRelease, tx.who = "op", Frame
  PROVE  Step
<1>1. TypeInv /\ up /\ tx.pc = "release" BY DEF IInv, OpRelease, At
<1>2. UNCHANGED <<w, ack, up, reverted>> BY DEF OpRelease, Frame
<1>3. mem # None /\ mem.des # "running" /\ rec.des # "running"
      /\ (tx.direct <=> mem.handle = "none")
  BY <1>1 DEF IInv, TxInv, OpInv, OpEarly
<1>4. /\ mem \in Entries /\ rec # None /\ EntryOk(mem) /\ rec.st = mem.st
      /\ Good(mem, phase, outcome) /\ Paired(mem, rec, outcome, reverted)
  BY <1>3, Entry
<1>5. CASE Retire /\ GoTo("exit") /\ NoFault /\ Pending /\ UNCHANGED <<store, mem, retry>>
  <2>1. Aged /\ WorkerType' /\ phase' = "gone" /\ UNCHANGED acked BY <1>5, RetireAges
  <2>2. /\ tx' \in Txs /\ tx'.who = "op" /\ tx'.pc = "exit" /\ (tx'.direct <=> tx.direct)
    BY <1>1, <1>5, TxTo DEF GoTo, Pcs, OpPcs, OpEarly
  <2>3. UNCHANGED <<rec, undo, mem>> /\ retry' \in Retries /\ faults' \in 0..Faults
    BY <1>1, <1>5, TypeParts DEF store, NoFault
  <2>4. OpInv' BY <1>1, <1>3, <2>1, <2>2, <2>3 DEF OpInv, OpPcs, OpEarly, IInv, TxInv
  <2>5. BackInv' BY <2>2 DEF BackInv
  <2>6. TxInv' BY <1>1, <1>2, <1>3, <1>4, <2>2, <2>3, <2>4, <2>5, OpMoves DEF OpEarly
  <2> QED BY <1>2, <1>5, <2>1, <2>2, <2>3, <2>6, TaskMoves DEF Pending
<1>6. ASSUME Aged, WorkerType', UNCHANGED acked, mem' = clear_stopping(mem), Answer(FALSE),
             Fault, schedule_supervision_retry \/ UNCHANGED retry, UNCHANGED store
      PROVE  Step
  <2>1. /\ mem' \in Entries /\ mem'.st = mem.st /\ mem'.rt = mem.rt
        /\ mem'.handle = mem.handle /\ mem'.des = mem.des /\ ~mem'.stopping
    BY <1>4, <1>6, ClearEffect
  <2>2. tx' = NoTx /\ rq' \in {"none", "stop", "remove"} /\ stopOk' \in BOOLEAN
        /\ (stopOk' => stopOk)
    BY <1>1, <1>6, Answered
  <2>3. faults' \in 0..Faults /\ retry' \in Retries /\ UNCHANGED <<rec, undo>>
    BY <1>1, <1>6, FaultEffect, RetryEffect, TypeParts DEF store
  <2> QED BY <1>2, <1>3, <1>6, <2>1, <2>2, <2>3, TaskEnds
<1>7. CASE Fault /\ Retire /\ mem' = clear_stopping(mem) /\ Answer(FALSE)
           /\ schedule_supervision_retry /\ UNCHANGED store
  BY <1>6, <1>7, RetireAges
<1>8. CASE Fault /\ Answer(FALSE) /\ ~tx.direct /\ mem' = clear_stopping(mem)
           /\ UNCHANGED <<store, retry>> /\ UNCHANGED worker
  BY <1>1, <1>6, <1>8, WorkerSame, SameAges
<1>9. CASE /\ Fault /\ Answer(FALSE) /\ tx.direct /\ mem' = rollback_stop_intent(mem, tx.des)
           /\ RollBack /\ schedule_supervision_retry /\ UNCHANGED worker
  <2>1. /\ tx.rec = rec /\ rec.st = "live" /\ tx.prev # None /\ tx.prev.st = "live"
        /\ outcome = "user" /\ ~reverted => tx.prev.des # "running"
        /\ mem.handle = "none"
    BY <1>1, <1>3, <1>9 DEF IInv, TxInv, BackInv
  <2>2. tx.des \in DesiredStates /\ tx.prev \in Records \cup {None} BY <1>1, TypeParts DEF Txs
  <2>3. /\ rec' \in {rec, tx.prev} /\ rec' # None /\ rec'.st = "live"
        /\ rec' \in Records \cup {None} /\ undo' \in {None, rec, undo}
        /\ outcome = "user" /\ ~reverted => rec'.des # "running"
    BY <1>1, <1>3, <1>4, <1>9, <2>1, <2>2, TypeParts DEF RollBack, store, StoreType
  <2>4. /\ mem' \in Entries /\ mem' # None /\ mem'.st = "live" /\ mem'.rt = mem.rt
        /\ mem'.handle = mem.handle /\ ~mem'.stopping /\ mem'.des \in {mem.des, tx.des}
    BY <1>4, <1>9, <2>1, <2>2, RollbackEffect, NoneDistinct
  <2>5. tx' = NoTx /\ rq' \in {"none", "stop", "remove"} /\ stopOk' \in BOOLEAN
        /\ (stopOk' => stopOk)
    BY <1>1, <1>9, Answered
  <2>6. faults' \in 0..Faults /\ retry' \in Retries
    BY <1>1, <1>9, FaultEffect, RetryEffect, TypeParts
  <2>7. WorkerType' /\ UNCHANGED <<phase, outcome, journal, acked>> BY <1>1, <1>9, WorkerSame
  <2>8. EntryInv'
    <3>1. Good(mem', phase, outcome) BY <2>4 DEF Good
    <3>2. EntryOk(mem') BY <1>4, <2>1, <2>4 DEF EntryOk
    <3>3. Paired(mem', rec', outcome, reverted)
      BY <1>3, <1>4, <2>1, <2>3, <2>4 DEF Paired
    <3> QED BY <1>2, <2>3, <2>7, <3>1, <3>2, <3>3 DEF EntryInv
  <2>9. RecordInv'
    <3>1. Good(rec', phase, outcome) BY <2>3 DEF Good
    <3>2. undo' # None => Good(undo', phase, outcome)
      BY <2>3 DEF IInv, StateInv, RecordInv
    <3> QED BY <1>2, <2>3, <2>7, <3>1, <3>2 DEF RecordInv
  <2>10. WorkerInv' BY <1>2, <1>4, <2>7 DEF IInv, StateInv, WorkerInv, JournalsLast
  <2>11. WatchInv'
    <3>1. Unwatched(mem') <=> Unwatched(mem) BY <1>3, <2>4 DEF Unwatched
    <3> QED BY <1>2, <2>7, <3>1 DEF IInv, StateInv, WatchInv
  <2>12. RecordStep BY <1>4, <2>1, <2>3, RecordSame
  <2>13. AnswerInv' BY <1>2, <2>5, <2>7, <2>12, AnswersKept
  <2>14. TxInv' /\ tx' \in Txs BY <1>1, <1>2, <2>4, <2>5, TxFreed
  <2>15. TypeInv'
    <3>1. StoreType' BY <1>1, <2>3, <2>4, TypeParts DEF StoreType
    <3> QED BY <1>1, <1>2, <2>5, <2>6, <2>7, <2>14, <3>1, TypeParts, TypeMoves
  <2> QED BY <2>8, <2>9, <2>10, <2>11, <2>12, <2>13, <2>14, <2>15 DEF Step, IInv, StateInv
<1> QED BY <1>5, <1>7, <1>8, <1>9 DEF OpRelease

\* A request derives the exit from the entry (record_exit).
LEMMA OpExitStep ==
  ASSUME IInv, OpExit, tx.who = "op", Frame
  PROVE  Step
<1>1. TypeInv /\ up /\ tx.pc = "exit" BY DEF IInv, OpExit, At
<1>2. /\ UNCHANGED <<w, ack, up, rec, undo, mem, rq, stopOk, reverted>> /\ UNCHANGED worker
      /\ retry' \in Retries /\ faults' \in 0..Faults
  BY <1>1, TypeParts DEF OpExit, Frame, store
<1>3. mem # None /\ phase # "running" BY <1>1 DEF IInv, TxInv, OpInv, OpEarly
<1>4. mem \in Entries /\ rec # None /\ EntryOk(mem) BY <1>3, Entry
<1>5. WorkerType' /\ UNCHANGED <<phase, outcome, acked>> /\ Aged
  BY <1>1, <1>2, WorkerSame, SameAges
<1>6. /\ tx' \in Txs /\ tx'.who = "op" /\ (tx'.direct <=> tx.direct)
      /\ tx'.pc = "commit" \/ (tx'.pc = "done" /\ mem.st = "stopped" /\ ~mem.stopping)
  <2>1. BaseOf(mem) \in Bases BY <1>4 DEF BaseOf, Entries, Bases
  <2>2. CASE mem.st = "stopped" /\ ~mem.stopping
    BY <1>1, <2>2, TypeParts DEF OpExit, Txs, Pcs, OpPcs
  <2>3. CASE ~(mem.st = "stopped" /\ ~mem.stopping)
    BY <1>1, <2>1, <2>3, TypeParts DEF OpExit, Txs, Pcs, OpPcs, OpEarly
  <2> QED BY <2>2, <2>3
<1>7. OpInv' BY <1>1, <1>2, <1>3, <1>5, <1>6 DEF OpInv, OpPcs, OpEarly, IInv, TxInv
<1>8. BackInv' BY <1>6 DEF BackInv
<1>9. TxInv' BY <1>1, <1>2, <1>3, <1>4, <1>6, <1>7, <1>8, OpMoves DEF OpEarly
<1> QED BY <1>2, <1>5, <1>6, <1>9, TaskMoves

\* An exit is installed by the request or by the watcher.
LEMMA ExitInstalled ==
  ASSUME IInv, mem # None, mem.st \in {"live", "stopped"}, phase # "running",
         NEW stopped \in BOOLEAN, stopped <=> mem.des # "running",
         mem.st = "stopped" => stopped, mem.handle # "none" \/ mem.des # "running",
         InstallExit(ExitRecord(mem, stopped)), UNCHANGED <<worker, reverted>>
  PROVE  /\ EntryInv' /\ RecordInv' /\ WorkerInv' /\ RecordStep /\ StoreType'
         /\ WorkerType' /\ UNCHANGED <<phase, outcome, journal, acked>>
         /\ ack' \in Acks /\ (ack'.pc = "send" => ack.pc = "send")
         /\ faults' \in 0..Faults
         /\ mem' # None /\ mem'.handle = mem.handle /\ mem'.des = mem.des /\ ~mem'.stopping
         /\ mem'.st \in Ended /\ (stopped => mem'.st = "stopped")
         /\ rec' # None /\ rec'.des = mem.des
<1> DEFINE r == ExitRecord(mem, stopped)
<1>1. TypeInv BY DEF IInv
<1>2. /\ mem \in Entries /\ rec \in Records /\ rec # None /\ EntryOk(mem) /\ rec.st = mem.st
      /\ Good(mem, phase, outcome) /\ Paired(mem, rec, outcome, reverted)
  BY Entry
<1>3. /\ r \in Records /\ r.des = mem.des /\ r.rt = "terminal" /\ r.st \in Ended
      /\ stopped => r.st = "stopped"
      /\ ~stopped => r.st = IF outcome = "done" THEN "done" ELSE "failed"
  BY <1>2 DEF ExitRecord, ExitState, Records, Entries, RuntimeStates
<1>4. Write(r) BY DEF InstallExit
<1>5. mem' = [mem EXCEPT !.st = r.st, !.rt = "terminal", !.stopping = FALSE, !.unp = FALSE]
  BY DEF InstallExit
<1>6. ack' = IF mem.handle # "none" /\ mem.des # "removed"
             THEN [pc |-> "want", conn |-> mem.handle = "worker"] ELSE ack
  BY DEF InstallExit
<1> HIDE DEF r
<1>7. /\ mem' \in Entries /\ mem'.st = r.st /\ mem'.des = mem.des /\ mem'.rt = "terminal"
      /\ mem'.handle = mem.handle /\ ~mem'.stopping
  BY <1>2, <1>3, <1>5 DEF Entries, Records, RuntimeStates
<1>8. mem' # None BY <1>7, NoneDistinct
<1>9. rec' = r /\ r # None /\ undo' \in Records \cup {None} /\ faults' \in 0..Faults
  BY <1>1, <1>3, <1>4, WriteEffect, NoneDistinct
<1>10. WorkerType' /\ UNCHANGED <<phase, outcome, journal, acked>> BY <1>1, WorkerSame
<1>11. ack' \in Acks /\ (ack'.pc = "send" => ack.pc = "send")
  BY <1>1, <1>6, TypeParts DEF Acks
<1>12. Good(r, phase, outcome) BY <1>2, <1>3 DEF Good
<1>13. Good(mem', phase, outcome) BY <1>3, <1>7, <1>12 DEF Good
<1>14. EntryOk(mem') BY <1>3, <1>7 DEF EntryOk
<1>15. outcome = "user" /\ ~reverted => r.des # "running" BY <1>2, <1>3 DEF Paired
<1>16. Paired(mem', r, outcome, reverted) BY <1>3, <1>7, <1>9, <1>15 DEF Paired
<1>17. EntryInv' /\ RecordInv' /\ WorkerInv'
  BY <1>2, <1>3, <1>4, <1>10, <1>12, <1>13, <1>14, <1>15, <1>16, StateWritten
<1>18. RecordStep BY <1>2, <1>3, <1>9 DEF RecordStep
<1>19. StoreType' BY <1>3, <1>7, <1>9 DEF StoreType
<1> QED BY <1>3, <1>7, <1>8, <1>9, <1>10, <1>11, <1>17, <1>18, <1>19

\* A request commits the exit, or finds its bases stale (commit_user_stop_exit).
LEMMA OpCommitStep ==
  ASSUME IInv, OpCommit, tx.who = "op", Frame
  PROVE  Step
<1>1. TypeInv /\ up /\ tx.pc = "commit" BY DEF IInv, OpCommit, At
<1>2. UNCHANGED worker /\ UNCHANGED <<up, reverted>> BY DEF OpCommit, Frame
<1>3. /\ mem # None /\ phase # "running" /\ mem.st \in {"live", "stopped"}
      /\ mem.des # "running" /\ rec.des # "running" /\ (tx.direct <=> mem.handle = "none")
  BY <1>1 DEF IInv, TxInv, OpInv, OpEarly
<1>4. mem \in Entries /\ rec \in Records /\ rec # None /\ EntryOk(mem) BY <1>3, Entry
<1>5. WorkerType' /\ UNCHANGED <<phase, outcome, acked>> /\ Aged
  BY <1>1, <1>2, WorkerSame, SameAges DEF worker
<1>6. CASE /\ InstallExit(ExitRecord(mem, TRUE)) /\ GoTo("done") /\ Pending /\ UNCHANGED retry
           /\ w' = IF mem.handle = "none" THEN Cancelled(w) ELSE w
  <2>1. /\ EntryInv' /\ RecordInv' /\ WorkerInv' /\ RecordStep /\ StoreType'
        /\ ack' \in Acks /\ (ack'.pc = "send" => ack.pc = "send") /\ faults' \in 0..Faults
        /\ mem' # None /\ mem'.handle = mem.handle /\ ~mem'.stopping
        /\ mem'.st = "stopped" /\ rec' # None
    BY <1>2, <1>3, <1>6, ExitInstalled
  <2>2. tx' \in Txs /\ tx'.who = "op" /\ tx'.pc = "done"
    BY <1>1, <1>6, TxTo DEF GoTo, Pcs, OpPcs
  <2>3. OpInv' /\ BackInv' BY <1>3, <1>5, <2>1, <2>2 DEF OpInv, BackInv, OpPcs, OpEarly
  <2>4. TxInv' BY <1>1, <1>2, <2>1, <2>2, <2>3, OpMoves
  <2>5. w' \in Watches /\ WatchInv'
    <3>1. w \in Watches /\ WatchInv BY <1>1, TypeParts DEF IInv, StateInv
    <3>2. CASE mem.handle = "none"
      BY <1>5, <1>6, <3>1, <3>2, WatchEffect DEF WatchInv
    <3>3. CASE mem.handle # "none"
      BY <1>3, <1>5, <1>6, <2>1, <3>1, <3>3 DEF WatchInv, Unwatched
    <3> QED BY <3>2, <3>3
  <2>6. AnswerInv' BY <1>2, <1>5, <1>6, <2>1, AnswersKept DEF Pending
  <2>7. TypeInv'
    BY <1>1, <1>5, <1>6, <2>1, <2>2, <2>5, TypeParts, TypeMoves DEF Pending
  <2> QED BY <2>1, <2>4, <2>5, <2>6, <2>7 DEF Step, IInv, StateInv
<1>7. CASE /\ Reload /\ NoFault /\ Pending /\ UNCHANGED <<store, mem, w, ack, retry>>
  <2>1. /\ tx' \in Txs /\ tx'.who = "op" /\ tx'.pc = "exit" /\ (tx'.direct <=> tx.direct)
    BY <1>1, <1>7, TypeParts DEF Reload, Txs, Pcs, OpPcs, OpEarly
  <2>2. UNCHANGED <<rec, undo>> /\ retry' \in Retries /\ faults' \in 0..Faults
    BY <1>1, <1>7, TypeParts DEF store, NoFault
  <2>3. OpInv' BY <1>3, <1>5, <1>7, <2>1, <2>2 DEF OpInv, OpPcs, OpEarly
  <2>4. BackInv' BY <2>1 DEF BackInv
  <2>5. TxInv' BY <1>1, <1>2, <1>3, <1>4, <1>7, <2>1, <2>2, <2>3, <2>4, OpMoves DEF OpEarly
  <2> QED BY <1>5, <1>7, <2>1, <2>2, <2>5, TaskMoves DEF Pending
<1>8. CASE /\ Fault /\ Answer(FALSE) /\ UNCHANGED <<store, w, ack>>
           /\ IF tx.direct THEN schedule_supervision_retry /\ UNCHANGED mem
                           ELSE mem' = clear_stopping(mem) /\ UNCHANGED retry
  <2>1. tx' = NoTx /\ rq' \in {"none", "stop", "remove"} /\ stopOk' \in BOOLEAN
        /\ (stopOk' => stopOk)
    BY <1>1, <1>8, Answered
  <2>2. faults' \in 0..Faults /\ retry' \in Retries /\ UNCHANGED <<rec, undo>>
    BY <1>1, <1>8, FaultEffect, RetryEffect, TypeParts DEF store
  <2>3. CASE tx.direct
    BY <1>3, <1>5, <1>8, <2>1, <2>2, <2>3, TaskEnds
  <2>4. CASE ~tx.direct
    <3>1. /\ mem' \in Entries /\ mem'.st = mem.st /\ mem'.rt = mem.rt
          /\ mem'.handle = mem.handle /\ mem'.des = mem.des /\ ~mem'.stopping
      BY <1>4, <1>8, <2>4, ClearEffect
    <3> QED BY <1>3, <1>5, <1>8, <2>1, <2>2, <3>1, TaskEnds
  <2> QED BY <2>3, <2>4
<1> QED BY <1>6, <1>7, <1>8 DEF OpCommit

\* A request answers stopped.
LEMMA OpDoneStep ==
  ASSUME IInv, OpDone, tx.who = "op", Frame
  PROVE  Step
<1>1. TypeInv /\ up /\ tx.pc = "done" BY DEF IInv, OpDone, At
<1>2. /\ UNCHANGED worker /\ UNCHANGED <<up, reverted, rec, undo, mem, ack>>
      /\ w' = Cancelled(w) /\ retry' \in Retries /\ faults' \in 0..Faults
  BY <1>1, TypeParts DEF OpDone, Frame, store
<1>3. mem # None /\ mem.st = "stopped" BY <1>1 DEF IInv, TxInv, OpInv, OpEarly
<1>4. rec # None /\ rec.st = "stopped" /\ ~mem.stopping BY <1>3, Entry DEF EntryOk
<1>5. WorkerType' /\ UNCHANGED <<phase, outcome, acked>> /\ Aged
  BY <1>1, <1>2, WorkerSame, SameAges DEF worker
<1>6. CASE Answer(TRUE)
  <2>1. tx' = NoTx /\ rq' \in {"none", "stop", "remove"} /\ stopOk' \in BOOLEAN
    BY <1>1, <1>6, Answered
  <2> QED BY <1>2, <1>4, <1>5, <2>1, TaskEnds
<1>7. CASE GoTo("retire") /\ Pending
  <2>1. tx' \in Txs /\ tx'.who = "op" /\ tx'.pc = "retire"
    BY <1>1, <1>7, TxTo DEF GoTo, Pcs, OpPcs
  <2>2. OpInv' /\ BackInv' BY <1>2, <1>3, <2>1 DEF OpInv, BackInv, OpPcs, OpEarly
  <2>3. TxInv' BY <1>1, <1>2, <1>3, <1>4, <2>1, <2>2, OpMoves
  <2> QED BY <1>2, <1>5, <1>7, <2>1, <2>3, TaskMoves DEF Pending
<1> QED BY <1>6, <1>7 DEF OpDone

\* A removal retires the job (retire_unstopped_job).
LEMMA OpRetireStep ==
  ASSUME IInv, OpRetire, tx.who = "op", Frame
  PROVE  Step
<1>1. TypeInv /\ up /\ tx.pc = "retire" BY DEF IInv, OpRetire, At
<1>2. /\ UNCHANGED <<up, reverted, rec, undo, mem, ack, w>> /\ retry' \in Retries
  BY <1>1, TypeParts DEF OpRetire, Frame, store
<1>3. mem # None BY <1>1 DEF IInv, TxInv, OpInv, OpEarly
<1>4. rec # None /\ (mem.stopping => mem.handle = "none") BY <1>1, <1>3, Entry DEF OpEarly
<1>5. WorkerType' /\ UNCHANGED acked /\ Aged
  BY <1>1, WorkerSame, SameAges, RetireAges DEF OpRetire
<1>6. CASE GoTo(IF tx.direct THEN "record" ELSE "sweep") /\ NoFault /\ Pending
  <2>1. tx' \in Txs /\ tx'.who = "op" /\ tx'.pc \in {"record", "sweep"}
    BY <1>1, <1>6, TxTo DEF GoTo, Pcs, OpPcs
  <2>2. OpInv' /\ BackInv' BY <1>2, <1>3, <2>1 DEF OpInv, BackInv, OpPcs, OpEarly
  <2>3. TxInv' BY <1>1, <1>2, <1>3, <1>4, <2>1, <2>2, OpMoves
  <2>4. faults' \in 0..Faults BY <1>1, <1>6, TypeParts DEF NoFault
  <2> QED BY <1>2, <1>5, <1>6, <2>1, <2>3, <2>4, TaskMoves DEF Pending
<1>7. CASE Fault /\ Answer(FALSE)
  <2>1. tx' = NoTx /\ rq' \in {"none", "stop", "remove"} /\ stopOk' \in BOOLEAN
        /\ (stopOk' => stopOk)
    BY <1>1, <1>7, Answered
  <2>2. faults' \in 0..Faults BY <1>1, <1>7, FaultEffect
  <2> QED BY <1>2, <1>4, <1>5, <2>1, <2>2, TaskEnds
<1> QED BY <1>6, <1>7 DEF OpRetire

\* A removal is recorded (write_entry_record); a failure leaves the entry with
\* the intent and the record without it.
LEMMA OpRecordStep ==
  ASSUME IInv, OpRecord, tx.who = "op", Frame
  PROVE  Step
<1>1. TypeInv /\ up /\ tx.pc = "record" BY DEF IInv, OpRecord, At
<1>2. /\ UNCHANGED worker /\ UNCHANGED <<up, reverted, ack, w>> /\ retry' \in Retries
  BY <1>1, TypeParts DEF OpRecord, Frame
<1>3. mem # None BY <1>1 DEF IInv, TxInv, OpInv, OpEarly
<1>4. /\ mem \in Entries /\ rec \in Records /\ rec # None /\ EntryOk(mem) /\ rec.st = mem.st
      /\ Good(mem, phase, outcome) /\ (mem.stopping => mem.handle = "none")
  BY <1>1, <1>3, Entry DEF OpEarly
<1>5. WorkerType' /\ UNCHANGED <<phase, outcome, journal, acked>> /\ Aged
  BY <1>1, <1>2, WorkerSame, SameAges
<1>6. mem' = [mem EXCEPT !.des = "removed"] BY DEF OpRecord
<1>7. /\ mem' \in Entries /\ mem'.st = mem.st /\ mem'.des = "removed" /\ mem'.rt = mem.rt
      /\ mem'.handle = mem.handle /\ mem'.stopping = mem.stopping
  BY <1>4, <1>6 DEF Entries, DesiredStates
<1>8. CASE Write(session_record(mem', "remove")) /\ GoTo("sweep") /\ Pending
  <2> DEFINE r == session_record(mem', "remove")
  <2>1. r \in Records /\ r.st = mem.st /\ r.des = "removed" /\ r.rt = mem.rt
    BY <1>4, <1>7 DEF session_record, Records, Entries, DesiredStates
  <2>2. Write(r) BY <1>8
  <2> HIDE DEF r
  <2>3. /\ rec' = r /\ undo' \in Records \cup {None} /\ faults' \in 0..Faults /\ r # None
        /\ mem' # None
    BY <1>1, <1>7, <2>1, <2>2, WriteEffect, NoneDistinct
  <2>4. tx' \in Txs /\ tx'.who = "op" /\ tx'.pc = "sweep"
    BY <1>1, <1>8, TxTo DEF GoTo, Pcs, OpPcs
  <2>5. Good(r, phase, outcome) /\ Good(mem', phase, outcome) BY <1>4, <1>7, <2>1 DEF Good
  <2>6. EntryOk(mem') BY <1>4, <1>7 DEF EntryOk
  <2>7. Paired(mem', r, outcome, reverted) BY <1>7, <2>1, <2>3 DEF Paired
  <2>8. EntryInv' /\ RecordInv' /\ WorkerInv'
    BY <1>2, <1>4, <1>5, <2>1, <2>2, <2>5, <2>6, <2>7, StateWritten
  <2>9. WatchInv' BY <1>2, <1>3, <1>5, <1>7, <2>3 DEF IInv, StateInv, WatchInv, Unwatched
  <2>10. RecordStep BY <1>4, <2>1, <2>3, RecordSame
  <2>11. AnswerInv' BY <1>2, <1>5, <1>8, <2>10, AnswersKept DEF Pending
  <2>12. OpInv' /\ BackInv' BY <2>3, <2>4 DEF OpInv, BackInv, OpPcs, OpEarly
  <2>13. TxInv' BY <1>1, <1>2, <1>4, <1>7, <2>3, <2>4, <2>12, OpMoves
  <2>14. TypeInv'
    <3>1. StoreType' BY <1>7, <2>1, <2>3 DEF StoreType
    <3> QED BY <1>1, <1>2, <1>5, <1>8, <2>3, <2>4, <3>1, TypeParts, TypeMoves DEF Pending
  <2> QED BY <2>8, <2>9, <2>10, <2>11, <2>13, <2>14 DEF Step, IInv, StateInv
<1>9. CASE Fault /\ Answer(FALSE) /\ UNCHANGED store
  <2>1. tx' = NoTx /\ rq' \in {"none", "stop", "remove"} /\ stopOk' \in BOOLEAN
        /\ (stopOk' => stopOk)
    BY <1>1, <1>9, Answered
  <2>2. faults' \in 0..Faults /\ UNCHANGED <<rec, undo>> BY <1>1, <1>9, FaultEffect DEF store
  <2> QED BY <1>2, <1>3, <1>4, <1>5, <1>7, <2>1, <2>2, TaskEnds
<1> QED BY <1>8, <1>9 DEF OpRecord

-----------------------------------------------------------------------------
(* The release of a removed session *)

\* A reconciliation that cannot go on records a pending classification.
LEMMA RcPends ==
  ASSUME IInv, Reconciling, up, tx.pc \in Known \ {"delete"}, NEW p \in {"reconn", "conflict"},
         tx' = [tx EXCEPT !.pc = "pend", !.pend = p], UNCHANGED <<rec, mem, up>>
  PROVE  TxInv' /\ tx' \in Txs
<1>1. /\ tx' \in Txs /\ tx'.pc = "pend" /\ tx'.who = tx.who /\ tx'.rec = tx.rec
      /\ tx'.pend = p
  BY TxToPend DEF IInv
<1>2. rec # None BY Holder DEF Known
<1>3. tx.rec = rec /\ Unwatched(mem) BY DEF IInv, TxInv, RcInv
<1>4. RcInv' /\ Reconciling' BY <1>1, <1>3 DEF RcInv, RcPcs, Known, Reconciling, Unwatched
<1>5. mem' # None /\ mem'.stopping => mem'.handle = "none" BY <1>3 DEF Unwatched
<1> QED BY <1>1, <1>2, <1>4, <1>5, RcMoves

\* A removal sweeps.
LEMMA SweepStep ==
  ASSUME IInv, Sweep, Frame
  PROVE  Step
<1>1. TypeInv /\ up /\ tx.pc = "sweep" BY DEF IInv, Sweep, At
<1>2. /\ UNCHANGED worker /\ UNCHANGED <<up, reverted, rec, undo, mem, ack, w>>
      /\ retry' \in Retries
  BY <1>1, TypeParts DEF Sweep, Frame, store
<1>3. rec # None /\ (tx.who = "op" \/ Reconciling) BY <1>1, Holder
<1>4. mem # None /\ mem.stopping => mem.handle = "none" BY <1>1, Entry DEF OpEarly
<1>5. WorkerType' /\ UNCHANGED <<phase, outcome, acked>> /\ Aged
  BY <1>1, <1>2, WorkerSame, SameAges
<1>6. faults' \in 0..Faults BY <1>1, FaultEffect DEF Sweep
<1>7. CASE GoTo("evict") /\ Pending
  <2>1. tx' \in Txs /\ tx'.who = tx.who /\ tx'.pc = "evict" /\ tx'.rec = tx.rec
    BY <1>1, <1>7, TxTo DEF GoTo, Pcs, OpPcs
  <2>2. CASE tx.who = "op"
    <3>1. mem # None BY <1>1, <2>2 DEF IInv, TxInv, OpInv
    <3>2. OpInv' /\ BackInv' BY <1>2, <2>1, <3>1 DEF OpInv, BackInv, OpPcs, OpEarly
    <3> QED BY <1>1, <1>2, <1>3, <1>4, <1>5, <1>6, <1>7, <2>1, <2>2, <3>1, <3>2, OpMoves,
               TaskMoves DEF Pending
  <2>3. CASE Reconciling
    <3>1. tx.rec = rec /\ Unwatched(mem) BY <1>1, <2>3 DEF IInv, TxInv, RcInv, Known
    <3>2. RcInv' /\ Reconciling'
      BY <1>2, <2>1, <2>3, <3>1 DEF RcInv, RcPcs, Known, Reconciling, Unwatched
    <3>3. TxInv' BY <1>1, <1>2, <1>3, <1>4, <2>1, <3>2, RcMoves
    <3> QED BY <1>2, <1>5, <1>6, <1>7, <2>1, <3>3, TaskMoves DEF Pending
  <2> QED BY <1>3, <2>2, <2>3
<1>8. CASE Fail("conflict")
  <2>1. CASE tx.who = "op"
    <3>1. tx' = NoTx /\ rq' \in {"none", "stop", "remove"} /\ stopOk' \in BOOLEAN
          /\ (stopOk' => stopOk)
      BY <1>1, <1>8, <2>1, Answered DEF Fail
    <3> QED BY <1>2, <1>4, <1>5, <1>6, <3>1, TaskEnds
  <2>2. CASE Reconciling
    <3>1. tx' = [tx EXCEPT !.pc = "pend", !.pend = "conflict"] /\ Pending
      BY <1>8, <2>2 DEF Fail, Reconciling
    <3>2. TxInv' /\ tx' \in Txs BY <1>1, <1>2, <2>2, <3>1, RcPends DEF Known
    <3> QED BY <1>2, <1>5, <1>6, <3>1, <3>2, TaskMoves DEF Pending
  <2> QED BY <1>3, <2>1, <2>2
<1> QED BY <1>7, <1>8 DEF Sweep

\* A removal takes the entry out of the registry.
LEMMA EvictStep ==
  ASSUME IInv, Evict, Frame
  PROVE  Step
<1>1. TypeInv /\ up /\ tx.pc = "evict" BY DEF IInv, Evict, At
<1>2. /\ UNCHANGED worker /\ UNCHANGED <<up, reverted, rec, undo, ack, rq, stopOk>>
      /\ retry' \in Retries /\ mem' = None /\ w' = Cancelled(w) /\ faults' \in 0..Faults
  BY <1>1, TypeParts DEF Evict, Frame, store, Pending, NoFault
<1>3. rec # None /\ (tx.who = "op" \/ Reconciling) BY <1>1, Holder
<1>4. mem # None => /\ Good(mem, phase, outcome) /\ EntryOk(mem)
                    /\ Paired(mem, rec, outcome, reverted)
                    /\ (mem.stopping => mem.handle = "none")
  BY <1>1, Entry DEF OpEarly
<1>5. /\ WorkerType' /\ UNCHANGED <<phase, outcome, journal, acked>>
  BY <1>1, <1>2, WorkerSame
<1>6. /\ tx' \in Txs /\ tx'.who = tx.who /\ tx'.pc = "delete" /\ tx'.rec = tx.rec
      /\ tx'.base = mem
  <2>1. mem \in Entries \cup {None} BY <1>1, TypeParts
  <2>2. tx' = [tx EXCEPT !.pc = "delete", !.base = mem] BY DEF Evict
  <2> QED BY <1>1, <2>1, <2>2, TypeParts DEF Txs, Pcs, OpPcs
<1>7. Reconciling => tx.rec = rec /\ Unwatched(mem) BY <1>1 DEF IInv, TxInv, RcInv, Known
<1>8. LockInv' BY <1>1, <1>2, <1>3, <1>6 DEF LockInv, Reconciling
<1>9. SavedInv'
  <2>1. mem \in Entries \cup {None} BY <1>1, TypeParts
  <2>2. Reconciling' => Reconciling BY <1>6 DEF Reconciling
  <2> QED BY <1>2, <1>4, <1>5, <1>6, <1>7, <2>1, <2>2 DEF SavedInv, Unwatched
<1>10. OpInv' /\ BackInv' BY <1>6 DEF OpInv, BackInv, OpPcs, OpEarly
<1>11. RcInv' BY <1>2, <1>6, <1>7 DEF RcInv, RcPcs, Known, Reconciling, Unwatched
<1>12. TxInv' BY <1>8, <1>9, <1>10, <1>11 DEF TxInv
<1>13. w \in Watches /\ w' \in Watches BY <1>1, <1>2, TypeParts, WatchEffect
<1>14. WatchInv' BY <1>2, <1>5, <1>13, WatchEffect DEF IInv, StateInv, WatchInv
<1>15. EntryInv' BY <1>2 DEF EntryInv
<1>16. RecordInv' /\ WorkerInv'
  BY <1>2, <1>5 DEF IInv, StateInv, RecordInv, WorkerInv, JournalsLast
<1>17. RecordStep BY <1>2, RecordSame
<1>18. AnswerInv' BY <1>2, <1>5, <1>17, AnswersKept
<1>19. TypeInv'
  <2>1. StoreType' BY <1>1, <1>2, TypeParts DEF StoreType
  <2> QED BY <1>1, <1>2, <1>5, <1>6, <1>13, <2>1, TypeParts, TypeMoves
<1> QED BY <1>12, <1>14, <1>15, <1>16, <1>17, <1>18, <1>19 DEF Step, IInv, StateInv

\* What a finished removal does to its task.
LEMMA RemovedEffect ==
  ASSUME TypeInv, Removed
  PROVE  /\ tx' = NoTx /\ retry' \in Retries /\ rq' \in {"none", "stop", "remove"}
         /\ stopOk' \in BOOLEAN /\ (stopOk' => stopOk)
<1>1. retry \in Retries /\ rq \in {"none", "stop", "remove"} /\ stopOk \in BOOLEAN BY TypeParts
<1>2. CASE tx.who = "op" BY <1>1, <1>2, Answered DEF Removed
<1>3. CASE tx.who # "op" BY <1>1, <1>3 DEF Removed, Pending, Retries
<1> QED BY <1>2, <1>3

\* A removal deletes the record; a failure lists the entry again.
LEMMA DeleteStep ==
  ASSUME IInv, Delete, Frame
  PROVE  Step
<1>1. TypeInv /\ up /\ tx.pc = "delete" BY DEF IInv, Delete, At
<1>2. /\ UNCHANGED worker /\ UNCHANGED <<up, reverted, ack, w>> BY DEF Delete, Frame
<1>3. rec # None /\ (tx.who = "op" \/ Reconciling) /\ mem = None
  BY <1>1, Holder DEF IInv, TxInv, LockInv
<1>4. /\ WorkerType' /\ UNCHANGED <<phase, outcome, journal, acked>>
  BY <1>1, <1>2, WorkerSame
<1>5. WatchInv /\ RecordInv /\ WorkerInv /\ EntryInv BY DEF IInv, StateInv
<1>6. CASE /\ Write(None) /\ UNCHANGED mem
           /\ IF undo' = None THEN GoTo("journals") /\ Pending /\ UNCHANGED retry ELSE Removed
  <2>1. /\ rec' = None /\ undo' \in Records \cup {None} /\ undo' \in {None, rec, undo}
        /\ faults' \in 0..Faults /\ mem' = None
    BY <1>1, <1>3, <1>6, WriteEffect
  <2>2. /\ retry' \in Retries /\ rq' \in {"none", "stop", "remove"}
        /\ stopOk' \in BOOLEAN /\ (stopOk' => stopOk)
    BY <1>1, <1>6, RemovedEffect, TypeParts DEF Pending
  <2>3. TxInv' /\ tx' \in Txs
    <3>1. CASE undo' = None
      <4>1. tx' \in Txs /\ tx'.who = tx.who /\ tx'.pc = "journals"
        BY <1>1, <1>6, <3>1, TxTo DEF GoTo, Pcs, OpPcs
      <4>2. LockInv' BY <1>1, <1>2, <1>3, <2>1, <3>1, <4>1 DEF LockInv, Reconciling
      <4>3. SavedInv' /\ OpInv' /\ BackInv' BY <4>1 DEF SavedInv, OpInv, BackInv, OpPcs, OpEarly
      <4>4. RcInv' BY <4>1 DEF RcInv, RcPcs, Known
      <4> QED BY <4>1, <4>2, <4>3, <4>4 DEF TxInv
    <3>2. CASE undo' # None
      BY <1>1, <1>6, <2>1, <3>2, RemovedEffect, TxFreed
    <3> QED BY <3>1, <3>2
  <2>4. EntryInv' BY <2>1 DEF EntryInv
  <2>5. RecordInv' BY <1>3, <1>4, <1>5, <2>1 DEF RecordInv
  <2>6. WorkerInv' BY <1>2, <1>3, <1>4, <1>5 DEF WorkerInv, JournalsLast
  <2>7. WatchInv' BY <1>2, <1>3, <1>4, <1>5, <2>1 DEF WatchInv
  <2>8. RecordStep BY <1>3, <2>1 DEF RecordStep
  <2>9. AnswerInv' BY <2>1 DEF AnswerInv, StopAnswerHonoured, AcknowledgedDurable
  <2>10. TypeInv'
    <3>1. StoreType' BY <2>1 DEF StoreType
    <3> QED BY <1>1, <1>2, <1>4, <2>1, <2>2, <2>3, <3>1, TypeParts, TypeMoves
  <2> QED BY <2>3, <2>4, <2>5, <2>6, <2>7, <2>8, <2>9, <2>10 DEF Step, IInv, StateInv
<1>7. CASE Fault /\ Fail("reconn") /\ mem' = tx.base /\ UNCHANGED <<store, retry>>
  <2>1. /\ mem' \in Entries \cup {None} /\ UNCHANGED <<rec, undo>>
        /\ mem' # None =>
             /\ Good(mem', phase, outcome) /\ EntryOk(mem')
             /\ Paired(mem', rec, outcome, reverted)
             /\ mem'.stopping \/ Reconciling => mem'.handle = "none"
    BY <1>1, <1>7 DEF IInv, TxInv, SavedInv, store
  <2>2. retry' \in Retries /\ faults' \in 0..Faults BY <1>1, <1>7, TypeParts, FaultEffect
  <2>3. /\ TxInv' /\ tx' \in Txs /\ rq' \in {"none", "stop", "remove"}
        /\ stopOk' \in BOOLEAN /\ (stopOk' => stopOk)
    <3>1. CASE tx.who = "op"
      <4>1. tx' = NoTx /\ rq' \in {"none", "stop", "remove"} /\ stopOk' \in BOOLEAN
            /\ (stopOk' => stopOk)
        BY <1>1, <1>7, <3>1, Answered DEF Fail
      <4> QED BY <1>1, <1>2, <2>1, <4>1, TxFreed
    <3>2. CASE Reconciling
      <4>1. tx' = [tx EXCEPT !.pc = "pend", !.pend = "reconn"] /\ Pending
        BY <1>7, <3>2 DEF Fail, Reconciling
      <4>2. /\ tx' \in Txs /\ tx'.pc = "pend" /\ tx'.who = tx.who /\ tx'.rec = tx.rec
            /\ tx'.pend = "reconn"
        BY <1>1, <4>1, TxToPend
      <4>3. tx.rec = rec BY <1>1, <3>2 DEF IInv, TxInv, RcInv, Known
      <4>4. RcInv' /\ Reconciling'
        BY <2>1, <3>2, <4>2, <4>3 DEF RcInv, RcPcs, Known, Reconciling, Unwatched
      <4>5. TxInv' BY <1>1, <1>2, <1>3, <2>1, <4>2, <4>4, RcMoves
      <4> QED BY <1>1, <4>1, <4>2, <4>5, TypeParts DEF Pending
    <3> QED BY <1>3, <3>1, <3>2
  <2>4. EntryInv' BY <1>2, <1>4, <2>1 DEF EntryInv
  <2>5. RecordInv' /\ WorkerInv'
    BY <1>2, <1>4, <1>5, <2>1 DEF RecordInv, WorkerInv, JournalsLast
  <2>6. WatchInv' BY <1>2, <1>3, <1>4, <1>5 DEF WatchInv, Unwatched
  <2>7. RecordStep BY <2>1, RecordSame
  <2>8. AnswerInv' BY <1>2, <1>4, <2>3, <2>7, AnswersKept
  <2>9. TypeInv'
    <3>1. StoreType' BY <1>1, <2>1, TypeParts DEF StoreType
    <3> QED BY <1>1, <1>2, <1>4, <2>2, <2>3, <3>1, TypeParts, TypeMoves
  <2> QED BY <2>3, <2>4, <2>5, <2>6, <2>7, <2>8, <2>9 DEF Step, IInv, StateInv
<1> QED BY <1>6, <1>7 DEF Delete

\* A removal deletes the journals, when no record can come back.
LEMMA JournalsStep ==
  ASSUME IInv, Journals, Frame
  PROVE  Step
<1>1. TypeInv /\ up /\ tx.pc = "journals" BY DEF IInv, Journals, At
<1>2. rec = None /\ undo = None /\ mem = None BY <1>1 DEF IInv, TxInv, LockInv
<1>3. /\ UNCHANGED <<phase, outcome, acked, rec, undo, mem, w, ack, up, reverted>>
      /\ journal' = "deleted" /\ faults' \in 0..Faults /\ WorkerType'
  BY <1>1, TypeParts DEF Journals, Frame, store, TypeInv, WorkerType
<1>4. /\ tx' = NoTx /\ retry' \in Retries /\ rq' \in {"none", "stop", "remove"}
      /\ stopOk' \in BOOLEAN /\ (stopOk' => stopOk)
  BY <1>1, RemovedEffect DEF Journals
<1>5. TxInv' /\ tx' \in Txs BY <1>2, <1>3, <1>4, TxFreed
<1>6. EntryInv' /\ RecordInv' BY <1>2, <1>3 DEF EntryInv, RecordInv
<1>7. WorkerInv' BY <1>2, <1>3 DEF IInv, StateInv, WorkerInv, JournalsLast
<1>8. WatchInv' BY <1>3 DEF IInv, StateInv, WatchInv
<1>9. RecordStep BY <1>3, RecordSame
<1>10. AnswerInv' BY <1>2, <1>3 DEF AnswerInv, StopAnswerHonoured, AcknowledgedDurable
<1>11. TypeInv'
  <2>1. StoreType' BY <1>1, <1>3, TypeParts DEF StoreType
  <2> QED BY <1>1, <1>3, <1>4, <1>5, <2>1, TypeParts, TypeMoves
<1> QED BY <1>5, <1>6, <1>7, <1>8, <1>9, <1>10, <1>11 DEF Step, IInv, StateInv

-----------------------------------------------------------------------------
(* The watcher and the acknowledgement, which hold no lifecycle lock *)

\* The next turn of the watcher: off when it was cancelled.
LEMMA AgainEffect ==
  ASSUME NEW p \in {"poll", "reconnect"}
  PROVE  /\ Again(p) \in Watches /\ ~Again(p).cancel /\ Again(p).pc \in {"off", p}
         /\ w.cancel => Again(p).pc = "off"
<1>1. WatchOff \in Watches /\ WatchOff.pc = "off" /\ ~WatchOff.cancel BY DEF WatchOff, Watches
<1>2. LET v == [WatchOff EXCEPT !.pc = p] IN v \in Watches /\ v.pc = p /\ ~v.cancel
  BY DEF WatchOff, Watches
<1>3. CASE w.cancel BY <1>1, <1>3 DEF Again
<1>4. CASE ~w.cancel
  <2>1. Again(p) = [WatchOff EXCEPT !.pc = p] BY <1>4 DEF Again
  <2> QED BY <1>2, <1>4, <2>1
<1> QED BY <1>3, <1>4

\* A watcher that is not off watches an entry that has a handle.
LEMMA Watched ==
  ASSUME IInv, w.pc # "off", w.pc # "exit"
  PROVE  /\ mem # None /\ mem.handle # "none" /\ ~w.cancel
BY DEF IInv, StateInv, WatchInv, Unwatched

\* Only the watcher moves.
LEMMA WatchMoves ==
  ASSUME IInv, UNCHANGED worker, UNCHANGED <<rec, undo, mem, tx, ack, retry, rq, stopOk>>, Frame,
         w' \in Watches, WatchInv', faults' \in 0..Faults, tx.who = "watch" => w'.pc = "classify"
  PROVE  Step
<1>1. TypeInv /\ UNCHANGED <<up, reverted>> BY DEF IInv, Frame
<1>2. WorkerType' /\ UNCHANGED acked /\ Aged /\ Unstopped BY <1>1, WorkerSame, SameAges
<1>3. TxInv' BY <1>1, <1>2, TxKept
<1>4. tx' \in Txs /\ ack' \in Acks /\ retry' \in Retries BY <1>1, TypeParts
<1> QED BY <1>2, <1>3, <1>4, Moves

\* The watcher sees the exit and takes its bases.
LEMMA WatchExitStep ==
  ASSUME IInv, WatchExit, Frame
  PROVE  Step
<1>1. TypeInv /\ up /\ w.pc = "poll" /\ mem # None /\ mem.handle = "worker" /\ phase = "exited"
  BY DEF IInv, WatchExit
<1>2. /\ UNCHANGED worker /\ UNCHANGED <<rec, undo, mem, tx, ack, retry, rq, stopOk>>
      /\ faults' \in 0..Faults /\ UNCHANGED phase
  BY <1>1, TypeParts DEF WatchExit, store, worker
<1>3. mem \in Entries /\ EntryOk(mem) /\ w \in Watches /\ rec \in Records \cup {None}
  BY <1>1, Entry, TypeParts
<1>4. tx.who # "watch" BY <1>1 DEF IInv, TxInv, LockInv
<1>5. CASE mem.st \in Ended /\ ~mem.stopping
  <2>1. w' = WatchOff BY <1>5 DEF WatchExit
  <2>2. w' \in Watches /\ WatchInv' BY <1>3, <2>1, WatchEffect DEF WatchInv
  <2> QED BY <1>2, <1>4, <2>2, WatchMoves
<1>6. CASE ~(mem.st \in Ended /\ ~mem.stopping)
  <2>1. mem.st = "live" /\ mem.rt = "live" BY <1>1, <1>3, <1>6 DEF EntryOk, Entries
  <2>2. /\ BaseOf(mem) \in Bases /\ BaseOf(mem).st = "live" /\ BaseOf(mem).rt = "live"
        /\ BaseOf(mem).des = mem.des
    BY <1>3, <2>1 DEF BaseOf, Entries, Bases
  <2>3. w' = [w EXCEPT !.pc = "exit", !.base = BaseOf(mem), !.rec = rec,
                       !.stopped = mem.stopping \/ mem.des # "running"]
    BY <1>6 DEF WatchExit
  <2>4. (mem.stopping \/ mem.des # "running") <=> mem.des # "running" BY <1>3 DEF EntryOk
  <2>5. /\ w' \in Watches /\ w'.pc = "exit" /\ w'.base = BaseOf(mem)
        /\ (w'.stopped <=> mem.des # "running") /\ w'.cancel = w.cancel
    BY <1>3, <2>2, <2>3, <2>4 DEF Watches
  <2>6. ~w.cancel BY <1>1, Watched
  <2>7. WatchInv'
    <3>1. ~Unwatched(mem') BY <1>1, <1>2 DEF Unwatched
    <3>2. BaseOf(mem) # None BY <2>2, NoneDistinct
    <3> QED BY <1>1, <1>2, <2>2, <2>5, <2>6, <3>1, <3>2 DEF WatchInv
  <2> QED BY <1>2, <1>4, <2>5, <2>7, WatchMoves
<1> QED BY <1>5, <1>6

\* The watcher commits an exit without the lock: the bases still hold, so no
\* reconciliation is at work on the record, and a request is at a step that
\* agrees with the end.
LEMMA WatchCommitStep ==
  ASSUME IInv, WatchCommit, Frame
  PROVE  Step
<1>1. /\ TypeInv /\ up /\ w.pc = "exit" /\ w.base # None /\ w.base.st = "live"
      /\ w.base.rt = "live" /\ (w.stopped <=> w.base.des # "running") /\ phase # "running"
  BY DEF IInv, StateInv, WatchInv, WatchCommit
<1>2. UNCHANGED worker /\ UNCHANGED <<tx, retry, rq, stopOk, up, reverted>>
  BY DEF WatchCommit, Frame
<1>3. tx.who # "watch" BY <1>1 DEF IInv, TxInv, LockInv
<1>4. /\ tx' \in Txs /\ retry' \in Retries /\ rq' \in {"none", "stop", "remove"}
      /\ stopOk' \in BOOLEAN /\ w \in Watches
  BY <1>1, <1>2, TypeParts
<1>5. CASE BasesCurrent(w.base, w.rec) /\ InstallExit(ExitRecord(mem, w.stopped)) /\ w' = WatchOff
  <2>1. /\ mem # None /\ mem.st = "live" /\ mem.rt = "live"
        /\ (w.stopped <=> mem.des # "running")
    BY <1>1, <1>5 DEF BasesCurrent, BaseOf
  <2>2. mem.handle # "none" BY <2>1, Entry DEF EntryOk
  <2>3. w.stopped \in BOOLEAN BY <1>4 DEF Watches
  <2>4. /\ EntryInv' /\ RecordInv' /\ WorkerInv' /\ RecordStep /\ StoreType'
        /\ WorkerType' /\ UNCHANGED <<phase, outcome, journal, acked>>
        /\ ack' \in Acks /\ (ack'.pc = "send" => ack.pc = "send")
        /\ faults' \in 0..Faults
        /\ mem' # None /\ mem'.handle = mem.handle /\ mem'.des = mem.des /\ ~mem'.stopping
        /\ (w.stopped => mem'.st = "stopped")
        /\ rec' # None /\ rec'.des = mem.des
    BY <1>1, <1>2, <1>5, <2>1, <2>2, <2>3, ExitInstalled
  <2>5. undo' \in Records \cup {None} BY <2>4 DEF StoreType
  <2>6. TxInv' BY <1>2, <1>3, <1>4, <2>1, <2>2, <2>4, TxEntry
  <2>7. w' \in Watches /\ WatchInv' BY <1>4, <1>5, WatchEffect DEF WatchInv
  <2>8. AnswerInv' BY <1>2, <2>4, AnswersKept
  <2>9. TypeInv' BY <1>1, <1>4, <2>4, <2>7, TypeMoves
  <2> QED BY <2>4, <2>6, <2>7, <2>8, <2>9 DEF Step, IInv, StateInv
<1>6. CASE w' = Again("poll") /\ UNCHANGED <<store, mem, ack>> /\ (NoFault \/ Fault)
  <2>1. /\ w' \in Watches /\ ~w'.cancel /\ w'.pc \in {"off", "poll"}
        /\ w.cancel => w'.pc = "off"
    BY <1>6, AgainEffect
  <2>2. WatchInv' BY <1>1, <1>6, <2>1 DEF IInv, StateInv, WatchInv, Unwatched
  <2>3. faults' \in 0..Faults /\ UNCHANGED <<rec, undo, mem, ack>>
    BY <1>1, <1>6, FaultEffect DEF store
  <2> QED BY <1>2, <1>3, <2>1, <2>2, <2>3, WatchMoves
<1> QED BY <1>5, <1>6 DEF WatchCommit

\* The entry changes its runtime state or its handle; its session state, its
\* intent and its stop mark stay.
LEMMA EntryMoves ==
  ASSUME IInv, UNCHANGED worker, UNCHANGED <<ack, rq, stopOk>>, Frame, mem # None,
         mem.handle # "none", mem' \in Entries, mem'.handle # "none", mem'.st = mem.st,
         mem'.des = mem.des, mem'.stopping = mem.stopping, mem'.rt # "terminal" \/ mem'.rt = mem.rt,
         mem'.handle = "worker" /\ mem'.st = "live" => mem'.rt = "live",
         (UNCHANGED <<rec, undo>> /\ faults' \in 0..Faults)
           \/ Write(session_record(mem', "none")),
         tx' \in Txs, tx'.who = tx.who, tx'.pc = tx.pc, tx'.base = tx.base, tx'.des = tx.des,
         tx'.direct = tx.direct, tx'.pend = tx.pend, tx'.rec = tx.rec, tx'.prev = tx.prev,
         tx.who = "watch" => w'.pc = "classify",
         w' \in Watches, WatchInv', retry' \in Retries
  PROVE  Step
<1>1. TypeInv /\ UNCHANGED <<up, reverted>> BY DEF IInv, Frame
<1>2. /\ mem \in Entries /\ rec \in Records /\ rec # None /\ EntryOk(mem) /\ rec.st = mem.st
      /\ Good(mem, phase, outcome) /\ Paired(mem, rec, outcome, reverted)
  BY Entry
<1>3. WorkerType' /\ UNCHANGED <<phase, outcome, journal, acked>> BY <1>1, WorkerSame
<1>4. mem' # None BY NoneDistinct
<1>5. Good(mem', phase, outcome) BY <1>2 DEF Good
<1>6. EntryOk(mem') BY <1>2 DEF EntryOk
<1>7. /\ EntryInv' /\ RecordInv' /\ WorkerInv' /\ rec' \in Records /\ rec' # None
      /\ rec'.st = mem.st /\ (rec' = rec \/ rec'.des = mem.des)
      /\ undo' \in Records \cup {None} /\ faults' \in 0..Faults
  <2>1. CASE UNCHANGED <<rec, undo>> /\ faults' \in 0..Faults
    <3>1. Paired(mem', rec, outcome, reverted) BY <1>2 DEF Paired
    <3>2. EntryInv' BY <1>1, <1>3, <1>5, <1>6, <2>1, <3>1 DEF EntryInv
    <3>3. RecordInv' /\ WorkerInv'
      BY <1>1, <1>3, <2>1 DEF IInv, StateInv, RecordInv, WorkerInv, JournalsLast
    <3> QED BY <1>1, <1>2, <2>1, <3>2, <3>3, TypeParts
  <2>2. CASE Write(session_record(mem', "none"))
    <3> DEFINE r == session_record(mem', "none")
    <3>1. r \in Records /\ r.st = mem.st /\ r.des = mem.des /\ r.rt = mem'.rt
      BY DEF session_record, Records, Entries
    <3>2. Write(r) BY <2>2
    <3> HIDE DEF r
    <3>3. rec' = r /\ r # None /\ undo' \in Records \cup {None} /\ faults' \in 0..Faults
      BY <1>1, <3>1, <3>2, WriteEffect, NoneDistinct
    <3>4. Good(r, phase, outcome) BY <1>5, <3>1 DEF Good
    <3>5. /\ outcome = "user" /\ ~reverted => r.des # "running"
          /\ Paired(mem', r, outcome, reverted)
      BY <1>2, <3>1, <3>3 DEF Paired
    <3>6. EntryInv' /\ RecordInv' /\ WorkerInv'
      BY <1>1, <1>2, <1>3, <1>5, <1>6, <3>1, <3>2, <3>4, <3>5, StateWritten
    <3> QED BY <3>1, <3>3, <3>6
  <2> QED BY <2>1, <2>2
<1>8. TxInv' BY <1>1, <1>3, <1>4, <1>7, TxEntry
<1>9. RecordStep BY <1>2, <1>7, RecordSame
<1>10. AnswerInv' BY <1>1, <1>3, <1>9, AnswersKept
<1>11. TypeInv'
  <2>1. StoreType' BY <1>7 DEF StoreType
  <2> QED BY <1>1, <1>3, <1>7, <2>1, TypeParts, TypeMoves
<1> QED BY <1>7, <1>8, <1>9, <1>10, <1>11 DEF Step, IInv, StateInv

\* The watcher loses the connection.
LEMMA WatchLostStep ==
  ASSUME IInv, WatchLost, Frame
  PROVE  Step
<1>1. TypeInv /\ w.pc = "poll" BY DEF IInv, WatchLost
<1>2. mem # None /\ mem.handle # "none" /\ ~w.cancel BY <1>1, Watched
<1>3. /\ UNCHANGED worker /\ UNCHANGED <<rec, undo, tx, ack, retry, rq, stopOk>>
      /\ faults' \in 0..Faults /\ w \in Watches /\ tx' \in Txs /\ retry' \in Retries
  BY <1>1, TypeParts DEF WatchLost, store
<1>4. mem \in Entries BY <1>2, Entry
<1>5. /\ mem' \in Entries /\ mem'.handle = "torn" /\ mem'.st = mem.st /\ mem'.des = mem.des
      /\ mem'.stopping = mem.stopping /\ mem'.rt = "lostconn"
  BY <1>4 DEF WatchLost, Entries, RuntimeStates, Reconnecting
<1>6. w' \in Watches /\ w'.pc = "classify" /\ w'.cancel = w.cancel
  BY <1>3 DEF WatchLost, Watches
<1>7. WatchInv'
  <2>1. ~Unwatched(mem') BY <1>5, NoneDistinct DEF Unwatched
  <2> QED BY <1>2, <1>6, <2>1 DEF WatchInv
<1> QED BY <1>2, <1>3, <1>5, <1>6, <1>7, EntryMoves

\* A connection tears.
LEMMA ConnectionLostStep ==
  ASSUME IInv, ConnectionLost
  PROVE  Step
<1>1. TypeInv /\ mem # None /\ mem.handle = "worker" BY DEF IInv, ConnectionLost
<1>2. /\ UNCHANGED worker /\ UNCHANGED <<rec, undo, tx, w, ack, retry, rq, stopOk>> /\ Frame
      /\ faults' \in 0..Faults /\ w' \in Watches /\ tx' \in Txs /\ retry' \in Retries
  BY <1>1, TypeParts, FaultEffect DEF ConnectionLost, store, ghosts, Frame
<1>3. mem \in Entries BY <1>1, Entry
<1>4. /\ mem' \in Entries /\ mem'.handle = "torn" /\ mem'.st = mem.st /\ mem'.des = mem.des
      /\ mem'.stopping = mem.stopping /\ mem'.rt = mem.rt
  BY <1>3 DEF ConnectionLost, Entries
<1>5. WatchInv'
  <2>1. ~Unwatched(mem') BY <1>4, NoneDistinct DEF Unwatched
  <2>2. UNCHANGED phase BY <1>2 DEF worker
  <2> QED BY <1>2, <2>1, <2>2 DEF IInv, StateInv, WatchInv
<1>6. tx.who = "watch" => w'.pc = "classify" BY <1>2 DEF IInv, TxInv, LockInv
<1> QED BY <1>1, <1>2, <1>4, <1>5, <1>6, EntryMoves

\* The watcher reconnects and writes the record, without the lock
\* (adopt_reconnected_worker).
LEMMA WatchReconnectStep ==
  ASSUME IInv, WatchReconnect, Frame
  PROVE  Step
<1>1. TypeInv /\ w.pc = "reconnect" BY DEF IInv, WatchReconnect
<1>2. mem # None /\ mem.handle # "none" /\ ~w.cancel BY <1>1, Watched
<1>3. /\ UNCHANGED worker /\ UNCHANGED <<ack, retry, rq, stopOk>>
      /\ w \in Watches /\ tx \in Txs /\ retry' \in Retries
  BY <1>1, TypeParts DEF WatchReconnect
<1>4. tx.who # "watch" BY <1>1 DEF IInv, TxInv, LockInv
<1>5. CASE /\ mem' = [mem EXCEPT !.rt = "live", !.handle = "worker"]
           /\ Write(session_record(mem', "none"))
           /\ tx' = [tx EXCEPT !.same = tx.who # "op"] /\ w' = Again("poll")
  <2>1. mem \in Entries BY <1>2, Entry
  <2>2. /\ mem' \in Entries /\ mem'.handle = "worker" /\ mem'.st = mem.st /\ mem'.des = mem.des
        /\ mem'.stopping = mem.stopping /\ mem'.rt = "live"
    BY <1>5, <2>1 DEF Entries, RuntimeStates
  <2>3. /\ tx' \in Txs /\ tx'.who = tx.who /\ tx'.pc = tx.pc /\ tx'.base = tx.base
        /\ tx'.des = tx.des /\ tx'.direct = tx.direct /\ tx'.pend = tx.pend
        /\ tx'.rec = tx.rec /\ tx'.prev = tx.prev
    BY <1>3, <1>5 DEF Txs
  <2>4. /\ w' \in Watches /\ ~w'.cancel /\ w'.pc \in {"off", "poll"} BY <1>5, AgainEffect
  <2>5. WatchInv'
    <3>1. ~Unwatched(mem') BY <2>2, NoneDistinct DEF Unwatched
    <3> QED BY <2>4, <3>1 DEF WatchInv
  <2> QED BY <1>2, <1>3, <1>4, <1>5, <2>2, <2>3, <2>4, <2>5, EntryMoves
<1>6. CASE Fault /\ UNCHANGED <<store, mem, tx, w>>
  <2>1. WatchInv' /\ UNCHANGED <<rec, undo>>
    BY <1>3, <1>6 DEF IInv, StateInv, WatchInv, store, worker
  <2>2. faults' \in 0..Faults BY <1>1, <1>6, FaultEffect
  <2> QED BY <1>3, <1>4, <1>6, <2>1, <2>2, WatchMoves
<1> QED BY <1>5, <1>6 DEF WatchReconnect

\* The watcher gives up reconnecting.
LEMMA WatchUnreachableStep ==
  ASSUME IInv, WatchUnreachable, Frame
  PROVE  Step
<1>1. TypeInv /\ w.pc = "reconnect" BY DEF IInv, WatchUnreachable
<1>2. ~w.cancel /\ ~Unwatched(mem) BY <1>1, Watched DEF Unwatched
<1>3. /\ UNCHANGED worker /\ UNCHANGED <<rec, undo, mem, tx, ack, retry, rq, stopOk>>
      /\ faults' \in 0..Faults /\ w \in Watches
  BY <1>1, TypeParts DEF WatchUnreachable, store
<1>4. w' \in Watches /\ w'.pc = "classify" /\ w'.cancel = w.cancel
  BY <1>3 DEF WatchUnreachable, Watches
<1>5. WatchInv' BY <1>2, <1>3, <1>4 DEF WatchInv, Unwatched
<1> QED BY <1>3, <1>4, <1>5, WatchMoves

\* The watcher takes the lock and classifies the worker (classify_lost_worker).
LEMMA ClassifyStep ==
  ASSUME IInv, Classify, Frame
  PROVE  Step
<1>1. TypeInv /\ up /\ w.pc = "classify" /\ tx.who = "none" BY DEF IInv, Classify, Free
<1>2. mem # None /\ mem.handle # "none" /\ ~w.cancel BY <1>1, Watched
<1>3. /\ UNCHANGED <<rec, undo, mem, ack, rq, stopOk, up, reverted>>
      /\ retry' \in Retries /\ ack' \in Acks
  BY <1>1, TypeParts DEF Classify, store, Frame
<1>4. faults' \in 0..Faults BY <1>1, FaultEffect DEF Classify
<1>5. rec # None /\ (mem.stopping => mem.handle = "none") BY <1>1, <1>2, Entry
<1>6. WorkerType' /\ UNCHANGED acked /\ Aged /\ (phase = "gone" => phase' = "gone")
      /\ (phase # "running" => phase' # "running")
  BY <1>1, WorkerSame, SameAges, RetireAges DEF Classify, Aged, Ages
<1>7. CASE w' = Again("reconnect") /\ UNCHANGED <<worker, tx>>
  <2>1. /\ w' \in Watches /\ ~w'.cancel /\ w'.pc \in {"off", "reconnect"}
    BY <1>7, AgainEffect
  <2>2. WatchInv' BY <1>2, <1>3, <2>1 DEF WatchInv, Unwatched
  <2> QED BY <1>1, <1>3, <1>4, <1>7, <2>1, <2>2, WatchMoves DEF Classify
<1>8. ASSUME NEW p \in {"conflict", "reconn", "lost"}, NEW proven \in BOOLEAN, Mark(p, proven),
             p = "lost" => phase = "gone"
      PROVE  Step
  <2>1. UNCHANGED w /\ w' \in Watches BY <1>1, <1>8, TypeParts DEF Mark
  <2>2. tx' \in Txs /\ tx'.who = "watch" /\ tx'.pc = "mark" /\ tx'.pend = p
    BY <1>8 DEF Mark, NoTx, Txs, Pcs, DesiredStates, RuntimeStates, Reconnecting
  <2>3. WatchInv' BY <1>3, <1>6, <2>1 DEF IInv, StateInv, WatchInv
  <2>4. LockInv' BY <1>1, <1>3, <1>5, <1>6, <1>8, <2>1, <2>2 DEF LockInv
  <2>5. SavedInv' /\ OpInv' /\ BackInv' /\ RcInv'
    BY <2>2 DEF SavedInv, OpInv, BackInv, RcInv, Reconciling
  <2>6. TxInv' BY <2>4, <2>5 DEF TxInv
  <2> QED BY <1>3, <1>4, <1>6, <2>1, <2>2, <2>3, <2>6, Moves
<1> QED BY <1>7, <1>8 DEF Classify

\* The classification is recorded (mark_worker_unavailable).
LEMMA MarkUnavailableStep ==
  ASSUME IInv, MarkUnavailable, Frame
  PROVE  Step
<1>1. TypeInv /\ up /\ tx.pc = "mark" BY DEF IInv, MarkUnavailable, At
<1>2. /\ tx.who = "watch" /\ w.pc = "classify" /\ tx.pend \in {"conflict", "reconn", "lost"}
      /\ tx.pend = "lost" => phase = "gone"
  BY <1>1, Holder DEF IInv, TxInv, LockInv
<1>3. mem # None /\ mem.handle # "none" /\ ~w.cancel BY <1>2, Watched
<1>4. /\ mem \in Entries /\ rec \in Records /\ rec # None /\ EntryOk(mem) /\ rec.st = mem.st
      /\ Good(mem, phase, outcome) /\ Paired(mem, rec, outcome, reverted) /\ ~mem.stopping
  BY <1>2, <1>3, Entry
<1>5. /\ UNCHANGED worker /\ UNCHANGED <<ack, rq, stopOk, up, reverted>> /\ tx' = NoTx
      /\ w \in Watches
  BY <1>1, TypeParts DEF MarkUnavailable, Frame
<1>6. WorkerType' /\ UNCHANGED <<phase, outcome, journal, acked>> /\ Aged
  BY <1>1, <1>5, WorkerSame, SameAges
<1> DEFINE st == IF tx.pend = "lost" THEN present_lost_runtime(mem.st, mem.des, tx.proven)
                 ELSE mem.st
           e  == [mem EXCEPT !.st = st, !.rt = tx.pend, !.handle = "none"]
           r  == session_record(e, "none")
<1>7. CASE /\ Write(r) /\ mem' = e /\ w' = WatchOff
           /\ IF tx.pend = "lost" THEN UNCHANGED retry ELSE schedule_supervision_retry
  <2>1. /\ st \in Ended \cup {"live"} /\ (mem.st \in Ended => st = mem.st)
        /\ st # mem.st => /\ mem.st = "live" /\ tx.pend = "lost"
                          /\ st = IF mem.des = "running" THEN "failed" ELSE "stopped"
    BY <1>4 DEF present_lost_runtime, Entries
  <2> HIDE DEF st
  <2>2. /\ e \in Entries /\ e.st = st /\ e.des = mem.des /\ e.rt = tx.pend
        /\ e.handle = "none" /\ ~e.stopping
    BY <1>2, <1>4, <2>1 DEF Entries, RuntimeStates, Reconnecting
  <2> HIDE DEF e
  <2>3. r \in Records /\ r.st = st /\ r.des = mem.des /\ r.rt = tx.pend
    BY <2>2 DEF session_record, Records, Entries
  <2> HIDE DEF r
  <2>4. /\ rec' = r /\ r # None /\ undo' \in Records \cup {None} /\ faults' \in 0..Faults
        /\ mem' # None
    BY <1>1, <1>7, <2>2, <2>3, WriteEffect, NoneDistinct
  <2>5. Good(e, phase, outcome) /\ Good(r, phase, outcome)
    BY <1>2, <1>4, <2>1, <2>2, <2>3 DEF Good
  <2>6. EntryOk(e) BY <1>2, <2>2 DEF EntryOk
  <2>7. /\ outcome = "user" /\ ~reverted => r.des # "running"
        /\ Paired(e, r, outcome, reverted)
    BY <1>3, <1>4, <2>2, <2>3, <2>4 DEF Paired
  <2>8. EntryInv' /\ RecordInv' /\ WorkerInv'
    BY <1>4, <1>5, <1>6, <1>7, <2>3, <2>5, <2>6, <2>7, StateWritten
  <2>9. w' \in Watches /\ WatchInv' BY <1>5, <1>7, WatchEffect DEF WatchInv
  <2>10. RecordStep BY <1>3, <1>4, <2>1, <2>3, <2>4 DEF RecordStep
  <2>11. AnswerInv' BY <1>5, <1>6, <2>10, AnswersKept
  <2>12. TxInv' /\ tx' \in Txs BY <1>1, <1>5, <1>7, <2>2, TxFreed
  <2>13. TypeInv'
    <3>1. StoreType' BY <1>7, <2>2, <2>3, <2>4 DEF StoreType
    <3>2. retry' \in Retries BY <1>1, <1>7, TypeParts, RetryEffect
    <3> QED BY <1>1, <1>5, <1>6, <2>4, <2>9, <2>12, <3>1, <3>2, TypeParts, TypeMoves
  <2> QED BY <2>8, <2>9, <2>10, <2>11, <2>12, <2>13 DEF Step, IInv, StateInv
<1>8. CASE Fault /\ w' = Again("reconnect") /\ UNCHANGED <<store, mem, retry>>
  <2>1. /\ w' \in Watches /\ ~w'.cancel /\ w'.pc \in {"off", "reconnect"}
    BY <1>8, AgainEffect
  <2>2. UNCHANGED <<rec, undo>> /\ faults' \in 0..Faults /\ retry' \in Retries /\ ack' \in Acks
    BY <1>1, <1>5, <1>8, FaultEffect, TypeParts DEF store
  <2>3. WatchInv' BY <1>3, <1>8, <2>1 DEF WatchInv, Unwatched
  <2>4. TxInv' /\ tx' \in Txs BY <1>1, <1>4, <1>5, <1>8, TxFreed
  <2> QED BY <1>5, <1>6, <1>8, <2>1, <2>2, <2>3, <2>4, Moves
<1> QED BY <1>7, <1>8 DEF MarkUnavailable

\* Only the acknowledgement, the worker and the retry set move.
LEMMA AckMoves ==
  ASSUME IInv, Aged, Unstopped, WorkerType', UNCHANGED <<rec, undo, mem, tx, w, rq, stopOk>>,
         Frame, ack' \in Acks, schedule_supervision_retry \/ UNCHANGED retry, NoFault \/ Fault,
         acked' => acked \/ ack.pc = "send",
         ack'.pc = "send" => ack.pc = "send" \/ rec = None \/ rec.st \in Ended
  PROVE  Step
<1>1. TypeInv /\ UNCHANGED <<up, reverted>> BY DEF IInv, Frame
<1>2. /\ tx' \in Txs /\ w' \in Watches /\ retry' \in Retries /\ faults' \in 0..Faults
  BY <1>1, TypeParts, RetryEffect, FaultEffect
<1>3. WatchInv' BY <1>1, StateKept
<1>4. tx.who = "watch" => w'.pc = "classify" BY DEF IInv, TxInv, LockInv
<1>5. TxInv' BY <1>1, <1>4, TxKept
<1> QED BY <1>2, <1>3, <1>5, Moves

\* The acknowledgement waits out the lock.
LEMMA AckBarrierStep ==
  ASSUME IInv, AckBarrier, Frame
  PROVE  Step
<1>1. TypeInv BY DEF IInv
<1>2. /\ UNCHANGED worker /\ UNCHANGED <<rec, undo, mem, tx, w, rq, stopOk, retry>> /\ NoFault
      /\ ack \in Acks
  BY <1>1, TypeParts DEF AckBarrier, store, NoFault
<1>3. WorkerType' /\ UNCHANGED acked /\ Aged /\ Unstopped BY <1>1, <1>2, WorkerSame, SameAges
<1>4. CASE mem # None /\ mem.st \in Ended /\ mem.des # "removed"
  <2>1. rec.st \in Ended BY <1>4, Entry
  <2>2. ack' \in Acks BY <1>2, <1>4 DEF AckBarrier, Acks
  <2> QED BY <1>2, <1>3, <2>1, <2>2, AckMoves
<1>5. CASE ~(mem # None /\ mem.st \in Ended /\ mem.des # "removed")
  <2>1. ack' \in Acks /\ ack'.pc = "off" BY <1>5 DEF AckBarrier, AckOff, Acks
  <2> QED BY <1>2, <1>3, <2>1, AckMoves
<1> QED BY <1>4, <1>5

\* The worker is acknowledged; the answer may be lost.
LEMMA AckSendStep ==
  ASSUME IInv, AckSend, Frame
  PROVE  Step
<1>1. TypeInv /\ ack.pc = "send" /\ acked \in BOOLEAN
  BY DEF IInv, AckSend, AckAt, TypeInv, WorkerType
<1>2. /\ UNCHANGED <<phase, hung, outcome, journal, loose, job, rec, undo, mem, tx, w, rq, stopOk>>
      /\ ack \in Acks
  BY <1>1, TypeParts DEF AckSend, store
<1>3. acked' \in BOOLEAN /\ (NoFault \/ Fault)
      /\ (schedule_supervision_retry \/ UNCHANGED retry)
  BY <1>1 DEF AckSend
<1>4. ack' \in Acks
  <2>1. AckOff \in Acks BY DEF AckOff, Acks
  <2>2. [ack EXCEPT !.pc = "retire"] \in Acks BY <1>2 DEF Acks
  <2>3. ack' = AckOff \/ ack' = [ack EXCEPT !.pc = "retire"] BY DEF AckSend
  <2> QED BY <2>1, <2>2, <2>3
<1>5. WorkerType' BY <1>1, <1>2, <1>3 DEF TypeInv, WorkerType
<1>6. Aged /\ Unstopped BY <1>2, SameAges
<1> QED BY <1>1, <1>2, <1>3, <1>4, <1>5, <1>6, AckMoves

\* The acknowledged worker's job is retired.
LEMMA AckRetireStep ==
  ASSUME IInv, AckRetire, Frame
  PROVE  Step
<1>1. TypeInv BY DEF IInv
<1>2. /\ UNCHANGED <<rec, undo, mem, tx, w, rq, stopOk>> /\ (NoFault \/ Fault)
      /\ (schedule_supervision_retry \/ UNCHANGED retry)
      /\ ack' \in Acks /\ ack'.pc = "off"
  BY DEF AckRetire, store, AckOff, Acks
<1>3. WorkerType' /\ UNCHANGED acked /\ Aged /\ Unstopped
  BY <1>1, WorkerSame, SameAges, RetireAges DEF AckRetire
<1> QED BY <1>2, <1>3, AckMoves

-----------------------------------------------------------------------------
(* Reconciliation *)

\* A reconciliation ends.
LEMMA SettleEffect ==
  ASSUME TypeInv, NEW again \in BOOLEAN, Settle(again)
  PROVE  tx' = NoTx /\ retry' \in Retries
<1>1. retry \in Retries BY TypeParts
<1> QED BY <1>1 DEF Settle, Retries

\* What a reconciliation at one of its deciding steps knows.
LEMMA Reconciled ==
  ASSUME IInv, Reconciling, up, tx.pc \in Known
  PROVE  /\ rec \in Records /\ rec # None /\ tx.rec = rec /\ Unwatched(mem)
         /\ Good(rec, phase, outcome) /\ (outcome = "user" /\ ~reverted => rec.des # "running")
<1>1. rec # None /\ tx.rec = rec /\ Unwatched(mem)
  BY Holder DEF IInv, TxInv, RcInv, Known
<1> QED BY <1>1, TypeParts DEF IInv, StateInv, RecordInv

\* write_record_and_install keeps every part of the invariant when the new
\* record follows from the recorded one.
LEMMA RcInstalled ==
  ASSUME IInv, Reconciling, up, tx.pc \in Known, Frame, UNCHANGED worker, UNCHANGED <<rq, stopOk>>,
         NEW r \in Records, NEW e \in Entries, Install(r, e),
         Good(r, phase, outcome), outcome = "user" /\ ~reverted => r.des # "running",
         e.st = r.st, e.des = r.des, e.rt = r.rt, ~e.stopping, e.handle \in {"none", "worker"},
         e.handle = "worker" <=> r.rt = "live",
         rec.st \in Ended => r.st \in Ended, rec.st = "stopped" => r.st = "stopped",
         rec.st \in Ended /\ rec.rt = "terminal" => r.st = rec.st,
         rec.st = "live" /\ r.st \in Ended /\ rec.des # "running" => r.st = "stopped",
         tx' = NoTx \/ (GoTo("jobretire") /\ e.handle = "none"), retry' \in Retries,
         ack' \in Acks, ack'.pc = "send" => ack.pc = "send"
  PROVE  Step
<1>1. TypeInv /\ UNCHANGED <<up, reverted>> BY DEF IInv, Frame
<1>2. rec \in Records /\ rec # None BY Reconciled
<1>3. WorkerType' /\ UNCHANGED <<phase, outcome, journal, acked>> BY <1>1, WorkerSame
<1>4. Write(r) /\ mem' = e BY DEF Install
<1>5. /\ rec' = r /\ r # None /\ undo' \in Records \cup {None} /\ faults' \in 0..Faults
      /\ mem' # None
  BY <1>1, <1>4, WriteEffect, NoneDistinct
<1>6. Good(e, phase, outcome) BY DEF Good
<1>7. EntryOk(e) BY DEF EntryOk
<1>8. Paired(e, r, outcome, reverted) BY <1>5 DEF Paired
<1>9. EntryInv' /\ RecordInv' /\ WorkerInv'
  BY <1>1, <1>2, <1>3, <1>4, <1>6, <1>7, <1>8, StateWritten
<1>10. w' \in Watches /\ WatchInv'
  <2>1. w \in Watches /\ WatchInv BY <1>1, TypeParts DEF IInv, StateInv
  <2>2. CASE e.handle = "worker"
    <3>1. w' = Watching BY <2>2 DEF Install
    <3> QED BY <1>4, <1>5, <2>1, <2>2, <3>1, WatchEffect DEF WatchInv, Unwatched
  <2>3. CASE e.handle # "worker"
    <3>1. w' = Cancelled(w) BY <2>3 DEF Install
    <3> QED BY <1>3, <2>1, <3>1, WatchEffect DEF WatchInv
  <2> QED BY <2>2, <2>3
<1>11. RecordStep BY <1>2, <1>5 DEF RecordStep
<1>12. AnswerInv' BY <1>1, <1>3, <1>11, AnswersKept
<1>13. TxInv' /\ tx' \in Txs
  <2>1. CASE tx' = NoTx BY <1>1, <1>4, <2>1, TxFreed
  <2>2. CASE GoTo("jobretire") /\ e.handle = "none"
    <3>1. tx' \in Txs /\ tx'.pc = "jobretire" /\ tx'.who = tx.who
      BY <1>1, <2>2, TxTo DEF GoTo, Pcs, RcPcs
    <3>2. RcInv' /\ Reconciling' BY <3>1 DEF RcInv, RcPcs, Known, Reconciling
    <3> QED BY <1>1, <1>4, <1>5, <2>2, <3>1, <3>2, RcMoves
  <2> QED BY <2>1, <2>2
<1>14. TypeInv'
  <2>1. StoreType' BY <1>4, <1>5 DEF StoreType
  <2> QED BY <1>1, <1>3, <1>5, <1>10, <1>13, <2>1, TypeParts, TypeMoves
<1> QED BY <1>9, <1>10, <1>11, <1>12, <1>13, <1>14 DEF Step, IInv, StateInv

\* A record becomes the entry of a session whose runtime is not reachable.
LEMMA UnavailableEffect ==
  ASSUME NEW r \in Records
  PROVE  LET e == unavailable_entry(r)
         IN  /\ e \in Entries /\ e.st = r.st /\ e.des = r.des /\ e.rt = r.rt
             /\ e.handle = "none" /\ ~e.stopping
BY DEF unavailable_entry, Records, Entries

\* write_record_and_install of an entry without a handle.
LEMMA RcUnavailable ==
  ASSUME IInv, Reconciling, up, tx.pc \in Known, Frame, UNCHANGED worker, UNCHANGED <<rq, stopOk>>,
         NEW r \in Records, Install(r, unavailable_entry(r)), r.rt # "live",
         Good(r, phase, outcome), outcome = "user" /\ ~reverted => r.des # "running",
         rec.st \in Ended => r.st \in Ended, rec.st = "stopped" => r.st = "stopped",
         rec.st \in Ended /\ rec.rt = "terminal" => r.st = rec.st,
         rec.st = "live" /\ r.st \in Ended /\ rec.des # "running" => r.st = "stopped",
         tx' = NoTx \/ GoTo("jobretire"), retry' \in Retries,
         ack' \in Acks, ack'.pc = "send" => ack.pc = "send"
  PROVE  Step
<1> DEFINE e == unavailable_entry(r)
<1>1. /\ e \in Entries /\ e.st = r.st /\ e.des = r.des /\ e.rt = r.rt
      /\ e.handle = "none" /\ ~e.stopping
  BY UnavailableEffect
<1>2. Install(r, e) OBVIOUS
<1> HIDE DEF e
<1> QED BY <1>1, <1>2, RcInstalled

\* list_pending: the write failed, and the session is listed all the same.
LEMMA RcListed ==
  ASSUME IInv, Reconciling, up, tx.pc \in Known, Frame, UNCHANGED worker,
         UNCHANGED <<rq, stopOk, ack>>, NEW r \in Records, r.st = rec.st, r.des = rec.des,
         ListPending(r), Settle(TRUE)
  PROVE  Step
<1>1. TypeInv /\ UNCHANGED <<up, reverted>> BY DEF IInv, Frame
<1>2. /\ rec \in Records /\ rec # None /\ Good(rec, phase, outcome) /\ Unwatched(mem)
      /\ (outcome = "user" /\ ~reverted => rec.des # "running")
  BY Reconciled
<1>3. /\ WorkerType' /\ UNCHANGED <<phase, outcome, journal, acked>> /\ UNCHANGED <<rec, undo, w>>
      /\ faults' \in 0..Faults
  BY <1>1, WorkerSame, FaultEffect DEF ListPending, store
<1>4. tx' = NoTx /\ retry' \in Retries BY <1>1, SettleEffect
<1>5. /\ mem' \in Entries /\ mem' # None /\ mem'.handle = "none"
      /\ Good(mem', phase, outcome) /\ EntryOk(mem') /\ Paired(mem', rec, outcome, reverted)
  <2>1. CASE mem # None
    <3>1. mem' = mem BY <2>1 DEF ListPending
    <3> QED BY <1>2, <2>1, <3>1, Entry DEF Unwatched
  <2>2. CASE mem = None
    <3> DEFINE q == [r EXCEPT !.rt = "reconn"]
               e == unavailable_entry(q)
    <3>1. q \in Records /\ q.st = r.st /\ q.des = r.des /\ q.rt = "reconn"
      BY DEF Records, RuntimeStates, Reconnecting
    <3>2. mem' = [e EXCEPT !.unp = TRUE] BY <2>2 DEF ListPending
    <3> HIDE DEF q
    <3>3. /\ e \in Entries /\ e.st = q.st /\ e.des = q.des /\ e.rt = q.rt
          /\ e.handle = "none" /\ ~e.stopping
      BY <3>1, UnavailableEffect
    <3> HIDE DEF e
    <3>4. /\ mem' \in Entries /\ mem'.st = rec.st /\ mem'.des = rec.des /\ mem'.rt = "reconn"
          /\ mem'.handle = "none" /\ ~mem'.stopping
      BY <3>1, <3>2, <3>3 DEF Entries
    <3>5. Good(mem', phase, outcome) /\ EntryOk(mem') BY <1>2, <3>4 DEF Good, EntryOk
    <3>6. Paired(mem', rec, outcome, reverted) BY <1>2, <3>4 DEF Paired
    <3> QED BY <3>4, <3>5, <3>6, NoneDistinct
  <2> QED BY <2>1, <2>2
<1>6. EntryInv' BY <1>1, <1>3, <1>5 DEF EntryInv
<1>7. RecordInv' /\ WorkerInv'
  BY <1>1, <1>3 DEF IInv, StateInv, RecordInv, WorkerInv, JournalsLast
<1>8. WatchInv' BY <1>2, <1>3 DEF IInv, StateInv, WatchInv
<1>9. RecordStep BY <1>3, RecordSame
<1>10. AnswerInv' BY <1>1, <1>3, <1>9, AnswersKept
<1>11. TxInv' /\ tx' \in Txs BY <1>1, <1>4, <1>5, TxFreed
<1>12. TypeInv'
  <2>1. StoreType' BY <1>1, <1>3, <1>5, TypeParts DEF StoreType
  <2> QED BY <1>1, <1>3, <1>4, <1>11, <2>1, TypeParts, TypeMoves
<1> QED BY <1>6, <1>7, <1>8, <1>9, <1>10, <1>11, <1>12 DEF Step, IInv, StateInv

\* insert_classified_record.
LEMMA RcInserted ==
  ASSUME IInv, Reconciling, up, tx.pc \in Known, Frame, UNCHANGED worker,
         UNCHANGED <<rq, stopOk, ack>>, NEW again \in BOOLEAN,
         NEW r \in Records, Insert(r, again), r.rt # "live",
         Good(r, phase, outcome), r.des = rec.des,
         rec.st \in Ended => r.st \in Ended, rec.st = "stopped" => r.st = "stopped",
         rec.st \in Ended /\ rec.rt = "terminal" => r.st = rec.st,
         rec.st = "live" /\ r.st \in Ended /\ rec.des # "running" => r.st = "stopped"
  PROVE  Step
<1>1. TypeInv /\ ack' \in Acks BY TypeParts DEF IInv
<1>2. /\ rec \in Records /\ tx.rec = rec
      /\ (outcome = "user" /\ ~reverted => rec.des # "running")
  BY Reconciled
<1>3. CASE Install(r, unavailable_entry(r)) /\ Settle(again)
  BY <1>1, <1>2, <1>3, SettleEffect, RcUnavailable
<1>4. CASE ListPending(tx.rec) /\ Settle(TRUE)
  BY <1>2, <1>4, RcListed
<1> QED BY <1>3, <1>4 DEF Insert

\* A reconciliation reads the record and decides (reconcile_logical).
LEMMA RcProbeStep ==
  ASSUME IInv, RcProbe, Frame
  PROVE  Step
<1>1. TypeInv /\ up /\ tx.pc = "probe" BY DEF IInv, RcProbe, At
<1>2. /\ UNCHANGED worker /\ UNCHANGED <<rec, undo, mem, w, ack, rq, stopOk, up, reverted>>
      /\ retry' \in Retries
  BY <1>1, TypeParts DEF RcProbe, store, Frame
<1>3. Reconciling /\ rec # None
  BY <1>1, Holder DEF RcPcs, OpPcs, OpEarly, Known
<1>4. Unwatched(mem) /\ rec \in Records /\ Good(rec, phase, outcome)
  BY <1>1, <1>3, TypeParts DEF IInv, TxInv, RcInv, StateInv, RecordInv
<1>5. WorkerType' /\ UNCHANGED <<phase, outcome, acked>> /\ Aged
  BY <1>1, <1>2, WorkerSame, SameAges
<1>6. faults' \in 0..Faults BY <1>1, FaultEffect DEF RcProbe
<1>7. ASSUME tx' \in Txs, tx'.who = tx.who, tx'.rec = rec, tx'.pc \in Known \ {"delete"},
             tx'.pc = "pend" => tx'.pend \in {"reconn", "conflict"},
             tx'.pc = "rpc" => rec.des # "running",
             tx'.pc \in {"import", "stopped"} => ~reverted,
             tx'.pc \in {"import", "journal"} => rec.des # "removed",
             tx'.pc # "stopped", tx'.pc # "lost",
             tx'.pc = "adopt" => rec.des = "running" /\ rec.st = "live",
             tx'.pc \in {"import", "journal"} => phase # "running"
      PROVE  Step
  <2>1. Reconciling' BY <1>3, <1>7 DEF Reconciling
  <2>2. RcInv' BY <1>2, <1>4, <1>5, <1>7 DEF RcInv, RcPcs, Unwatched
  <2>3. TxInv' BY <1>1, <1>2, <1>3, <1>4, <1>7, <2>1, <2>2, RcMoves DEF Known, Unwatched
  <2> QED BY <1>2, <1>5, <1>6, <1>7, <2>3, TaskMoves
<1>8. CASE tx' = [tx EXCEPT !.rec = rec, !.pc = "pend", !.pend = "conflict"]
  <2>1. /\ tx' \in Txs /\ tx'.who = tx.who /\ tx'.rec = rec /\ tx'.pc = "pend"
        /\ tx'.pend = "conflict"
    BY <1>1, <1>4, <1>8, TypeParts DEF Txs, Pcs, RcPcs, Known, RuntimeStates
  <2> QED BY <1>7, <2>1 DEF Known
<1>9. CASE tx' = [tx EXCEPT !.rec = rec, !.pc = Decision(rec)]
  <2> DEFINE d == Decision(rec)
  <2>1. /\ d \in {"rpc", "import", "adopt", "rmretire", "journal", "ended"}
        /\ d = "rpc" => rec.des # "running"
        /\ d \in {"import", "journal"} => rec.des # "removed"
        /\ d = "import" => phase = "exited"
        /\ d = "adopt" => rec.des = "running" /\ phase = "running"
        /\ d = "journal" => journal = "terminal"
    BY <1>4 DEF Decision, Answers, Records, DesiredStates
  <2>2. tx' = [tx EXCEPT !.rec = rec, !.pc = d] BY <1>9
  <2> HIDE DEF d
  <2>3. tx' \in Txs /\ tx'.who = tx.who /\ tx'.rec = rec /\ tx'.pc = d
    BY <1>1, <1>4, <2>1, <2>2, TypeParts DEF Txs, Pcs, RcPcs, Known
  <2>4. d = "import" => ~reverted BY <2>1 DEF IInv, StateInv, WorkerInv
  <2>5. d = "journal" => phase # "running" BY <2>1 DEF IInv, StateInv, WorkerInv
  <2>6. d = "adopt" => rec.st = "live" BY <1>4, <2>1 DEF Good, Records
  <2> QED BY <1>7, <2>1, <2>3, <2>4, <2>5, <2>6 DEF Known
<1> QED BY <1>8, <1>9 DEF RcProbe

\* A reconciliation records a pending classification (mark_pending).
LEMMA RcPendStep ==
  ASSUME IInv, RcPend, Frame
  PROVE  Step
<1>1. TypeInv /\ up /\ tx.pc = "pend" BY DEF IInv, RcPend, At
<1>2. /\ UNCHANGED worker /\ UNCHANGED <<ack, rq, stopOk, up, reverted>>
  BY DEF RcPend, Frame
<1>3. Reconciling BY <1>1, Holder DEF RcPcs, OpPcs, OpEarly, Known
<1>4. /\ rec \in Records /\ tx.rec = rec /\ Good(rec, phase, outcome) /\ Unwatched(mem)
  BY <1>1, <1>3, Reconciled DEF Known
<1>5. tx.pend \in {"reconn", "conflict"} BY <1>1, <1>3 DEF IInv, TxInv, RcInv
<1>6. WorkerType' /\ UNCHANGED acked /\ Aged BY <1>1, <1>2, WorkerSame, SameAges
<1>7. CASE Settle(TRUE) /\ NoFault /\ UNCHANGED <<store, mem, w>>
  <2>1. tx' = NoTx /\ retry' \in Retries BY <1>1, <1>7, SettleEffect
  <2>2. UNCHANGED <<rec, undo>> /\ faults' \in 0..Faults /\ rq' \in {"none", "stop", "remove"}
        /\ stopOk' \in BOOLEAN
    BY <1>1, <1>2, <1>7, TypeParts DEF store, NoFault
  <2> QED BY <1>2, <1>4, <1>6, <1>7, <2>1, <2>2, TaskEnds DEF Unwatched
<1>8. CASE Insert([tx.rec EXCEPT !.rt = tx.pend], TRUE)
  <2> DEFINE r == [tx.rec EXCEPT !.rt = tx.pend]
  <2>1. r \in Records /\ r.st = rec.st /\ r.des = rec.des /\ r.rt = tx.pend
    BY <1>4, <1>5 DEF Records, RuntimeStates, Reconnecting
  <2>2. Insert(r, TRUE) BY <1>8
  <2> HIDE DEF r
  <2>3. Good(r, phase, outcome) BY <1>4, <1>5, <2>1 DEF Good
  <2> QED BY <1>1, <1>2, <1>3, <1>5, <2>1, <2>2, <2>3, RcInserted DEF Known
<1> QED BY <1>7, <1>8 DEF RcPend

\* A reconciliation goes on; the store and the entry stay.
LEMMA RcGoes ==
  ASSUME IInv, Reconciling, up, tx.pc \in Known, Frame, Aged, WorkerType',
         UNCHANGED <<acked, rec, undo, mem, w, ack, rq, stopOk>>, retry' \in Retries,
         faults' \in 0..Faults, tx' \in Txs, tx'.who = tx.who, tx'.rec = tx.rec,
         tx'.pc \in {"stopped", "rmretire", "lost", "sweep"},
         tx'.pc = "stopped" => ~reverted /\ tx.rec.des = "stopped",
         tx'.pc \in {"stopped", "lost"} => phase' # "running"
  PROVE  Step
<1>1. UNCHANGED <<up, reverted>> BY DEF Frame
<1>2. rec # None /\ tx.rec = rec /\ Unwatched(mem) BY Reconciled
<1>3. Reconciling' BY DEF Reconciling
<1>4. RcInv' BY <1>1, <1>2 DEF RcInv, RcPcs, Known, Unwatched
<1>5. TxInv' BY <1>1, <1>2, <1>3, <1>4, RcMoves DEF Unwatched
<1> QED BY <1>5, TaskMoves

\* A reconciliation falls back to a pending classification.
LEMMA RcFalls ==
  ASSUME IInv, Reconciling, up, tx.pc \in Known \ {"delete"}, Frame, Aged, WorkerType',
         UNCHANGED <<acked, rec, undo, mem, w, ack, rq, stopOk>>, retry' \in Retries,
         faults' \in 0..Faults, NEW p \in {"reconn", "conflict"},
         tx' = [tx EXCEPT !.pc = "pend", !.pend = p]
  PROVE  Step
<1>1. TxInv' /\ tx' \in Txs BY RcPends DEF Frame
<1> QED BY <1>1, TaskMoves

\* A reconciliation replays the stop.
LEMMA RcRpcStep ==
  ASSUME IInv, RcRpc, Frame
  PROVE  Step
<1>1. TypeInv /\ up /\ tx.pc = "rpc" /\ tx.who # "op" BY DEF IInv, RcRpc, At
<1>2. /\ UNCHANGED <<rec, undo, mem, w, ack, rq, stopOk>> /\ retry' \in Retries
  BY <1>1, TypeParts DEF RcRpc, store
<1>3. faults' \in 0..Faults BY <1>1, FaultEffect DEF RcRpc
<1>4. Reconciling
  <2>1. tx.who \in {"none", "op", "watch", "start", "retry"} BY <1>1, TypeParts DEF Txs
  <2> QED BY <1>1, <2>1 DEF IInv, TxInv, LockInv, Reconciling
<1>5. rec \in Records /\ tx.rec = rec /\ Unwatched(mem) BY <1>1, <1>4, Reconciled DEF Known
<1>6. rec.des # "running" BY <1>1, <1>4, <1>5 DEF IInv, TxInv, RcInv
<1>7. rec # None => rec.des # "running" BY <1>6
<1>8. ASSUME Answers, WorkerStops
      PROVE  Aged /\ WorkerType' /\ UNCHANGED acked /\ phase' = "exited" /\ ~reverted
  BY <1>5, <1>7, <1>8, StopAges DEF Aged, Intended, Unwatched, IInv, StateInv, WorkerInv, Answers
<1>9. ASSUME UNCHANGED worker PROVE Aged /\ WorkerType' /\ UNCHANGED acked
  BY <1>1, <1>9, WorkerSame, SameAges
<1>10. CASE Answers /\ WorkerStops /\ GoTo(IF tx.rec.des = "removed" THEN "rmretire" ELSE "stopped")
  <2>1. /\ tx' \in Txs /\ tx'.who = tx.who /\ tx'.rec = tx.rec
        /\ tx'.pc = IF tx.rec.des = "removed" THEN "rmretire" ELSE "stopped"
    BY <1>1, <1>10, TxTo DEF GoTo, Pcs, RcPcs, Known
  <2>2. rec.des \in {"stopped", "removed"} BY <1>5, <1>6 DEF Records, DesiredStates
  <2> QED BY <1>1, <1>2, <1>3, <1>4, <1>5, <1>8, <1>10, <2>1, <2>2, RcGoes DEF Known
<1>11. CASE /\ Answers /\ (WorkerStops \/ UNCHANGED worker)
            /\ tx' = [tx EXCEPT !.pc = "pend", !.pend = "reconn"]
  BY <1>1, <1>2, <1>3, <1>4, <1>8, <1>9, <1>11, RcFalls DEF Known
<1>12. CASE UNCHANGED worker /\ tx' = [tx EXCEPT !.pc = "pend", !.pend = "reconn"]
  BY <1>1, <1>2, <1>3, <1>4, <1>9, <1>12, RcFalls DEF Known
<1> QED BY <1>10, <1>11, <1>12 DEF RcRpc

\* The record of an imported outcome.
LEMMA ImportEffect ==
  ASSUME NEW r \in Records, NEW stopped \in BOOLEAN, stopped <=> r.des # "running",
         phase # "running", Good(r, phase, outcome), r.des # "removed"
  PROVE  LET q == ExitRecord(r, stopped)
         IN  /\ q \in Records /\ q.des = r.des /\ q.rt = "terminal" /\ q.st \in Ended
             /\ Good(q, phase, outcome)
             /\ r.st = "stopped" => q.st = "stopped"
             /\ r.st \in Ended /\ r.rt = "terminal" => q.st = r.st
             /\ r.des # "running" => q.st = "stopped"
<1> DEFINE q == ExitRecord(r, stopped)
<1>1. /\ q \in Records /\ q.des = r.des /\ q.rt = "terminal" /\ q.st \in Ended
      /\ stopped => q.st = "stopped"
      /\ ~stopped => q.st = IF outcome = "done" THEN "done" ELSE "failed"
  BY DEF ExitRecord, ExitState, Records, RuntimeStates
<1> HIDE DEF q
<1>2. r.des \in {"running", "stopped"} BY DEF Records, DesiredStates
<1>3. Good(q, phase, outcome) BY <1>1, <1>2 DEF Good
<1>4. /\ r.st = "stopped" => q.st = "stopped"
      /\ r.st \in Ended /\ r.rt = "terminal" => q.st = r.st
  BY <1>1, <1>2 DEF Good
<1> QED BY <1>1, <1>3, <1>4 DEF q

\* A reconciliation imports the outcome of a worker that still answers.
LEMMA RcImportStep ==
  ASSUME IInv, RcImport, Frame
  PROVE  Step
<1>1. TypeInv /\ up /\ tx.pc \in {"import", "stopped"} BY DEF IInv, RcImport
<1>2. /\ UNCHANGED worker /\ UNCHANGED <<rq, stopOk>> BY DEF RcImport
<1>3. Reconciling BY <1>1, Holder DEF RcPcs, OpPcs, OpEarly, Known
<1>4. /\ rec \in Records /\ rec # None /\ tx.rec = rec /\ Good(rec, phase, outcome)
      /\ (outcome = "user" /\ ~reverted => rec.des # "running")
  BY <1>1, <1>3, Reconciled DEF Known
<1>5. /\ ~reverted /\ phase # "running" /\ rec.des # "removed"
      /\ tx.pc = "stopped" => rec.des = "stopped"
  BY <1>1, <1>3, <1>4 DEF IInv, TxInv, RcInv
<1> DEFINE stopped == tx.pc = "stopped" \/ outcome = "user" \/ tx.rec.des # "running"
           r == ExitRecord(tx.rec, stopped)
<1>6. stopped \in BOOLEAN /\ (stopped <=> tx.rec.des # "running") BY <1>4, <1>5
<1>7. CASE /\ Install(r, unavailable_entry(r)) /\ Settle(FALSE)
           /\ ack' = [pc |-> "want", conn |-> TRUE]
  <2> HIDE DEF stopped
  <2>1. /\ r \in Records /\ r.des = rec.des /\ r.rt = "terminal" /\ r.st \in Ended
        /\ Good(r, phase, outcome)
        /\ rec.st = "stopped" => r.st = "stopped"
        /\ rec.st \in Ended /\ rec.rt = "terminal" => r.st = rec.st
        /\ rec.des # "running" => r.st = "stopped"
    BY <1>4, <1>5, <1>6, ImportEffect
  <2> HIDE DEF r
  <2>2. tx' = NoTx /\ retry' \in Retries BY <1>1, <1>7, SettleEffect
  <2>3. ack' \in Acks /\ ack'.pc # "send" BY <1>7 DEF Acks
  <2> QED BY <1>1, <1>2, <1>3, <1>4, <1>7, <2>1, <2>2, <2>3, RcUnavailable DEF Known
<1>8. CASE ListPending(tx.rec) /\ Settle(TRUE) /\ UNCHANGED ack
  BY <1>1, <1>2, <1>3, <1>4, <1>8, RcListed DEF Known
<1> QED BY <1>7, <1>8 DEF RcImport

\* A reconciliation adopts a running worker (adopt_live_record).
LEMMA RcAdoptStep ==
  ASSUME IInv, RcAdopt, Frame
  PROVE  Step
<1>1. TypeInv /\ up /\ tx.pc = "adopt" BY DEF IInv, RcAdopt, At
<1>2. /\ UNCHANGED worker /\ UNCHANGED <<ack, rq, stopOk>> /\ ack' \in Acks
  BY <1>1, TypeParts DEF RcAdopt
<1>3. Reconciling BY <1>1, Holder DEF RcPcs, OpPcs, OpEarly, Known
<1>4. /\ rec \in Records /\ rec # None /\ tx.rec = rec /\ Good(rec, phase, outcome)
      /\ (outcome = "user" /\ ~reverted => rec.des # "running")
  BY <1>1, <1>3, Reconciled DEF Known
<1>5. rec.des = "running" /\ rec.st = "live" BY <1>1, <1>3, <1>4 DEF IInv, TxInv, RcInv
<1> DEFINE r == [tx.rec EXCEPT !.st = "live", !.rt = "live", !.txn = "none"]
           e == [unavailable_entry(r) EXCEPT !.des = "running", !.handle = "worker"]
           n == [tx.rec EXCEPT !.rt = "nodetector"]
<1>6. r \in Records /\ r.st = "live" /\ r.des = "running" /\ r.rt = "live"
  BY <1>4, <1>5 DEF Records, RuntimeStates
<1>7. n \in Records /\ n.st = "live" /\ n.des = "running" /\ n.rt = "nodetector"
  BY <1>4, <1>5 DEF Records, RuntimeStates, Reconnecting
<1>8. Good(r, phase, outcome) /\ Good(n, phase, outcome) BY <1>6, <1>7 DEF Good
<1>9. CASE Install(r, e) /\ Settle(FALSE)
  <2>1. /\ e \in Entries /\ e.st = "live" /\ e.des = "running" /\ e.rt = "live"
        /\ e.handle = "worker" /\ ~e.stopping
    BY <1>6 DEF unavailable_entry, Entries, Records, DesiredStates
  <2> HIDE DEF e, r
  <2>2. tx' = NoTx /\ retry' \in Retries BY <1>1, <1>9, SettleEffect
  <2> QED BY <1>1, <1>2, <1>3, <1>4, <1>5, <1>6, <1>8, <1>9, <2>1, <2>2, RcInstalled DEF Known
<1>10. CASE ListPending(r) /\ Settle(TRUE)
  BY <1>1, <1>2, <1>3, <1>5, <1>6, <1>10, RcListed DEF Known
<1>11. CASE Insert(n, FALSE)
  <2> HIDE DEF n
  <2> QED BY <1>1, <1>2, <1>3, <1>4, <1>5, <1>7, <1>8, <1>11, RcInserted DEF Known
<1> QED BY <1>9, <1>10, <1>11 DEF RcAdopt

\* A reconciliation imports the outcome from the journal.
LEMMA RcJournalStep ==
  ASSUME IInv, RcJournal, Frame
  PROVE  Step
<1>1. TypeInv /\ up /\ tx.pc = "journal" BY DEF IInv, RcJournal, At
<1>2. /\ UNCHANGED worker /\ UNCHANGED <<ack, rq, stopOk>> /\ ack' \in Acks
  BY <1>1, TypeParts DEF RcJournal
<1>3. Reconciling BY <1>1, Holder DEF RcPcs, OpPcs, OpEarly, Known
<1>4. /\ rec \in Records /\ rec # None /\ tx.rec = rec /\ Good(rec, phase, outcome)
      /\ (outcome = "user" /\ ~reverted => rec.des # "running")
  BY <1>1, <1>3, Reconciled DEF Known
<1>5. phase # "running" /\ rec.des # "removed"
  BY <1>1, <1>3, <1>4 DEF IInv, TxInv, RcInv
<1> DEFINE stopped == tx.rec.des # "running"
           r == ExitRecord(tx.rec, stopped)
<1>6. CASE Install(r, unavailable_entry(r)) /\ GoTo("jobretire") /\ UNCHANGED retry
  <2>1. stopped \in BOOLEAN /\ (stopped <=> rec.des # "running") BY <1>4
  <2> HIDE DEF stopped
  <2>2. /\ r \in Records /\ r.des = rec.des /\ r.rt = "terminal" /\ r.st \in Ended
        /\ Good(r, phase, outcome)
        /\ rec.st = "stopped" => r.st = "stopped"
        /\ rec.st \in Ended /\ rec.rt = "terminal" => r.st = rec.st
        /\ rec.des # "running" => r.st = "stopped"
    BY <1>4, <1>5, <2>1, ImportEffect
  <2> HIDE DEF r
  <2>3. retry' \in Retries BY <1>1, <1>6, TypeParts
  <2> QED BY <1>1, <1>2, <1>3, <1>4, <1>6, <2>2, <2>3, RcUnavailable DEF Known
<1>7. CASE ListPending(tx.rec) /\ Settle(TRUE)
  BY <1>1, <1>2, <1>3, <1>4, <1>7, RcListed DEF Known
<1>8. CASE Fault /\ tx' = [tx EXCEPT !.pc = "pend", !.pend = "conflict"]
           /\ UNCHANGED <<store, mem, w, retry>>
  <2>1. WorkerType' /\ UNCHANGED acked /\ Aged BY <1>1, <1>2, WorkerSame, SameAges
  <2>2. UNCHANGED <<rec, undo>> /\ faults' \in 0..Faults /\ retry' \in Retries
    BY <1>1, <1>8, FaultEffect, TypeParts DEF store
  <2> QED BY <1>1, <1>2, <1>3, <1>8, <2>1, <2>2, RcFalls DEF Known
<1> QED BY <1>6, <1>7, <1>8 DEF RcJournal

\* A reconciliation retires the job (retire_terminal_generation).
LEMMA RcJobRetireStep ==
  ASSUME IInv, RcJobRetire, Frame
  PROVE  Step
<1>1. TypeInv /\ up /\ tx.pc = "jobretire" BY DEF IInv, RcJobRetire, At
<1>2. /\ UNCHANGED <<rec, undo, mem, w, ack, rq, stopOk>> /\ rq' \in {"none", "stop", "remove"}
      /\ stopOk' \in BOOLEAN
  BY <1>1, TypeParts DEF RcJobRetire, store
<1>3. tx' = NoTx /\ retry' \in Retries BY <1>1, SettleEffect DEF RcJobRetire
<1>4. faults' \in 0..Faults BY <1>1, FaultEffect DEF RcJobRetire
<1>5. WorkerType' /\ UNCHANGED acked /\ Aged
  BY <1>1, WorkerSame, SameAges, RetireAges DEF RcJobRetire
<1>6. mem # None /\ mem.stopping => mem.handle = "none" BY <1>1, Entry DEF OpEarly
<1> QED BY <1>2, <1>3, <1>4, <1>5, <1>6, TaskEnds

\* A reconciliation finds the process gone and retires the generation.
LEMMA RcEndedStep ==
  ASSUME IInv, RcEnded, Frame
  PROVE  Step
<1>1. TypeInv /\ up /\ tx.pc = "ended" BY DEF IInv, RcEnded, At
<1>2. /\ UNCHANGED <<rec, undo, mem, w, ack, rq, stopOk>> /\ rq' \in {"none", "stop", "remove"}
      /\ stopOk' \in BOOLEAN
  BY <1>1, TypeParts DEF RcEnded, store
<1>3. Reconciling BY <1>1, Holder DEF RcPcs, OpPcs, OpEarly, Known
<1>4. faults' \in 0..Faults BY <1>1, FaultEffect DEF RcEnded
<1>5. WorkerType' /\ UNCHANGED acked /\ Aged
  BY <1>1, WorkerSame, SameAges, RetireAges DEF RcEnded
<1>6. mem # None /\ mem.stopping => mem.handle = "none" BY <1>1, Entry DEF OpEarly
<1>7. CASE Retire /\ UNCHANGED retry
           /\ (GoTo("lost") \/ tx' = [tx EXCEPT !.pc = "lost", !.proven = FALSE])
  <2>1. tx' \in Txs /\ tx'.who = tx.who /\ tx'.rec = tx.rec /\ tx'.pc = "lost"
    <3>1. CASE GoTo("lost") BY <1>1, <3>1, TxTo DEF GoTo, Pcs, RcPcs, Known
    <3>2. CASE tx' = [tx EXCEPT !.pc = "lost", !.proven = FALSE]
      BY <1>1, <3>2, TypeParts DEF Txs, Pcs, RcPcs, Known
    <3> QED BY <1>7, <3>1, <3>2
  <2>2. phase' # "running" /\ retry' \in Retries BY <1>1, <1>7, RetireAges, TypeParts
  <2> QED BY <1>1, <1>2, <1>3, <1>4, <1>5, <2>1, <2>2, RcGoes DEF Known
<1>8. CASE tx' = [tx EXCEPT !.pc = "pend", !.pend = "reconn"] /\ UNCHANGED retry
  <2>1. retry' \in Retries BY <1>1, <1>8, TypeParts
  <2> QED BY <1>1, <1>2, <1>3, <1>4, <1>5, <1>8, <2>1, RcFalls DEF Known
<1>9. CASE Settle(TRUE)
  BY <1>1, <1>2, <1>4, <1>5, <1>6, <1>9, SettleEffect, TaskEnds
<1> QED BY <1>7, <1>8, <1>9 DEF RcEnded

\* A reconciliation settles a requested stop or presents the loss.
LEMMA RcLostStep ==
  ASSUME IInv, RcLost, Frame
  PROVE  Step
<1>1. TypeInv /\ up /\ tx.pc = "lost" BY DEF IInv, RcLost, At
<1>2. /\ UNCHANGED worker /\ UNCHANGED <<ack, rq, stopOk>> BY DEF RcLost
<1>3. Reconciling BY <1>1, Holder DEF RcPcs, OpPcs, OpEarly, Known
<1>4. /\ rec \in Records /\ rec # None /\ tx.rec = rec /\ Good(rec, phase, outcome)
  BY <1>1, <1>3, Reconciled DEF Known
<1>5. phase # "running" BY <1>1, <1>3 DEF IInv, TxInv, RcInv
<1> DEFINE stop == [tx.rec EXCEPT !.st = "stopped", !.rt = "terminal", !.txn = "none"]
           st == present_lost_runtime(tx.rec.st, tx.rec.des, tx.proven)
           lost == [tx.rec EXCEPT !.rt = "lost", !.st = st]
<1>6. CASE Insert(IF tx.rec.des = "stopped" THEN stop ELSE lost, FALSE)
  <2>1. CASE tx.rec.des = "stopped"
    <3>1. stop \in Records /\ stop.st = "stopped" /\ stop.des = "stopped" /\ stop.rt = "terminal"
      BY <1>4, <2>1 DEF Records, RuntimeStates
    <3>2. Insert(stop, FALSE) BY <1>6, <2>1
    <3> HIDE DEF stop
    <3>3. Good(stop, phase, outcome) BY <1>5, <3>1 DEF Good
    <3>4. rec.st \in {"live", "stopped"} BY <1>4, <2>1 DEF Good
    <3> QED BY <1>1, <1>2, <1>3, <1>4, <2>1, <3>1, <3>2, <3>3, <3>4, RcInserted DEF Known
  <2>2. CASE tx.rec.des # "stopped"
    <3>1. /\ st \in Ended \cup {"live"} /\ (rec.st \in Ended => st = rec.st)
          /\ st # rec.st => st = IF rec.des = "running" THEN "failed" ELSE "stopped"
      BY <1>4 DEF present_lost_runtime, Records
    <3>2. Insert(lost, FALSE) BY <1>6, <2>2
    <3> HIDE DEF st
    <3>3. lost \in Records /\ lost.st = st /\ lost.des = rec.des /\ lost.rt = "lost"
      BY <1>4, <3>1 DEF Records, RuntimeStates
    <3> HIDE DEF lost
    <3>4. Good(lost, phase, outcome) BY <1>4, <1>5, <2>2, <3>1, <3>3 DEF Good
    <3> QED BY <1>1, <1>2, <1>3, <1>4, <3>1, <3>2, <3>3, <3>4, RcInserted DEF Known
  <2> QED BY <2>1, <2>2
<1>7. CASE Fault /\ tx' = [tx EXCEPT !.pc = "pend", !.pend = "conflict"]
           /\ UNCHANGED <<store, mem, w, retry>>
  <2>1. WorkerType' /\ UNCHANGED acked /\ Aged BY <1>1, <1>2, WorkerSame, SameAges
  <2>2. UNCHANGED <<rec, undo>> /\ faults' \in 0..Faults /\ retry' \in Retries
    BY <1>1, <1>7, FaultEffect, TypeParts DEF store
  <2> QED BY <1>1, <1>2, <1>3, <1>7, <2>1, <2>2, RcFalls DEF Known
<1> QED BY <1>6, <1>7 DEF RcLost

\* A reconciliation goes on with a removal (finish_removal_intent).
LEMMA RcRemoveStep ==
  ASSUME IInv, RcRemove, Frame
  PROVE  Step
<1>1. TypeInv /\ up /\ tx.pc = "rmretire" BY DEF IInv, RcRemove, At
<1>2. /\ UNCHANGED <<rec, undo, mem, w, ack, rq, stopOk>> /\ retry' \in Retries
  BY <1>1, TypeParts DEF RcRemove, store
<1>3. Reconciling BY <1>1, Holder DEF RcPcs, OpPcs, OpEarly, Known
<1>4. faults' \in 0..Faults BY <1>1, FaultEffect DEF RcRemove
<1>5. WorkerType' /\ UNCHANGED acked /\ Aged
  BY <1>1, WorkerSame, SameAges, RetireAges DEF RcRemove
<1>6. CASE GoTo("sweep")
  <2>1. tx' \in Txs /\ tx'.who = tx.who /\ tx'.rec = tx.rec /\ tx'.pc = "sweep"
    BY <1>1, <1>6, TxTo DEF GoTo, Pcs, RcPcs, Known
  <2> QED BY <1>1, <1>2, <1>3, <1>4, <1>5, <2>1, RcGoes DEF Known
<1>7. ASSUME NEW p \in {"reconn", "conflict"}, tx' = [tx EXCEPT !.pc = "pend", !.pend = p]
      PROVE  Step
  BY <1>1, <1>2, <1>3, <1>4, <1>5, <1>7, RcFalls DEF Known
<1> QED BY <1>6, <1>7 DEF RcRemove

\* A retry leaves the pending set.
LEMMA RetryTakeStep ==
  ASSUME IInv, RetryTake, Frame
  PROVE  Step
<1>1. TypeInv BY DEF IInv
<1>2. /\ UNCHANGED worker /\ UNCHANGED <<rec, undo, mem, tx, w, ack, rq, stopOk, reverted, up>>
      /\ retry' \in Retries /\ faults' \in 0..Faults /\ tx' \in Txs
  BY <1>1, TypeParts DEF RetryTake, store, Retries, Frame
<1>3. WorkerType' /\ UNCHANGED acked /\ Aged /\ Unstopped BY <1>1, <1>2, WorkerSame, SameAges
<1>4. tx.who = "watch" => w'.pc = "classify" BY <1>2 DEF IInv, TxInv, LockInv
<1>5. TxInv' BY <1>2, <1>3, <1>4, TxKept
<1> QED BY <1>2, <1>3, <1>5, TaskMoves

\* A reconciliation takes the lock.
LEMMA RcOpens ==
  ASSUME IInv, UNCHANGED <<rec, mem>>, up', rec # None,
         NEW who \in {"start", "retry"}, NEW p \in {"probe", "jobretire"},
         tx.who = "none", p = "probe" => Unwatched(mem),
         tx' = [NoTx EXCEPT !.who = who, !.pc = p]
  PROVE  TxInv' /\ tx' \in Txs
<1>1. tx' \in Txs /\ tx'.who = who /\ tx'.pc = p
  BY DEF NoTx, Txs, Pcs, RcPcs, DesiredStates, RuntimeStates
<1>2. Reconciling' BY <1>1 DEF Reconciling
<1>3. RcInv' BY <1>1 DEF RcInv, RcPcs, Known, Unwatched
<1>4. mem' # None /\ mem'.stopping => mem'.handle = "none" BY Entry
<1> QED BY <1>1, <1>2, <1>3, <1>4, RcMoves

\* A retry takes the lock, or finds nothing to do.
LEMMA RetryServeStep ==
  ASSUME IInv, RetryServe, Frame
  PROVE  Step
<1>1. TypeInv /\ up /\ tx.who = "none" BY DEF IInv, RetryServe, Free
<1>2. /\ UNCHANGED worker /\ UNCHANGED <<rec, undo, mem, w, ack, rq, stopOk, reverted, up>>
      /\ faults' \in 0..Faults /\ retry \in Retries
  BY <1>1, TypeParts DEF RetryServe, store, Frame
<1>3. WorkerType' /\ UNCHANGED acked /\ Aged /\ Unstopped BY <1>1, <1>2, WorkerSame, SameAges
<1>4. ASSUME NEW again \in BOOLEAN, ServeDone(again) PROVE Step
  <2>1. retry' \in Retries /\ UNCHANGED tx BY <1>2, <1>4 DEF ServeDone, Retries
  <2>2. tx' \in Txs BY <1>1, <2>1, TypeParts
  <2>3. TxInv' BY <1>1, <1>2, <1>3, <2>1, TxKept
  <2> QED BY <1>2, <1>3, <2>1, <2>2, <2>3, TaskMoves
<1>5. ASSUME NEW p \in {"probe", "jobretire"}, ServeBy(p), mem # None,
             p = "probe" => Unwatched(mem)
      PROVE  Step
  <2>1. tx' = [NoTx EXCEPT !.who = "retry", !.pc = p] /\ retry' \in Retries
    BY <1>2, <1>5 DEF ServeBy
  <2>2. rec # None BY <1>5, Entry
  <2>3. TxInv' /\ tx' \in Txs BY <1>1, <1>2, <1>5, <2>1, <2>2, RcOpens
  <2> QED BY <1>2, <1>3, <2>1, <2>3, TaskMoves
<1> QED BY <1>4, <1>5 DEF RetryServe, WaitsForEvidence, WaitsForRetirement, Unwatched

-----------------------------------------------------------------------------
(* The worker, the clients, and the hosts *)

\* Every step of the worker: whatever it does, it only ages.
LEMMA WorkerStepStep ==
  ASSUME IInv, WorkerStep
  PROVE  Step
<1>1. TypeInv /\ WorkerInv BY DEF IInv, StateInv
<1>2. /\ UNCHANGED <<rec, undo, mem, tx, w, ack, retry, rq, stopOk, acked>> /\ Frame
  BY DEF WorkerStep, WorkerExits, WorkerCloses, WorkerGone, WorkerKilled, WorkerHangs,
         WorkerThaws, daemon, store, ghosts, Frame
<1>3. faults' \in 0..Faults
  BY <1>1, FaultEffect DEF WorkerStep, WorkerExits, WorkerCloses, WorkerGone, WorkerKilled,
         WorkerHangs, WorkerThaws, NoFault
<1>4. WorkerType'
  BY <1>1 DEF WorkerStep, WorkerExits, WorkerCloses, WorkerGone, WorkerKilled, WorkerHangs,
         WorkerThaws, TypeInv, WorkerType, Phases, Outcomes
<1>5. Ages /\ (outcome' = "user" => outcome = "user")
  BY <1>1 DEF WorkerStep, WorkerExits, WorkerCloses, WorkerGone, WorkerKilled, WorkerHangs,
         WorkerThaws, Ages, WorkerInv
<1>6. Aged /\ Unstopped BY <1>5 DEF Aged, Unstopped
<1>7. tx.who = "watch" => w'.pc = "classify" BY <1>2 DEF IInv, TxInv, LockInv
<1>8. TxInv' BY <1>2, <1>6, <1>7, TxKept DEF Frame
<1>9. tx' \in Txs /\ retry' \in Retries BY <1>1, <1>2, TypeParts
<1> QED BY <1>2, <1>3, <1>4, <1>6, <1>8, <1>9, TaskMoves

\* The invariant without the counters' types does not see these variables.
LEMMA OthersMove ==
  ASSUME IInv, UNCHANGED <<phase, outcome, journal, acked, rec, undo, mem, w, ack, stopOk,
                           reverted>>, TypeInv', TxInv'
  PROVE  Step
<1>1. Aged BY SameAges
<1>2. EntryInv' /\ RecordInv' /\ WorkerInv' /\ WatchInv' BY <1>1, StateKept
<1>3. RecordStep BY RecordSame
<1>4. AnswerInv' BY <1>3, AnswersKept
<1> QED BY <1>2, <1>3, <1>4 DEF Step, IInv, StateInv

\* A client sends a request.
LEMMA RequestStep ==
  ASSUME IInv, Request
  PROVE  Step
<1>1. TypeInv BY DEF IInv
<1>2. /\ UNCHANGED worker /\ UNCHANGED <<rec, undo, mem, tx, w, ack, retry, up, stopOk, reverted,
                                         faults, crashes>>
      /\ requests > 0 /\ requests' = requests - 1 /\ rq' \in {"stop", "remove"}
  BY DEF Request, store, ghosts
<1>3. WorkerType' /\ UNCHANGED <<phase, outcome, journal, acked>> /\ Unstopped
  BY <1>1, <1>2, WorkerSame, SameAges
<1>4. TypeInv'
  BY <1>1, <1>2, <1>3, BudgetAssumption DEF TypeInv, StoreType, TaskType, CountType
<1>5. tx.who = "watch" => w'.pc = "classify" BY <1>2 DEF IInv, TxInv, LockInv
<1>6. TxInv' BY <1>2, <1>3, <1>5, TxKept
<1> QED BY <1>2, <1>3, <1>4, <1>6, OthersMove

\* The daemon starts (reconcile_workers).
LEMMA StartStep ==
  ASSUME IInv, Start
  PROVE  Step
<1>1. TypeInv /\ mem = None /\ tx.who = "none" BY DEF IInv, TxInv, LockInv, Start
<1>2. /\ UNCHANGED <<phase, hung, outcome, journal, loose, acked, rec, undo, mem, w, ack, retry, rq,
                     stopOk, reverted, faults, crashes, requests>> /\ up'
      /\ up' \in BOOLEAN
  BY DEF Start, store, ghosts
<1>3. job' \in BOOLEAN BY <1>1 DEF Start, TypeInv, WorkerType
<1>4. TxInv' /\ tx' \in Txs
  <2>1. CASE rec = None
    <3>1. UNCHANGED tx BY <2>1 DEF Start
    <3>2. LockInv' BY <1>1, <1>2, <3>1 DEF IInv, TxInv, LockInv
    <3>3. SavedInv' /\ OpInv' /\ BackInv' /\ RcInv'
      BY <1>1, <3>1, <3>2 DEF IInv, TxInv, LockInv, SavedInv, OpInv, BackInv, RcInv, Reconciling
    <3> QED BY <1>1, <3>1, <3>2, <3>3, TypeParts DEF TxInv
  <2>2. CASE rec # None
    <3>1. tx' = [NoTx EXCEPT !.who = "start", !.pc = "probe"] BY <2>2 DEF Start
    <3> QED BY <1>1, <1>2, <2>2, <3>1, RcOpens DEF Unwatched
  <2> QED BY <2>1, <2>2
<1>5. TypeInv'
  BY <1>1, <1>2, <1>3, <1>4 DEF TypeInv, WorkerType, StoreType, TaskType, CountType
<1> QED BY <1>2, <1>4, <1>5, OthersMove

\* What a crash leaves of the daemon.
LEMMA Forgets ==
  ASSUME IInv, Forget
  PROVE  /\ mem' = None /\ tx' = NoTx /\ w' = WatchOff /\ ack'.pc = "off" /\ TaskType' /\ ~up'
         /\ up' \in BOOLEAN /\ crashes' \in 0..Crashes
         /\ UNCHANGED <<outcome, acked, faults, requests>>
         /\ TxInv' /\ EntryInv' /\ WatchInv'
<1>1. TypeInv BY DEF IInv
<1>2. /\ mem' = None /\ tx' = NoTx /\ w' = WatchOff /\ ~up' /\ rq' = "none" /\ ack' = AckOff
      /\ retry' = [pending |-> FALSE, serving |-> FALSE] /\ up' \in BOOLEAN
      /\ UNCHANGED <<outcome, acked, faults, requests>>
  BY DEF Forget
<1>8. crashes' \in 0..Crashes
  <2>1. crashes \in 0..Crashes /\ crashes > 0 /\ crashes' = crashes - 1
    BY <1>1 DEF Forget, TypeInv, CountType
  <2> QED BY <2>1, BudgetAssumption
<1>3. tx' \in Txs /\ TxInv' BY <1>2, TxFreed
<1>4. w' \in Watches /\ w'.pc = "off" /\ ~w'.cancel
  BY <1>1, <1>2, WatchEffect, TypeParts
<1>5. ack' \in Acks /\ ack'.pc = "off" BY <1>2 DEF AckOff, Acks
<1>6. TaskType' BY <1>2, <1>3, <1>4, <1>5 DEF TaskType, Retries
<1>7. EntryInv' /\ WatchInv' BY <1>2, <1>4 DEF EntryInv, WatchInv
<1> QED BY <1>2, <1>3, <1>5, <1>6, <1>7, <1>8

\* The daemon crashes: the store and the worker stay.
LEMMA DaemonCrashStep ==
  ASSUME IInv, DaemonCrash
  PROVE  IInv' /\ ~up'
<1>1. /\ mem' = None /\ ack'.pc = "off" /\ TaskType' /\ ~up' /\ up' \in BOOLEAN
      /\ crashes' \in 0..Crashes /\ UNCHANGED <<outcome, acked, faults, requests>>
      /\ TxInv' /\ EntryInv' /\ WatchInv'
  BY Forgets DEF DaemonCrash
<1>2. UNCHANGED <<phase, hung, journal, loose, job, rec, undo, stopOk, reverted>>
  BY DEF DaemonCrash, store, ghosts
<1>3. TypeInv'
  BY <1>1, <1>2 DEF IInv, TypeInv, WorkerType, StoreType, CountType
<1>4. RecordInv' /\ WorkerInv'
  BY <1>1, <1>2 DEF IInv, StateInv, RecordInv, WorkerInv, JournalsLast
<1>5. AnswerInv'
  BY <1>1, <1>2 DEF IInv, StateInv, AnswerInv, StopAnswerHonoured, AcknowledgedDurable
<1> QED BY <1>1, <1>3, <1>4, <1>5 DEF IInv, StateInv

\* The host crashes: the worker ends, and an unsynced write may be undone.
LEMMA HostCrashStep ==
  ASSUME IInv, HostCrash
  PROVE  IInv' /\ ~up'
<1>1. /\ mem' = None /\ ack'.pc = "off" /\ TaskType' /\ ~up' /\ up' \in BOOLEAN
      /\ crashes' \in 0..Crashes /\ UNCHANGED <<outcome, acked, faults, requests>>
      /\ TxInv' /\ EntryInv' /\ WatchInv'
  BY Forgets DEF HostCrash
<1>2. /\ phase' = "gone" /\ ~hung' /\ hung' \in BOOLEAN /\ job' \in BOOLEAN /\ loose' \in BOOLEAN
      /\ undo' = None /\ UNCHANGED stopOk
      /\ \/ rec' = rec /\ UNCHANGED reverted
         \/ undo # None /\ rec' = undo /\ reverted' = TRUE
  BY DEF HostCrash, ghosts
<1>3. /\ journal' \in {"running", "terminal", "deleted"}
      /\ journal' = "deleted" => journal = "deleted"
  BY DEF HostCrash, IInv, TypeInv, WorkerType
<1>4. TypeInv'
  BY <1>1, <1>2, <1>3 DEF IInv, TypeInv, WorkerType, StoreType, CountType, Phases
<1>5. RecordInv'
  <2>1. rec' # None => Good(rec', phase', outcome')
    BY <1>1, <1>2 DEF IInv, StateInv, RecordInv, Good
  <2> QED BY <1>1, <1>2, <2>1 DEF IInv, StateInv, RecordInv
<1>6. WorkerInv' BY <1>2, <1>3 DEF IInv, StateInv, WorkerInv, JournalsLast
<1>7. AnswerInv'
  BY <1>1, <1>2 DEF IInv, StateInv, AnswerInv, StopAnswerHonoured, AcknowledgedDurable
<1> QED BY <1>1, <1>4, <1>5, <1>6, <1>7 DEF IInv, StateInv

-----------------------------------------------------------------------------
(* The theorems *)

\* The invariant holds of a session that was just created.
LEMMA InitIInv == Init => IInv
<1> SUFFICES ASSUME Init PROVE IInv
  OBVIOUS
<1>1. /\ rec \in Records /\ rec.st = "live" /\ rec.des = "running" /\ rec.rt = "live"
      /\ rec # None
  BY NoneDistinct DEF Init, Records, DesiredStates, RuntimeStates
<1>2. /\ mem \in Entries /\ mem.st = "live" /\ mem.des = "running" /\ mem.rt = "live"
      /\ mem.handle = "worker" /\ ~mem.stopping /\ mem # None
  BY <1>1, NoneDistinct DEF Init, unavailable_entry, Records, Entries
<1>3. w \in Watches /\ w.pc = "poll" /\ ~w.cancel BY DEF Init, Watching, WatchOff, Watches
<1>4. ack \in Acks /\ ack.pc = "off" BY DEF Init, AckOff, Acks
<1>5. retry \in Retries BY DEF Init, Retries
<1>6. tx \in Txs /\ tx.who = "none" /\ tx.pc = "idle" BY TxFree DEF Init
<1>7. /\ up /\ up \in BOOLEAN /\ phase = "running" /\ outcome = "none" /\ journal = "running"
      /\ undo = None /\ ~acked /\ ~stopOk /\ ~reverted /\ rq = "none"
      /\ hung \in BOOLEAN /\ loose \in BOOLEAN /\ acked \in BOOLEAN /\ job \in BOOLEAN
      /\ stopOk \in BOOLEAN /\ reverted \in BOOLEAN
      /\ faults = Faults /\ crashes = Crashes /\ requests = Requests
  BY DEF Init
<1>8. TypeInv
  <2>1. WorkerType BY <1>7 DEF WorkerType, Phases, Outcomes
  <2>2. StoreType BY <1>1, <1>2, <1>7 DEF StoreType
  <2>3. TaskType BY <1>3, <1>4, <1>5, <1>6, <1>7 DEF TaskType
  <2>4. CountType BY <1>7, BudgetAssumption DEF CountType
  <2> QED BY <2>1, <2>2, <2>3, <2>4 DEF TypeInv
<1>9. EntryInv BY <1>1, <1>2, <1>7 DEF EntryInv, Good, EntryOk, Paired
<1>10. RecordInv BY <1>1, <1>7 DEF RecordInv, Good
<1>11. WorkerInv BY <1>7 DEF WorkerInv, JournalsLast
<1>12. WatchInv BY <1>2, <1>3 DEF WatchInv, Unwatched
<1>13. AnswerInv BY <1>4, <1>7 DEF AnswerInv, StopAnswerHonoured, AcknowledgedDurable
<1>14. TxInv
  BY <1>1, <1>2, <1>6, <1>7 DEF TxInv, LockInv, SavedInv, OpInv, BackInv, RcInv, Reconciling
<1> QED BY <1>8, <1>9, <1>10, <1>11, <1>12, <1>13, <1>14 DEF IInv, StateInv

\* Every step of the daemon.
LEMMA DaemonStepStep ==
  ASSUME IInv, DaemonStep
  PROVE  Step
<1>1. Frame BY DEF DaemonStep
<1>2. CASE OpStep
  BY <1>1, <1>2, OpIntentStep, OpRpcStep, OpReleaseStep, OpExitStep, OpCommitStep, OpDoneStep,
     OpRetireStep, OpRecordStep DEF OpStep
<1>3. CASE ReleaseStep
  BY <1>1, <1>3, SweepStep, EvictStep, DeleteStep, JournalsStep DEF ReleaseStep
<1>4. CASE RcStep
  BY <1>1, <1>4, RcProbeStep, RcPendStep, RcRpcStep, RcImportStep, RcAdoptStep, RcJournalStep,
     RcJobRetireStep, RcEndedStep, RcLostStep, RcRemoveStep DEF RcStep
<1>5. CASE MarkUnavailable BY <1>1, <1>5, MarkUnavailableStep
<1>6. CASE WatchStep
  BY <1>1, <1>6, WatchExitStep, WatchCommitStep, WatchLostStep, WatchReconnectStep,
     WatchUnreachableStep DEF WatchStep
<1>7. CASE Classify BY <1>1, <1>7, ClassifyStep
<1>8. CASE AckStep BY <1>1, <1>8, AckBarrierStep, AckSendStep, AckRetireStep DEF AckStep
<1>9. CASE RetryStep BY <1>1, <1>9, RetryTakeStep, RetryServeStep DEF RetryStep
<1>10. CASE OpBegin BY <1>1, <1>10, OpBeginStep
<1> QED BY <1>2, <1>3, <1>4, <1>5, <1>6, <1>7, <1>8, <1>9, <1>10 DEF DaemonStep, HolderStep

\* Every step keeps the invariant, and every step but a crash keeps what the
\* record owes to its own past.
LEMMA StepIInv ==
  ASSUME IInv, [Next]_vars
  PROVE  IInv' /\ (up' => RecordStep)
<1>1. CASE UNCHANGED vars
  <2>1. /\ UNCHANGED <<phase, outcome, journal, acked, rec, undo, mem, w, ack, stopOk, reverted,
                       hung, loose, job, tx, retry, rq, up, faults, crashes, requests>>
    BY <1>1 DEF vars, worker, store, ghosts
  <2>2. TypeInv' BY <2>1 DEF IInv, TypeInv, WorkerType, StoreType, TaskType, CountType
  <2>3. tx.who = "watch" => w'.pc = "classify" BY <2>1 DEF IInv, TxInv, LockInv
  <2>4. TxInv' BY <2>1, <2>3, SameAges, TxKept
  <2> QED BY <2>1, <2>2, <2>4, OthersMove DEF Step
<1>2. CASE DaemonStep BY <1>2, DaemonStepStep DEF Step
<1>3. CASE WorkerStep BY <1>3, WorkerStepStep DEF Step
<1>4. CASE Request \/ Start \/ ConnectionLost
  BY <1>4, RequestStep, StartStep, ConnectionLostStep DEF Step
<1>5. CASE DaemonCrash \/ HostCrash BY <1>5, DaemonCrashStep, HostCrashStep
<1> QED BY <1>1, <1>2, <1>3, <1>4, <1>5 DEF Next

\* The inductive invariant of the session: what the record, the entry, the
\* watcher and each step of the lock's holder may rely on, under any
\* interleaving of requests, watcher, acknowledgement, retries and crashes.
THEOREM Invariance == Spec => []IInv
<1>1. Init => IInv BY InitIInv
<1>2. IInv /\ [Next]_vars => IInv' BY StepIInv
<1> QED BY <1>1, <1>2, PTL DEF Spec

\* Every variable keeps its type; a rebuilt entry, a record and a commit base
\* are never mixed up.
THEOREM TypeCorrect == Spec => []TypeOK
<1>1. IInv => TypeOK
  <2> SUFFICES ASSUME IInv PROVE TypeOK
    OBVIOUS
  <2>1. TypeInv BY DEF IInv
  <2>2. /\ tx.who \in {"none", "op", "watch", "start", "retry"}
        /\ tx.rec \in Records \cup {None} /\ tx.prev \in Records \cup {None}
        /\ tx.base \in Bases \cup Entries \cup {None}
    BY <2>1, TypeParts DEF Txs
  <2>3. w.rec \in Records \cup {None} /\ w.base \in Bases \cup {None}
    BY <2>1, TypeParts DEF Watches
  <2> QED BY <2>1, <2>2, <2>3 DEF TypeInv, WorkerType, StoreType, TaskType, CountType, Phases,
                                  Outcomes, TypeOK
<1> QED BY <1>1, Invariance, PTL

\* A stop that was answered stopped: true is never taken back, whatever crashes
\* and reconciles later (stop_with_intent, reconcile_logical).
THEOREM StopHonoured == Spec => []StopAnswerHonoured
<1>1. IInv => StopAnswerHonoured BY DEF IInv, StateInv, AnswerInv
<1> QED BY <1>1, Invariance, PTL

\* A worker is acknowledged only once its outcome is in the store
\* (acknowledge_committed_terminal).
THEOREM AckSafe == Spec => []AcknowledgedDurable
<1>1. IInv => AcknowledgedDurable BY DEF IInv, StateInv, AnswerInv
<1> QED BY <1>1, Invariance, PTL

\* An end the registry shows is the end the store has
\* (commit_runtime_transition, write_record_and_install, list_pending).
THEOREM MemorySafe == Spec => []MemoryFollowsStore
<1>1. IInv => MemoryFollowsStore BY DEF IInv, StateInv, EntryInv, Paired, MemoryFollowsStore
<1> QED BY <1>1, Invariance, PTL

\* The journals of a removed session go only when no host crash can bring its
\* record back (release_removed_session).
THEOREM JournalsSafe == Spec => []JournalsLast
<1>1. IInv => JournalsLast BY DEF IInv, StateInv, WorkerInv
<1> QED BY <1>1, Invariance, PTL

\* The step IntentDecides allows.
Decides ==
  (/\ rec # None /\ rec' # None /\ up'
   /\ rec.des # "running" /\ (mem # None => mem.des # "running")
   /\ rec.st = Live /\ rec'.st \in Ended)
  => rec'.st = "stopped"

\* A session that ends under an intent ends as stopped, whoever commits the end
\* (exit_transition, present_lost_runtime, settle_ended_stop).
THEOREM IntentSafe == Spec => IntentDecides
<1>1. IInv /\ [Next]_vars => [Decides]_vars
  BY StepIInv DEF RecordStep, Decides
<1> QED BY <1>1, Invariance, PTL DEF Spec, IntentDecides, Decides

\* The step OutcomeFinal allows.
Keeps ==
  (rec # None /\ rec' # None /\ up' /\ rec.st \in Ended /\ rec.rt = "terminal")
  => rec'.st = rec.st

\* An outcome recorded from the worker or its journal is never replaced by a
\* late watcher, a loss classification, a retry or a restart.
THEOREM OutcomeSafe == Spec => OutcomeFinal
<1>1. IInv /\ [Next]_vars => [Keeps]_vars
  BY StepIInv DEF RecordStep, Keeps
<1> QED BY <1>1, Invariance, PTL DEF Spec, OutcomeFinal, Keeps

\* While no host crashes, a removed record never comes back, an ended session
\* never runs again, and a stopped one stays stopped, whoever writes.
THEOREM RecordHistory == Spec => [][up' => RecordStep]_vars
<1>1. IInv /\ [Next]_vars => [up' => RecordStep]_vars
  BY StepIInv
<1> QED BY <1>1, Invariance, PTL DEF Spec
=============================================================================
