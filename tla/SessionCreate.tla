--------------------------- MODULE SessionCreate ---------------------------
(***************************************************************************)
(* The create transaction of one session that gets a worktree of its own,  *)
(* and everything that settles it when it does not commit:                 *)
(*                                                                         *)
(*   - the create writes its intent, binds and checks out the worktree,    *)
(*     writes the record that names the worker generation, starts the job, *)
(*     initializes the worker and commits the session;                     *)
(*   - the startup reconciliation, the supervision retry and the task that *)
(*     watches an abandoned job adopt, retire and compensate what a failed *)
(*     or interrupted create left;                                         *)
(*   - a client may remove the session while any of that is still open.    *)
(*                                                                         *)
(* All of them run under the session's lifecycle lock: tx is its holder.   *)
(* The compensation removes the checkout, then its binding, then the       *)
(* record, and deletes uncommitted work: it must never meet a runtime.     *)
(* Whatever fails in a step spends one of Faults, together with the write  *)
(* that would have shown it.                                               *)
(* A committed session is the subject of DaemonSession; here it only must  *)
(* not be touched by what its create left running.                         *)
(***************************************************************************)
EXTENDS Naturals

CONSTANTS
  Faults, Crashes, Removes,  \* how often each may happen
  None                       \* no record

ASSUME BudgetAssumption == Faults \in Nat /\ Crashes \in Nat /\ Removes \in Nat

VARIABLES
  up,        \* the daemon runs
  rec,       \* the durable record: what is open and whether it names its generation
  binding,   \* the worktree binding is stored
  checkout,  \* the checkout: absent, present, or left behind by a removal
  job,       \* the generation's supervisor job is registered
  phase,     \* the worker of the job
  journal,   \* its journal: none, live, terminal
  mem,       \* what the registry lists of the session
  tx,        \* the holder of the lifecycle lock and what it does next
  watching,  \* an abandoned job waits for its watch to get the lock
  retry,     \* the session is in the pending set of the supervision retry
  unread,    \* the record could not be loaded, and is left to the next start
  answer,    \* what the client of the create was told
  presumed,  \* a removal took a lost worker for gone and did not retire it
  faults, crashes, removes

files == <<rec, binding, checkout>>
worker == <<job, phase, journal>>
tasks == <<watching, retry, unread>>
vars == <<up, files, worker, mem, tx, tasks, answer, presumed,
          faults, crashes, removes>>

\* create: uncommitted; none: committed; remove: a removal was begun.
Records == [txn : {"create", "none", "remove"}, gen : BOOLEAN]

ASSUME NoneAssumption == None \notin Records

\* starting has no socket and no journal yet; idle waits for initialize;
\* spawning is initialized without its child.
Phases == {"none", "starting", "idle", "spawning", "running", "exited", "gone"}
Listings ==
  {"none", "live", "reconn", "conflict", "compensation", "lost", "nodetector"}

\* rm: the holder removes the session for a client.
NoTx == [who |-> "none", pc |-> "idle", rm |-> FALSE]
HeldBy(who, pc) == [who |-> who, pc |-> pc, rm |-> FALSE]
Free == tx = NoTx
At(pc) == up /\ tx.pc = pc
GoTo(pc) == tx' = [tx EXCEPT !.pc = pc]

Uncommitted == rec # None /\ rec.txn = "create"

Fault == faults > 0 /\ faults' = faults - 1
NoFault == UNCHANGED faults

\* The holder returns; a create that comes here has failed.
Finish(pending) ==
  /\ tx' = NoTx
  /\ retry' = (retry \/ pending)
  /\ answer' = IF tx.who = "create" THEN "failed" ELSE answer

\* The step goes on under the lock.
Continue == UNCHANGED <<retry, answer>>

\* Mutant: the placeholder shows a state of its own.
list_pending_unnamed == IF mem = "none" THEN "pending" ELSE mem

\* The listing when a classification could not be written.
list_pending == IF mem = "none" THEN "reconn" ELSE mem

-----------------------------------------------------------------------------
(* The create *)

Step(pc) == At(pc) /\ tx.who = "create"

\* Nothing exists without the record of the intent.
CreateIntent ==
  /\ up /\ Free /\ rec = None /\ answer = "none"
  /\ \/ /\ rec' = [txn |-> "create", gen |-> FALSE]
        /\ tx' = HeldBy("create", "bind")
        /\ NoFault /\ UNCHANGED answer
     \/ Fault /\ answer' = "failed" /\ UNCHANGED <<rec, tx>>
  /\ UNCHANGED <<binding, checkout, worker, mem, tasks>>

\* The binding is stored before the checkout exists. Nothing that fails before
\* it leaves a trace.
CreateBind ==
  /\ Step("bind")
  /\ \/ binding' = TRUE /\ GoTo("checkout") /\ NoFault
     \/ Fault /\ GoTo("cleanup") /\ UNCHANGED binding
  /\ Continue /\ UNCHANGED <<rec, checkout, worker, mem, watching, unread>>

\* A worktree that could not be added drops its binding, if the store lets it;
\* one that fails verification, or a launch that cannot be built, keeps both.
CreateCheckout ==
  /\ Step("checkout")
  /\ \/ checkout' = "present" /\ GoTo("generation") /\ NoFault /\ UNCHANGED binding
     \/ /\ Fault /\ GoTo("cleanup")
        /\ \/ binding' \in BOOLEAN /\ UNCHANGED checkout
           \/ checkout' = "present" /\ UNCHANGED binding
  /\ Continue /\ UNCHANGED <<rec, worker, mem, watching, unread>>

\* The generation is recorded before its job can exist.
CreateGeneration ==
  /\ Step("generation")
  /\ \/ rec' = [rec EXCEPT !.gen = TRUE] /\ GoTo("start") /\ NoFault
     \/ Fault /\ GoTo("cleanup") /\ UNCHANGED rec
  /\ Continue /\ UNCHANGED <<binding, checkout, worker, mem, watching, unread>>

\* A start the supervisor refuses outright leaves nothing; one that fails may
\* or may not have registered the job, and is settled like one in time.
CreateStart ==
  /\ Step("start")
  /\ \/ job' = TRUE /\ phase' = "starting" /\ GoTo("connect") /\ NoFault
     \/ Fault /\ GoTo("connect") /\ UNCHANGED <<job, phase>>
     \/ Fault /\ GoTo("cleanup") /\ UNCHANGED <<job, phase>>
  /\ Continue /\ UNCHANGED <<files, journal, mem, watching, unread>>

\* The worker answers, before or after the connect deadline; or the wait for
\* it is over, and the generation is abandoned.
CreateConnect ==
  /\ Step("connect")
  /\ \/ phase = "idle" /\ GoTo("initialize") /\ NoFault
     \/ phase # "idle" /\ GoTo("retire") /\ NoFault
     \/ phase = "idle" /\ Fault /\ GoTo("retire")
  /\ Continue /\ UNCHANGED <<files, worker, mem, watching, unread>>

CreateInitialize ==
  /\ Step("initialize")
  /\ \/ phase = "idle" /\ phase' = "spawning" /\ GoTo("inspect") /\ NoFault
     \/ phase = "idle" /\ Fault /\ GoTo("retire") /\ UNCHANGED phase
     \/ phase # "idle" /\ GoTo("retire") /\ NoFault /\ UNCHANGED phase
  /\ Continue /\ UNCHANGED <<files, job, journal, mem, watching, unread>>

\* The initialize answer, the inspection of the child and the detector stream.
CreateInspect ==
  /\ Step("inspect")
  /\ \/ phase \in {"running", "exited"} /\ GoTo("commit") /\ NoFault
     \/ phase \in {"running", "exited"} /\ Fault /\ GoTo("retire")
     \/ phase \notin {"running", "exited"} /\ GoTo("retire") /\ NoFault
  /\ Continue /\ UNCHANGED <<files, worker, mem, watching, unread>>

\* The record is committed and the entry installed; a commit that fails stops
\* the runtime through its worker, if it can, and abandons the generation.
CreateCommit ==
  /\ Step("commit")
  /\ \/ /\ rec' = [rec EXCEPT !.txn = "none"] /\ mem' = "live"
        /\ tx' = NoTx /\ answer' = "ok"
        /\ NoFault /\ UNCHANGED worker
     \/ /\ Fault /\ GoTo("retire")
        /\ \/ /\ phase = "running" /\ phase' = "exited"
              /\ journal' = "terminal" /\ UNCHANGED job
           \/ UNCHANGED worker
        /\ UNCHANGED <<rec, mem, answer>>
  /\ UNCHANGED <<binding, checkout, watching, retry, unread>>

-----------------------------------------------------------------------------
(* Retirement and compensation, by whoever holds the lock *)

\* Mutant: a retirement that failed is taken for one that succeeded.
RetireAssumed == Fault /\ GoTo("cleanup") /\ Continue /\ UNCHANGED <<mem, unread>>

\* A removal that cannot go on fails towards its client, or stays pending.
RemovalFailed ==
  /\ Fault /\ UNCHANGED unread
  /\ \/ tx.who = "remove" /\ Finish(FALSE) /\ UNCHANGED mem
     \/ /\ tx.who # "remove" /\ Finish(TRUE)
        /\ mem' \in {"reconn", "conflict", list_pending}

\* The generation may still run: its checkout, binding and record stay for the
\* supervision retry. The watch of an abandoned job first loads the record.
RetireUnconfirmed ==
  /\ Fault
  /\ \/ /\ rec # None /\ Finish(TRUE) /\ UNCHANGED unread
        /\ mem' \in IF tx.who = "retry" THEN {mem} ELSE {"reconn", list_pending}
     \/ /\ tx.who = "watch" /\ Finish(FALSE)
        /\ unread' = (rec # None) /\ UNCHANGED mem

\* abandon, settle_ended_create and the rest: nothing of the generation is left
\* once its job is retired.
Retire ==
  /\ At("retire")
  /\ \/ /\ job' = FALSE
        /\ phase' = IF phase = "none" THEN "none" ELSE "gone"
        /\ GoTo(IF tx.who = "remove" THEN "intent" ELSE "cleanup")
        /\ NoFault /\ Continue /\ UNCHANGED <<mem, unread>>
     \/ /\ IF tx.rm THEN RemovalFailed ELSE RetireUnconfirmed
        /\ UNCHANGED <<job, phase>>
  /\ UNCHANGED <<files, journal, watching>>

\* Mutant: the session is listed, and nobody repeats the compensation.
defer_listed_only ==
  /\ rec # None /\ Fault /\ Finish(FALSE)
  /\ mem' = "compensation" /\ UNCHANGED unread

\* A compensation that did not finish is listed and repeated by the supervision
\* retry. A session that does not show it yet has its record loaded for that.
defer_create_compensation ==
  /\ Fault
  /\ \/ /\ rec # None /\ Finish(TRUE) /\ UNCHANGED unread
        /\ mem' \in {"compensation", list_pending}
     \/ /\ mem # "compensation" /\ Finish(FALSE)
        /\ unread' = (rec # None) /\ UNCHANGED mem

Undone == IF tx.rm THEN RemovalFailed ELSE defer_create_compensation

Gone(dir) == IF dir = "left" THEN "left" ELSE "absent"

\* Mutant: the record goes although the checkout could not be removed.
CleanupGivingUp ==
  /\ At("cleanup")
  /\ \/ checkout' = Gone(checkout) /\ NoFault
     \/ Fault /\ UNCHANGED checkout
  /\ GoTo("unbind") /\ Continue
  /\ UNCHANGED <<rec, binding, worker, mem, watching, unread>>

\* try_compensate_create: the checkout first. A removal goes on without it, and
\* reports it as left on disk.
Cleanup ==
  /\ At("cleanup")
  /\ \/ /\ checkout' = Gone(checkout) /\ GoTo("unbind") /\ NoFault
        /\ Continue /\ UNCHANGED <<mem, unread>>
     \/ /\ tx.rm /\ checkout = "present" /\ Fault
        /\ checkout' = "left" /\ GoTo("unbind")
        /\ Continue /\ UNCHANGED <<mem, unread>>
     \/ Undone /\ UNCHANGED checkout
  /\ UNCHANGED <<rec, binding, worker, watching>>

\* then its binding, which finds it for a repeated compensation,
Unbind ==
  /\ At("unbind")
  /\ \/ /\ binding' = FALSE /\ GoTo("drop") /\ NoFault
        /\ Continue /\ UNCHANGED <<mem, unread>>
     \/ binding /\ Undone /\ UNCHANGED binding
  /\ UNCHANGED <<rec, checkout, worker, watching>>

\* and the record last, with the entry that lists it.
Drop ==
  /\ At("drop")
  /\ \/ /\ rec' = None /\ mem' = "none" /\ Finish(FALSE)
        /\ NoFault /\ UNCHANGED unread
     \/ rec # None /\ Undone /\ UNCHANGED rec
  /\ UNCHANGED <<binding, checkout, worker, watching>>

-----------------------------------------------------------------------------
(* Reconciliation of an uncommitted record *)

Answers == phase \in {"idle", "spawning", "running", "exited"}

\* The evidence is incomplete: nothing is touched.
ProbeIncomplete ==
  /\ At("probe") /\ Fault /\ Finish(TRUE)
  /\ mem' \in {"conflict", list_pending}
  /\ UNCHANGED <<files, worker, watching, unread>>

\* reconcile_logical and reconcile_record, for a record that is a create.
Probe ==
  /\ At("probe") /\ rec.txn = "create"
  /\ \/ /\ phase = "running" /\ GoTo("adopt")
        /\ NoFault /\ Continue /\ UNCHANGED <<mem, watching>>
     \/ /\ phase = "spawning" \* no child to adopt
        /\ \/ NoFault /\ mem' = "lost" /\ Finish(FALSE)
           \/ Fault /\ mem' = list_pending /\ Finish(TRUE)
        /\ UNCHANGED watching
     \/ /\ phase \in {"idle", "exited"} \* never initialized, or ended
        /\ GoTo("retire") /\ NoFault /\ Continue /\ UNCHANGED <<mem, watching>>
     \/ /\ ~Answers /\ ~rec.gen \* launched nothing
        /\ GoTo("cleanup") /\ NoFault /\ Continue /\ UNCHANGED <<mem, watching>>
     \/ /\ phase = "starting" \* a live job that never journaled
        /\ \/ NoFault /\ mem' = "conflict"
           \/ Fault /\ mem' = list_pending
        /\ watching' = TRUE /\ Finish(FALSE)
     \/ /\ phase \in {"none", "gone"} /\ rec.gen
        /\ GoTo("retire") /\ NoFault /\ Continue /\ UNCHANGED <<mem, watching>>
  /\ UNCHANGED <<files, worker, unread>>

\* adopt_live_record: the runtime of a create whose daemon went away after it
\* was initialized commits as it is.
Adopt ==
  /\ At("adopt")
  /\ \/ /\ Answers /\ NoFault /\ Finish(FALSE)
        /\ rec' = [rec EXCEPT !.txn = "none"] /\ mem' = "live"
     \/ /\ Fault /\ Finish(TRUE) \* not committed
        /\ mem' = list_pending /\ UNCHANGED rec
     \/ /\ Finish(FALSE) \* no detector stream
        /\ IF Answers THEN Fault ELSE NoFault
        /\ mem' = "nodetector" /\ UNCHANGED rec
  /\ UNCHANGED <<binding, checkout, worker, watching, unread>>

\* A removal intent is finished: through the worker, if one still answers.
ProbeRemoval ==
  /\ At("probe") /\ rec.txn = "remove"
  /\ \/ /\ phase \in {"running", "exited"}
        /\ phase' = "exited" /\ journal' = "terminal" /\ UNCHANGED job
        /\ tx' = [tx EXCEPT !.pc = "retire", !.rm = TRUE]
        /\ NoFault /\ Continue /\ UNCHANGED mem
     \/ /\ ~Answers
        /\ tx' = [tx EXCEPT !.pc = "retire", !.rm = TRUE]
        /\ NoFault /\ Continue /\ UNCHANGED <<mem, worker>>
     \/ /\ Answers /\ mem' \in {"reconn", list_pending} /\ Finish(TRUE)
        /\ IF phase = "spawning" THEN NoFault ELSE Fault
        /\ UNCHANGED worker
  /\ UNCHANGED <<files, watching, unread>>

\* watch_abandoned_create: under the lock, until the job ends or its
\* initialization deadline is over.
WatchTake ==
  /\ up /\ watching /\ Free
  /\ watching' = FALSE /\ tx' = HeldBy("watch", "retire")
  /\ UNCHANGED <<files, worker, mem, retry, unread, answer, faults>>

\* retry_supervised_session: fresh evidence, or only the compensation again. A
\* record that cannot be loaded is tried again.
RetryTake ==
  /\ up /\ retry /\ Free
  /\ retry' = FALSE
  /\ \/ mem \in {"reconn", "conflict"} /\ tx' = HeldBy("retry", "probe")
     \/ /\ mem = "compensation"
        /\ tx' = HeldBy("retry", IF Uncommitted THEN "cleanup" ELSE "probe")
     \/ mem \notin {"reconn", "conflict", "compensation"} /\ UNCHANGED tx
  /\ UNCHANGED <<files, worker, mem, watching, unread, answer, faults>>

\* remove_with, for a session whose create did not commit. An unreachable
\* worker is retired first, if the record names it; a lost one is taken for
\* gone, although the loss of a worker without its child was never proven.
RemoveTake ==
  /\ up /\ Free /\ removes > 0 /\ removes' = removes - 1
  /\ Uncommitted /\ mem # "none"
  /\ \/ mem # "lost" /\ ~rec.gen /\ UNCHANGED <<tx, presumed>> \* refused
     \/ /\ mem # "lost" /\ rec.gen
        /\ tx' = [who |-> "remove", pc |-> "retire", rm |-> TRUE]
        /\ UNCHANGED presumed
     \/ /\ mem = "lost"
        /\ tx' = [who |-> "remove", pc |-> "intent", rm |-> TRUE]
        /\ presumed' = TRUE
  /\ UNCHANGED <<up, files, worker, mem, tasks, answer, faults, crashes>>

\* The removal is recorded, so that a crash finishes it.
RemoveIntent ==
  /\ At("intent")
  /\ \/ /\ rec' = [rec EXCEPT !.txn = "remove"] /\ GoTo("cleanup")
        /\ NoFault /\ Continue /\ UNCHANGED <<mem, unread>>
     \/ Fault /\ Finish(FALSE) /\ UNCHANGED <<rec, mem, unread>>
  /\ UNCHANGED <<binding, checkout, worker, watching>>

\* reconcile_workers, before the daemon serves requests.
Start ==
  /\ ~up /\ up' = TRUE
  /\ tx' = IF rec = None THEN NoTx ELSE HeldBy("start", "probe")
  /\ unread' = FALSE
  /\ UNCHANGED <<files, worker, mem, watching, retry, answer, presumed, faults,
                 crashes, removes>>

-----------------------------------------------------------------------------
(* The worker and the hosts *)

daemon == <<up, files, mem, tx, tasks, answer, presumed, faults, crashes,
            removes>>

WorkerReady ==
  /\ phase = "starting" /\ phase' = "idle" /\ journal' = "live"
  /\ UNCHANGED <<job, daemon>>

WorkerSpawns ==
  /\ phase = "spawning"
  /\ \/ phase' = "running" /\ UNCHANGED journal
     \/ phase' = "exited" /\ journal' = "terminal"
  /\ UNCHANGED <<job, daemon>>

WorkerExits ==
  /\ phase = "running" /\ phase' = "exited" /\ journal' = "terminal"
  /\ UNCHANGED <<job, daemon>>

\* Killed, failed at its start, never initialized in time, or released.
WorkerEnds ==
  /\ phase \notin {"none", "gone"} /\ phase' = "gone"
  /\ UNCHANGED <<job, journal, daemon>>

\* An interrupted create is never answered.
Crash ==
  /\ up /\ rec # None /\ rec.txn # "none" /\ crashes > 0 /\ crashes' = crashes - 1
  /\ up' = FALSE /\ mem' = "none" /\ tx' = NoTx
  /\ watching' = FALSE /\ retry' = FALSE /\ UNCHANGED unread
  /\ answer' = IF answer = "none" THEN "lost" ELSE answer
  /\ UNCHANGED <<files, journal, presumed, faults, removes>>

DaemonCrash == Crash /\ UNCHANGED <<job, phase>>

HostCrash ==
  /\ Crash /\ job' = FALSE
  /\ phase' = IF phase = "none" THEN "none" ELSE "gone"

-----------------------------------------------------------------------------
(* The specification *)

Init ==
  /\ up = TRUE /\ rec = None /\ binding = FALSE /\ checkout = "absent"
  /\ job = FALSE /\ phase = "none" /\ journal = "none" /\ mem = "none"
  /\ tx = NoTx /\ watching = FALSE /\ retry = FALSE /\ unread = FALSE
  /\ answer = "none" /\ presumed = FALSE
  /\ faults = Faults /\ crashes = Crashes /\ removes = Removes

CreateStep ==
  \/ CreateIntent \/ CreateBind \/ CreateCheckout \/ CreateGeneration
  \/ CreateStart \/ CreateConnect \/ CreateInitialize \/ CreateInspect
  \/ CreateCommit

SettleStep ==
  \/ Retire \/ Cleanup \/ Unbind \/ Drop
  \/ ProbeIncomplete \/ Probe \/ ProbeRemoval \/ Adopt \/ RemoveIntent

\* What no step of the daemon changes.
Frame == UNCHANGED <<up, presumed, crashes, removes>>

DaemonStep ==
  /\ \/ CreateStep \/ SettleStep \/ WatchTake \/ RetryTake
  /\ Frame

Next ==
  \/ DaemonStep \/ RemoveTake \/ Start
  \/ WorkerReady \/ WorkerSpawns \/ WorkerExits \/ WorkerEnds
  \/ DaemonCrash \/ HostCrash

Spec == Init /\ [][Next]_vars

\* Every task that holds the lock goes on, the watch and the retry get their
\* turn, and a daemon that ended is started again. Nothing is assumed of the
\* worker, of clients or of faults.
Fairness ==
  /\ WF_vars((CreateStep \/ SettleStep) /\ Frame)
  /\ WF_vars(WatchTake /\ Frame) /\ WF_vars(RetryTake /\ Frame)
  /\ WF_vars(Start)

FairSpec == Spec /\ Fairness

-----------------------------------------------------------------------------
(* Properties *)

\* The values each variable takes; every listing is one the retry knows.
TypeOK ==
  /\ up \in BOOLEAN /\ rec \in Records \cup {None}
  /\ binding \in BOOLEAN /\ checkout \in {"absent", "present", "left"}
  /\ job \in BOOLEAN /\ presumed \in BOOLEAN
  /\ phase \in Phases /\ journal \in {"none", "live", "terminal"}
  /\ mem \in Listings
  /\ tx.who \in {"none", "create", "start", "retry", "watch", "remove"}
  /\ watching \in BOOLEAN /\ retry \in BOOLEAN /\ unread \in BOOLEAN
  /\ answer \in {"none", "ok", "failed", "lost"}
  /\ faults \in 0..Faults /\ crashes \in 0..Crashes /\ removes \in 0..Removes

\* The create committed, or a reconciliation adopted what it left.
Committed == rec # None /\ rec.txn = "none"

\* No runtime loses its checkout: whatever fails or crashes, and whoever
\* compensates, a worker that has or may still get its child keeps the worktree
\* it was launched in, and so does every committed session, the one the create
\* answered as well as the one a reconciliation adopted (cleanup_bound_worktree:
\* callers reach it only when no runtime of the session can still use the
\* checkout). The exception is a removal that took a lost worker for gone.
CheckoutKept ==
  phase \in {"spawning", "running"} \/ Committed
    => checkout = "present" \/ presumed

\* Nothing a create made is ever out of reach: a checkout has its binding, a
\* binding, a job and an entry have their record, and the record of a job names
\* its generation. So whatever a crash leaves, the next start finds and settles
\* (create_intent_record, create_and_bind, transact_pty_registration,
\* try_compensate_create; the same exception).
NothingHidden ==
  /\ checkout = "present" => binding
  /\ binding \/ mem # "none" => rec # None
  /\ job => presumed \/ (rec # None /\ rec.gen)

\* An uncommitted create does not stay open: it is compensated without a trace,
\* or its runtime is adopted as a session. Three ends wait for the next start:
\* a worker found initialized without its child, an adoption without its
\* detector stream, and a record that could not be loaded.
LeftToNextStart == unread \/ mem \in {"lost", "nodetector"}
CreateSettles == Uncommitted ~> (~Uncommitted \/ LeftToNextStart)

=============================================================================
