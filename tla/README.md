# Verification of pohunek's durable sessions

pohunek runs coding agents in durable sessions. A daemon supervises sessions; every
session's runtime (a child process on a PTY) lives in a process of its own, the
**session worker**, which survives daemon restarts. Everything the system promises
about a session (no lost output, no prompt typed twice, one controller, a final and
truthful outcome) rests on the worker, so the worker is modelled first; what the daemon
makes of it across failures, crashes and restarts is modelled second.

Source paths are relative to `src/crates/session-worker/src/` for the worker and to
`src/crates/daemon/src/` for the daemon (`session/`, `runtime/`, `store/`, `worktree/`),
unless they start with `src/`.

## 1. Inventory

| Part | State | Operations | Interacts with | Hard behaviour | Correct when |
|---|---|---|---|---|---|
| Output actor (`output.rs`) | byte ring with offsets, terminal repaint, subscriber queues, completion | push, subscribe, subscribe_terminal_snapshot, recv, observe, wait_for_observation, resize, mark_exit, force_close | PTY reader thread pushes; attach streams, the monitor and `stop` consume | eviction under a slow consumer, queue overflow, close racing subscribe, lost wakeups | a consumer is told every byte or exactly what it missed |
| Observation streams (`server.rs` `await_observation_page`) | request, page, lease epoch | look, wait, recheck, deadline, authorize, write | output actor, lease epoch, shutdown | snapshot-to-wait race, deadline against late output, release between a check and the look or write it is for | pages are truthful, and show nothing newer than the release of their lease |
| Input coordinator (`input.rs`), probe replies (`probe.rs`) | dedup table, watermark, evicted filter, plan and execution locks, pending mark | execute_control, execute_legacy, execute_stream, execute_reply, answer_probes | control connections, attach streams, PTY master | retries after eviction, partial writes, unbounded attach writes | an id is typed once, answers are truthful, control is never wedged |
| Controller lease (`lease.rs`), tokens and data streams (`server.rs`) | active lease, token vault, lease epoch, per-connection state | acquire, release, end of connection, open data, redeem, serve, revoke | daemons, their restarts and deaths | release and epoch bump are two steps, tokens race expiry and release | one controller, one use per token, no stream outlives its lease |
| Runtime life (`server.rs`, `pty.rs`, `journal.rs`) | phase, journal in memory and on disk, seal, cleanup state, PTY threads | serve's deadline, initialize, stop, acknowledge, coordinate_runtime_completion, persist | controller, child, processes outside the group, disk | deadline against initialize, stop against natural exit, failed writes, forced close | the journal is truthful and final, the worker ends |
| Identity and launch claims, subagents, background work (`launch.rs`, `identity.rs`, `background.rs`, parts of `server.rs`) | claims and tables in the journal | hook claims, retries | child processes, host process table | claims racing the exit | not modelled yet |
| Daemon session registry (`session/mod.rs`, `session/conflict_stop.rs`, `session/terminal_ack.rs`) | registry entry, session record, lifecycle lock, watchers | stop, remove, exit watcher, reconnect, classify, acknowledge | worker, supervisor job, store, clients | the watcher commits without the lifecycle lock; writes fail or are not synced; workers hang, die or answer late | an answered stop stays, an outcome is final, the registry never runs ahead of the store, ended sessions are settled |
| Daemon reconciliation (`session/reconcile.rs`, `session/supervision.rs`) | pending set, placeholders | startup pass, supervision retry, import, adopt, finish intents | the same, and what a crash left | restart at any point of any transaction | every record ends where its intent and the evidence say |
| Daemon create (`session/target.rs`, `runtime/lifecycle.rs`, `worktree/mod.rs`) | create intent, binding, checkout, generation, job | create, compensate, defer, watch an abandoned job | git, supervisor, worker, store | any step fails or is interrupted, its compensation too | no runtime loses its checkout, nothing is left out of reach |
| Daemon agents, integrations, notifications, API | - | - | - | - | not modelled |
| Relay (`src/crates/relay`) | leases, store | lease, recovery, admission | daemons, clients | lease expiry, recovery | not modelled yet |
| Protocol crates, client, CLI, packages, terminal, platform, SDK | - | - | - | little concurrency of their own | not modelled |

`PROJECT.json` lists every component with its status, and under `hazards` every place
of the modelled code that is hard to test, with the properties aimed at it.

## 2. Modules

    OutputRing            the ring and its pure operations
      OutputHub           the output actor        --implements-->  OutputStream (abstract)
      OutputObservation   observation streams
    ControlInput          input, deduplication, PTY locks, probe replies
    WorkerControl         lease, tokens, data streams
    WorkerLifecycle       one runtime from start to end
    SessionCreate         the daemon's create transaction and its compensation
    DaemonSession         a committed session in the daemon: stop, remove, watch, reconcile
    <module>Proofs        the theorems about each of them; OutputHubProofs and
                          OutputObservationProofs share the lemmas of OutputRingProofs
    MC*                   the instances TLC checks

Definitions whose comment starts with "Mutant:" are deliberately wrong variants of the
definition below them; no specification uses them. They show that a property notices
the bug in question.

**OutputRing, OutputHub.** A byte is its position in the PTY's stream, so "the right
bytes" can be said without contents: a chunk carries the offset the code labels it with
(`offset`) and the position its bytes really have (`from`). One action per public
operation; `recv` is split along the branches of `next_event` (`RecvReplay`,
`RecvEvictedReplay`, `RecvGap`, `RecvRepaint`, `RecvQueued`, ...), each one poll under
the hub's mutex. `phase[s] = "parked"` is a `recv` awaiting its `Notified`, `permit` the
permit `notify_one` leaves. `gate` is what keeps a consumer from polling again: a stream's
`drive_stream` polls `recv` only while its writer queue has room (`full` until the client
reads) and while it holds no `Exit` back for the root's exit (`held`); the worker's own
consumers are always `open`. `pos`, `owed` and `last` record what a consumer was told.
A repaint is a byte length, drawn anew at each push and resize.

**OutputStream** is what the actor promises: a growing stream, and per consumer a
position that moves only by the next bytes or an explicit, non-empty gap, a gap being
followed by a whole repaint, the exit only at the end. `OutputHub!ImplementsStream` is
the refinement; its mapping reports the positions bytes came *from*, not their labels.

**OutputObservation.** The actions are the points between which a stream can be
interrupted. `await_observation_page` checks the lease (`Look`), takes a page (`TakePage`)
and checks again (`ReturnPage`) or waits (`Enable`, `Recheck`, `Wake`, `Disconnect`);
`notify_waiters` stores no permit, which is why `Enable` precedes `Recheck`. At the deadline
the check (`Deadline`) precedes the last look (`TakeLastPage`) and nothing follows it, so a
page may be taken after its lease was released. `serve_observation_data` then proves the
peer and checks once more (`Authorize`), and `WritePage` stands for the frames, each awaiting
the client, which nothing interrupts. `cut` remembers where the output ended when each epoch
ended, which is what the fence is about: a released lease does not stop a page that is being
written, but no page shows output that is newer than the release.

**ControlInput.** A plan is a number of fragments of `FragmentBytes` bytes; each accepted
byte is appended to `typed` with its writer, tenure (how often the dedup namespace was
selected), write id and index. `Request` is the decision under the dedup mutex, then
`LockPlan`, `LockExecution`, `Write`, `EndFragment`, `EndPlan` or a failure. The filter of
evicted legacy ids may also answer "maybe" for an id it does not hold.

**WorkerControl.** A lease id is the identity of the connection that got it, a token a
value drawn once (both are random in the code). `Release`/`EndLeased` clear the lease and
`BumpEpoch` is the separate second step; redemption is the four steps of `serve_data`
(`DataOpen` subscribes to the epoch, `DataBorrow` reads it, `DataRedeem`, `DataServe`).
A peer may exit at any time while its descriptor lives on.

**WorkerLifecycle.** What happens under one hold of the state lock is one step, including the
journal write, which may fail before its rename. Three parties act: the accept loop (`serve`),
one request handler (the lease admits one controller and a connection handles one request at a
time) and the coordinator. `PtyOwner::stop` is called by the last two; it runs under the
cleanup lock, step by step (`StopBegins`, `StopEscalates`, `StopForces`, ...), and its callers
see it still running, returned `Ok` or returned `Err`. The code's `ForcedClosing` and
`OutputAuthorityReleased` are one cleanup state, as are `ObservationAuthorityReleased` and
`ObservationFailed`: a later call does the same in both. `outsider` is a process of the
runtime outside its group: one a sweep can attribute to the runtime, by its marker or its
descent, or one it cannot see. A sweep goes on, pass by pass, until it attributes nothing
more, or faults the runtime; it does not show that nothing is left. A spawn whose identity has
no wire form (`SpawnUnwired`) leaves a child the state does not know, which only the deadline
ends. `cause` remembers whose signal preceded the root's exit, `answer` the last response. The
process may end at any step; the file keeps what was renamed into place.

**SessionCreate.** One session that gets a worktree of its own, before its create commits.
`tx` is the holder of the session's lifecycle lock (the create, the startup pass, the
supervision retry, the watch of an abandoned job or a removal) and what it does next; the
steps from `CreateIntent` to `CreateCommit` are the awaits of the create at which it can
fail or be interrupted, `Retire`, `Cleanup`, `Unbind`, `Drop` the ones of every
compensation. `binding`, `checkout`, `rec`, `job` and `journal` outlive the daemon. The
worker initializes, spawns, exits and dies on its own. Where a step fails and the write
that would list the failure fails as well, the session may be listed as before
(`list_pending`). `presumed` remembers that a removal took a lost worker for gone (below).

**DaemonSession.** One committed session with one worker generation. `rec` is the record,
`undo` the one a host crash may bring back after an unsynced write, `mem` the registry
entry, `tx` the holder of the lifecycle lock, `w` the exit watcher (which does not take it),
`ack` the acknowledgement, `retry` the pending set of the supervision retry. The worker is
abstracted to what the daemon can observe of `WorkerLifecycle`: it answers, has exited with
its journal committed, closes, is gone, or hangs; its journal may be lost in a host crash
when its rename was not synced (`loose`). `Op...` are the steps of a request, `Watch...` of
the watcher, `Ack...` of the acknowledgement, `Rc...` of a reconciliation, started by
`Start` or by the retry. A commit is one step because the sessions lock is held from the
check of its bases to the install. Three of the runtime states are `reconnecting` to a
client and differ in who follows them up.

## 3. Runs

| Run | Instance | Shows |
|---|---|---|
| `output_hub` | 1 consumer, history 3, queue 3, event 2, reads of 1..4, 7 bytes, repaints of 1 or 3 | safety, refinement and liveness of the output actor |
| `output_hub_exit` | smaller | **finding**: a consumer can end without `Exit` |
| `output_observation` | 1 observer, history 3, pages of 2, 6 bytes, 2 releases | pages and their timeouts, fencing, wakeups |
| `control_input` | 2 connections (symmetric), 1 daemon, 2 write ids, 2 fragments of 1 byte, 1 retained outcome, 3 requests | typed at most once, truthful answers |
| `control_input_locks` | 1 connection, 1 stream, reply task, fragments of 2 bytes | fragments whole; control answered though a stream may hold the PTY for ever |
| `control_input_probe` | 2 probes | **finding**: a failing reply forgets a later probe |
| `worker_control` | 2 daemons, 2 control and 2 data connections, 1 token, 1 tick | lease, tokens and revocation |
| `worker_control_replace` | 1 daemon, 2 connections | **finding**: the late bump revokes the replacement |
| `worker_lifecycle` | 2 transactions | truthful, final journal; the worker ends; stops are answered |
| `worker_lifecycle_deadline` | 1 transaction | **finding**: the deadline journals `never_initialized` over a running child |
| `daemon_session` | 2 requests, 2 faults, 1 crash of daemon or host | answers, outcomes and intents survive every race and crash; requests are answered, ended sessions settled |
| `session_create` | 4 faults, 2 crashes, 1 removal | a create that does not commit is undone or adopted, never half of each |

*Why the bounds are enough.* Consumers and observers share nothing but the hub's state that
each is given, so one of them sees everything a hub does to it. The history, the queue and one
event are smaller than the stream and than one read, by different amounts, so eviction,
overflow and fragmentation happen separately and together. Two connections, two ids and one
retained outcome are the least with which an id is evicted, retried and retried by a
successor. Two data connections and one token are the least that can race for a token, two
control connections the least that can replace each other. Nothing in `WorkerLifecycle` is
bounded but the transactions, whose identity matters only for "same or another". A fault in
`DaemonSession` and `SessionCreate` is a failed or unsynced write, a refused supervisor call,
a failed exchange, an unconfirmed sweep, a hung worker: two are the least with which a failure
meets the failure of what handles it, four let a create, its compensation, the listing of that
and the retry fail in turn. One crash in `DaemonSession` reaches a restart in any state, two
in `SessionCreate` a restart that is itself interrupted. Two requests are a stop and the stop
or removal that follows it. Every safety property of the passing runs is also proved for every
instance (below), so the bounds matter for liveness and for the findings only. The systems may
stop (all consumers gone, worker ended, bounds reached), so deadlock is not checked.

*Findings.* The four violation runs check a sentence of the code's own documentation:
`mark_exit` wakes every subscriber (an `Exit` cleared with the queue at `output.rs:719`
makes the monitor fault the runtime); `ProbeReplies::take` keeps later probes
(`probe.rs:78` takes twice); a released connection does not revoke its replacement
(`server.rs:1010`, two steps); a `never_initialized` journal proves the runtime ended
(`server.rs:544` checks `initialized` only when `select!` is entered). `PROJECT.json`
quotes them.

*Fairness.* `OutputHub`: a consumer polls `recv` whenever its loop lets it, and `drive_stream`
polls the root's exit while it holds an `Exit` back, so `Recv` and `ForwardExit` are weakly
fair; pushes, closes, drops, the client (`ClientReads`) and the root's exit are not.
`ConsumersEnd` therefore says that after the close a consumer ends or waits for its own
client or for the root, never for the hub. `OutputObservation`: the serving task runs;
neither the deadline nor the client that a page is written to is fair, so
`WaitersAreAnswered` owes nothing to them. `ControlInput`: only
the handling of a control request is fair, since its locks and writes are bounded by the
stall; attach streams may block for ever. `WorkerControl`: worker tasks run and a leased
connection's peer is rechecked periodically; nothing is assumed of daemons.
`WorkerLifecycle`: timers fire, tasks run, `SIGKILL` kills, the cleanup lock is a FIFO mutex
(strong fairness of the coordinator's steps that need it), and a disk does not refuse
writes for ever (`CommitTerminal`), though it may refuse any number of them.
`DaemonSession`, `SessionCreate`: whoever holds the lifecycle lock goes on (every wait of the
code is bounded by a deadline), watcher, acknowledgement, watch and retry run, the daemon is
started again, a closing worker exits; the lock is a FIFO mutex, so a request gets its turn
between retries (`SF` of `OpBegin`). Nothing is assumed of clients, of faults, or of the
worker beyond that. Faults are finite, so liveness says: once things stop failing.

## 4. Proofs

TLAPS proves the following for every value of the constants.

**WorkerControlProofs** (assumptions: `VaultAssumption`, `TimeAssumption`,
`NamesAssumption`): `TypeCorrect`, `LeaseSafe`, `TokenSafe`, `OwnerServed`,
`RevocationSafe`, `BurnSafe`, `VaultSafe`. None of the properties is inductive alone. `IInv`
adds

- `LeaseInv`: the lease is booked for exactly the connection that will give it back;
- `GrantInv`, `VaultInv`: a grant was issued, its token is unique in the vault, its epoch is
  not ahead of the current one, and its holder is leased, between its release and its bump,
  or ended with the grant's epoch over, which is the heart of `RevocationPending`;
- `StreamInv`: a stream saw the epoch before it borrowed it and borrowed it before it
  redeemed its grant, which is no longer in the vault.

`VaultSafe` proves the vault finite as well as bounded. `TokensNotBurned` is an action
property proved from the same invariant.

**WorkerLifecycleProofs** (assumption: `NoneAssumption`): `TypeCorrect`, `TerminalSafe`,
`AttributionSafe`, `AnswersSafe`, `WatchedSafe`, `OutcomeSafe`. The invariant is

- `SealInv`: a terminal file is the sealed record; with `WriteEffect` this gives
  `OutcomeFinal` for every writer at once;
- `SpawnInv`: before the child is spawned nothing of a runtime exists;
- `CoordInv`: how far the coordinator is says what became of root, output and the outsiders
  that can be attributed, which is what the terminal record will claim;
- `StopInv`: a handler's signal to a coordinated runtime implies `stopRequested`, and a
  signal that preceded the exit precedes the coordinator's read;
- `TellInv`: the phase `Exited`, a pending acknowledgement and every answer follow the file;
- `WatchInv`: the deadline stays armed until the coordinator exists, and a finished
  coordinator has shut the worker down.

The proofs first show that every step keeps the types and the file (`ServeTypes`,
`HandlerTypes`, `CoordTypes`), from lemmas about a journal write (`WriteEffect`), a fault
(`FaultEffect`) and a step of `stop` (`StopEffect`), then that it keeps the rest
(`ServeTruth`, `HandlerTruth`, `CoordTruth`).

**OutputRingProofs** (assumptions: `HistoryLimitAssumption`, `MaxOffsetAssumption`): a new
ring is consistent, `push` keeps it so (`PushConsistent`), and a consistent ring returns the
bytes an offset names (`BytesTruthful`).

**OutputObservationProofs** (assumptions: those, `MaxBytesAssumption`, `MaxPushAssumption`,
`MaxEpochAssumption`): `TypeCorrect`, `PageSafe`, `TimeoutSafe`, `ReleaseSafe`.
`ObserveGood` derives the page's promises from the ring's lemmas. `IInv` adds to the types
that the ring is consistent, a request lies within the output, only a request that waits
reaches the wait, which makes the deadline's last look a truthful timeout, and `Fenced`: a
page that is being written ends no later than the output did when its epoch ended, or within
the output while the epoch lasts. `ReleaseSafe` does not follow from the guard of any one
step: a page taken after the release exists (`TakeLastPage`), one written after the release
exists (`WritePage`), and it takes the check between the two to keep them apart.

**OutputHubProofs** (assumptions: the ring's, `SubscriberLimitAssumption`,
`MaxPayloadAssumption`, `MaxPushAssumption`, `AnsiLensAssumption`): `TypeCorrect`, `NoLoss`,
`Refinement`. What a consumer is told next was decided when it was queued, so the invariant
describes a queue from front to end (`QueueGood`): the cursor at its front, a history to
replay or a repaint to draw, starts where the consumer stands; the queued events follow each
other without hole or overlap to the end of the stream; an `Exit` is the last. Each way to
build, feed or drain a queue is a lemma about the queue alone. The refinement is proved in the
form `Spec => ImplementsStream`: initial states map to initial states, and each action to one
action of `OutputStream` or to a stutter.

**ControlInputProofs** (assumptions: `IdsAssumption`, `CapacityAssumption`,
`PlanAssumption`, `BoundsAssumption`, `NoOneAssumption`, and `WritersAssumption`: the three
kinds of writers have different names): `TypeCorrect`, `OnceSafe`, `FragmentsSafe`,
`AnswersSafe`. The argument for at-most-once runs through `DedupInv`: a write of which a byte
was typed is still known to the dedup state, by its entry, by the high watermark or by the
filter of evicted ids, so eviction forgets outcomes and never writes. That a stored outcome
stays true needs `RequestInv` (the bytes typed for the request in hand are exactly the counted
prefix), and this needs `LeaseInv`: one connection at a time is served, so the namespace does
not change under a plan. `FragmentInv` says that a writer inside a fragment typed the last
byte; it needs `LockInv`.

**SessionCreateProofs** (assumptions: `BudgetAssumption`, and `NoneAssumption`: no record is
not a record): `TypeCorrect`, `CheckoutSafe`, `ReachSafe`. Whether a compensation may run is
decided long before it removes the checkout, so the invariant says what holds wherever the
holder of the lock stands: who may stand where (`HolderInv`), what the create has made at each
step (`PlaceInv`), that whoever compensates, or may start to from what is listed, knows that
no worker of the generation is left (`GoneInv`), and the order checkout, binding, record
(`UndoInv`). The attempt to prove `CheckoutKept` showed that it had to be said of every
committed session as well, not only of one whose worker runs; it now is, in the run too.

**DaemonSessionProofs** (assumptions: `BudgetAssumption`, `NoneAssumption`): `TypeCorrect`,
`StopHonoured`, `AckSafe`, `MemorySafe`, `JournalsSafe`, the action properties `IntentSafe`
and `OutcomeSafe`, and `RecordHistory`. The writers of a record check little; they are right
because of what the lifecycle lock, the watcher and the worker rule out. The invariant has a
part about the shared state and one about the holder of the lock:

- `Good`: a record or entry agrees with itself and with the worker (stopped needs an intent,
  an end needs the end of the process, a terminal outcome is the worker's own);
- `EntryInv`: entry and record have one session state, and an entry with a handle does not
  forget an intent that ended the worker (one without may: a failed stop takes its intent out
  of the entry even when it cannot take it out of the record);
- `WatchInv`: an entry without a handle has no watcher, but for an exit commit that was
  already cancelled and whose memory base such an entry cannot match. This is what makes the
  watcher's commit, which takes no lifecycle lock, harmless to a reconciliation;
- `AnswerInv`: what was answered to a client or to the worker is in the store;
- `LockInv`, `SavedInv`, `OpInv`, `BackInv`, `RcInv`: what each step of a request, a removal
  and a reconciliation may rely on, above all that the record a reconciliation read at its
  start is still the record when it writes, although that write is unconditional.

Each action's lemma shows two things at once: the invariant is kept, and what the step does to
the record is allowed (`RecordStep`). The second gives the action properties, and
`RecordHistory`: no step but a crash brings a removed record back, lets an ended session run
again or turns a stopped one into something else. `IInv` holds on 2,215,204 states of an
instance larger than the run's (3 faults, 2 crashes, 2 requests).

`TimeoutSafe`, `OwnerServed`, `VaultSafe`, `WatchedSafe` and `RecordHistory` are proved only;
no run repeats them. Every `IInv` was checked with TLC on the runs' instances before it was
proved.

Only model-checked: liveness (`ConsumersEnd`, `WaitersAreAnswered`, `ControlAnswered`,
`StreamsRevoked`, `DeadControllerReleased`, `WorkerEnds`, `StopAnswered`, `RequestsAnswered`,
`EndedSettles`, `CreateSettles`), since the prover handles neither fairness nor `ENABLED`.
The four violations are TLC's as well.

## 5. What the daemon's models show besides

Met while modelling, stated here because the properties name them as exceptions or are
worded around them:

- *Stranded adoption.* `adopt_live_record` (`session/reconcile.rs:4092`) lists a session whose
  detector stream cannot be opened as `reconnecting` with that error as its reason. The retry
  waits only for `runtime_supervision_unavailable`, conflicts, compensations and terminal
  jobs (`session/supervision.rs:1482`) and no watcher runs, so it stays until a restart or a
  removal, where the runbook says "Wait; reconciliation retries on its own."
  (`src/docs/runbooks/durable-session-workers.md:100`). `Stranded` in `EndedSettles`,
  `LeftToNextStart` in `CreateSettles`.
- *Presumed loss.* A worker found `Starting` without its child is listed `lost` with
  `LossProof::Unproven` (`session/reconcile.rs:3987`). A removal leaves a lost runtime's job
  alone (`retire_unstopped_job`) and removes the checkout, although elsewhere "`Lost` counts
  as ended, so a later removal skips retirement: it is published only once the job is gone"
  (`session/reconcile.rs:1899`). `presumed` in `CheckoutKept` and `NothingHidden`. These two
  exceptions are states the code leaves; the properties speak of everything else.
- *Unread record.* A compensation or an abandoned job that fails while the record cannot be
  loaded is neither listed nor scheduled; the next start finds it (`unread`).
- *Presumed end.* `classify_running_generation` does not read the journal, so a live daemon
  may record a loss for a worker whose journal is terminal; a later start imports the
  journal. That is why `OutcomeFinal` speaks of outcomes recorded as terminal.
- *Intent of a refused stop.* A reconnection between the mark and the intent's write stores
  the marked desired state; if the write then fails, the rollback restores only the entry.
  `IntentDecides` therefore speaks of intents that entry and record hold.
- *Reconnecting after the end.* `mark_worker_reconnecting` does not look whether the entry is
  terminal (`session/mod.rs:7197`): a poll that fails between the terminal commit and the
  watcher's cancellation shows an ended session as reconnecting, and a removal then leaves its
  job to the next start.
- A create that was answered as failed may still be adopted later, when its commit failed and
  its worker could neither be stopped nor retired.

## 6. Not modelled

- `DaemonSession`: identity mismatches and the removal of a conflict proven foreign,
  incompatible and previous-release workers, acceptance of an unconfirmed cleanup, journal
  collection, graceful shutdown, metadata writers, resume and recovery. One request is handled
  at a time. The stop's transaction id is left out: with one request at a time an intent is
  identified by its desired state. `commit_intent` and `adopt_reconnected_worker` are one step
  each. A commit that gives up after `MAX_RUNTIME_TRANSITION_COMMIT_ATTEMPTS` is a fault of
  `OpCommit`; its retries are not counted, so `RequestsAnswered` does not owe the answer to
  the bound. The refusals of `ensure_retirable` are of identity mismatches and of records
  without a generation. A retry that skips its scan because the same unreadable processes
  still block it (`blockers_unchanged`) is a retry that has not run yet.
- `SessionCreate`: sessions in place or on an existing worktree, the initial input and its
  rollback, create request keys, faulted journals, a job that registers only after the
  supervisor was asked for it, crashes after the commit (they are in `DaemonSession`). A write
  whose directory sync failed is taken as committed and survives the host crash here, that of
  a worktree binding (`worktree/mod.rs:579`) and of a create intent included: what
  `CheckoutKept` and `NothingHidden` say of a host crash during a create holds for writes that
  were synced. `DaemonSession` has unsynced writes of the session record and of the worker's
  journal only. `Drop` removes record and entry in one step; `release_removed_session` evicts
  the entry first and lists it again when the delete fails, under the lifecycle lock that
  every reader of the entry in this module takes.
- `WorkerControl`: `bump_lease_epoch` reads and replaces the epoch in one step (the code has
  no await between the two, and no lock over them). `StreamsRevoked` is about leaving the loop
  of `drive_stream`: the close frame it then queues may wait behind a client that does not
  read. `DeadControllerReleased` assumes that the connection's task gets to its recheck; a
  response being written to a peer that does not read holds it up until that peer's socket is
  gone.
- `WorkerLifecycle`: an attach stream blocked in a write when the worker ends.
- `ControlInput`: the writer's own mutex (`input.rs:423`), always taken under the execution
  lock.
- The order of attach input against a lease epoch that changes at the same moment
  (`drive_stream` picks among ready branches).
- Contents: bytes, terminal emulation, fingerprints (taken as injective), random values
  (taken as never repeating), message encodings.
- Operating-system verdicts (process identities, cgroups, sweeps) are inputs: a process can be
  attributed to the runtime or not, a pass of a sweep ends it or fails, an observation is made
  or fails.
- The parts marked not modelled in the inventory.

## 7. Plan

1. *(done)* Output actor, observation, input, control, runtime life.
2. *(done)* The daemon: stop, remove, watcher, acknowledgement, retry and reconciliation of a
   session, with daemon and host crashes; the create transaction and its compensation.
3. *(done)* Proofs of every safety property the passing runs check, and of the refinement of
   `OutputStream`.
4. Proofs: the safety half of the liveness properties, where one is worth stating (whoever
   must act next is in a state from which its step is possible); the worker `DaemonSession`
   assumes as an abstraction that `WorkerLifecycle` implements.
5. Resume and create request keys in `SessionCreate`; launch identity claims (`launch.rs`,
   `retry_launch_claims`, hook handlers) and subagent claims against exit and restart.
6. Relay leases.
