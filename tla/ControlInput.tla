---------------------------- MODULE ControlInput ----------------------------
(***************************************************************************)
(* Input to the PTY of one session worker                                  *)
(* (crates/session-worker/src/input.rs, probe.rs, lease.rs and             *)
(* server.rs/write_request).                                               *)
(*                                                                         *)
(* Three kinds of writers share one PTY master: the control plans of the   *)
(* daemon that holds the controller lease, the frames of attach streams,   *)
(* and the worker's own replies to status probes.  A fragment is written   *)
(* under the execution lock, piece by piece; the lock is free across a     *)
(* fragment's delay.  Control writes are deduplicated by write id within a *)
(* namespace (the lease, or for protocol-v2 daemons the daemon), so that a *)
(* retried request joins the first outcome instead of typing twice.        *)
(*                                                                         *)
(* A fragment has FragmentBytes bytes; content f is a plan of f fragments, *)
(* so its fingerprint is f.  A lease id is the connection that acquired    *)
(* it: ids are random and a connection acquires at most once.              *)
(***************************************************************************)
EXTENDS Integers, Sequences, FiniteSets

CONSTANTS Connections,    \* control connections, none of them reused
          Daemons,        \* daemon instance ids
          Streams,        \* attach streams, each sending one frame
          Ids,            \* write ids: sequence numbers, positive
          MaxFragments,   \* bound: fragments in one plan
          FragmentBytes,  \* bytes of a fragment
          Capacity,       \* DedupState::capacity
          MaxRequests,    \* bound: write requests in all
          MaxProbes       \* bound: status probes in the output

ASSUME IdsAssumption      == Ids \subseteq Nat \ {0}
ASSUME CapacityAssumption == Capacity \in Nat \ {0}
ASSUME PlanAssumption     == MaxFragments \in Nat \ {0} /\ FragmentBytes \in Nat \ {0}
ASSUME BoundsAssumption   == MaxRequests \in Nat /\ MaxProbes \in Nat

NoOne == "no one"
ASSUME NoOneAssumption == NoOne \notin Connections \union Daemons \union Streams

VARIABLES
    lease,      \* ControllerLease.active: the connection that holds it
    conn,       \* per connection: Connection and the request in hand
    dedup,      \* DedupState
    plans,      \* WriteLocks.plans: the connection holding it
    execution,  \* WriteLocks.execution: the writer holding it
    attach,     \* per stream: its frame's progress
    reply,      \* answer_probes and ProbeReplies
    \* History, never read by the code:
    typed,      \* the bytes the PTY accepted, in order
    tenure,     \* how often a namespace was selected
    answers,    \* every answer given to a control write
    requests    \* write requests so far

vars == <<lease, conn, dedup, plans, execution, attach, reply, typed, tenure,
          answers, requests>>

ReplyTask == "reply task"
ASSUME WritersAssumption == /\ ReplyTask \notin Connections \union Streams
                            /\ Connections \intersect Streams = {}

Modes   == {"none", "monotonic", "legacy"}
Content == 1..MaxFragments

\* The outcome stored for a write: `written` counts accepted bytes.
Result == [kind : {"pending", "ok", "stalled", "io"}, written : Nat]
Pending == [kind |-> "pending", written |-> 0]
Absent  == [present |-> FALSE, fingerprint |-> 0, result |-> Pending]

Total(content) == content * FragmentBytes

NoRequest == [mode |-> "none", id |-> 0, content |-> 0]

Init ==
    /\ lease = NoOne
    /\ conn = [c \in Connections |->
                 [pc |-> "new", daemon |-> NoOne, request |-> NoRequest, written |-> 0]]
    /\ dedup = [namespace |-> NoOne, mode |-> "none", entries |-> [i \in Ids |-> Absent],
                completed |-> <<>>, high_watermark |-> 0, evicted |-> {}]
    /\ plans = NoOne
    /\ execution = NoOne
    /\ attach = [s \in Streams |-> [pc |-> "new", written |-> 0]]
    /\ reply = [pc |-> "wait", written |-> 0, pending |-> FALSE, closed |-> FALSE,
                probes |-> 0, unanswered |-> FALSE]
    /\ typed = <<>>
    /\ tenure = 0
    /\ answers = {}
    /\ requests = 0

-----------------------------------------------------------------------------
(* The controller lease *)

\* Mutant: the lease is booked under the daemon instead of the connection.
AcquireByDaemon(c, d) ==
    /\ conn[c].pc = "new"
    /\ lease = NoOne
    /\ lease' = d
    /\ conn' = [conn EXCEPT ![c].pc = "idle", ![c].daemon = d]
    /\ UNCHANGED <<dedup, plans, execution, attach, reply, typed, tenure, answers, requests>>

\* ControllerLease::acquire.  Another holder means Busy; nothing is stolen.
Acquire(c, d) ==
    /\ conn[c].pc = "new"
    /\ lease = NoOne
    /\ lease' = c
    /\ conn' = [conn EXCEPT ![c].pc = "idle", ![c].daemon = d]
    /\ UNCHANGED <<dedup, plans, execution, attach, reply, typed, tenure, answers, requests>>

\* The connection ends, by ReleaseController or by itself.  A request in hand is
\* finished first: it is handled inside the connection's loop.
End(c) ==
    /\ conn[c].pc = "idle"
    /\ conn' = [conn EXCEPT ![c].pc = "closed"]
    /\ lease' = IF lease = c THEN NoOne ELSE lease
    /\ UNCHANGED <<dedup, plans, execution, attach, reply, typed, tenure, answers, requests>>

-----------------------------------------------------------------------------
(* Control plans *)

\* DedupState::select_namespace
SelectNamespace(namespace, mode) ==
    IF dedup.namespace = namespace /\ dedup.mode = mode
    THEN dedup
    ELSE [namespace |-> namespace, mode |-> mode, entries |-> [i \in Ids |-> Absent],
          completed |-> <<>>, high_watermark |-> 0, evicted |-> {}]

\* The write was refused or answered from its first outcome, without a byte.
Answer(c, state, request, result) ==
    /\ dedup' = state
    /\ answers' = answers \union
         {[tenure |-> tenure', id |-> request.id, content |-> request.content, result |-> result]}
    /\ UNCHANGED <<conn, plans>>

\* The write is new: it is entered before the first byte is written.
Start(c, state, request) ==
    /\ dedup' = [state EXCEPT
                   !.entries[request.id] = [present |-> TRUE, fingerprint |-> request.content,
                                            result |-> Pending],
                   !.high_watermark = IF request.mode = "monotonic" THEN request.id ELSE @]
    /\ conn' = [conn EXCEPT ![c].pc = "plan", ![c].request = request, ![c].written = 0]
    /\ UNCHANGED <<plans, answers>>

\* Mutant: an id without an entry is taken for a new one.
NeverExecuted(state, request) == {FALSE}

\* Whether a write without an entry may already have been executed.  The filter
\* of evicted legacy ids can also answer yes for an id it does not hold.
MaybeExecuted(state, request) ==
    IF request.mode = "monotonic"
    THEN {request.id <= state.high_watermark}
    ELSE {request.id \in state.evicted, TRUE}

\* write_request: execute_control, or execute_legacy for an `input-N` id, up to
\* the decision.  The connection holds the lease, so validate_scope accepts it.
Request(c, mode, id, content) ==
    LET namespace == IF mode = "monotonic" THEN c ELSE conn[c].daemon
        state     == SelectNamespace(namespace, mode)
        entry     == state.entries[id]
        request   == [mode |-> mode, id |-> id, content |-> content]
    IN  /\ conn[c].pc = "idle" /\ lease = c
        /\ requests < MaxRequests
        /\ requests' = requests + 1
        /\ tenure' = IF state = dedup THEN tenure ELSE tenure + 1
        /\ \/ /\ entry.present /\ entry.fingerprint # content
              /\ Answer(c, state, request, [kind |-> "conflict", written |-> 0])
           \/ /\ entry.present /\ entry.fingerprint = content
              /\ entry.result.kind # "pending"
              /\ Answer(c, state, request, entry.result)
           \/ /\ ~entry.present
              /\ \E maybe \in MaybeExecuted(state, request) :
                    IF maybe
                    THEN Answer(c, state, request, [kind |-> "unknown", written |-> 0])
                    ELSE Start(c, state, request)
        /\ UNCHANGED <<lease, execution, attach, reply, typed>>

\* execute_plan takes the plan lock for the whole plan.
LockPlan(c) ==
    /\ conn[c].pc = "plan" /\ plans = NoOne
    /\ plans' = c
    /\ conn' = [conn EXCEPT ![c].pc = "lock"]
    /\ UNCHANGED <<lease, dedup, execution, attach, reply, typed, tenure, answers, requests>>

\* WriteCoordinator::complete: the oldest outcomes beyond the capacity go.
Complete(state, id) ==
    LET completed == Append(state.completed, id)
        excess    == Len(completed) > Capacity
    IN  [state EXCEPT
           !.completed = IF excess THEN Tail(completed) ELSE completed,
           !.entries   = IF excess THEN [@ EXCEPT ![Head(completed)] = Absent] ELSE @,
           !.evicted   = IF excess /\ state.mode = "legacy"
                         THEN @ \union {Head(completed)} ELSE @]

\* The plan ends with `result`: stored, completed, published and answered.
Finish(c, result) ==
    LET request == conn[c].request
        stored  == [dedup EXCEPT !.entries[request.id].result = result]
    IN  /\ dedup' = Complete(stored, request.id)
        /\ answers' = answers \union
             {[tenure |-> tenure, id |-> request.id, content |-> request.content,
               result |-> result]}
        /\ plans' = IF plans = c THEN NoOne ELSE plans
        /\ execution' = IF execution = c THEN NoOne ELSE execution
        /\ conn' = [conn EXCEPT ![c].pc = "idle", ![c].request = NoRequest]
        /\ UNCHANGED <<lease, attach, reply, typed, tenure, requests>>

\* Mutant: the locks are awaited without a bound.
StallNever(c) == FALSE /\ UNCHANGED vars

\* lock_within: the plan or the execution lock was not free within the stall.
StallOnLock(c) ==
    /\ \/ conn[c].pc = "plan" /\ plans # NoOne
       \/ conn[c].pc = "lock" /\ execution # NoOne
    /\ Finish(c, [kind |-> "stalled", written |-> conn[c].written])

LockExecution(c) ==
    /\ conn[c].pc = "lock" /\ execution = NoOne
    /\ execution' = c
    /\ conn' = [conn EXCEPT ![c].pc = "write"]
    /\ UNCHANGED <<lease, dedup, plans, attach, reply, typed, tenure, answers, requests>>

\* write_within accepts one more byte.
Write(c) ==
    LET request == conn[c].request
        written == conn[c].written + 1
    IN  /\ conn[c].pc = "write"
        /\ typed' = Append(typed, [by |-> c, tenure |-> tenure, id |-> request.id,
                                   byte |-> written])
        /\ conn' = [conn EXCEPT ![c].written = written,
                                ![c].pc = IF written % FragmentBytes = 0 THEN "flushed" ELSE @]
        /\ UNCHANGED <<lease, dedup, plans, execution, attach, reply, tenure, answers, requests>>

\* Mutant: a failed write reports that nothing was written.
FailWriteUncounted(c) ==
    /\ conn[c].pc \in {"write", "flushed"}
    /\ \E kind \in {"stalled", "io"} : Finish(c, [kind |-> kind, written |-> 0])

\* The PTY accepts nothing for the stall, or fails, or the flush does after the
\* whole fragment was accepted.
FailWrite(c) ==
    /\ conn[c].pc \in {"write", "flushed"}
    /\ \E kind \in {"stalled", "io"} : Finish(c, [kind |-> kind, written |-> conn[c].written])

\* A fragment is complete: the lock is released over its delay.
EndFragment(c) ==
    /\ conn[c].pc = "flushed"
    /\ conn[c].written < Total(conn[c].request.content)
    /\ execution' = NoOne
    /\ conn' = [conn EXCEPT ![c].pc = "lock"]
    /\ UNCHANGED <<lease, dedup, plans, attach, reply, typed, tenure, answers, requests>>

EndPlan(c) ==
    /\ conn[c].pc = "flushed"
    /\ conn[c].written = Total(conn[c].request.content)
    /\ Finish(c, [kind |-> "ok", written |-> conn[c].written])

-----------------------------------------------------------------------------
(* Attach streams: a task of their own, unbounded waits, no deduplication *)

StreamFrame(s) ==
    /\ attach[s].pc = "new"
    /\ attach' = [attach EXCEPT ![s].pc = "lock"]
    /\ UNCHANGED <<lease, conn, dedup, plans, execution, reply, typed, tenure, answers, requests>>

\* Mutant: an attach frame is written without awaiting the execution lock.
StreamLockUnfenced(s) ==
    /\ attach[s].pc = "lock"
    /\ attach' = [attach EXCEPT ![s].pc = "write"]
    /\ UNCHANGED <<lease, conn, dedup, plans, execution, reply, typed, tenure, answers, requests>>

StreamLock(s) ==
    /\ attach[s].pc = "lock" /\ execution = NoOne
    /\ execution' = s
    /\ attach' = [attach EXCEPT ![s].pc = "write"]
    /\ UNCHANGED <<lease, conn, dedup, plans, reply, typed, tenure, answers, requests>>

StreamWrite(s) ==
    LET written == attach[s].written + 1
        done    == written = FragmentBytes
    IN  /\ attach[s].pc = "write"
        /\ typed' = Append(typed, [by |-> s, tenure |-> 0, id |-> 0, byte |-> written])
        /\ attach' = [attach EXCEPT ![s].written = written,
                                    ![s].pc = IF done THEN "done" ELSE @]
        /\ execution' = IF done THEN NoOne ELSE execution
        /\ UNCHANGED <<lease, conn, dedup, plans, reply, tenure, answers, requests>>

StreamFail(s) ==
    /\ attach[s].pc = "write"
    /\ attach' = [attach EXCEPT ![s].pc = "failed"]
    /\ execution' = NoOne
    /\ UNCHANGED <<lease, conn, dedup, plans, reply, typed, tenure, answers, requests>>

-----------------------------------------------------------------------------
(* Replies to status probes *)

\* ProbeReplies::queue, called by OutputHub::push for an answerable probe.
Probe ==
    /\ ~reply.closed /\ reply.probes < MaxProbes
    /\ reply' = [reply EXCEPT !.pending = TRUE, !.probes = @ + 1,
                              !.unanswered = reply.pc = "write"]
    /\ UNCHANGED <<lease, conn, dedup, plans, execution, attach, typed, tenure, answers, requests>>

\* ProbeReplies::close
CloseProbes ==
    /\ ~reply.closed
    /\ reply' = [reply EXCEPT !.closed = TRUE]
    /\ UNCHANGED <<lease, conn, dedup, plans, execution, attach, typed, tenure, answers, requests>>

\* ProbeReplies::wait.  notify_one leaves a permit, so the wait is a guard.
ReplyWait ==
    /\ reply.pc = "wait" /\ (reply.pending \/ reply.closed)
    /\ reply' = [reply EXCEPT !.pc = IF reply.closed THEN "stopped" ELSE "lock"]
    /\ UNCHANGED <<lease, conn, dedup, plans, execution, attach, typed, tenure, answers, requests>>

\* execute_reply: the pending mark is taken once the lock is held.
ReplyLock ==
    /\ reply.pc = "lock" /\ execution = NoOne
    /\ execution' = ReplyTask
    /\ reply' = [reply EXCEPT !.pc = "write", !.written = 0, !.pending = FALSE,
                              !.unanswered = FALSE]
    /\ UNCHANGED <<lease, conn, dedup, plans, attach, typed, tenure, answers, requests>>

ReplyWrite ==
    LET written == reply.written + 1
        done    == written = FragmentBytes
    IN  /\ reply.pc = "write"
        /\ typed' = Append(typed, [by |-> ReplyTask, tenure |-> 0, id |-> 0, byte |-> written])
        /\ reply' = [reply EXCEPT !.written = written, !.pc = IF done THEN "wait" ELSE @]
        /\ execution' = IF done THEN NoOne ELSE execution
        /\ UNCHANGED <<lease, conn, dedup, plans, attach, tenure, answers, requests>>

\* The reply is dropped, and with it whatever is pending now.
ReplyDrop ==
    /\ \/ reply.pc = "lock" /\ execution # NoOne
       \/ reply.pc = "write"
    /\ reply' = [reply EXCEPT !.pc = "wait", !.pending = FALSE]
    /\ execution' = IF execution = ReplyTask THEN NoOne ELSE execution
    /\ UNCHANGED <<lease, conn, dedup, plans, attach, typed, tenure, answers, requests>>

-----------------------------------------------------------------------------
Handle(c) == \/ LockPlan(c) \/ LockExecution(c) \/ Write(c) \/ FailWrite(c)
             \/ StallOnLock(c) \/ EndFragment(c) \/ EndPlan(c)

StreamStep(s) == StreamFrame(s) \/ StreamLock(s) \/ StreamWrite(s) \/ StreamFail(s)

ReplyStep == ReplyWait \/ ReplyLock \/ ReplyWrite \/ ReplyDrop

Next ==
    \/ \E c \in Connections :
          \/ \E d \in Daemons : Acquire(c, d)
          \/ \E mode \in {"monotonic", "legacy"}, id \in Ids, content \in Content :
                Request(c, mode, id, content)
          \/ Handle(c)
          \/ End(c)
    \/ \E s \in Streams : StreamStep(s)
    \/ Probe \/ CloseProbes \/ ReplyStep

Spec == Init /\ [][Next]_vars

\* Only the handling of a control request is fair: its locks and its writes are
\* bounded by the stall.  An attach write may hold the PTY for ever.
FairSpec == Spec /\ \A c \in Connections : WF_vars(Handle(c))

-----------------------------------------------------------------------------
(* Properties *)

Writers == Connections \union Streams \union {ReplyTask}

TypeOK ==
    /\ lease \in Connections \union {NoOne}
    /\ conn \in [Connections ->
          [pc : {"new", "idle", "plan", "lock", "write", "flushed", "closed"},
           daemon : Daemons \union {NoOne},
           request : [mode : Modes, id : Ids \union {0}, content : Content \union {0}],
           written : Nat]]
    /\ dedup \in [namespace : Connections \union Daemons \union {NoOne}, mode : Modes,
                  entries : [Ids -> [present : BOOLEAN, fingerprint : Nat, result : Result]],
                  completed : Seq(Ids), high_watermark : Nat, evicted : SUBSET Ids]
    /\ plans \in Connections \union {NoOne}
    /\ execution \in Writers \union {NoOne}
    /\ attach \in [Streams -> [pc : {"new", "lock", "write", "done", "failed"}, written : Nat]]
    /\ reply \in [pc : {"wait", "lock", "write", "stopped"}, written : Nat, pending : BOOLEAN,
                  closed : BOOLEAN, probes : 0..MaxProbes, unanswered : BOOLEAN]
    /\ tenure \in Nat /\ requests \in 0..MaxRequests

\* A write id is typed at most once within the tenure of its namespace, however
\* often the daemon retries it and however much was evicted meanwhile
\* (execute_control, execute_legacy, complete).
TypedAtMostOnce ==
    \A i, j \in 1..Len(typed) : typed[i] = typed[j] /\ typed[i].by \in Connections => i = j

\* No other writer's bytes land inside a fragment: a byte that is not the first
\* of its fragment follows its predecessor immediately (execute_locked).
FragmentsWhole ==
    \A i \in 1..Len(typed) :
        (typed[i].byte - 1) % FragmentBytes # 0 =>
            i > 1 /\ typed[i - 1] = [typed[i] EXCEPT !.byte = @ - 1]

TypedBytes(t, id) ==
    {typed[i].byte : i \in {j \in 1..Len(typed) : /\ typed[j].by \in Connections
                                                  /\ typed[j].tenure = t
                                                  /\ typed[j].id = id}}

\* An answer tells what the PTY got: success means every byte of the plan, a
\* stall or an error means exactly the counted prefix, also when the answer is
\* the stored one of an earlier attempt (wait_result, Stalled{written}).
AnswersTruthful ==
    \A a \in answers :
        /\ a.result.kind = "ok" => TypedBytes(a.tenure, a.id) = 1..Total(a.content)
        /\ a.result.kind \in {"stalled", "io"} =>
              TypedBytes(a.tenure, a.id) = 1..a.result.written

\* A control request is answered even if an attach write holds the PTY for ever.
ControlAnswered ==
    \A c \in Connections : (conn[c].request # NoRequest) ~> (conn[c].pc = "idle")

\* "Clears the pending mark; probes queued afterwards ask for a new reply"
\* (ProbeReplies::take): a probe that came after the last reply took the mark is
\* still pending when the task goes back to waiting.
ProbeNotForgotten == reply.pc = "wait" /\ reply.unanswered => reply.pending
=============================================================================
