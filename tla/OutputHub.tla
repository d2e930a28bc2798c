------------------------------ MODULE OutputHub ------------------------------
(***************************************************************************)
(* The output actor of one session worker                                  *)
(* (crates/session-worker/src/output.rs): the PTY reader pushes bytes,     *)
(* consumers subscribe at an offset or at a terminal repaint, and each     *)
(* consumer drains its own bounded queue with recv.  The hub's mutex makes *)
(* push, subscribe, close, resize and each poll of recv atomic; everything *)
(* between two of those is an interleaving point.                          *)
(*                                                                         *)
(* Subscriber identities are never reused: a consumer that reconnects is   *)
(* another member of Subscribers.                                          *)
(***************************************************************************)
EXTENDS OutputRing, Sequences

CONSTANTS Subscribers,      \* identities of the consumers that may subscribe
          SubscriberLimit,  \* SubscriberQueue::limit, queued bytes per consumer
          MaxPayload,       \* MAX_DATA_PAYLOAD_BYTES, most bytes in one event
          MaxPush,          \* bound: bytes of one PTY read
          AnsiLens          \* lengths a complete terminal repaint may have

ASSUME SubscriberLimitAssumption == SubscriberLimit \in Nat \ {0}
ASSUME MaxPayloadAssumption      == MaxPayload \in Nat \ {0}
ASSUME MaxPushAssumption         == MaxPush \in Nat \ {0}
ASSUME AnsiLensAssumption        == AnsiLens \subseteq Nat \ {0} /\ AnsiLens # {}

VARIABLES
    ring,         \* HubState.ring
    terminal,     \* HubState.terminal_snapshot: [watermark, ansi length]
    subscribers,  \* HubState.subscribers, the registered weak references
    completion,   \* HubState.completion: [reason, next_offset]
    queue,        \* SubscriberQueue.state of every subscriber
    permit,       \* the permit stored in SubscriberQueue.notify
    phase,        \* where the consumer stands in its subscription
    exited,       \* PtyOwner::exit_receiver: the root process was seen to exit
    gate,         \* what keeps a consumer from polling recv again, see Forward
    \* History of what a consumer was told; the hub never reads it.
    pos,          \* the stream position up to which it was told everything
    owed,         \* bytes of the repaint announced by the last gap still due
    last          \* the event recv returned last, and pos before it

hubVars     == <<ring, terminal, subscribers, completion>>
queueVars   == <<queue, permit, phase>>
driverVars  == <<exited, gate>>
historyVars == <<pos, owed, last>>
vars        == <<hubVars, queueVars, driverVars, historyVars>>

EventLimit == Least(MaxPayload, SubscriberLimit)

-----------------------------------------------------------------------------
Kinds == {"none", "replay", "output", "gap", "repaint", "exit"}

\* OutputEvent: `next` is OutputEvent::next_offset().  A gap misses the len bytes
\* at offset; for a repaint, offset and total index its ANSI bytes.
Event == [kind : Kinds, offset : Nat, from : Int, len : Nat, next : Nat, total : Nat]

NoEvent == [kind |-> "none", offset |-> 0, from |-> 0, len |-> 0, next |-> 0, total |-> 0]

ChunkEvent(kind, chunk) ==
    [kind |-> kind, offset |-> chunk.offset, from |-> chunk.from, len |-> chunk.len,
     next |-> chunk.offset + chunk.len, total |-> 0]

ExitEvent(offset) ==
    [kind |-> "exit", offset |-> offset, from |-> offset, len |-> 0,
     next |-> offset, total |-> 0]

Replay   == [on : BOOLEAN, next : Nat, end : Nat, empty_pending : BOOLEAN]
Snapshot == [on : BOOLEAN, start : Nat, end : Nat, watermark : Nat, ansi : Nat,
             gap_pending : BOOLEAN, next : Nat]
Queue    == [replay : Replay, snapshot : Snapshot, events : Seq(Event),
             queued_bytes : Nat, expected_offset : Nat, closed : BOOLEAN]

NoReplay   == [on |-> FALSE, next |-> 0, end |-> 0, empty_pending |-> FALSE]
NoSnapshot == [on |-> FALSE, start |-> 0, end |-> 0, watermark |-> 0, ansi |-> 0,
               gap_pending |-> FALSE, next |-> 0]

\* ReplayCursor::new
ReplayCursor(start, end) ==
    [on |-> TRUE, next |-> start, end |-> end, empty_pending |-> start = end]

\* SnapshotCursor::new, for the missing range start..end
GapCursor(start, end, term) ==
    [on |-> TRUE, start |-> start, end |-> end, watermark |-> term.watermark,
     ansi |-> term.ansi, gap_pending |-> TRUE, next |-> 0]

\* SnapshotCursor::without_gap
RepaintCursor(term) ==
    [GapCursor(term.watermark, term.watermark, term) EXCEPT !.gap_pending = FALSE]

\* SubscriberQueue::new for each QueueSeed
NewQueue(replay, snapshot, expected) ==
    [replay |-> replay, snapshot |-> snapshot, events |-> <<>>, queued_bytes |-> 0,
     expected_offset |-> expected, closed |-> FALSE]

ReplayQueue(from, to)    == NewQueue(ReplayCursor(from, to), NoSnapshot, from)
GapQueue(from, to, term) == NewQueue(NoReplay, GapCursor(from, to, term), from)
RepaintQueue(term)       == NewQueue(NoReplay, RepaintCursor(term), term.watermark)

\* HubState::subscription_seed for an offset validate_offset accepted
SeedQueue(requested) ==
    IF requested < ring.start_offset
    THEN GapQueue(requested, ring.next_offset, terminal)
    ELSE ReplayQueue(requested, ring.next_offset)

\* What a loss does to a queue: everything pending is given up for a gap that
\* ends at `end` and a repaint.
GiveUp(q, end, term) ==
    [q EXCEPT !.replay = NoReplay, !.snapshot = GapCursor(q.expected_offset, end, term),
              !.events = <<>>, !.queued_bytes = 0]

\* Mutant: a chunk beyond the budget is dropped without a gap.
PushOutputDropping(q, chunk, term) ==
    IF q.queued_bytes + chunk.len > SubscriberLimit
    THEN q
    ELSE [q EXCEPT !.queued_bytes = @ + chunk.len,
                   !.events = Append(@, ChunkEvent("output", chunk))]

\* SubscriberQueue::push_output
PushOutput(q, chunk, term) ==
    IF q.queued_bytes + chunk.len > SubscriberLimit
    THEN GiveUp(q, term.watermark, term)
    ELSE [q EXCEPT !.queued_bytes = @ + chunk.len,
                   !.events = Append(@, ChunkEvent("output", chunk))]

\* SubscriberQueue::push_terminal
PushTerminal(q, offset) ==
    [q EXCEPT !.events = Append(@, ExitEvent(offset)), !.closed = TRUE]

Completed == completion.reason # "none"
Attached(s) == phase[s] \in {"ready", "parked"}

\* Mutant: the notification is stored for the next wait and wakes no waiter.
NotifyNext(S) ==
    /\ phase'  = phase
    /\ permit' = [s \in Subscribers |-> s \in S \/ permit[s]]

\* Notify::notify_one on the queues of S: wakes the parked consumer, or leaves
\* one permit for its next wait.
NotifyOne(S) ==
    /\ phase'  = [s \in Subscribers |-> IF s \in S /\ phase[s] = "parked"
                                        THEN "ready" ELSE phase[s]]
    /\ permit' = [s \in Subscribers |-> IF s \in S /\ phase[s] # "parked"
                                        THEN TRUE ELSE permit[s]]

Init ==
    /\ ring = EmptyRing
    /\ terminal \in [watermark : {0}, ansi : AnsiLens]
    /\ subscribers = {}
    /\ completion = [reason |-> "none", next_offset |-> 0]
    /\ queue  = [s \in Subscribers |-> NewQueue(NoReplay, NoSnapshot, 0)]
    /\ permit = [s \in Subscribers |-> FALSE]
    /\ phase  = [s \in Subscribers |-> "new"]
    /\ exited = FALSE
    /\ gate   = [s \in Subscribers |-> "open"]
    /\ pos    = [s \in Subscribers |-> 0]
    /\ owed   = [s \in Subscribers |-> 0]
    /\ last   = [s \in Subscribers |-> [event |-> NoEvent, before |-> 0]]

-----------------------------------------------------------------------------
(* The PTY side *)

\* OutputHub::push of n bytes.  Dead weak references are pruned on the way; an
\* overflowing or late push returns an error and changes nothing.
Push(n) ==
    LET live  == {s \in subscribers : Attached(s)}
        term  == terminal'
        chunk == PushedChunk(ring, n)
    IN  /\ ~Completed
        /\ ~PushOverflows(ring, n)
        /\ ring' = RingPush(ring, n)
        /\ terminal' \in [watermark : {ring'.next_offset}, ansi : AnsiLens]
        /\ queue' = [s \in Subscribers |-> IF s \in live
                                           THEN PushOutput(queue[s], chunk, term)
                                           ELSE queue[s]]
        /\ subscribers' = live
        /\ NotifyOne(live)
        /\ UNCHANGED <<completion, driverVars, historyVars>>

\* OutputHub::close for mark_exit ("eof") and force_close ("forced"): the first
\* one wins, and it is the last thing any registered queue is given.
Close(reason) ==
    LET live == {s \in subscribers : Attached(s)}
    IN  /\ ~Completed
        /\ completion' = [reason |-> reason, next_offset |-> ring.next_offset]
        /\ queue' = [s \in Subscribers |-> IF s \in live
                                           THEN PushTerminal(queue[s], ring.next_offset)
                                           ELSE queue[s]]
        /\ subscribers' = {}
        /\ NotifyOne(live)
        /\ UNCHANGED <<ring, terminal, driverVars, historyVars>>

\* OutputHub::resize: the repaint is recomputed at the current offset.
Resize ==
    /\ terminal' \in [watermark : {ring.next_offset}, ansi : AnsiLens]
    /\ UNCHANGED <<ring, subscribers, completion, queueVars, driverVars, historyVars>>

-----------------------------------------------------------------------------
(* The consumers *)

\* OutputHub::register_subscriber, under the same lock as the seed.
Register(s, q, from) ==
    /\ phase[s] = "new"
    /\ queue' = [queue EXCEPT ![s] = IF Completed
                                     THEN PushTerminal(q, completion.next_offset)
                                     ELSE q]
    /\ subscribers' = IF Completed THEN subscribers ELSE subscribers \union {s}
    /\ permit' = [permit EXCEPT ![s] = Completed]
    /\ phase' = [phase EXCEPT ![s] = "ready"]
    /\ pos' = [pos EXCEPT ![s] = from]
    /\ UNCHANGED <<ring, terminal, completion, driverVars, last>>

\* OutputHub::subscribe.  A requested offset past next_offset is refused.
Subscribe(s, requested) ==
    /\ requested <= ring.next_offset
    /\ Register(s, SeedQueue(requested), requested)
    /\ UNCHANGED owed

\* OutputHub::subscribe_terminal_snapshot
SubscribeRepaint(s) ==
    /\ Register(s, RepaintQueue(terminal), terminal.watermark)
    /\ owed' = [owed EXCEPT ![s] = terminal.ansi]

\* What the consumer does with event e before it polls recv again.  The monitor
\* and wait_output_exit come straight back ("open").  A stream's drive_stream
\* puts e into its bounded writer queue and comes back only while that has room
\* ("full" otherwise); it keeps an Exit aside ("held") until the root's exit is
\* known, and polls nothing meanwhile.
Forward(s, e) ==
    /\ \E g \in {"open", "full"} \union
               (IF e.kind = "exit" /\ ~exited THEN {"held"} ELSE {}) :
          gate' = [gate EXCEPT ![s] = g]
    /\ UNCHANGED exited

\* recv returns event e: what the consumer knows afterwards.
Deliver(s, e) ==
    /\ Forward(s, e)
    /\ last' = [last EXCEPT ![s] = [event |-> e, before |-> pos[s]]]
    /\ pos'  = [pos  EXCEPT ![s] = IF e.kind = "repaint" THEN @ ELSE e.next]
    /\ owed' = [owed EXCEPT ![s] = CASE e.kind = "gap"     -> e.total
                                     [] e.kind = "repaint" -> @ - e.len
                                     [] OTHER              -> @]
    /\ UNCHANGED <<hubVars, permit, phase>>

\* next_event: a replay of an empty range is announced once.
RecvEmptyReplay(s) ==
    LET r == queue[s].replay
    IN  /\ phase[s] = "ready"
        /\ r.on /\ r.empty_pending
        /\ queue' = [queue EXCEPT ![s].replay = NoReplay]
        /\ Deliver(s, ChunkEvent("replay", [offset |-> r.next, from |-> r.next, len |-> 0]))

\* next_event: one bounded piece of the retained history.
RecvReplay(s) ==
    LET r     == queue[s].replay
        chunk == RingChunk(ring, r.next, r.end, EventLimit)
        next  == chunk.offset + chunk.len
    IN  /\ phase[s] = "ready"
        /\ r.on /\ ~r.empty_pending
        /\ HasChunk(ring, r.next, r.end)
        /\ queue' = [queue EXCEPT
                       ![s].replay = IF next = r.end THEN NoReplay ELSE [@ EXCEPT !.next = next],
                       ![s].expected_offset = next]
        /\ Deliver(s, ChunkEvent("replay", chunk))

\* The gap at the head of a queue whose snapshot cursor announces one.
GapEvent(q) ==
    [kind |-> "gap", offset |-> q.snapshot.start, from |-> q.snapshot.start,
     len |-> q.snapshot.end - q.snapshot.start,
     next |-> q.snapshot.watermark, total |-> q.snapshot.ansi]

TakeGap(q) ==
    [q EXCEPT !.snapshot.gap_pending = FALSE, !.expected_offset = q.snapshot.watermark]

\* next_event: the history to replay was evicted meanwhile.  The rest of the
\* replay and everything queued behind it is given up, and the same call goes
\* on to return the gap.
RecvEvictedReplay(s) ==
    LET r == queue[s].replay
        q == GiveUp(queue[s], ring.next_offset, terminal)
    IN  /\ phase[s] = "ready"
        /\ r.on /\ ~r.empty_pending
        /\ ~HasChunk(ring, r.next, r.end)
        /\ queue' = [queue EXCEPT ![s] = TakeGap(q)]
        /\ Deliver(s, GapEvent(q))

\* next_event: the announcement of a gap.
RecvGap(s) ==
    LET q == queue[s]
    IN  /\ phase[s] = "ready"
        /\ ~q.replay.on
        /\ q.snapshot.on /\ q.snapshot.gap_pending
        /\ queue' = [queue EXCEPT ![s] = TakeGap(q)]
        /\ Deliver(s, GapEvent(q))

\* next_event: one bounded fragment of the repaint.
RecvRepaint(s) ==
    LET c   == queue[s].snapshot
        end == Least(c.next + EventLimit, c.ansi)
    IN  /\ phase[s] = "ready"
        /\ ~queue[s].replay.on
        /\ c.on /\ ~c.gap_pending /\ c.next < c.ansi
        /\ queue' = [queue EXCEPT ![s].snapshot =
                        IF end = c.ansi THEN NoSnapshot ELSE [@ EXCEPT !.next = end]]
        /\ Deliver(s, [kind |-> "repaint", offset |-> c.next, from |-> 0,
                       len |-> end - c.next, next |-> c.watermark, total |-> c.ansi])

\* Mutant: queued events are taken before the repaint is complete.
AtQueueEarly(q) == ~q.replay.on

\* No replay and no repaint is left before the queued events.
AtQueue(q) == ~q.replay.on /\ ~q.snapshot.on

\* next_event: the oldest queued event.
RecvQueued(s) ==
    LET q == queue[s]
        e == Head(q.events)
    IN  /\ phase[s] = "ready"
        /\ AtQueue(q) /\ q.events # <<>>
        /\ queue' = [queue EXCEPT ![s] = [q EXCEPT !.events = Tail(@),
                                                   !.queued_bytes = Greatest(@ - e.len, 0),
                                                   !.expected_offset = e.next]]
        /\ Deliver(s, e)

\* recv returns None: nothing is queued and nothing more will be.
RecvNone(s) ==
    /\ phase[s] = "ready"
    /\ AtQueue(queue[s]) /\ queue[s].events = <<>> /\ queue[s].closed
    /\ phase' = [phase EXCEPT ![s] = "ended"]
    /\ UNCHANGED <<hubVars, queue, permit, driverVars, historyVars>>

\* recv finds nothing and awaits the Notified it created before looking.
RecvWait(s) ==
    /\ phase[s] = "ready"
    /\ AtQueue(queue[s]) /\ queue[s].events = <<>> /\ ~queue[s].closed
    /\ phase'  = [phase  EXCEPT ![s] = IF permit[s] THEN "ready" ELSE "parked"]
    /\ permit' = [permit EXCEPT ![s] = FALSE]
    /\ UNCHANGED <<hubVars, queue, driverVars, historyVars>>

Recv(s) ==
    /\ gate[s] = "open"
    /\ \/ RecvEmptyReplay(s) \/ RecvReplay(s) \/ RecvEvictedReplay(s)
       \/ RecvGap(s) \/ RecvRepaint(s) \/ RecvQueued(s)
       \/ RecvNone(s) \/ RecvWait(s)

\* The client reads, so the writer takes an item and drive_stream has room again.
ClientReads(s) ==
    /\ gate[s] = "full"
    /\ gate' = [gate EXCEPT ![s] = "open"]
    /\ UNCHANGED <<hubVars, queueVars, exited, historyVars>>

\* drive_stream learns of the root's exit and queues the Exit it kept aside.
ForwardExit(s) ==
    /\ gate[s] = "held" /\ exited
    /\ \E g \in {"open", "full"} : gate' = [gate EXCEPT ![s] = g]
    /\ UNCHANGED <<hubVars, queueVars, exited, historyVars>>

\* A select! around recv takes another branch and drops the waiting future.
CancelRecv(s) ==
    /\ phase[s] = "parked"
    /\ phase' = [phase EXCEPT ![s] = "ready"]
    /\ UNCHANGED <<hubVars, queue, permit, driverVars, historyVars>>

\* The consumer drops its OutputSubscriber; the hub's weak reference is dead.
Drop(s) ==
    /\ Attached(s)
    /\ phase' = [phase EXCEPT ![s] = "dropped"]
    /\ UNCHANGED <<hubVars, queue, permit, driverVars, historyVars>>

\* The root process exits, before or after its output closes.
RootExit ==
    /\ ~exited
    /\ exited' = TRUE
    /\ UNCHANGED <<hubVars, queueVars, gate, historyVars>>

PtyStep == \/ \E n \in 1..MaxPush : Push(n)
           \/ \E reason \in {"eof", "forced"} : Close(reason)
           \/ Resize
           \/ RootExit

ConsumerStep(s) == \/ \E requested \in 0..MaxOffset : Subscribe(s, requested)
                   \/ SubscribeRepaint(s)
                   \/ Recv(s)
                   \/ ClientReads(s)
                   \/ ForwardExit(s)
                   \/ CancelRecv(s)
                   \/ Drop(s)

Next == PtyStep \/ \E s \in Subscribers : ConsumerStep(s)

Spec == Init /\ [][Next]_vars

\* A consumer polls recv whenever nothing keeps it from it, and drive_stream
\* polls the root's exit while it keeps an Exit aside.  Nothing is assumed of the
\* client, which may stop reading for ever, nor of the root, which may live on
\* after it closed its terminal.
FairSpec ==
    Spec /\ \A s \in Subscribers : WF_vars(Recv(s)) /\ WF_vars(ForwardExit(s))

-----------------------------------------------------------------------------
(* Properties *)

TypeOK ==
    /\ ring \in Ring
    /\ terminal \in [watermark : Nat, ansi : AnsiLens]
    /\ subscribers \subseteq Subscribers
    /\ completion \in [reason : {"none", "eof", "forced"}, next_offset : Nat]
    /\ queue \in [Subscribers -> Queue]
    /\ permit \in [Subscribers -> BOOLEAN]
    /\ phase \in [Subscribers -> {"new", "ready", "parked", "ended", "dropped"}]
    /\ exited \in BOOLEAN
    /\ gate \in [Subscribers -> {"open", "full", "held"}]
    /\ pos \in [Subscribers -> Nat]
    /\ owed \in [Subscribers -> Int]
    /\ last \in [Subscribers -> [event : Event, before : Nat]]

\* No byte is skipped, repeated or mislabelled: a delivered chunk starts where
\* the consumer stood and carries the bytes its offset names, and a gap names
\* exactly the bytes the consumer will not get (push_output, next_event).
NoSilentLoss ==
    \A s \in Subscribers :
        LET e == last[s].event
        IN  /\ e.kind \in {"replay", "output"} =>
                  e.offset = last[s].before /\ Truthful(e)
            /\ e.kind = "gap" =>
                  e.offset = last[s].before /\ e.len > 0 /\ e.next = e.offset + e.len
            /\ pos[s] <= ring.next_offset

\* A stream that waits for its client to read, or for the root to exit.
AwaitsOthers(s) == gate[s] = "full" \/ (gate[s] = "held" /\ ~exited)

\* After the output closed, every attached consumer's recv loop ends, unless it
\* waits for its client or for the root's exit; when that wait ends, the promise
\* holds again, so no wakeup of the worker's own may be lost (recv, NotifyOne,
\* drive_stream).
ConsumersEnd ==
    \A s \in Subscribers :
        (Completed /\ Attached(s)) ~> (phase[s] \in {"ended", "dropped"} \/ AwaitsOthers(s))

\* "Marks output EOF and wakes every subscriber" (mark_exit): a consumer whose
\* stream ends was given the Exit event first.
EndedAfterExit ==
    \A s \in Subscribers : phase[s] = "ended" => last[s].event.kind = "exit"

-----------------------------------------------------------------------------
(* The abstract stream this module implements *)

WhatOf == [none |-> "nothing", replay |-> "bytes", output |-> "bytes",
           gap |-> "gap", repaint |-> "repaint", exit |-> "exit"]

\* What recv last returned, in the terms of OutputStream.  Bytes are reported by
\* the stream positions they really came from, not by their label.
ToldTo(s) ==
    LET e == last[s].event
    IN  [what |-> WhatOf[e.kind],
         from |-> IF e.kind = "repaint" THEN pos[s] ELSE e.from,
         to   |-> IF e.kind = "repaint" THEN pos[s] ELSE e.from + e.len]

Stream == INSTANCE OutputStream WITH
    Consumers <- Subscribers,
    produced  <- ring.produced,
    sealed    <- Completed,
    joined    <- {s \in Subscribers : phase[s] # "new"},
    owing     <- [s \in Subscribers |-> owed[s] # 0],
    told      <- [s \in Subscribers |-> ToldTo(s)]

\* Every step of the hub is a step of the abstract stream or changes nothing of
\* it: the interplay of eviction, replay, queue overflow and close never tells
\* a consumer anything the promised stream would not.
ImplementsStream == Stream!Spec
=============================================================================
