--------------------------- MODULE OutputHubProofs ---------------------------
(***************************************************************************)
(* Proofs about OutputHub, for every number of consumers and every history *)
(* limit, queue limit, payload size and repaint length: a consumer is told *)
(* every byte once, in order and under its own offset, or is told exactly  *)
(* which bytes it lost; and the hub implements the abstract OutputStream.  *)
(*                                                                         *)
(* Neither follows from what a consumer was told so far. What it is told   *)
(* next was decided when the bytes were queued, so the invariant describes *)
(* a queue from its front to its end:                                      *)
(*                                                                         *)
(*   HubInv       the ring is consistent, the repaint kept in the hub and  *)
(*                the offset kept at close are those of the ring's end,    *)
(*                and every attached consumer is registered until then;    *)
(*   QueueGood    the cursor at the front starts where the consumer        *)
(*                stands; the queued events link up, without a hole or an  *)
(*                overlap, from the end of what the cursor stands for to   *)
(*                the end of the stream; and an Exit is the last of them;  *)
(*   ConsumerInv  that holds of every attached consumer, and nothing is    *)
(*                left for one that was given its Exit;                    *)
(*   LossFree     what NoSilentLoss says of one consumer.                  *)
(*                                                                         *)
(* A queue is handled apart from the system: one lemma for each way to     *)
(* build, feed or drain it says that QueueGood is kept, and the steps of   *)
(* the specification are put together from these.                          *)
(***************************************************************************)
EXTENDS OutputHub, OutputRingProofs

\* The repaints HubState.terminal_snapshot may hold.
Terminals == [watermark : Nat, ansi : AnsiLens]

\* An empty queue.
NoEvents == <<>>

\* Where the queued events start: after the history to replay, or after the
\* repaint, or where the consumer stands.
Front(q, at) ==
    IF q.replay.on THEN q.replay.end
    ELSE IF q.snapshot.on THEN q.snapshot.watermark ELSE at

\* The cursor at the front of a queue, for a consumer that stands at `at` and
\* is still due `due` bytes of a repaint.
CursorsGood(q, at, due) ==
    /\ q.replay.on => /\ ~q.snapshot.on
                      /\ q.replay.next = at /\ at <= q.replay.end
                      /\ q.replay.empty_pending <=> at = q.replay.end
    /\ q.snapshot.on => q.snapshot.next < q.snapshot.ansi
    /\ q.snapshot.on /\ q.snapshot.gap_pending =>
          /\ q.snapshot.start = at /\ at < q.snapshot.end
          /\ q.snapshot.end = q.snapshot.watermark /\ q.snapshot.next = 0
    /\ q.snapshot.on /\ ~q.snapshot.gap_pending =>
          /\ q.snapshot.watermark = at
          /\ due = q.snapshot.ansi - q.snapshot.next
    /\ ~q.snapshot.on => due = 0

\* A queued event carries the bytes its offset names, all of them produced.
EventGood(e, end) ==
    /\ e.kind \in {"output", "exit"}
    /\ e.from = e.offset /\ e.next = e.offset + e.len /\ e.next <= end
    /\ e.kind = "exit" => e.len = 0

\* Each event starts where the one before it ended.
Linked(events, from, to) ==
    /\ \A i \in 1..Len(events) :
          events[i].offset = IF i = 1 THEN from ELSE events[i - 1].next
    /\ to = IF events = <<>> THEN from ELSE events[Len(events)].next

\* A queue gives its consumer the stream from where it stands to the end of it,
\* and then, once the output is closed, the Exit.
QueueGood(q, at, due, end, done) ==
    /\ q.expected_offset = at /\ at <= end
    /\ CursorsGood(q, at, due)
    /\ Front(q, at) <= end
    /\ \A i \in 1..Len(q.events) :
          /\ EventGood(q.events[i], end)
          /\ q.events[i].kind = "exit" => i = Len(q.events) /\ done
    /\ Linked(q.events, Front(q, at), end)
    /\ q.closed <=> done

\* The state the hub shares between its consumers.
HubInv ==
    /\ RingConsistent(ring)
    /\ terminal.watermark = ring.next_offset
    /\ Completed => completion.next_offset = ring.next_offset
    /\ \A s \in Subscribers : Attached(s) /\ ~Completed => s \in subscribers

\* The types of what belongs to one consumer.
ConsumerType(s) ==
    /\ queue[s] \in Queue /\ permit[s] \in BOOLEAN
    /\ phase[s] \in {"new", "ready", "parked", "ended", "dropped"}
    /\ pos[s] \in Nat /\ owed[s] \in Int
    /\ last[s].event \in Event /\ last[s].before \in Nat
    /\ last[s] = [event |-> last[s].event, before |-> last[s].before]

\* What holds of one consumer, by where it stands in its subscription.
ConsumerInv(s) ==
    /\ phase[s] = "new" => owed[s] = 0 /\ last[s].event.kind = "none"
    /\ Attached(s) =>
          QueueGood(queue[s], pos[s], owed[s], ring.next_offset, Completed)
    /\ Attached(s) /\ last[s].event.kind = "exit" =>
          AtQueue(queue[s]) /\ queue[s].events = NoEvents
    /\ last[s].event.kind = "exit" => Completed

\* NoSilentLoss, of one consumer.
LossFree(s) ==
    /\ last[s].event.kind \in {"replay", "output"} =>
          last[s].event.offset = last[s].before /\ Truthful(last[s].event)
    /\ last[s].event.kind = "gap" =>
          /\ last[s].event.offset = last[s].before /\ last[s].event.len > 0
          /\ last[s].event.next = last[s].event.offset + last[s].event.len
    /\ pos[s] <= ring.next_offset

\* All that the invariant says of one consumer.
Consumer(s) == ConsumerType(s) /\ ConsumerInv(s) /\ LossFree(s)

\* The types of what the hub keeps.
HubType ==
    /\ ring \in Ring /\ terminal \in Terminals /\ subscribers \subseteq Subscribers
    /\ completion \in [reason : {"none", "eof", "forced"}, next_offset : Nat]

\* The state of the consumers is a function on Subscribers.
Maps ==
    /\ queue = [s \in Subscribers |-> queue[s]]
    /\ permit = [s \in Subscribers |-> permit[s]]
    /\ phase = [s \in Subscribers |-> phase[s]]
    /\ pos = [s \in Subscribers |-> pos[s]]
    /\ owed = [s \in Subscribers |-> owed[s]]
    /\ last = [s \in Subscribers |-> last[s]]

\* The inductive invariant.
IInv == HubType /\ HubInv /\ Maps /\ \A s \in Subscribers : Consumer(s)
-----------------------------------------------------------------------------
(* The operations on one queue *)

\* A repaint has a watermark and at least one byte.
LEMMA AnsiPositive ==
    ASSUME NEW term \in Terminals
    PROVE  term.watermark \in Nat /\ term.ansi \in Nat /\ term.ansi > 0
<1>1. term.watermark \in Nat /\ term.ansi \in AnsiLens BY DEF Terminals
<1>2. term.ansi \in Nat \ {0} BY <1>1, AnsiLensAssumption
<1> QED BY <1>1, <1>2

\* SnapshotCursor::new and without_gap.
LEMMA GapCursorGood ==
    ASSUME NEW start \in Nat, NEW end \in Nat,
           NEW term \in Terminals
    PROVE  /\ GapCursor(start, end, term) \in Snapshot
           /\ RepaintCursor(term) \in Snapshot
           /\ GapCursor(start, end, term).on /\ GapCursor(start, end, term).gap_pending
           /\ GapCursor(start, end, term).start = start
           /\ GapCursor(start, end, term).end = end
           /\ GapCursor(start, end, term).watermark = term.watermark
           /\ GapCursor(start, end, term).ansi = term.ansi
           /\ GapCursor(start, end, term).next = 0
           /\ RepaintCursor(term).on /\ ~RepaintCursor(term).gap_pending
           /\ RepaintCursor(term).watermark = term.watermark
           /\ RepaintCursor(term).ansi = term.ansi
           /\ RepaintCursor(term).next = 0
<1>1. term.watermark \in Nat /\ term.ansi \in Nat BY AnsiPositive
<1> QED BY <1>1 DEF GapCursor, RepaintCursor, Snapshot

\* The cursors of a queue that has none.
LEMMA NoCursors ==
    /\ NoReplay \in Replay /\ ~NoReplay.on
    /\ NoSnapshot \in Snapshot /\ ~NoSnapshot.on
BY DEF NoReplay, Replay, NoSnapshot, Snapshot

\* SubscriberQueue::new.
LEMMA NewQueueFields ==
    ASSUME NEW r \in Replay, NEW c \in Snapshot, NEW at \in Nat
    PROVE  /\ NewQueue(r, c, at) \in Queue
           /\ NewQueue(r, c, at).replay = r
           /\ NewQueue(r, c, at).snapshot = c
           /\ NewQueue(r, c, at).events = NoEvents
           /\ NewQueue(r, c, at).expected_offset = at
           /\ ~NewQueue(r, c, at).closed
BY DEF NewQueue, Queue, NoEvents

\* The event push_output queues for a chunk labelled with its own position.
LEMMA OutputFields ==
    ASSUME NEW at \in Nat, NEW n \in Nat
    PROVE  /\ ChunkEvent("output", [offset |-> at, from |-> at, len |-> n]) \in Event
           /\ EventGood(ChunkEvent("output", [offset |-> at, from |-> at, len |-> n]), at + n)
           /\ ChunkEvent("output", [offset |-> at, from |-> at, len |-> n]).kind = "output"
           /\ ChunkEvent("output", [offset |-> at, from |-> at, len |-> n]).offset = at
           /\ ChunkEvent("output", [offset |-> at, from |-> at, len |-> n]).next = at + n
BY DEF ChunkEvent, Event, Kinds, EventGood

\* The event push_terminal queues.
LEMMA ExitFields ==
    ASSUME NEW at \in Nat
    PROVE  /\ ExitEvent(at) \in Event /\ EventGood(ExitEvent(at), at)
           /\ ExitEvent(at).kind = "exit" /\ ExitEvent(at).offset = at
           /\ ExitEvent(at).next = at
BY DEF ExitEvent, Event, Kinds, EventGood

\* Assigning one field of a queue leaves the others alone.
LEMMA SetReplay ==
    ASSUME NEW q \in Queue, NEW v \in Replay
    PROVE  /\ [q EXCEPT !.replay = v] \in Queue /\ [q EXCEPT !.replay = v].replay = v
           /\ [q EXCEPT !.replay = v].snapshot = q.snapshot
           /\ [q EXCEPT !.replay = v].events = q.events
           /\ [q EXCEPT !.replay = v].expected_offset = q.expected_offset
           /\ [q EXCEPT !.replay = v].closed = q.closed
BY DEF Queue

\* The same for the snapshot cursor.
LEMMA SetSnapshot ==
    ASSUME NEW q \in Queue, NEW v \in Snapshot
    PROVE  /\ [q EXCEPT !.snapshot = v] \in Queue /\ [q EXCEPT !.snapshot = v].snapshot = v
           /\ [q EXCEPT !.snapshot = v].replay = q.replay
           /\ [q EXCEPT !.snapshot = v].events = q.events
           /\ [q EXCEPT !.snapshot = v].expected_offset = q.expected_offset
           /\ [q EXCEPT !.snapshot = v].closed = q.closed
BY DEF Queue

\* The same for the events.
LEMMA SetEvents ==
    ASSUME NEW q \in Queue, NEW v \in Seq(Event)
    PROVE  /\ [q EXCEPT !.events = v] \in Queue /\ [q EXCEPT !.events = v].events = v
           /\ [q EXCEPT !.events = v].replay = q.replay
           /\ [q EXCEPT !.events = v].snapshot = q.snapshot
           /\ [q EXCEPT !.events = v].expected_offset = q.expected_offset
           /\ [q EXCEPT !.events = v].closed = q.closed
BY DEF Queue

\* The same for the byte count.
LEMMA SetQueued ==
    ASSUME NEW q \in Queue, NEW v \in Nat
    PROVE  /\ [q EXCEPT !.queued_bytes = v] \in Queue /\ [q EXCEPT !.queued_bytes = v].queued_bytes = v
           /\ [q EXCEPT !.queued_bytes = v].replay = q.replay
           /\ [q EXCEPT !.queued_bytes = v].snapshot = q.snapshot
           /\ [q EXCEPT !.queued_bytes = v].events = q.events
           /\ [q EXCEPT !.queued_bytes = v].expected_offset = q.expected_offset
           /\ [q EXCEPT !.queued_bytes = v].closed = q.closed
BY DEF Queue

\* The same for the expected offset.
LEMMA SetExpected ==
    ASSUME NEW q \in Queue, NEW v \in Nat
    PROVE  /\ [q EXCEPT !.expected_offset = v] \in Queue /\ [q EXCEPT !.expected_offset = v].expected_offset = v
           /\ [q EXCEPT !.expected_offset = v].replay = q.replay
           /\ [q EXCEPT !.expected_offset = v].snapshot = q.snapshot
           /\ [q EXCEPT !.expected_offset = v].events = q.events
           /\ [q EXCEPT !.expected_offset = v].closed = q.closed
BY DEF Queue

\* The same for the closed flag.
LEMMA SetClosed ==
    ASSUME NEW q \in Queue, NEW v \in BOOLEAN
    PROVE  /\ [q EXCEPT !.closed = v] \in Queue /\ [q EXCEPT !.closed = v].closed = v
           /\ [q EXCEPT !.closed = v].replay = q.replay
           /\ [q EXCEPT !.closed = v].snapshot = q.snapshot
           /\ [q EXCEPT !.closed = v].events = q.events
           /\ [q EXCEPT !.closed = v].expected_offset = q.expected_offset
BY DEF Queue

\* What a loss leaves of a queue.
LEMMA GiveUpFields ==
    ASSUME NEW q \in Queue, NEW end \in Nat,
           NEW term \in Terminals
    PROVE  /\ GiveUp(q, end, term) \in Queue
           /\ GiveUp(q, end, term).replay = NoReplay
           /\ GiveUp(q, end, term).snapshot = GapCursor(q.expected_offset, end, term)
           /\ GiveUp(q, end, term).events = NoEvents
           /\ GiveUp(q, end, term).expected_offset = q.expected_offset
           /\ GiveUp(q, end, term).closed <=> q.closed
<1> DEFINE c == GapCursor(q.expected_offset, end, term)
           none == NoEvents
           q1 == [q EXCEPT !.replay = NoReplay]
           q2 == [q1 EXCEPT !.snapshot = c]
           q3 == [q2 EXCEPT !.events = none]
           q4 == [q3 EXCEPT !.queued_bytes = 0]
<1>1. q.expected_offset \in Nat BY DEF Queue
<1>2. c \in Snapshot /\ NoReplay \in Replay /\ none \in Seq(Event)
    BY <1>1, GapCursorGood, NoCursors DEF NoEvents
<1>3. GiveUp(q, end, term) = q4 BY DEF GiveUp, NoEvents
<1> HIDE DEF c, none
<1>4. /\ q1 \in Queue /\ q1.replay = NoReplay
      /\ q1.expected_offset = q.expected_offset /\ q1.closed = q.closed
    BY <1>2, SetReplay
<1> HIDE DEF q1
<1>5. /\ q2 \in Queue /\ q2.replay = NoReplay /\ q2.snapshot = c
      /\ q2.expected_offset = q.expected_offset /\ q2.closed = q.closed
    BY <1>2, <1>4, SetSnapshot
<1> HIDE DEF q2
<1>6. /\ q3 \in Queue /\ q3.replay = NoReplay /\ q3.snapshot = c /\ q3.events = none
      /\ q3.expected_offset = q.expected_offset /\ q3.closed = q.closed
    BY <1>2, <1>5, SetEvents
<1> HIDE DEF q3
<1>7. /\ q4 \in Queue /\ q4.replay = NoReplay /\ q4.snapshot = c /\ q4.events = none
      /\ q4.expected_offset = q.expected_offset /\ q4.closed = q.closed
    BY <1>6, SetQueued
<1> QED BY <1>3, <1>7 DEF c, none

\* The branch of push_output that has room for the chunk.
Enqueue(q, n, e) == [q EXCEPT !.queued_bytes = @ + n, !.events = Append(@, e)]

\* What it leaves of a queue.
LEMMA EnqueueFields ==
    ASSUME NEW q \in Queue, NEW e \in Event, NEW n \in Nat
    PROVE  /\ Enqueue(q, n, e) \in Queue
           /\ Enqueue(q, n, e).events = Append(q.events, e)
           /\ Enqueue(q, n, e).replay = q.replay
           /\ Enqueue(q, n, e).snapshot = q.snapshot
           /\ Enqueue(q, n, e).expected_offset = q.expected_offset
           /\ Enqueue(q, n, e).closed <=> q.closed
<1> DEFINE b == q.queued_bytes + n
           es == Append(q.events, e)
           q1 == [q EXCEPT !.queued_bytes = b]
           q2 == [q1 EXCEPT !.events = es]
<1>1. q.events \in Seq(Event) /\ q.queued_bytes \in Nat BY DEF Queue
<1>2. es \in Seq(Event) /\ b \in Nat BY <1>1
<1>3. Enqueue(q, n, e) = q2 BY DEF Enqueue
<1> HIDE DEF b, es
<1>4. /\ q1 \in Queue /\ q1.replay = q.replay /\ q1.snapshot = q.snapshot
      /\ q1.expected_offset = q.expected_offset /\ q1.closed = q.closed
    BY <1>2, SetQueued
<1> HIDE DEF q1
<1>5. /\ q2 \in Queue /\ q2.events = es /\ q2.replay = q.replay
      /\ q2.snapshot = q.snapshot
      /\ q2.expected_offset = q.expected_offset /\ q2.closed = q.closed
    BY <1>2, <1>4, SetEvents
<1> QED BY <1>3, <1>5 DEF es

\* What push_terminal leaves of a queue.
LEMMA PushTerminalFields ==
    ASSUME NEW q \in Queue, NEW at \in Nat
    PROVE  /\ PushTerminal(q, at) \in Queue
           /\ PushTerminal(q, at).events = Append(q.events, ExitEvent(at))
           /\ PushTerminal(q, at).replay = q.replay
           /\ PushTerminal(q, at).snapshot = q.snapshot
           /\ PushTerminal(q, at).expected_offset = q.expected_offset
           /\ PushTerminal(q, at).closed
<1> DEFINE es == Append(q.events, ExitEvent(at))
           q1 == [q EXCEPT !.events = es]
           q2 == [q1 EXCEPT !.closed = TRUE]
<1>1. q.events \in Seq(Event) BY DEF Queue
<1>2. es \in Seq(Event) BY <1>1, ExitFields
<1>3. PushTerminal(q, at) = q2 BY DEF PushTerminal
<1> HIDE DEF es
<1>4. /\ q1 \in Queue /\ q1.events = es /\ q1.replay = q.replay
      /\ q1.snapshot = q.snapshot /\ q1.expected_offset = q.expected_offset
    BY <1>2, SetEvents
<1> HIDE DEF q1
<1>5. /\ q2 \in Queue /\ q2.events = es /\ q2.replay = q.replay
      /\ q2.snapshot = q.snapshot /\ q2.expected_offset = q.expected_offset
      /\ q2.closed
    BY <1>4, SetClosed
<1> QED BY <1>3, <1>5 DEF es

\* An event that starts where the queue ends may be appended.
LEMMA LinkedAppend ==
    ASSUME NEW es \in Seq(Event), NEW from \in Nat, NEW to \in Nat, Linked(es, from, to),
           NEW e \in Event, e.offset = to
    PROVE  Linked(Append(es, e), from, e.next)
<1> DEFINE fs == Append(es, e)
<1>1. /\ Len(es) \in Nat /\ Len(fs) = Len(es) + 1 /\ fs[Len(es) + 1] = e
      /\ \A i \in 1..Len(es) : fs[i] = es[i]
      /\ es = <<>> <=> Len(es) = 0
      /\ fs # <<>>
    OBVIOUS
<1> HIDE DEF fs
<1>2. ASSUME NEW i \in 1..Len(fs)
      PROVE  fs[i].offset = IF i = 1 THEN from ELSE fs[i - 1].next
    <2>1. CASE i \in 1..Len(es)
        <3>1. i = 1 \/ i - 1 \in 1..Len(es) BY <1>1, <2>1
        <3> QED BY <1>1, <2>1, <3>1 DEF Linked
    <2>2. CASE i = Len(es) + 1
        <3>1. CASE Len(es) = 0 BY <1>1, <2>2, <3>1 DEF Linked
        <3>2. CASE Len(es) # 0
            <4>1. Len(es) \in 1..Len(es) /\ i - 1 = Len(es) /\ i # 1 BY <1>1, <2>2, <3>2
            <4> QED BY <1>1, <2>2, <3>2, <4>1 DEF Linked
        <3> QED BY <3>1, <3>2
    <2> QED BY <1>1, <2>1, <2>2
<1>3. Linked(fs, from, e.next) BY <1>1, <1>2 DEF Linked
<1> QED BY <1>3 DEF fs

\* The oldest event starts where the queue starts, and may be taken off.
LEMMA LinkedTail ==
    ASSUME NEW es \in Seq(Event), NEW from \in Nat, NEW to \in Nat, Linked(es, from, to),
           es # <<>>
    PROVE  /\ Head(es) \in Event /\ Head(es) = es[1] /\ Head(es).offset = from
           /\ Tail(es) \in Seq(Event) /\ Len(Tail(es)) = Len(es) - 1
           /\ \A i \in 1..Len(Tail(es)) : Tail(es)[i] = es[i + 1]
           /\ Linked(Tail(es), Head(es).next, to)
           /\ Tail(es) = <<>> <=> Len(es) = 1
<1> DEFINE ts == Tail(es)
<1>1. /\ Len(es) \in Nat /\ Len(es) > 0 /\ Head(es) \in Event /\ Head(es) = es[1]
      /\ ts \in Seq(Event) /\ Len(ts) = Len(es) - 1
      /\ \A i \in 1..Len(ts) : ts[i] = es[i + 1]
      /\ ts = <<>> <=> Len(ts) = 0
    <2>1. Len(es) \in Nat /\ Len(es) > 0 /\ Head(es) = es[1] OBVIOUS
    <2>2. Head(es) \in Event BY <2>1
    <2>3. ts \in Seq(Event) BY <2>1
    <2>4. Len(ts) = Len(es) - 1 BY <2>1
    <2>5. \A i \in 1..Len(ts) : ts[i] = es[i + 1] BY <2>1, <2>4
    <2> HIDE DEF ts
    <2>6. ts = <<>> <=> Len(ts) = 0 BY <2>3
    <2> QED BY <2>1, <2>2, <2>3, <2>4, <2>5, <2>6
<1> HIDE DEF ts
<1>2. Head(es).offset = from BY <1>1 DEF Linked
<1>3. ASSUME NEW i \in 1..Len(ts)
      PROVE  ts[i].offset = IF i = 1 THEN Head(es).next ELSE ts[i - 1].next
    <2>1. i + 1 \in 1..Len(es) /\ i + 1 # 1 /\ (i + 1) - 1 = i BY <1>1
    <2>2. ts[i].offset = es[i].next BY <1>1, <2>1 DEF Linked
    <2>3. CASE i = 1 BY <1>1, <2>2, <2>3
    <2>4. CASE i # 1
        <3>1. i - 1 \in 1..Len(ts) /\ (i - 1) + 1 = i BY <2>4, <1>1
        <3> QED BY <1>1, <2>2, <2>4, <3>1
    <2> QED BY <2>3, <2>4
<1>4. to = IF ts = <<>> THEN Head(es).next ELSE ts[Len(ts)].next
    <2>1. to = es[Len(es)].next BY <1>1 DEF Linked
    <2>2. CASE Len(ts) = 0
        <3>1. Len(es) = 1 /\ ts = <<>> BY <1>1, <2>2
        <3> QED BY <1>1, <2>1, <3>1
    <2>3. CASE Len(ts) # 0
        <3>1. Len(ts) \in 1..Len(ts) /\ Len(ts) + 1 = Len(es) BY <1>1, <2>3
        <3> QED BY <1>1, <2>1, <2>3, <3>1
    <2> QED BY <2>2, <2>3
<1>5. Linked(ts, Head(es).next, to) BY <1>3, <1>4 DEF Linked
<1> QED BY <1>1, <1>2, <1>5 DEF ts

\* Appending the next bytes of the stream, or its Exit, keeps a queue good.
LEMMA AppendGood ==
    ASSUME NEW q \in Queue, NEW at \in Nat, NEW due \in Int, NEW end \in Nat,
           QueueGood(q, at, due, end, FALSE), NEW done \in BOOLEAN,
           NEW e \in Event, e.offset = end, EventGood(e, e.next), end <= e.next,
           e.kind = "exit" => done,
           NEW r \in Queue, r.replay = q.replay, r.snapshot = q.snapshot,
           r.events = Append(q.events, e), r.expected_offset = q.expected_offset,
           r.closed <=> done
    PROVE  QueueGood(r, at, due, e.next, done)
<1>1. /\ q.events \in Seq(Event) /\ Len(q.events) \in Nat /\ e.next \in Nat
      /\ q.replay \in Replay /\ q.snapshot \in Snapshot
    BY DEF Queue, Event
<1>2. Front(q, at) \in Nat BY <1>1 DEF Front, Replay, Snapshot
<1>3. Front(r, at) = Front(q, at) BY DEF Front
<1>4. Linked(r.events, Front(r, at), e.next)
    BY <1>1, <1>2, <1>3, LinkedAppend DEF QueueGood
<1>5. /\ Len(r.events) = Len(q.events) + 1 /\ r.events[Len(q.events) + 1] = e
      /\ \A i \in 1..Len(q.events) : r.events[i] = q.events[i]
    BY <1>1
<1>6. ASSUME NEW i \in 1..Len(r.events)
      PROVE  /\ EventGood(r.events[i], e.next)
             /\ r.events[i].kind = "exit" => i = Len(r.events) /\ done
    <2>1. CASE i \in 1..Len(q.events)
        <3>1. /\ r.events[i] = q.events[i] /\ EventGood(q.events[i], end)
              /\ q.events[i].kind # "exit"
            BY <1>5, <2>1 DEF QueueGood
        <3>2. q.events[i] \in Event BY <1>1, <2>1
        <3>3. q.events[i].next \in Nat BY <3>2 DEF Event
        <3>4. EventGood(q.events[i], e.next) BY <1>1, <3>1, <3>3 DEF EventGood
        <3> QED BY <3>1, <3>4
    <2>2. CASE i = Len(q.events) + 1 BY <1>5, <2>2
    <2> QED BY <1>1, <1>5, <2>1, <2>2
<1>7. CursorsGood(r, at, due) BY DEF QueueGood, CursorsGood
<1>8. at <= e.next /\ Front(r, at) <= e.next /\ r.expected_offset = at
    BY <1>1, <1>2, <1>3 DEF QueueGood
<1> QED BY <1>4, <1>6, <1>7, <1>8 DEF QueueGood

\* A queue given up for a gap to the end of the stream is good: the gap starts
\* at the expected offset, which is where the consumer stands.
LEMMA GapGood ==
    ASSUME NEW r \in Queue, NEW at \in Nat, NEW due \in Int, NEW end \in Nat, at < end,
           NEW done \in BOOLEAN, NEW term \in Terminals, term.watermark = end,
           r.replay = NoReplay, r.snapshot = GapCursor(at, end, term), r.events = NoEvents,
           r.expected_offset = at, r.closed <=> done
    PROVE  QueueGood(r, at, due, end, done)
<1>1. ~r.replay.on BY NoCursors
<1>2. term.ansi \in Nat /\ term.ansi > 0 BY AnsiPositive
<1>3. /\ r.snapshot.on /\ r.snapshot.gap_pending /\ r.snapshot.start = at
      /\ r.snapshot.end = end /\ r.snapshot.watermark = end
      /\ r.snapshot.ansi = term.ansi /\ r.snapshot.next = 0
    BY GapCursorGood
<1>4. CursorsGood(r, at, due) BY <1>1, <1>2, <1>3 DEF CursorsGood
<1>5. Front(r, at) = end BY <1>1, <1>3 DEF Front
<1>6. Linked(r.events, end, end) BY DEF Linked, NoEvents
<1>7. Len(r.events) = 0 BY DEF NoEvents
<1> QED BY <1>4, <1>5, <1>6, <1>7 DEF QueueGood

\* push_output keeps a queue good, whether the chunk fits or overflows it.
LEMMA PushOutputGood ==
    ASSUME NEW q \in Queue, NEW at \in Nat, NEW due \in Int, NEW end \in Nat,
           QueueGood(q, at, due, end, FALSE), NEW n \in Nat, n > 0,
           NEW term \in Terminals, term.watermark = end + n,
           NEW r, r = PushOutput(q, [offset |-> end, from |-> end, len |-> n], term)
    PROVE  r \in Queue /\ QueueGood(r, at, due, end + n, FALSE)
<1> DEFINE chunk == [offset |-> end, from |-> end, len |-> n]
           e == ChunkEvent("output", chunk)
<1>1. /\ e \in Event /\ EventGood(e, end + n) /\ e.kind = "output" /\ e.offset = end
      /\ e.next = end + n
    BY OutputFields
<1>2. chunk.len = n OBVIOUS
<1>3. at <= end /\ q.expected_offset = at /\ ~q.closed BY DEF QueueGood
<1> HIDE DEF chunk, e
<1>4. CASE q.queued_bytes + n > SubscriberLimit
    <2>1. r = GiveUp(q, end + n, term) BY <1>2, <1>4 DEF PushOutput, chunk
    <2>3. at < end + n /\ end + n \in Nat BY <1>3
    <2>2. /\ r \in Queue /\ r.replay = NoReplay
          /\ r.snapshot = GapCursor(at, end + n, term) /\ r.events = NoEvents
          /\ r.expected_offset = at /\ ~r.closed
        BY <1>3, <2>1, <2>3, GiveUpFields
    <2> QED BY <2>2, <2>3, GapGood
<1>5. CASE ~(q.queued_bytes + n > SubscriberLimit)
    <2>1. r = Enqueue(q, n, e) BY <1>2, <1>5 DEF PushOutput, Enqueue, chunk, e
    <2>2. /\ r \in Queue /\ r.replay = q.replay /\ r.snapshot = q.snapshot
          /\ r.events = Append(q.events, e) /\ r.expected_offset = q.expected_offset
          /\ ~r.closed
        <3>1. Enqueue(q, n, e) \in Queue BY <1>1, EnqueueFields
        <3>2. /\ Enqueue(q, n, e).replay = q.replay
              /\ Enqueue(q, n, e).snapshot = q.snapshot BY <1>1, EnqueueFields
        <3>3. /\ Enqueue(q, n, e).events = Append(q.events, e) BY <1>1, EnqueueFields
        <3>4. Enqueue(q, n, e).expected_offset = q.expected_offset BY <1>1, EnqueueFields
        <3>5. ~Enqueue(q, n, e).closed BY <1>1, <1>3, EnqueueFields
        <3> QED BY <2>1, <3>1, <3>2, <3>3, <3>4, <3>5
    <2>3. end <= e.next /\ EventGood(e, e.next) BY <1>1
    <2>4. QueueGood(r, at, due, e.next, FALSE) BY <1>1, <2>2, <2>3, AppendGood
    <2> QED BY <1>1, <2>2, <2>4
<1> QED BY <1>4, <1>5

\* push_terminal keeps a queue good, and is the last thing it is given.
LEMMA PushTerminalGood ==
    ASSUME NEW q \in Queue, NEW at \in Nat, NEW due \in Int, NEW end \in Nat,
           QueueGood(q, at, due, end, FALSE)
    PROVE  /\ PushTerminal(q, end) \in Queue
           /\ QueueGood(PushTerminal(q, end), at, due, end, TRUE)
<1> DEFINE r == PushTerminal(q, end)
           e == ExitEvent(end)
<1>1. /\ e \in Event /\ EventGood(e, end) /\ e.kind = "exit" /\ e.offset = end
      /\ e.next = end
    BY ExitFields
<1>2. /\ r \in Queue /\ r.replay = q.replay /\ r.snapshot = q.snapshot
      /\ r.events = Append(q.events, e) /\ r.expected_offset = q.expected_offset
      /\ r.closed
    BY PushTerminalFields
<1> HIDE DEF r, e
<1>3. EventGood(e, e.next) /\ end <= e.next BY <1>1
<1>4. QueueGood(r, at, due, e.next, TRUE) BY <1>1, <1>2, <1>3, AppendGood
<1> QED BY <1>1, <1>2, <1>4 DEF r

\* The queue of a subscription at an offset that is still held.
LEMMA NewReplayGood ==
    ASSUME NEW at \in Nat, NEW end \in Nat, at <= end
    PROVE  ReplayQueue(at, end) \in Queue /\ QueueGood(ReplayQueue(at, end), at, 0, end, FALSE)
<1> DEFINE c == ReplayCursor(at, end)
           r == ReplayQueue(at, end)
<1>1. /\ c \in Replay /\ c.on /\ c.next = at /\ c.end = end
      /\ c.empty_pending = (at = end)
    BY DEF ReplayCursor, Replay
<1>2. NoSnapshot \in Snapshot /\ ~NoSnapshot.on BY NoCursors
<1> HIDE DEF c
<1>3. /\ r \in Queue /\ r.replay = c /\ r.snapshot = NoSnapshot /\ r.events = NoEvents
      /\ r.expected_offset = at /\ ~r.closed
    <2>1. r = NewQueue(c, NoSnapshot, at) BY DEF ReplayQueue, c
    <2> QED BY <1>1, <1>2, <2>1, NewQueueFields
<1> HIDE DEF r
<1>4. CursorsGood(r, at, 0) BY <1>1, <1>2, <1>3 DEF CursorsGood
<1>5. Front(r, at) = end BY <1>1, <1>3 DEF Front
<1>6. Linked(r.events, end, end) /\ Len(r.events) = 0 BY <1>3 DEF Linked, NoEvents
<1>7. QueueGood(r, at, 0, end, FALSE) BY <1>3, <1>4, <1>5, <1>6 DEF QueueGood
<1> QED BY <1>3, <1>7 DEF r

\* The queue of a subscription at an offset that was evicted.
LEMMA NewGapGood ==
    ASSUME NEW at \in Nat, NEW term \in Terminals, at < term.watermark
    PROVE  /\ GapQueue(at, term.watermark, term) \in Queue
           /\ QueueGood(GapQueue(at, term.watermark, term), at, 0, term.watermark, FALSE)
<1> DEFINE end == term.watermark
           c == GapCursor(at, end, term)
           r == GapQueue(at, end, term)
<1>1. end \in Nat BY AnsiPositive
<1>2. c \in Snapshot /\ NoReplay \in Replay BY <1>1, GapCursorGood, NoCursors
<1> HIDE DEF c
<1>3. /\ r \in Queue /\ r.replay = NoReplay /\ r.snapshot = c /\ r.events = NoEvents
      /\ r.expected_offset = at /\ ~r.closed
    <2>1. r = NewQueue(NoReplay, c, at) BY DEF GapQueue, c
    <2> QED BY <1>2, <2>1, NewQueueFields
<1> HIDE DEF r
<1>4. QueueGood(r, at, 0, end, FALSE)
    <2>1. PICK done \in BOOLEAN : ~done OBVIOUS
    <2>2. QueueGood(r, at, 0, end, done) BY <1>1, <1>3, <2>1, GapGood DEF c
    <2> QED BY <2>1, <2>2
<1> QED BY <1>3, <1>4 DEF r

\* The queue of a subscription to the repaint.
LEMMA NewRepaintGood ==
    ASSUME NEW term \in Terminals
    PROVE  /\ RepaintQueue(term) \in Queue
           /\ QueueGood(RepaintQueue(term), term.watermark, term.ansi, term.watermark, FALSE)
<1> DEFINE at == term.watermark
           c == RepaintCursor(term)
           r == RepaintQueue(term)
<1>1. at \in Nat BY AnsiPositive
<1>2. term.ansi \in Nat /\ term.ansi > 0 BY AnsiPositive
<1>3. /\ c \in Snapshot /\ c.on /\ ~c.gap_pending /\ c.watermark = at
      /\ c.ansi = term.ansi /\ c.next = 0
    BY <1>1, GapCursorGood
<1>4. NoReplay \in Replay /\ ~NoReplay.on BY NoCursors
<1> HIDE DEF c
<1>5. /\ r \in Queue /\ r.replay = NoReplay /\ r.snapshot = c /\ r.events = NoEvents
      /\ r.expected_offset = at /\ ~r.closed
    <2>1. r = NewQueue(NoReplay, c, at) BY DEF RepaintQueue, c
    <2> QED BY <1>1, <1>3, <1>4, <2>1, NewQueueFields
<1> HIDE DEF r, at
<1>6. CursorsGood(r, at, term.ansi) BY <1>2, <1>3, <1>4, <1>5 DEF CursorsGood
<1>7. Front(r, at) = at BY <1>3, <1>4, <1>5 DEF Front
<1>8. Linked(r.events, at, at) /\ Len(r.events) = 0 BY <1>5 DEF Linked, NoEvents
<1>9. QueueGood(r, at, term.ansi, at, FALSE)
    BY <1>1, <1>5, <1>6, <1>7, <1>8 DEF QueueGood
<1> QED BY <1>5, <1>9 DEF r, at

-----------------------------------------------------------------------------
(* What recv takes from one queue *)

\* next_event: announcing an empty replay.
LEMMA EmptyReplayGood ==
    ASSUME NEW q \in Queue, NEW at \in Nat, NEW due \in Int, NEW end \in Nat,
           NEW done \in BOOLEAN, QueueGood(q, at, due, end, done),
           q.replay.on, q.replay.empty_pending
    PROVE  /\ [q EXCEPT !.replay = NoReplay] \in Queue
           /\ QueueGood([q EXCEPT !.replay = NoReplay], at, due, end, done)
           /\ q.replay.next = at
<1> DEFINE r == [q EXCEPT !.replay = NoReplay]
<1>1. NoReplay \in Replay /\ ~NoReplay.on BY NoCursors
<1>2. /\ r \in Queue /\ r.replay = NoReplay /\ r.snapshot = q.snapshot
      /\ r.events = q.events /\ r.expected_offset = q.expected_offset
      /\ r.closed = q.closed
    BY <1>1, SetReplay
<1> HIDE DEF r
<1>3. /\ ~q.snapshot.on /\ q.replay.next = at /\ q.replay.end = at /\ due = 0
    BY DEF QueueGood, CursorsGood
<1>4. Front(q, at) = at /\ Front(r, at) = at BY <1>1, <1>2, <1>3 DEF Front
<1>5. CursorsGood(r, at, due) BY <1>1, <1>2, <1>3 DEF CursorsGood
<1>6. QueueGood(r, at, due, end, done) BY <1>2, <1>4, <1>5 DEF QueueGood
<1> QED BY <1>2, <1>3, <1>6 DEF r

\* What next_event leaves after a piece of the replay that ends at `next`.
AfterReplay(q, next) ==
    [q EXCEPT !.replay = IF next = q.replay.end THEN NoReplay
                         ELSE [q.replay EXCEPT !.next = next],
              !.expected_offset = next]

\* next_event: a piece of the replay.
LEMMA ReplayGood ==
    ASSUME NEW q \in Queue, NEW at \in Nat, NEW due \in Int, NEW end \in Nat,
           NEW done \in BOOLEAN, QueueGood(q, at, due, end, done),
           q.replay.on, ~q.replay.empty_pending, NEW next \in Nat, next <= q.replay.end
    PROVE  /\ AfterReplay(q, next) \in Queue
           /\ QueueGood(AfterReplay(q, next), next, due, end, done)
<1> DEFINE c == IF next = q.replay.end THEN NoReplay ELSE [q.replay EXCEPT !.next = next]
           q1 == [q EXCEPT !.replay = c]
           r == [q1 EXCEPT !.expected_offset = next]
<1>1. NoReplay \in Replay /\ ~NoReplay.on BY NoCursors
<1>2. q.replay \in Replay /\ q.snapshot \in Snapshot BY DEF Queue
<1>3. /\ ~q.snapshot.on /\ q.replay.next = at /\ due = 0
    BY DEF QueueGood, CursorsGood
<1>4. /\ c \in Replay
      /\ next = q.replay.end => ~c.on
      /\ next # q.replay.end =>
            c.on /\ c.next = next /\ c.end = q.replay.end /\ ~c.empty_pending
    <2>1. CASE next = q.replay.end BY <1>1, <2>1
    <2>2. CASE next # q.replay.end
        <3>1. c = [q.replay EXCEPT !.next = next] BY <2>2
        <3> QED BY <1>2, <2>2, <3>1 DEF Replay
    <2> QED BY <2>1, <2>2
<1>5. AfterReplay(q, next) = r BY DEF AfterReplay
<1> HIDE DEF c
<1>6. /\ q1 \in Queue /\ q1.replay = c /\ q1.snapshot = q.snapshot
      /\ q1.events = q.events /\ q1.closed = q.closed
    BY <1>4, SetReplay
<1> HIDE DEF q1
<1>7. /\ r \in Queue /\ r.replay = c /\ r.snapshot = q.snapshot
      /\ r.events = q.events /\ r.expected_offset = next /\ r.closed = q.closed
    BY <1>6, SetExpected
<1> HIDE DEF r
<1>8. Front(q, at) = q.replay.end /\ Front(r, next) = q.replay.end
    BY <1>3, <1>4, <1>7 DEF Front
<1>9. CursorsGood(r, next, due) BY <1>2, <1>3, <1>4, <1>7 DEF CursorsGood, Replay
<1>10. next <= end BY <1>2, <1>8 DEF QueueGood, Replay
<1>11. QueueGood(r, next, due, end, done)
    BY <1>7, <1>8, <1>9, <1>10 DEF QueueGood
<1> QED BY <1>5, <1>7, <1>11

\* next_event: announcing a gap, which names exactly the bytes from where the
\* consumer stands to the watermark of the repaint it announces.
LEMMA TakeGapGood ==
    ASSUME NEW q \in Queue, NEW at \in Nat, NEW due \in Int, NEW end \in Nat,
           NEW done \in BOOLEAN, QueueGood(q, at, due, end, done),
           ~q.replay.on, q.snapshot.on, q.snapshot.gap_pending
    PROVE  /\ TakeGap(q) \in Queue
           /\ QueueGood(TakeGap(q), q.snapshot.watermark, q.snapshot.ansi, end, done)
           /\ GapEvent(q) \in Event /\ GapEvent(q).kind = "gap"
           /\ GapEvent(q).offset = at /\ GapEvent(q).from = at /\ GapEvent(q).len > 0
           /\ GapEvent(q).next = q.snapshot.watermark
           /\ GapEvent(q).next = at + GapEvent(q).len
           /\ GapEvent(q).next <= end
           /\ GapEvent(q).total = q.snapshot.ansi /\ q.snapshot.ansi > 0
           /\ TakeGap(q).events = q.events
<1> DEFINE c == [q.snapshot EXCEPT !.gap_pending = FALSE]
           to == q.snapshot.watermark
           q1 == [q EXCEPT !.snapshot = c]
           r == [q1 EXCEPT !.expected_offset = to]
<1>1. /\ q.snapshot \in Snapshot /\ to \in Nat /\ q.snapshot.ansi \in Nat
      /\ q.snapshot.end \in Nat
    BY DEF Queue, Snapshot
<1>2. /\ q.snapshot.start = at /\ at < to /\ q.snapshot.end = to /\ q.snapshot.next = 0
      /\ 0 < q.snapshot.ansi
    BY DEF QueueGood, CursorsGood
<1>3. /\ c \in Snapshot /\ c.on /\ ~c.gap_pending /\ c.watermark = to
      /\ c.ansi = q.snapshot.ansi /\ c.next = 0
    BY <1>1, <1>2 DEF Snapshot
<1>4. TakeGap(q) = r BY DEF TakeGap
<1>5. Front(q, at) = to BY DEF Front
<1>6. to <= end BY <1>5 DEF QueueGood
<1>7. GapEvent(q) = [kind |-> "gap", offset |-> at, from |-> at, len |-> to - at,
                     next |-> to, total |-> q.snapshot.ansi]
    BY <1>2 DEF GapEvent
<1> HIDE DEF c, to
<1>8. /\ q1 \in Queue /\ q1.replay = q.replay /\ q1.snapshot = c
      /\ q1.events = q.events /\ q1.closed = q.closed
    BY <1>3, SetSnapshot
<1> HIDE DEF q1
<1>9. /\ r \in Queue /\ r.replay = q.replay /\ r.snapshot = c
      /\ r.events = q.events /\ r.expected_offset = to /\ r.closed = q.closed
    BY <1>1, <1>8, SetExpected
<1> HIDE DEF r
<1>10. Front(r, to) = to BY <1>3, <1>9 DEF Front
<1>11. CursorsGood(r, to, q.snapshot.ansi) BY <1>1, <1>2, <1>3, <1>9 DEF CursorsGood
<1>12. QueueGood(r, to, q.snapshot.ansi, end, done)
    BY <1>5, <1>6, <1>9, <1>10, <1>11 DEF QueueGood
<1>13. to - at \in Nat /\ to - at > 0 /\ to = at + (to - at) BY <1>1, <1>2
<1>14. /\ GapEvent(q) \in Event /\ GapEvent(q).kind = "gap"
       /\ GapEvent(q).offset = at /\ GapEvent(q).from = at /\ GapEvent(q).len = to - at
       /\ GapEvent(q).next = to /\ GapEvent(q).total = q.snapshot.ansi
    BY <1>1, <1>7, <1>13 DEF Event, Kinds
<1> QED BY <1>2, <1>4, <1>6, <1>9, <1>12, <1>13, <1>14 DEF to

\* What next_event leaves after a fragment of the repaint.
AfterRepaint(q, upto) ==
    [q EXCEPT !.snapshot = IF upto = q.snapshot.ansi THEN NoSnapshot
                           ELSE [q.snapshot EXCEPT !.next = upto]]

\* next_event: a fragment of the repaint, which is still due.
LEMMA RepaintGood ==
    ASSUME NEW q \in Queue, NEW at \in Nat, NEW due \in Int, NEW end \in Nat,
           NEW done \in BOOLEAN, QueueGood(q, at, due, end, done),
           ~q.replay.on, q.snapshot.on, ~q.snapshot.gap_pending,
           NEW upto \in Nat, q.snapshot.next <= upto, upto <= q.snapshot.ansi
    PROVE  /\ AfterRepaint(q, upto) \in Queue
           /\ QueueGood(AfterRepaint(q, upto), at, due - (upto - q.snapshot.next), end, done)
           /\ due > 0
<1> DEFINE c == IF upto = q.snapshot.ansi THEN NoSnapshot
                ELSE [q.snapshot EXCEPT !.next = upto]
           r == [q EXCEPT !.snapshot = c]
           d == due - (upto - q.snapshot.next)
<1>1. NoSnapshot \in Snapshot /\ ~NoSnapshot.on BY NoCursors
<1>2. /\ q.snapshot \in Snapshot /\ q.snapshot.next \in Nat /\ q.snapshot.ansi \in Nat
    BY DEF Queue, Snapshot
<1>3. /\ q.snapshot.watermark = at /\ due = q.snapshot.ansi - q.snapshot.next
      /\ q.snapshot.next < q.snapshot.ansi
    BY DEF QueueGood, CursorsGood
<1>4. /\ c \in Snapshot
      /\ upto = q.snapshot.ansi => ~c.on
      /\ upto # q.snapshot.ansi =>
            c.on /\ ~c.gap_pending /\ c.watermark = at /\ c.next = upto
            /\ c.ansi = q.snapshot.ansi
    <2>1. CASE upto = q.snapshot.ansi BY <1>1, <2>1
    <2>2. CASE upto # q.snapshot.ansi
        <3>1. c = [q.snapshot EXCEPT !.next = upto] BY <2>2
        <3> QED BY <1>2, <1>3, <2>2, <3>1 DEF Snapshot
    <2> QED BY <2>1, <2>2
<1>5. AfterRepaint(q, upto) = r BY DEF AfterRepaint
<1>6. d = q.snapshot.ansi - upto /\ due > 0 BY <1>2, <1>3
<1> HIDE DEF c
<1>7. /\ r \in Queue /\ r.replay = q.replay /\ r.snapshot = c
      /\ r.events = q.events /\ r.expected_offset = q.expected_offset
      /\ r.closed = q.closed
    BY <1>4, SetSnapshot
<1> HIDE DEF r, d
<1>8. Front(q, at) = at /\ Front(r, at) = at
    BY <1>3, <1>4, <1>7 DEF Front
<1>9. CursorsGood(r, at, d) BY <1>2, <1>4, <1>6, <1>7 DEF CursorsGood
<1>10. QueueGood(r, at, d, end, done) BY <1>7, <1>8, <1>9 DEF QueueGood
<1> QED BY <1>5, <1>6, <1>7, <1>10 DEF d

\* What next_event leaves after the oldest event was taken.
AfterQueued(q) ==
    [q EXCEPT !.events = Tail(@), !.queued_bytes = Greatest(@ - Head(q.events).len, 0),
              !.expected_offset = Head(q.events).next]

\* next_event: the oldest queued event starts where the consumer stands, comes
\* only when no repaint is due and, if it is the Exit, leaves nothing behind.
LEMMA QueuedGood ==
    ASSUME NEW q \in Queue, NEW at \in Nat, NEW due \in Int, NEW end \in Nat,
           NEW done \in BOOLEAN, QueueGood(q, at, due, end, done),
           AtQueue(q), q.events # <<>>
    PROVE  /\ AfterQueued(q) \in Queue
           /\ Head(q.events) \in Event
           /\ QueueGood(AfterQueued(q), Head(q.events).next, due, end, done)
           /\ EventGood(Head(q.events), end) /\ Head(q.events).offset = at
           /\ due = 0
           /\ Head(q.events).kind = "exit" =>
                done /\ AtQueue(AfterQueued(q)) /\ AfterQueued(q).events = NoEvents
                /\ Head(q.events).next = end
<1> DEFINE e == Head(q.events)
           ts == Tail(q.events)
           b == Greatest(q.queued_bytes - e.len, 0)
           q1 == [q EXCEPT !.events = ts]
           q2 == [q1 EXCEPT !.queued_bytes = b]
           r == [q2 EXCEPT !.expected_offset = e.next]
<1>1. /\ q.events \in Seq(Event) /\ q.queued_bytes \in Nat /\ ~q.replay.on /\ ~q.snapshot.on
    BY DEF Queue, AtQueue
<1>2. Front(q, at) = at /\ due = 0 BY <1>1 DEF Front, QueueGood, CursorsGood
<1>3. /\ e \in Event /\ e = q.events[1] /\ e.offset = at
      /\ ts \in Seq(Event) /\ Len(ts) = Len(q.events) - 1
      /\ \A i \in 1..Len(ts) : ts[i] = q.events[i + 1]
      /\ Linked(ts, e.next, end)
      /\ ts = <<>> <=> Len(q.events) = 1
    BY <1>1, <1>2, LinkedTail DEF QueueGood
<1>4. Len(q.events) \in Nat /\ Len(q.events) > 0 BY <1>1
<1>5. EventGood(e, end) /\ (e.kind = "exit" => Len(q.events) = 1 /\ done)
    BY <1>3, <1>4 DEF QueueGood
<1>6. e.len \in Nat /\ e.next \in Nat BY <1>3 DEF Event
<1>7. b \in Nat BY <1>1, <1>6 DEF Greatest
<1>8. AfterQueued(q) = r BY DEF AfterQueued
<1> HIDE DEF e, ts, b
<1>9. /\ q1 \in Queue /\ q1.replay = q.replay /\ q1.snapshot = q.snapshot
      /\ q1.events = ts /\ q1.closed = q.closed
    BY <1>3, SetEvents
<1> HIDE DEF q1
<1>10. /\ q2 \in Queue /\ q2.replay = q.replay /\ q2.snapshot = q.snapshot
       /\ q2.events = ts /\ q2.closed = q.closed
    BY <1>7, <1>9, SetQueued
<1> HIDE DEF q2
<1>11. /\ r \in Queue /\ r.replay = q.replay /\ r.snapshot = q.snapshot
       /\ r.events = ts /\ r.closed = q.closed /\ r.expected_offset = e.next
    BY <1>6, <1>10, SetExpected
<1> HIDE DEF r
<1>12. Front(r, e.next) = e.next BY <1>1, <1>11 DEF Front
<1>13. CursorsGood(r, e.next, due) BY <1>1, <1>2, <1>11 DEF CursorsGood
<1>14. ASSUME NEW i \in 1..Len(ts)
       PROVE  EventGood(ts[i], end) /\ (ts[i].kind = "exit" => i = Len(ts) /\ done)
    <2>1. i + 1 \in 1..Len(q.events) /\ ts[i] = q.events[i + 1] BY <1>3, <1>4
    <2>2. EventGood(q.events[i + 1], end)
          /\ (q.events[i + 1].kind = "exit" => i + 1 = Len(q.events) /\ done)
        BY <2>1 DEF QueueGood
    <2> QED BY <1>3, <1>4, <2>1, <2>2
<1>15. e.next <= end BY <1>5 DEF EventGood
<1>16. QueueGood(r, e.next, due, end, done)
    BY <1>3, <1>11, <1>12, <1>13, <1>14, <1>15 DEF QueueGood
<1>17. ASSUME e.kind = "exit" PROVE done /\ AtQueue(r) /\ r.events = NoEvents /\ e.next = end
    <2>1. ts = <<>> /\ done BY <1>3, <1>5, <1>17
    <2>2. e.next = end BY <1>3, <2>1 DEF Linked
    <2> QED BY <1>1, <1>11, <2>1, <2>2 DEF AtQueue, NoEvents
<1> QED BY <1>2, <1>3, <1>5, <1>8, <1>11, <1>16, <1>17 DEF e

-----------------------------------------------------------------------------
(* A consumer *)

\* Closed or not.
LEMMA CompletedBoolean == Completed \in BOOLEAN
BY DEF Completed

\* A step that changes nothing of a consumer, of the ring or of the completion
\* keeps what is said of it.
LEMMA OthersKept ==
    ASSUME NEW t \in Subscribers, Consumer(t), UNCHANGED <<ring, completion>>,
           queue'[t] = queue[t], permit'[t] = permit[t], phase'[t] = phase[t],
           pos'[t] = pos[t], owed'[t] = owed[t], last'[t] = last[t]
    PROVE  Consumer(t)'
<1>1. ConsumerType(t)' BY DEF Consumer, ConsumerType
<1>2. (Completed' <=> Completed) /\ (Attached(t)' <=> Attached(t)) BY DEF Completed, Attached
<1>3. ConsumerInv(t)' BY <1>2 DEF Consumer, ConsumerInv, Completed, Attached
<1>4. LossFree(t)' BY DEF Consumer, LossFree, Truthful
<1> QED BY <1>1, <1>3, <1>4 DEF Consumer

\* A step of one consumer keeps the invariant if it keeps it for that consumer.
LEMMA OneMoves ==
    ASSUME IInv, NEW s \in Subscribers, NEW r, NEW pe, NEW ph, NEW at, NEW due, NEW l,
           queue' = [queue EXCEPT ![s] = r], permit' = [permit EXCEPT ![s] = pe],
           phase' = [phase EXCEPT ![s] = ph], pos' = [pos EXCEPT ![s] = at],
           owed' = [owed EXCEPT ![s] = due], last' = [last EXCEPT ![s] = l],
           UNCHANGED <<ring, terminal, completion>>, subscribers' \subseteq Subscribers,
           subscribers \subseteq subscribers',
           ph \in {"ready", "parked"} /\ ~Completed => s \in subscribers',
           (queue'[s] = r /\ permit'[s] = pe /\ phase'[s] = ph /\ pos'[s] = at
            /\ owed'[s] = due /\ last'[s] = l) => Consumer(s)'
    PROVE  IInv'
<1>1. HubType' BY DEF IInv, HubType
<1>2. Maps' BY DEF IInv, Maps
<1>3. /\ queue'[s] = r /\ permit'[s] = pe /\ phase'[s] = ph /\ pos'[s] = at
      /\ owed'[s] = due /\ last'[s] = l
    BY DEF IInv, Maps
<1>4. ASSUME NEW t \in Subscribers, t # s
      PROVE  /\ queue'[t] = queue[t] /\ permit'[t] = permit[t] /\ phase'[t] = phase[t]
             /\ pos'[t] = pos[t] /\ owed'[t] = owed[t] /\ last'[t] = last[t]
    BY <1>4 DEF IInv, Maps
<1>5. ASSUME NEW t \in Subscribers PROVE Consumer(t)'
    <2>1. CASE t = s BY <1>3, <2>1
    <2>2. CASE t # s BY <1>4, <2>2, OthersKept DEF IInv
    <2> QED BY <2>1, <2>2
<1>6. HubInv'
    <2>1. Completed' <=> Completed BY DEF Completed
    <2>2. ASSUME NEW t \in Subscribers, Attached(t)', ~Completed' PROVE t \in subscribers'
        <3>1. CASE t = s BY <1>3, <2>1, <2>2, <3>1 DEF Attached
        <3>2. CASE t # s
            <4>1. Attached(t) BY <1>4, <2>2, <3>2 DEF Attached
            <4> QED BY <2>1, <2>2, <4>1 DEF IInv, HubInv
        <3> QED BY <3>1, <3>2
    <2>3. /\ RingConsistent(ring)' /\ (terminal.watermark = ring.next_offset)'
          /\ (Completed => completion.next_offset = ring.next_offset)'
        BY <2>1 DEF IInv, HubInv, RingConsistent, Oldest
    <2> QED BY <2>2, <2>3 DEF HubInv
<1> QED BY <1>1, <1>2, <1>5, <1>6 DEF IInv

\* Where the consumer stands after it was told e.
After(s, e) == IF e.kind = "repaint" THEN pos[s] ELSE e.next

\* How much of a repaint is due to it after it was told e.
DueAfter(s, e) ==
    CASE e.kind = "gap" -> e.total [] e.kind = "repaint" -> owed[s] - e.len
      [] OTHER -> owed[s]

\* What is true of every event recv returns, with the queue r it leaves: the
\* event starts where the consumer stands, and the queue goes on from there.
Delivery(s, e, r) ==
    /\ e \in Event /\ r \in Queue
    /\ QueueGood(r, After(s, e), DueAfter(s, e), ring.next_offset, Completed)
    /\ e.kind \in {"replay", "output", "gap", "repaint", "exit"}
    /\ e.kind # "repaint" =>
          e.offset = pos[s] /\ e.from = e.offset /\ e.next = e.offset + e.len
    /\ e.kind \in {"replay", "output", "exit"} => owed[s] = 0
    /\ e.kind = "gap" => e.len > 0 /\ e.total > 0
    /\ e.kind = "repaint" => owed[s] > 0
    /\ e.kind = "exit" =>
          /\ Completed /\ AtQueue(r) /\ r.events = NoEvents
          /\ e.next = ring.next_offset /\ e.len = 0

\* Returning such an event keeps the invariant.
LEMMA DeliverKeeps ==
    ASSUME IInv, NEW s \in Subscribers, NEW e, NEW r, Delivery(s, e, r), Deliver(s, e),
           phase[s] = "ready", queue' = [queue EXCEPT ![s] = r]
    PROVE  IInv'
<1>1. ConsumerType(s) /\ ConsumerInv(s) BY DEF IInv, Consumer
<1> DEFINE l == [event |-> e, before |-> pos[s]]
<1>2. /\ last' = [last EXCEPT ![s] = l] /\ pos' = [pos EXCEPT ![s] = After(s, e)]
      /\ owed' = [owed EXCEPT ![s] = DueAfter(s, e)]
      /\ UNCHANGED <<ring, terminal, subscribers, completion, permit, phase>>
    BY DEF Deliver, hubVars, After, DueAfter
<1>3. permit' = [permit EXCEPT ![s] = permit[s]] /\ phase' = [phase EXCEPT ![s] = "ready"]
    BY <1>2 DEF IInv, Maps
<1>4. e \in Event /\ pos[s] \in Nat /\ owed[s] \in Int BY <1>1 DEF Delivery, ConsumerType
<1>5. After(s, e) \in Nat /\ DueAfter(s, e) \in Int
    BY <1>4 DEF After, DueAfter, Event
<1>6. l.event = e /\ l.before = pos[s] OBVIOUS
<1> HIDE DEF l
<1>7. l = [event |-> l.event, before |-> l.before] BY <1>6 DEF l
<1>8. ~Completed => s \in subscribers BY DEF IInv, HubInv, Attached
<1>9. ASSUME /\ queue'[s] = r /\ permit'[s] = permit[s] /\ phase'[s] = "ready"
             /\ pos'[s] = After(s, e) /\ owed'[s] = DueAfter(s, e) /\ last'[s] = l
      PROVE  Consumer(s)'
    <2>1. ConsumerType(s)'
        BY <1>1, <1>4, <1>5, <1>6, <1>7, <1>9 DEF ConsumerType, Delivery
    <2>2. Completed' <=> Completed BY <1>2 DEF Completed
    <2>3. (ring.next_offset)' = ring.next_offset BY <1>2
    <2>4. ConsumerInv(s)'
        BY <1>2, <1>6, <1>9, <2>2, <2>3 DEF ConsumerInv, Delivery, Completed, Attached
    <2>5. pos'[s] <= ring'.next_offset BY <1>2, <1>9 DEF Delivery, QueueGood
    <2>6. LossFree(s)' BY <1>6, <1>9, <2>5 DEF LossFree, Delivery, Truthful
    <2> QED BY <2>1, <2>4, <2>6 DEF Consumer
<1>10. subscribers' \subseteq Subscribers BY <1>2 DEF IInv, HubType
<1> QED BY <1>2, <1>3, <1>8, <1>9, <1>10, OneMoves

\* What an attached consumer may rely on.
LEMMA QueueFacts ==
    ASSUME IInv, NEW s \in Subscribers, phase[s] \in {"ready", "parked"}
    PROVE  /\ queue[s] \in Queue /\ pos[s] \in Nat /\ owed[s] \in Int
           /\ ring \in Ring /\ ring.next_offset \in Nat /\ RingConsistent(ring)
           /\ QueueGood(queue[s], pos[s], owed[s], ring.next_offset, Completed)
           /\ last[s].event.kind = "exit" =>
                AtQueue(queue[s]) /\ queue[s].events = NoEvents
           /\ terminal \in Terminals /\ terminal.watermark = ring.next_offset
           /\ DOMAIN queue = Subscribers /\ queue[s].replay \in Replay
           /\ queue[s].snapshot \in Snapshot
<1>1. Attached(s) BY DEF Attached
<1>2. Consumer(s) BY DEF IInv
<1>3. ring \in Ring /\ RingConsistent(ring) /\ terminal \in Terminals
      /\ terminal.watermark = ring.next_offset /\ DOMAIN queue = Subscribers
    BY DEF IInv, HubType, HubInv, Maps
<1>4. ring.next_offset \in Nat BY <1>3 DEF Ring
<1>5. queue[s].replay \in Replay /\ queue[s].snapshot \in Snapshot
    BY <1>2 DEF Consumer, ConsumerType, Queue
<1> QED BY <1>1, <1>2, <1>3, <1>4, <1>5 DEF Consumer, ConsumerType, ConsumerInv

\* The step returned an event of that kind to a consumer not given its Exit yet.
Delivered(s) ==
    \E e, r : /\ Delivery(s, e, r) /\ Deliver(s, e)
              /\ queue' = [queue EXCEPT ![s] = r]
              /\ last[s].event.kind # "exit"

\* next_event, the announcement of an empty replay.
LEMMA EmptyReplayDelivers ==
    ASSUME IInv, NEW s \in Subscribers, RecvEmptyReplay(s)
    PROVE  Delivered(s)
<1> DEFINE q == queue[s]
           r == [q EXCEPT !.replay = NoReplay]
           e == ChunkEvent("replay", [offset |-> q.replay.next, from |-> q.replay.next,
                                      len |-> 0])
<1>1. /\ phase[s] = "ready" /\ q.replay.on /\ q.replay.empty_pending /\ Deliver(s, e)
      /\ queue' = [queue EXCEPT ![s].replay = NoReplay]
    BY DEF RecvEmptyReplay
<1>2. /\ q \in Queue /\ pos[s] \in Nat /\ owed[s] \in Int /\ ring.next_offset \in Nat
      /\ QueueGood(q, pos[s], owed[s], ring.next_offset, Completed)
      /\ (last[s].event.kind = "exit" => AtQueue(q))
    BY <1>1, QueueFacts
<1>3. queue' = [queue EXCEPT ![s] = r] BY <1>1
<1>4. /\ r \in Queue /\ QueueGood(r, pos[s], owed[s], ring.next_offset, Completed)
      /\ q.replay.next = pos[s]
    BY <1>1, <1>2, CompletedBoolean, EmptyReplayGood
<1>5. /\ e \in Event /\ e.kind = "replay" /\ e.offset = pos[s] /\ e.from = e.offset
      /\ e.len = 0 /\ e.next = pos[s]
    BY <1>2, <1>4 DEF ChunkEvent, Event, Kinds
<1>6. ~q.snapshot.on /\ owed[s] = 0 BY <1>1, <1>2 DEF QueueGood, CursorsGood
<1>7. last[s].event.kind # "exit" BY <1>1, <1>2 DEF AtQueue
<1> HIDE DEF r, e, q
<1>8. After(s, e) = pos[s] /\ DueAfter(s, e) = owed[s] BY <1>5 DEF After, DueAfter
<1>9. e.next = e.offset + e.len BY <1>2, <1>5
<1>10. Delivery(s, e, r) BY <1>4, <1>5, <1>6, <1>8, <1>9 DEF Delivery
<1> QED BY <1>1, <1>3, <1>7, <1>10 DEF Delivered

\* next_event, a piece of the replay: the bytes read back from the ring are the
\* ones the offset names, because the range is still held.
LEMMA ReplayDelivers ==
    ASSUME IInv, NEW s \in Subscribers, RecvReplay(s)
    PROVE  Delivered(s)
<1> DEFINE q == queue[s]
           chunk == RingChunk(ring, q.replay.next, q.replay.end, EventLimit)
           next == chunk.offset + chunk.len
           r == AfterReplay(q, next)
           e == ChunkEvent("replay", chunk)
<1>1. /\ phase[s] = "ready" /\ q.replay.on /\ ~q.replay.empty_pending /\ Deliver(s, e)
      /\ HasChunk(ring, q.replay.next, q.replay.end)
      /\ queue' = [queue EXCEPT ![s] = r]
    BY DEF RecvReplay, AfterReplay
<1>2. /\ q \in Queue /\ pos[s] \in Nat /\ owed[s] \in Int /\ ring.next_offset \in Nat
      /\ ring \in Ring /\ RingConsistent(ring) /\ q.replay \in Replay
      /\ QueueGood(q, pos[s], owed[s], ring.next_offset, Completed)
      /\ (last[s].event.kind = "exit" => AtQueue(q))
    BY <1>1, QueueFacts
<1>3. /\ q.replay.next = pos[s] /\ ~q.snapshot.on /\ owed[s] = 0
    BY <1>1, <1>2 DEF QueueGood, CursorsGood
<1>4. q.replay.next \in Nat /\ q.replay.end \in Nat /\ ring.start_offset \in Nat
    BY <1>2 DEF Replay, Ring
<1> DEFINE at == q.replay.next
           limit == Least(q.replay.end - at, EventLimit)
<1>5. at >= ring.start_offset /\ at < q.replay.end /\ q.replay.end <= ring.next_offset
    BY <1>1 DEF HasChunk
<1>6. EventLimit \in Nat
    BY SubscriberLimitAssumption, MaxPayloadAssumption DEF EventLimit, Least
<1>7. limit \in Nat /\ limit <= q.replay.end - at BY <1>4, <1>5, <1>6 DEF Least
<1>8. chunk = BytesFromLimited(ring, at, limit) BY DEF RingChunk
<1>9. chunk.offset = at /\ chunk.from = at
      /\ chunk.len = Least(ring.next_offset - at, limit)
    <2>1. chunk.offset = at BY <1>8 DEF BytesFromLimited
    <2>2. at <= ring.next_offset BY <1>2, <1>4, <1>5
    <2> HIDE DEF chunk, limit, at
    <2>3. at \in Nat BY <1>4 DEF at
    <2> QED BY <1>2, <1>5, <1>7, <1>8, <2>1, <2>2, <2>3, BytesTruthful
<1> HIDE DEF chunk, limit, at
<1>10. at \in Nat BY <1>4 DEF at
<1>11. chunk.len \in Nat /\ next = at + chunk.len /\ next <= q.replay.end /\ next \in Nat
    BY <1>2, <1>4, <1>5, <1>7, <1>9, <1>10 DEF Least
<1>12. r \in Queue /\ QueueGood(r, next, owed[s], ring.next_offset, Completed)
    BY <1>1, <1>2, <1>11, CompletedBoolean, ReplayGood
<1>13. /\ e \in Event /\ e.kind = "replay" /\ e.offset = at /\ e.from = at
       /\ e.len = chunk.len /\ e.next = next
    BY <1>9, <1>10, <1>11 DEF ChunkEvent, Event, Kinds
<1>14. last[s].event.kind # "exit" BY <1>1, <1>2 DEF AtQueue
<1> HIDE DEF r, e, next
<1>15. After(s, e) = next /\ DueAfter(s, e) = owed[s] BY <1>13 DEF After, DueAfter
<1>16. Delivery(s, e, r)
    BY <1>3, <1>11, <1>12, <1>13, <1>15 DEF Delivery, at
<1> QED BY <1>1, <1>14, <1>16 DEF Delivered

\* The gap at the head of a good queue.
LEMMA GapDelivery ==
    ASSUME NEW s \in Subscribers, NEW q \in Queue, pos[s] \in Nat,
           NEW due \in Int, ring.next_offset \in Nat,
           QueueGood(q, pos[s], due, ring.next_offset, Completed),
           ~q.replay.on, q.snapshot.on, q.snapshot.gap_pending
    PROVE  Delivery(s, GapEvent(q), TakeGap(q))
<1> DEFINE e == GapEvent(q)
           r == TakeGap(q)
           at == pos[s]
<1>1. /\ r \in Queue
      /\ QueueGood(r, q.snapshot.watermark, q.snapshot.ansi, ring.next_offset, Completed)
      /\ e \in Event /\ e.kind = "gap" /\ e.offset = at /\ e.from = at /\ e.len > 0
      /\ e.next = q.snapshot.watermark /\ e.next = at + e.len
      /\ e.total = q.snapshot.ansi /\ q.snapshot.ansi > 0
    BY CompletedBoolean, TakeGapGood
<1> HIDE DEF e, r
<1>2. After(s, e) = q.snapshot.watermark /\ DueAfter(s, e) = q.snapshot.ansi
    BY <1>1 DEF After, DueAfter
<1>3. Delivery(s, e, r) BY <1>1, <1>2 DEF Delivery
<1> QED BY <1>3 DEF e, r

\* next_event, the announcement of a gap.
LEMMA GapDelivers ==
    ASSUME IInv, NEW s \in Subscribers, RecvGap(s)
    PROVE  Delivered(s)
<1> DEFINE q == queue[s]
<1>1. /\ phase[s] = "ready" /\ ~q.replay.on /\ q.snapshot.on /\ q.snapshot.gap_pending
      /\ queue' = [queue EXCEPT ![s] = TakeGap(q)] /\ Deliver(s, GapEvent(q))
    BY DEF RecvGap
<1>2. /\ q \in Queue /\ pos[s] \in Nat /\ owed[s] \in Int /\ ring.next_offset \in Nat
      /\ QueueGood(q, pos[s], owed[s], ring.next_offset, Completed)
      /\ (last[s].event.kind = "exit" => AtQueue(q))
    BY <1>1, QueueFacts
<1>3. Delivery(s, GapEvent(q), TakeGap(q)) BY <1>1, <1>2, GapDelivery
<1>4. last[s].event.kind # "exit" BY <1>1, <1>2 DEF AtQueue
<1> QED BY <1>1, <1>3, <1>4 DEF Delivered

\* next_event, when the replay was evicted: the gap covers what was left of the
\* replay and all that was queued behind it.
LEMMA EvictedReplayDelivers ==
    ASSUME IInv, NEW s \in Subscribers, RecvEvictedReplay(s)
    PROVE  Delivered(s)
<1> DEFINE q == queue[s]
           g == GiveUp(q, ring.next_offset, terminal)
<1>1. /\ phase[s] = "ready" /\ q.replay.on /\ ~q.replay.empty_pending
      /\ queue' = [queue EXCEPT ![s] = TakeGap(g)] /\ Deliver(s, GapEvent(g))
    BY DEF RecvEvictedReplay
<1>2. /\ q \in Queue /\ pos[s] \in Nat /\ owed[s] \in Int /\ ring.next_offset \in Nat
      /\ terminal \in Terminals /\ terminal.watermark = ring.next_offset
      /\ q.replay \in Replay
      /\ QueueGood(q, pos[s], owed[s], ring.next_offset, Completed)
      /\ (last[s].event.kind = "exit" => AtQueue(q))
    BY <1>1, QueueFacts
<1>3. q.expected_offset = pos[s] /\ (q.closed <=> Completed) BY <1>2 DEF QueueGood
<1>4. pos[s] < ring.next_offset
    <2>1. /\ pos[s] <= q.replay.end /\ pos[s] # q.replay.end
        BY <1>1, <1>2 DEF QueueGood, CursorsGood
    <2>2. q.replay.end <= ring.next_offset BY <1>1, <1>2 DEF QueueGood, Front
    <2>3. q.replay.end \in Nat BY <1>2 DEF Replay
    <2> QED BY <1>2, <2>1, <2>2, <2>3
<1>5. /\ g \in Queue /\ g.replay = NoReplay
      /\ g.snapshot = GapCursor(pos[s], ring.next_offset, terminal)
      /\ g.events = NoEvents /\ g.expected_offset = pos[s]
      /\ g.closed <=> Completed
    <2>1. GiveUp(q, ring.next_offset, terminal).closed <=> q.closed BY <1>2, GiveUpFields
    <2> QED BY <1>2, <1>3, <2>1, GiveUpFields
<1> HIDE DEF g
<1>6. QueueGood(g, pos[s], owed[s], ring.next_offset, Completed)
    BY <1>2, <1>4, <1>5, CompletedBoolean, GapGood
<1>7. ~g.replay.on /\ g.snapshot.on /\ g.snapshot.gap_pending
    BY <1>2, <1>5, NoCursors, GapCursorGood
<1>8. Delivery(s, GapEvent(g), TakeGap(g)) BY <1>2, <1>5, <1>6, <1>7, GapDelivery
<1>9. last[s].event.kind # "exit" BY <1>1, <1>2 DEF AtQueue
<1> QED BY <1>1, <1>8, <1>9 DEF Delivered

\* next_event, a fragment of the repaint.
LEMMA RepaintDelivers ==
    ASSUME IInv, NEW s \in Subscribers, RecvRepaint(s)
    PROVE  Delivered(s)
<1> DEFINE q == queue[s]
           c == q.snapshot
           end == Least(c.next + EventLimit, c.ansi)
           r == AfterRepaint(q, end)
           e == [kind |-> "repaint", offset |-> c.next, from |-> 0,
                 len |-> end - c.next, next |-> c.watermark, total |-> c.ansi]
<1>1. /\ phase[s] = "ready" /\ ~q.replay.on /\ c.on /\ ~c.gap_pending /\ c.next < c.ansi
      /\ queue' = [queue EXCEPT ![s] = r] /\ Deliver(s, e)
    BY DEF RecvRepaint, AfterRepaint
<1>2. /\ q \in Queue /\ pos[s] \in Nat /\ owed[s] \in Int /\ ring.next_offset \in Nat
      /\ c \in Snapshot
      /\ QueueGood(q, pos[s], owed[s], ring.next_offset, Completed)
      /\ (last[s].event.kind = "exit" => AtQueue(q))
    BY <1>1, QueueFacts
<1>3. c.next \in Nat /\ c.ansi \in Nat /\ c.watermark \in Nat BY <1>2 DEF Snapshot
<1>4. EventLimit \in Nat
    BY SubscriberLimitAssumption, MaxPayloadAssumption DEF EventLimit, Least
<1>5. end \in Nat /\ c.next <= end /\ end <= c.ansi BY <1>1, <1>3, <1>4 DEF Least
<1> HIDE DEF end
<1>6. /\ r \in Queue
      /\ QueueGood(r, pos[s], owed[s] - (end - c.next), ring.next_offset, Completed)
      /\ owed[s] > 0
    BY <1>1, <1>2, <1>5, CompletedBoolean, RepaintGood
<1>7. end - c.next \in Nat BY <1>3, <1>5
<1>8. e \in Event /\ e.kind = "repaint" /\ e.len = end - c.next
    BY <1>3, <1>7 DEF Event, Kinds
<1>9. last[s].event.kind # "exit" BY <1>1, <1>2 DEF AtQueue
<1> HIDE DEF r, e
<1>10. After(s, e) = pos[s] /\ DueAfter(s, e) = owed[s] - (end - c.next)
    BY <1>8 DEF After, DueAfter
<1>11. Delivery(s, e, r) BY <1>6, <1>8, <1>10 DEF Delivery
<1> QED BY <1>1, <1>9, <1>11 DEF Delivered

\* next_event, the oldest queued event.
LEMMA QueuedDelivers ==
    ASSUME IInv, NEW s \in Subscribers, RecvQueued(s)
    PROVE  Delivered(s)
<1> DEFINE q == queue[s]
           e == Head(q.events)
           r == AfterQueued(q)
<1>1. /\ phase[s] = "ready" /\ AtQueue(q) /\ q.events # <<>> /\ Deliver(s, e)
      /\ queue' = [queue EXCEPT ![s] = r]
    BY DEF RecvQueued, AfterQueued
<1>2. /\ q \in Queue /\ pos[s] \in Nat /\ owed[s] \in Int /\ ring.next_offset \in Nat
      /\ QueueGood(q, pos[s], owed[s], ring.next_offset, Completed)
      /\ (last[s].event.kind = "exit" => q.events = NoEvents)
    BY <1>1, QueueFacts
<1>3. /\ r \in Queue /\ e \in Event
      /\ QueueGood(r, e.next, owed[s], ring.next_offset, Completed)
      /\ EventGood(e, ring.next_offset) /\ e.offset = pos[s] /\ owed[s] = 0
      /\ e.kind = "exit" => Completed /\ AtQueue(r) /\ r.events = NoEvents
                            /\ e.next = ring.next_offset
    BY <1>1, <1>2, CompletedBoolean, QueuedGood
<1>4. last[s].event.kind # "exit" BY <1>1, <1>2 DEF NoEvents
<1> HIDE DEF r, e, q
<1>5. After(s, e) = e.next /\ DueAfter(s, e) = owed[s]
    BY <1>3 DEF After, DueAfter, EventGood
<1>6. Delivery(s, e, r) BY <1>3, <1>5 DEF Delivery, EventGood
<1> QED BY <1>1, <1>4, <1>6 DEF Delivered

-----------------------------------------------------------------------------
(* The steps of the hub and the ends of a subscription *)

\* Both push and close touch the live consumers only, and wake them.
LEMMA HubStep ==
    ASSUME IInv, ~Completed,
           UNCHANGED <<pos, owed, last>>,
           NEW live, live = {s \in subscribers : Attached(s)}, NotifyOne(live),
           queue' = [s \in Subscribers |-> queue'[s]],
           \A s \in Subscribers : ~Attached(s) => queue'[s] = queue[s],
           HubType', RingConsistent(ring)', (terminal.watermark = ring.next_offset)',
           (Completed => completion.next_offset = ring.next_offset)',
           (~Completed)' => subscribers' = live,
           ring.next_offset \in Nat, ring'.next_offset \in Nat,
           ring.next_offset <= ring'.next_offset,
           \A s \in Subscribers :
              Attached(s) => /\ queue'[s] \in Queue
                             /\ QueueGood(queue'[s], pos[s], owed[s], ring'.next_offset, Completed')
    PROVE  IInv'
<1>1. /\ \A s \in Subscribers : s \in live <=> Attached(s)
      /\ live \subseteq Subscribers
    BY DEF IInv, HubInv, HubType
<1>2. Maps'
    BY DEF IInv, Maps, NotifyOne
<1>3. ASSUME NEW s \in Subscribers
      PROVE  /\ pos'[s] = pos[s] /\ owed'[s] = owed[s] /\ last'[s] = last[s]
             /\ phase'[s] = IF s \in live /\ phase[s] = "parked" THEN "ready" ELSE phase[s]
             /\ permit'[s] = IF s \in live /\ phase[s] # "parked" THEN TRUE ELSE permit[s]
    BY DEF NotifyOne
<1>4. ASSUME NEW s \in Subscribers PROVE Attached(s)' <=> Attached(s)
    BY <1>1, <1>3 DEF Attached
<1>5. ASSUME NEW s \in Subscribers PROVE Consumer(s)'
    <2>1. ConsumerType(s) /\ ConsumerInv(s) /\ LossFree(s) BY DEF IInv, Consumer
    <2>2. ConsumerType(s)'
        <3>1. permit'[s] \in BOOLEAN BY <1>3, <2>1 DEF ConsumerType
        <3>2. phase'[s] \in {"new", "ready", "parked", "ended", "dropped"}
            BY <1>3, <2>1 DEF ConsumerType
        <3>3. queue'[s] \in Queue BY <1>1, <1>3, <2>1 DEF ConsumerType
        <3> QED BY <1>3, <2>1, <3>1, <3>2, <3>3 DEF ConsumerType
    <2>3. last[s].event.kind # "exit" BY <2>1 DEF ConsumerInv
    <2>4. phase'[s] = "new" => phase[s] = "new" BY <1>3
    <2>5. Attached(s)' =>
             QueueGood(queue'[s], pos'[s], owed'[s], ring'.next_offset, Completed')
        BY <1>1, <1>3, <1>4
    <2>6. ConsumerInv(s)' BY <1>3, <2>1, <2>3, <2>4, <2>5 DEF ConsumerInv
    <2>7. LossFree(s)'
        BY <1>3, <2>1 DEF LossFree, Truthful, ConsumerType
    <2> QED BY <2>2, <2>6, <2>7 DEF Consumer
<1>6. HubInv' BY <1>1, <1>4 DEF HubInv
<1> QED BY <1>2, <1>5, <1>6 DEF IInv

\* OutputHub::push keeps the invariant, and the stream grows.
LEMMA PushKeeps ==
    ASSUME IInv, NEW n \in 1..MaxPush, Push(n)
    PROVE  IInv' /\ ring'.produced \in Nat /\ ring'.produced > ring.produced
<1> DEFINE live == {s \in subscribers : Attached(s)}
           chunk == [offset |-> ring.next_offset, from |-> ring.next_offset, len |-> n]
           Fed(s) == PushOutput(queue[s], chunk, terminal')
<1>1. ring \in Ring /\ RingConsistent(ring) /\ n \in Nat /\ n > 0
    BY MaxPushAssumption DEF IInv, HubType, HubInv
<1>2. /\ ring.next_offset \in Nat /\ ring.produced = ring.next_offset
    BY <1>1 DEF Ring, RingConsistent
<1>3. chunk = PushedChunk(ring, n) BY <1>2 DEF PushedChunk
<1>4. /\ ~Completed /\ ~PushOverflows(ring, n) /\ ring' = RingPush(ring, n)
      /\ terminal' \in [watermark : {ring'.next_offset}, ansi : AnsiLens]
      /\ queue' = [s \in Subscribers |-> IF s \in live THEN Fed(s) ELSE queue[s]]
      /\ subscribers' = live /\ NotifyOne(live)
      /\ UNCHANGED <<completion, pos, owed, last>>
    BY <1>3 DEF Push, historyVars
<1>5. /\ ring' \in Ring /\ RingConsistent(ring') /\ ring'.next_offset = ring.next_offset + n
    BY <1>1, <1>4, PushConsistent
<1>6. ring'.next_offset \in Nat /\ ring.next_offset <= ring'.next_offset BY <1>1, <1>2, <1>5
<1>7. terminal' \in Terminals /\ terminal'.watermark = ring.next_offset + n
    BY <1>4, <1>5, <1>6 DEF Terminals
<1>8. ~Completed' BY <1>4 DEF Completed
<1>9. HubType' BY <1>4, <1>5, <1>7 DEF IInv, HubType
<1>10. RingConsistent(ring)' BY <1>5 DEF RingConsistent, Oldest
<1>11. ASSUME NEW s \in Subscribers, Attached(s)
       PROVE  /\ Fed(s) \in Queue
              /\ QueueGood(Fed(s), pos[s], owed[s], ring'.next_offset, Completed')
    <2>1. phase[s] \in {"ready", "parked"} BY <1>11 DEF Attached
    <2>2. /\ queue[s] \in Queue /\ pos[s] \in Nat /\ owed[s] \in Int
          /\ QueueGood(queue[s], pos[s], owed[s], ring.next_offset, Completed)
        BY <2>1, QueueFacts
    <2>3. (Completed <=> FALSE) /\ (Completed' <=> FALSE) BY <1>4, <1>8
    <2>4. QueueGood(queue[s], pos[s], owed[s], ring.next_offset, FALSE)
        BY <2>2, <2>3 DEF QueueGood
    <2>5. Fed(s) \in Queue /\ QueueGood(Fed(s), pos[s], owed[s], ring.next_offset + n, FALSE)
        BY <1>1, <1>2, <1>7, <2>2, <2>4, PushOutputGood
    <2> QED BY <1>5, <2>3, <2>5 DEF QueueGood
<1>12. IInv'
    <2>1. /\ queue' = [s \in Subscribers |-> queue'[s]]
          /\ \A s \in Subscribers : queue'[s] = IF Attached(s) THEN Fed(s) ELSE queue[s]
        BY <1>4 DEF IInv, HubInv
    <2> HIDE DEF live, Fed
    <2>4. live = {s \in subscribers : Attached(s)} BY DEF live
    <2>2. (terminal.watermark = ring.next_offset)' BY <1>5, <1>7
    <2> QED BY <1>2, <1>4, <1>6, <1>8, <1>9, <1>10, <1>11, <2>1, <2>2, <2>4, HubStep
<1>13. ring'.produced \in Nat /\ ring'.produced > ring.produced
    BY <1>1, <1>2, <1>5 DEF Ring, RingConsistent
<1> QED BY <1>12, <1>13

\* OutputHub::close keeps the invariant.
LEMMA CloseKeeps ==
    ASSUME IInv, NEW reason \in {"eof", "forced"}, Close(reason)
    PROVE  IInv' /\ Completed'
<1> DEFINE live == {s \in subscribers : Attached(s)}
           Fed(s) == PushTerminal(queue[s], ring.next_offset)
<1>1. ring \in Ring /\ RingConsistent(ring) /\ terminal.watermark = ring.next_offset
    BY DEF IInv, HubType, HubInv
<1>2. ring.next_offset \in Nat BY <1>1 DEF Ring
<1>3. /\ ~Completed
      /\ completion' = [reason |-> reason, next_offset |-> ring.next_offset]
      /\ queue' = [s \in Subscribers |-> IF s \in live THEN Fed(s) ELSE queue[s]]
      /\ subscribers' = {} /\ NotifyOne(live)
      /\ UNCHANGED <<ring, terminal, pos, owed, last>>
    BY DEF Close, historyVars
<1>4. Completed' /\ (Completed => completion.next_offset = ring.next_offset)'
    BY <1>3 DEF Completed
<1>5. HubType' BY <1>2, <1>3 DEF IInv, HubType
<1>6. RingConsistent(ring)' BY <1>1, <1>3 DEF RingConsistent, Oldest
<1>7. ASSUME NEW s \in Subscribers, Attached(s)
      PROVE  /\ Fed(s) \in Queue
             /\ QueueGood(Fed(s), pos[s], owed[s], ring'.next_offset, Completed')
    <2>1. phase[s] \in {"ready", "parked"} BY <1>7 DEF Attached
    <2>2. /\ queue[s] \in Queue /\ pos[s] \in Nat /\ owed[s] \in Int
          /\ QueueGood(queue[s], pos[s], owed[s], ring.next_offset, Completed)
        BY <2>1, QueueFacts
    <2>3. (Completed <=> FALSE) /\ (Completed' <=> TRUE) BY <1>3, <1>4
    <2>4. QueueGood(queue[s], pos[s], owed[s], ring.next_offset, FALSE)
        BY <2>2, <2>3 DEF QueueGood
    <2>5. Fed(s) \in Queue /\ QueueGood(Fed(s), pos[s], owed[s], ring.next_offset, TRUE)
        BY <1>2, <2>2, <2>4, PushTerminalGood
    <2> QED BY <1>3, <2>3, <2>5 DEF QueueGood
<1>8. IInv'
    <2>1. /\ queue' = [s \in Subscribers |-> queue'[s]]
          /\ \A s \in Subscribers : queue'[s] = IF Attached(s) THEN Fed(s) ELSE queue[s]
        BY <1>3 DEF IInv, HubInv
    <2> HIDE DEF live, Fed
    <2>4. live = {s \in subscribers : Attached(s)} BY DEF live
    <2>2. (terminal.watermark = ring.next_offset)' BY <1>1, <1>3
    <2>3. ring.next_offset <= ring'.next_offset /\ ring'.next_offset \in Nat BY <1>2, <1>3
    <2> QED BY <1>2, <1>3, <1>4, <1>5, <1>6, <1>7, <2>1, <2>2, <2>3, <2>4, HubStep
<1> QED BY <1>4, <1>8

\* OutputHub::resize keeps the invariant.
LEMMA ResizeKeeps ==
    ASSUME IInv, Resize
    PROVE  IInv'
<1>1. /\ terminal' \in [watermark : {ring.next_offset}, ansi : AnsiLens]
      /\ UNCHANGED <<ring, subscribers, completion, queue, permit, phase, pos, owed, last>>
    BY DEF Resize, queueVars, historyVars
<1>2. ring \in Ring /\ ring.next_offset \in Nat BY DEF IInv, HubType, Ring
<1>3. terminal' \in Terminals /\ terminal'.watermark = ring.next_offset
    BY <1>1, <1>2 DEF Terminals
<1>4. HubType' BY <1>1, <1>3 DEF IInv, HubType
<1>5. Maps' BY <1>1 DEF IInv, Maps
<1>6. \A s \in Subscribers : Consumer(s)'
    BY <1>1, OthersKept DEF IInv
<1>7. HubInv' BY <1>1, <1>3 DEF IInv, HubInv, Completed, Attached, RingConsistent, Oldest
<1> QED BY <1>4, <1>5, <1>6, <1>7 DEF IInv

\* register_subscriber keeps the invariant for a good queue, to which it adds the
\* Exit when the output is already closed.
LEMMA RegisterKeeps ==
    ASSUME IInv, NEW s \in Subscribers, NEW q \in Queue, NEW from \in Nat, NEW due \in Int,
           QueueGood(q, from, due, ring.next_offset, FALSE), Register(s, q, from),
           owed' = [owed EXCEPT ![s] = due]
    PROVE  IInv'
<1> DEFINE r == IF Completed THEN PushTerminal(q, completion.next_offset) ELSE q
           pe == Completed
<1>1. /\ phase[s] = "new" /\ queue' = [queue EXCEPT ![s] = r]
      /\ subscribers' = IF Completed THEN subscribers ELSE subscribers \union {s}
      /\ permit' = [permit EXCEPT ![s] = pe] /\ phase' = [phase EXCEPT ![s] = "ready"]
      /\ pos' = [pos EXCEPT ![s] = from] /\ UNCHANGED <<ring, terminal, completion, last>>
    BY DEF Register
<1>2. /\ ring.next_offset \in Nat
      /\ (Completed => completion.next_offset = ring.next_offset)
      /\ subscribers \subseteq Subscribers
    BY DEF IInv, HubType, HubInv, Ring
<1>3. r \in Queue /\ QueueGood(r, from, due, ring.next_offset, Completed)
    <2>1. CASE Completed
        <3>1. Completed <=> TRUE BY <2>1
        <3>2. r = PushTerminal(q, ring.next_offset) BY <1>2, <2>1
        <3>3. r \in Queue /\ QueueGood(r, from, due, ring.next_offset, TRUE)
            BY <1>2, <3>2, PushTerminalGood
        <3> QED BY <3>1, <3>3 DEF QueueGood
    <2>2. CASE ~Completed
        <3>1. (Completed <=> FALSE) /\ r = q BY <2>2
        <3> QED BY <3>1 DEF QueueGood
    <2> QED BY <2>1, <2>2
<1>4. pe \in BOOLEAN BY CompletedBoolean
<1> HIDE DEF r, pe
<1>5. /\ ConsumerType(s) /\ last[s].event.kind = "none"
    BY <1>1 DEF IInv, Consumer, ConsumerInv
<1>6. last' = [last EXCEPT ![s] = last[s]] BY <1>1 DEF IInv, Maps
<1>7. /\ subscribers' \subseteq Subscribers /\ subscribers \subseteq subscribers'
      /\ ~Completed => s \in subscribers'
    BY <1>1, <1>2
<1>8. ASSUME /\ queue'[s] = r /\ permit'[s] = pe /\ phase'[s] = "ready"
             /\ pos'[s] = from /\ owed'[s] = due /\ last'[s] = last[s]
      PROVE  Consumer(s)'
    <2>1. ConsumerType(s)' BY <1>3, <1>4, <1>5, <1>8 DEF ConsumerType
    <2>2. (Completed' <=> Completed) /\ ring'.next_offset = ring.next_offset
        BY <1>1 DEF Completed
    <2>3. ConsumerInv(s)'
        BY <1>1, <1>3, <1>5, <1>8, <2>2 DEF ConsumerInv, Completed, Attached
    <2>4. LossFree(s)' BY <1>3, <1>5, <1>8, <2>2 DEF LossFree, QueueGood
    <2> QED BY <2>1, <2>3, <2>4 DEF Consumer
<1> QED BY <1>1, <1>6, <1>7, <1>8, OneMoves

\* Subscribing at an offset, whether what it asks for is still held or not.
LEMMA SubscribeKeeps ==
    ASSUME IInv, NEW s \in Subscribers, NEW requested \in 0..MaxOffset, Subscribe(s, requested)
    PROVE  IInv'
<1>1. /\ requested \in Nat /\ requested <= ring.next_offset /\ owed' = owed
      /\ Register(s, SeedQueue(requested), requested)
    BY MaxOffsetAssumption DEF Subscribe
<1>2. /\ terminal \in Terminals /\ terminal.watermark = ring.next_offset
      /\ ring.next_offset \in Nat /\ ring.start_offset \in Nat
      /\ ring.start_offset <= ring.next_offset
    BY DEF IInv, HubType, HubInv, Ring, RingConsistent, Oldest
<1>3. phase[s] = "new" BY <1>1 DEF Register
<1>4. owed[s] = 0 /\ owed = [owed EXCEPT ![s] = 0]
    BY <1>3 DEF IInv, Consumer, ConsumerInv, Maps
<1>5. /\ SeedQueue(requested) \in Queue
      /\ QueueGood(SeedQueue(requested), requested, 0, ring.next_offset, FALSE)
    <2>1. CASE requested < ring.start_offset
        <3>1. SeedQueue(requested) = GapQueue(requested, terminal.watermark, terminal)
            BY <1>2, <2>1 DEF SeedQueue
        <3>2. requested < terminal.watermark BY <1>1, <1>2, <2>1
        <3> QED BY <1>1, <1>2, <3>1, <3>2, NewGapGood
    <2>2. CASE ~(requested < ring.start_offset)
        <3>1. SeedQueue(requested) = ReplayQueue(requested, ring.next_offset)
            BY <2>2 DEF SeedQueue
        <3> QED BY <1>1, <1>2, <3>1, NewReplayGood
    <2> QED BY <2>1, <2>2
<1>6. owed' = [owed EXCEPT ![s] = 0] /\ 0 \in Int BY <1>1, <1>4
<1> HIDE DEF SeedQueue
<1> QED BY <1>1, <1>5, <1>6, RegisterKeeps

\* Subscribing to the repaint.
LEMMA SubscribeRepaintKeeps ==
    ASSUME IInv, NEW s \in Subscribers, SubscribeRepaint(s)
    PROVE  IInv'
<1>1. /\ terminal \in Terminals /\ terminal.watermark = ring.next_offset
    BY DEF IInv, HubType, HubInv
<1>2. terminal.watermark \in Nat /\ terminal.ansi \in Int BY <1>1, AnsiPositive
<1>3. /\ RepaintQueue(terminal) \in Queue
      /\ QueueGood(RepaintQueue(terminal), terminal.watermark, terminal.ansi,
                   ring.next_offset, FALSE)
    BY <1>1, NewRepaintGood
<1> QED BY <1>2, <1>3, RegisterKeeps DEF SubscribeRepaint

\* A consumer that waits, is woken, ends or leaves changes only where it stands.
LEMMA PhaseKeeps ==
    ASSUME IInv, NEW s \in Subscribers, NEW pe, pe \in BOOLEAN,
           NEW ph, ph \in {"ready", "parked", "ended", "dropped"}, phase[s] \in {"ready", "parked"},
           phase' = [phase EXCEPT ![s] = ph], permit' = [permit EXCEPT ![s] = pe],
           UNCHANGED <<ring, terminal, subscribers, completion, queue, pos, owed, last>>
    PROVE  IInv'
<1>1. phase'[s] = ph /\ permit'[s] = pe
    BY DEF IInv, Maps
<1>2. ConsumerType(s) /\ ConsumerInv(s) /\ LossFree(s) /\ Attached(s)
    BY DEF IInv, Consumer, Attached
<1>3. (Completed' <=> Completed) /\ ring'.next_offset = ring.next_offset
    BY DEF Completed
<1>4. Consumer(s)'
    <2>1. ConsumerType(s)' BY <1>1, <1>2 DEF ConsumerType
    <2>2. ConsumerInv(s)' BY <1>1, <1>2, <1>3 DEF ConsumerInv, Completed
    <2>3. LossFree(s)' BY <1>2, <1>3 DEF LossFree, Truthful
    <2> QED BY <2>1, <2>2, <2>3 DEF Consumer
<1>5. ASSUME NEW t \in Subscribers, t # s
      PROVE  phase'[t] = phase[t] /\ permit'[t] = permit[t]
    BY <1>5 DEF IInv, Maps
<1>6. ASSUME NEW t \in Subscribers PROVE Consumer(t)'
    <2>1. CASE t = s BY <1>4, <2>1
    <2>2. CASE t # s BY <1>5, <2>2, OthersKept DEF IInv
    <2> QED BY <2>1, <2>2
<1>7. \A t \in Subscribers : Attached(t)' => Attached(t)
    BY <1>2, <1>5 DEF Attached
<1>8. HubInv' BY <1>3, <1>7 DEF IInv, HubInv, RingConsistent, Oldest
<1>9. Maps' BY DEF IInv, Maps
<1>10. HubType' BY DEF IInv, HubType
<1> QED BY <1>6, <1>8, <1>9, <1>10 DEF IInv

\* The steps that end or suspend recv and tell the consumer nothing.
Paused(s) == RecvNone(s) \/ RecvWait(s) \/ CancelRecv(s) \/ Drop(s)

\* They keep the invariant.
LEMMA PausedKeeps ==
    ASSUME IInv, NEW s \in Subscribers, Paused(s)
    PROVE  /\ IInv' /\ phase[s] \in {"ready", "parked"}
           /\ \E ph \in {"ready", "parked", "ended", "dropped"} : phase' = [phase EXCEPT ![s] = ph]
           /\ UNCHANGED <<ring, completion, pos, owed, last>>
<1>1. permit[s] \in BOOLEAN /\ permit = [permit EXCEPT ![s] = permit[s]]
    BY DEF IInv, Consumer, ConsumerType, Maps
<1>2. PICK ph \in {"ready", "parked", "ended", "dropped"}, pe \in BOOLEAN :
         /\ phase' = [phase EXCEPT ![s] = ph] /\ permit' = [permit EXCEPT ![s] = pe]
         /\ phase[s] \in {"ready", "parked"}
         /\ UNCHANGED <<ring, terminal, subscribers, completion, queue, pos, owed, last>>
    <2>1. CASE RecvNone(s) BY <1>1, <2>1 DEF RecvNone, hubVars, historyVars
    <2>2. CASE RecvWait(s) BY <1>1, <2>2 DEF RecvWait, hubVars, historyVars
    <2>3. CASE CancelRecv(s) BY <1>1, <2>3 DEF CancelRecv, hubVars, historyVars
    <2>4. CASE Drop(s) BY <1>1, <2>4 DEF Drop, Attached, hubVars, historyVars
    <2> QED BY <2>1, <2>2, <2>3, <2>4 DEF Paused
<1>3. IInv' BY <1>2, PhaseKeeps
<1> QED BY <1>2, <1>3

\* Every recv that returns an event delivers it in the sense of Delivered.
Returns(s) ==
    \/ RecvEmptyReplay(s) \/ RecvReplay(s) \/ RecvEvictedReplay(s)
    \/ RecvGap(s) \/ RecvRepaint(s) \/ RecvQueued(s)

\* All of them are deliveries.
LEMMA RecvReturns ==
    ASSUME IInv, NEW s \in Subscribers, Returns(s)
    PROVE  phase[s] = "ready" /\ Delivered(s)
<1>1. CASE RecvEmptyReplay(s) BY <1>1, EmptyReplayDelivers DEF RecvEmptyReplay
<1>2. CASE RecvReplay(s) BY <1>2, ReplayDelivers DEF RecvReplay
<1>3. CASE RecvEvictedReplay(s) BY <1>3, EvictedReplayDelivers DEF RecvEvictedReplay
<1>4. CASE RecvGap(s) BY <1>4, GapDelivers DEF RecvGap
<1>5. CASE RecvRepaint(s) BY <1>5, RepaintDelivers DEF RecvRepaint
<1>6. CASE RecvQueued(s) BY <1>6, QueuedDelivers DEF RecvQueued
<1> QED BY <1>1, <1>2, <1>3, <1>4, <1>5, <1>6 DEF Returns

\* So they keep the invariant.
LEMMA ReturnsKeeps ==
    ASSUME IInv, NEW s \in Subscribers, Returns(s)
    PROVE  IInv'
BY RecvReturns, DeliverKeeps DEF Delivered

\* The steps that change only whether a consumer may poll recv again.
Driven == RootExit \/ \E s \in Subscribers : ClientReads(s) \/ ForwardExit(s)

\* They leave the hub, the queues and what the consumers were told alone.
LEMMA DrivenFrame ==
    ASSUME Driven \/ UNCHANGED vars
    PROVE  UNCHANGED <<ring, terminal, subscribers, completion, queue, permit, phase, pos, owed, last>>
<1>1. CASE RootExit BY <1>1 DEF RootExit, hubVars, queueVars, historyVars
<1>2. CASE \E s \in Subscribers : ClientReads(s)
    BY <1>2 DEF ClientReads, hubVars, queueVars, historyVars
<1>3. CASE \E s \in Subscribers : ForwardExit(s)
    BY <1>3 DEF ForwardExit, hubVars, queueVars, historyVars
<1>4. CASE UNCHANGED vars BY <1>4 DEF vars, hubVars, queueVars, historyVars
<1> QED BY <1>1, <1>2, <1>3, <1>4 DEF Driven

\* The steps of the specification, grouped by what they do to the stream.
LEMMA NextCases ==
    ASSUME Next
    PROVE  \/ \E n \in 1..MaxPush : Push(n)
           \/ Driven
           \/ \E reason \in {"eof", "forced"} : Close(reason)
           \/ Resize
           \/ \E s \in Subscribers :
                 \/ \E requested \in 0..MaxOffset : Subscribe(s, requested)
                 \/ SubscribeRepaint(s) \/ Returns(s) \/ Paused(s)
BY DEF Next, PtyStep, ConsumerStep, Recv, Returns, Paused, Driven

\* A step that changes nothing of them keeps the invariant.
LEMMA StutterKeeps ==
    ASSUME IInv, Driven \/ UNCHANGED vars
    PROVE  IInv'
<1>1. UNCHANGED <<ring, terminal, subscribers, completion, queue, permit, phase, pos, owed, last>>
    BY DrivenFrame
<1>2. HubType' BY <1>1 DEF IInv, HubType
<1>3. Maps' BY <1>1 DEF IInv, Maps
<1>4. \A s \in Subscribers : Consumer(s)' BY <1>1, OthersKept DEF IInv
<1>5. HubInv' BY <1>1 DEF IInv, HubInv, Completed, Attached, RingConsistent, Oldest
<1> QED BY <1>2, <1>3, <1>4, <1>5 DEF IInv

\* The invariant holds of a new hub.
LEMMA InitHolds ==
    ASSUME Init
    PROVE  IInv
<1>1. /\ ring = EmptyRing /\ terminal \in [watermark : {0}, ansi : AnsiLens]
      /\ subscribers = {} /\ completion = [reason |-> "none", next_offset |-> 0]
    BY DEF Init
<1>2. ring \in Ring /\ RingConsistent(ring) /\ ring.next_offset = 0
    BY <1>1, EmptyConsistent DEF EmptyRing
<1>3. HubType BY <1>1, <1>2 DEF HubType, Terminals
<1>4. Maps BY DEF Init, Maps
<1>5. \A s \in Subscribers : phase[s] = "new" BY DEF Init
<1>6. HubInv BY <1>1, <1>2, <1>5 DEF HubInv, Attached, Completed
<1>7. ASSUME NEW s \in Subscribers PROVE Consumer(s)
    <2>1. /\ queue[s] = NewQueue(NoReplay, NoSnapshot, 0) /\ permit[s] = FALSE
          /\ pos[s] = 0 /\ owed[s] = 0 /\ last[s] = [event |-> NoEvent, before |-> 0]
        BY DEF Init
    <2>2. queue[s] \in Queue BY <2>1, NoCursors, NewQueueFields
    <2>3. /\ last[s].event \in Event /\ last[s].event.kind = "none" /\ last[s].before = 0
          /\ last[s] = [event |-> last[s].event, before |-> last[s].before]
        BY <2>1 DEF NoEvent, Event, Kinds
    <2>4. ConsumerType(s)
        <3>1. permit[s] \in BOOLEAN BY <2>1
        <3> QED BY <1>5, <2>1, <2>2, <2>3, <3>1 DEF ConsumerType
    <2>5. ConsumerInv(s) BY <1>5, <2>1, <2>3 DEF ConsumerInv, Attached
    <2>6. LossFree(s) BY <1>2, <2>1, <2>3 DEF LossFree
    <2> QED BY <2>4, <2>5, <2>6 DEF Consumer
<1> QED BY <1>3, <1>4, <1>6, <1>7 DEF IInv

\* Every step keeps the invariant.
LEMMA StepKeeps ==
    ASSUME IInv, [Next]_vars
    PROVE  IInv'
<1>1. CASE Driven \/ UNCHANGED vars BY <1>1, StutterKeeps
<1>2. CASE \E n \in 1..MaxPush : Push(n) BY <1>2, PushKeeps
<1>3. CASE \E reason \in {"eof", "forced"} : Close(reason) BY <1>3, CloseKeeps
<1>4. CASE Resize BY <1>4, ResizeKeeps
<1>5. ASSUME NEW s \in Subscribers,
             \/ \E requested \in 0..MaxOffset : Subscribe(s, requested)
             \/ SubscribeRepaint(s) \/ Returns(s) \/ Paused(s)
      PROVE  IInv'
    BY <1>5, SubscribeKeeps, SubscribeRepaintKeeps, ReturnsKeeps, PausedKeeps
<1> QED BY <1>1, <1>2, <1>3, <1>4, <1>5, NextCases

\* The invariant holds of every reachable state of the output actor, for any
\* number of consumers and any sizes of history, queue, payload and repaint.
THEOREM Invariance == Spec => []IInv
<1>1. Init => IInv BY InitHolds
<1>2. IInv /\ [Next]_vars => IInv' BY StepKeeps
<1> QED BY <1>1, <1>2, PTL DEF Spec

\* The types of what decides when a consumer polls recv.
DriverType == exited \in BOOLEAN /\ gate \in [Subscribers -> {"open", "full", "held"}]

\* Every step keeps them.
LEMMA DriverTypeKept ==
    ASSUME DriverType, IInv, [Next]_vars
    PROVE  DriverType'
<1>1. ASSUME NEW s \in Subscribers, NEW g \in {"open", "full", "held"},
             gate' = [gate EXCEPT ![s] = g], UNCHANGED exited
      PROVE  DriverType'
    BY <1>1 DEF DriverType
<1>2. CASE UNCHANGED driverVars BY <1>2 DEF DriverType, driverVars
<1>3. CASE RootExit BY <1>3 DEF RootExit, DriverType
<1>4. ASSUME NEW s \in Subscribers, ClientReads(s) \/ ForwardExit(s) PROVE DriverType'
    BY <1>1, <1>4 DEF ClientReads, ForwardExit
<1>5. ASSUME NEW s \in Subscribers, Returns(s) PROVE DriverType'
    <2>1. PICK e, r : Delivery(s, e, r) /\ Deliver(s, e) BY <1>5, RecvReturns DEF Delivered
    <2>2. Forward(s, e) BY <2>1 DEF Deliver
    <2> QED BY <1>1, <2>2 DEF Forward
<1>6. ASSUME NEW n \in 1..MaxPush, Push(n) PROVE UNCHANGED driverVars BY <1>6 DEF Push
<1>7. ASSUME NEW reason, Close(reason) PROVE UNCHANGED driverVars BY <1>7 DEF Close
<1>8. ASSUME Resize PROVE UNCHANGED driverVars BY <1>8 DEF Resize
<1>9. ASSUME NEW s \in Subscribers, Paused(s) PROVE UNCHANGED driverVars
    BY <1>9 DEF Paused, RecvNone, RecvWait, CancelRecv, Drop
<1>10. ASSUME NEW s \in Subscribers, NEW requested, Subscribe(s, requested)
       PROVE  UNCHANGED driverVars
    BY <1>10 DEF Subscribe, Register
<1>11. ASSUME NEW s \in Subscribers, SubscribeRepaint(s) PROVE UNCHANGED driverVars
    BY <1>11 DEF SubscribeRepaint, Register
<1>12. CASE UNCHANGED vars BY <1>2, <1>12 DEF vars
<1> QED BY <1>2, <1>3, <1>4, <1>5, <1>6, <1>7, <1>8, <1>9, <1>10, <1>11, <1>12, NextCases
        DEF Driven

\* Every variable of the output actor keeps its type; among others no offset and
\* no byte count of a queue ever becomes negative (push_output, next_event).
THEOREM TypeCorrect == Spec => []TypeOK
<1>1. IInv /\ DriverType => TypeOK
    <2> SUFFICES ASSUME IInv, DriverType PROVE TypeOK OBVIOUS
    <2>1. HubType /\ Maps /\ \A s \in Subscribers : ConsumerType(s) BY DEF IInv, Consumer
    <2>2. queue \in [Subscribers -> Queue] BY <2>1 DEF Maps, ConsumerType
    <2>3. permit \in [Subscribers -> BOOLEAN] BY <2>1 DEF Maps, ConsumerType
    <2>4. phase \in [Subscribers -> {"new", "ready", "parked", "ended", "dropped"}]
        BY <2>1 DEF Maps, ConsumerType
    <2>5. pos \in [Subscribers -> Nat] BY <2>1 DEF Maps, ConsumerType
    <2>6. owed \in [Subscribers -> Int] BY <2>1 DEF Maps, ConsumerType
    <2>7. last \in [Subscribers -> [event : Event, before : Nat]]
        <3>1. ASSUME NEW s \in Subscribers PROVE last[s] \in [event : Event, before : Nat]
            <4>1. ConsumerType(s) BY <2>1
            <4>2. PICK e \in Event, b \in Nat : last[s] = [event |-> e, before |-> b]
                BY <4>1 DEF ConsumerType
            <4> QED BY <4>2
        <3> QED BY <2>1, <3>1 DEF Maps
    <2> QED BY <2>1, <2>2, <2>3, <2>4, <2>5, <2>6, <2>7
            DEF TypeOK, HubType, Terminals, DriverType
<1>2. Init => DriverType BY DEF Init, DriverType
<1>3. DriverType /\ IInv /\ [Next]_vars => DriverType' BY DriverTypeKept
<1> QED BY <1>1, <1>2, <1>3, Invariance, PTL DEF Spec

\* No byte is skipped, repeated or mislabelled on its way to a consumer, and a gap
\* names exactly the bytes that are lost (push, push_output, next_event).
THEOREM NoLoss == Spec => []NoSilentLoss
<1>1. IInv => NoSilentLoss BY DEF IInv, Consumer, LossFree, NoSilentLoss
<1> QED BY <1>1, Invariance, PTL

-----------------------------------------------------------------------------
(* The refinement of OutputStream *)

\* The refinement mapping, by name.
Joined   == {s \in Subscribers : phase[s] # "new"}
Owing    == [s \in Subscribers |-> owed[s] # 0]
ToldAll  == [s \in Subscribers |-> ToldTo(s)]

\* A consumer told nothing new was told the same.
LEMMA ToldKept ==
    ASSUME NEW s \in Subscribers, pos'[s] = pos[s], last'[s] = last[s]
    PROVE  ToldTo(s)' = ToldTo(s)
BY DEF ToldTo, WhatOf

\* The same for all consumers.
LEMMA HistoryKept ==
    ASSUME UNCHANGED <<pos, owed, last>>
    PROVE  Owing' = Owing /\ ToldAll' = ToldAll
<1>1. \A s \in Subscribers : ToldTo(s)' = ToldTo(s) BY ToldKept
<1>2. ToldAll' = ToldAll BY <1>1 DEF ToldAll
<1>3. Owing' = Owing BY DEF Owing
<1> QED BY <1>2, <1>3

\* The steps the stream does not see.
LEMMA Stutters ==
    ASSUME UNCHANGED <<ring, completion, pos>>, Joined' = Joined, Owing' = Owing,
           ToldAll' = ToldAll
    PROVE  UNCHANGED Stream!vars
<1>1. Completed' = Completed BY DEF Completed
<1> QED BY <1>1 DEF Stream!vars, Joined, Owing, ToldAll

\* push is Produce.
LEMMA Produces ==
    ASSUME ~Completed, ring'.produced \in Nat, ring'.produced > ring.produced,
           UNCHANGED <<completion, pos>>, Joined' = Joined, Owing' = Owing,
           ToldAll' = ToldAll
    PROVE  Stream!Next
<1>1. Completed' = Completed BY DEF Completed
<1>2. Stream!Produce BY <1>1 DEF Stream!Produce, Joined, Owing, ToldAll
<1> QED BY <1>2 DEF Stream!Next

\* close is Seal.
LEMMA Seals ==
    ASSUME ~Completed, Completed', UNCHANGED <<ring, pos>>, Joined' = Joined, Owing' = Owing,
           ToldAll' = ToldAll
    PROVE  Stream!Next
<1>1. Stream!Seal BY DEF Stream!Seal, Joined, Owing, ToldAll
<1> QED BY <1>1 DEF Stream!Next

\* A subscription is Join.
LEMMA Joins ==
    ASSUME NEW s \in Subscribers, s \notin Joined, Joined' = Joined \union {s},
           NEW at \in 0..ring.produced, pos' = [pos EXCEPT ![s] = at],
           NEW repaint \in BOOLEAN, Owing' = [Owing EXCEPT ![s] = repaint],
           UNCHANGED <<ring, completion>>, ToldAll' = ToldAll
    PROVE  Stream!Next
<1>1. Completed' = Completed BY DEF Completed
<1>2. Stream!Join(s) BY <1>1 DEF Stream!Join, Joined, Owing, ToldAll
<1> QED BY <1>2 DEF Stream!Next

\* The consumer, still following, is told `what` from where it stands to `to`.
Telling(s, what, to) ==
    /\ s \in Joined /\ last[s].event.kind # "exit"
    /\ ToldAll' = [ToldAll EXCEPT ![s] = [what |-> what, from |-> pos[s], to |-> to]]
    /\ pos' = [pos EXCEPT ![s] = to] /\ Joined' = Joined
    /\ UNCHANGED <<ring, completion>>

\* That is Tell.
LEMMA TellingTells ==
    ASSUME NEW s \in Subscribers, NEW what, NEW to, Telling(s, what, to),
           last[s].event.kind \in Kinds
    PROVE  Stream!Following(s) /\ Stream!Tell(s, what, to)
<1>1. Completed' = Completed BY DEF Telling, Completed
<1>2. s \in Joined /\ last[s].event.kind # "exit" BY DEF Telling
<1>3. ToldTo(s).what # "exit" BY <1>2 DEF ToldTo, WhatOf, Kinds
<1>4. Stream!Following(s) BY <1>2, <1>3 DEF Stream!Following, Joined
<1>5. Stream!Tell(s, what, to) BY <1>1 DEF Telling, Stream!Tell, Joined, ToldAll
<1> QED BY <1>4, <1>5

\* Bytes are told when no repaint is due.
LEMMA TellsBytes ==
    ASSUME NEW s \in Subscribers, NEW to \in pos[s]..ring.produced, Telling(s, "bytes", to),
           last[s].event.kind \in Kinds, owed[s] = 0, Owing' = Owing
    PROVE  Stream!Next
<1>1. Stream!Following(s) /\ Stream!Tell(s, "bytes", to) BY TellingTells
<1>2. Stream!TellBytes(s) BY <1>1 DEF Stream!TellBytes, Owing
<1> QED BY <1>2 DEF Stream!Next

\* A gap is not empty, and owes a repaint.
LEMMA TellsGap ==
    ASSUME NEW s \in Subscribers, NEW to \in (pos[s] + 1)..ring.produced,
           Telling(s, "gap", to), last[s].event.kind \in Kinds,
           Owing' = [Owing EXCEPT ![s] = TRUE]
    PROVE  Stream!Next
<1>1. Stream!Following(s) /\ Stream!Tell(s, "gap", to) BY TellingTells
<1>2. Stream!TellGap(s) BY <1>1 DEF Stream!TellGap, Owing
<1> QED BY <1>2 DEF Stream!Next

\* A repaint is told when one is due.
LEMMA TellsRepaint ==
    ASSUME NEW s \in Subscribers, Telling(s, "repaint", pos[s]),
           last[s].event.kind \in Kinds, owed[s] # 0,
           NEW more \in BOOLEAN, Owing' = [Owing EXCEPT ![s] = more]
    PROVE  Stream!Next
<1>1. Stream!Following(s) /\ Stream!Tell(s, "repaint", pos[s]) BY TellingTells
<1>2. Stream!TellRepaint(s) BY <1>1 DEF Stream!TellRepaint, Owing
<1> QED BY <1>2 DEF Stream!Next

\* The end is told to a consumer that was told all of it.
LEMMA TellsExit ==
    ASSUME NEW s \in Subscribers, Telling(s, "exit", pos[s]), last[s].event.kind \in Kinds,
           owed[s] = 0, Owing' = Owing, Completed, pos[s] = ring.produced
    PROVE  Stream!Next
<1>1. Stream!Following(s) /\ Stream!Tell(s, "exit", pos[s]) BY TellingTells
<1>2. Stream!TellExit(s) BY <1>1 DEF Stream!TellExit, Owing
<1> QED BY <1>2 DEF Stream!Next

\* Whatever recv returns, the stream may tell.
LEMMA ReturnsTells ==
    ASSUME IInv, NEW s \in Subscribers, Returns(s)
    PROVE  Stream!Next
<1>1. phase[s] = "ready" /\ Delivered(s) BY RecvReturns
<1>2. PICK e, r : /\ Delivery(s, e, r) /\ Deliver(s, e)
                  /\ last[s].event.kind # "exit"
    BY <1>1 DEF Delivered
<1>3. /\ ring.next_offset \in Nat /\ ring.produced = ring.next_offset
      /\ pos[s] \in Nat /\ owed[s] \in Int /\ last[s].event.kind \in Kinds
      /\ \A t \in Subscribers : owed[t] \in Int
    BY DEF IInv, HubType, HubInv, Ring, RingConsistent, Consumer, ConsumerType, Event
<1> DEFINE l == [event |-> e, before |-> pos[s]]
<1>4. /\ last' = [last EXCEPT ![s] = l] /\ pos' = [pos EXCEPT ![s] = After(s, e)]
      /\ owed' = [owed EXCEPT ![s] = DueAfter(s, e)]
      /\ UNCHANGED <<ring, completion, phase>>
    BY <1>2 DEF Deliver, hubVars, After, DueAfter
<1>5. l.event = e OBVIOUS
<1> HIDE DEF l
<1>6. /\ last'[s] = l /\ pos'[s] = After(s, e) /\ owed'[s] = DueAfter(s, e)
      /\ \A t \in Subscribers : t # s => /\ last'[t] = last[t] /\ pos'[t] = pos[t]
                                         /\ owed'[t] = owed[t]
    BY <1>4 DEF IInv, Maps
<1>7. Joined' = Joined /\ s \in Joined BY <1>1, <1>4 DEF Joined
<1>8. /\ e \in Event /\ After(s, e) <= ring.next_offset
      /\ e.len \in Nat /\ e.next \in Nat /\ e.total \in Nat /\ e.from \in Int
    BY <1>2 DEF Delivery, QueueGood, Event
<1>9. \A t \in Subscribers : t # s => ToldTo(t)' = ToldTo(t) BY <1>6, ToldKept
<1>10. ASSUME NEW v, ToldTo(s)' = v PROVE ToldAll' = [ToldAll EXCEPT ![s] = v]
    BY <1>9, <1>10 DEF ToldAll
<1>11. ASSUME NEW b \in BOOLEAN, b <=> owed'[s] # 0 PROVE Owing' = [Owing EXCEPT ![s] = b]
    BY <1>6, <1>11 DEF Owing
<1>12. owed'[s] = owed[s] => Owing' = Owing
    BY <1>6 DEF Owing
<1>13. CASE e.kind \in {"replay", "output"}
    <2>1. /\ e.from = pos[s] /\ e.next = pos[s] + e.len /\ owed[s] = 0
        BY <1>2, <1>13 DEF Delivery
    <2>2. After(s, e) = e.next /\ DueAfter(s, e) = owed[s] BY <1>13 DEF After, DueAfter
    <2>3. ToldTo(s)' = [what |-> "bytes", from |-> pos[s], to |-> e.next]
        BY <1>3, <1>5, <1>6, <1>8, <1>13, <2>1 DEF ToldTo, WhatOf
    <2>4. Telling(s, "bytes", e.next)
        BY <1>2, <1>4, <1>7, <1>10, <2>2, <2>3 DEF Telling
    <2>5. e.next \in pos[s]..ring.produced BY <1>3, <1>8, <2>1, <2>2
    <2>6. Owing' = Owing BY <1>6, <1>12, <2>2
    <2> QED BY <1>3, <2>1, <2>4, <2>5, <2>6, TellsBytes
<1>14. CASE e.kind = "gap"
    <2>1. /\ e.from = pos[s] /\ e.next = pos[s] + e.len /\ e.len > 0 /\ e.total > 0
        BY <1>2, <1>14 DEF Delivery
    <2>2. After(s, e) = e.next /\ DueAfter(s, e) = e.total BY <1>14 DEF After, DueAfter
    <2>3. ToldTo(s)' = [what |-> "gap", from |-> pos[s], to |-> e.next]
        BY <1>3, <1>5, <1>6, <1>8, <1>14, <2>1 DEF ToldTo, WhatOf
    <2>4. Telling(s, "gap", e.next)
        BY <1>2, <1>4, <1>7, <1>10, <2>2, <2>3 DEF Telling
    <2>5. e.next \in (pos[s] + 1)..ring.produced BY <1>3, <1>8, <2>1, <2>2
    <2>6. owed'[s] # 0 BY <1>6, <1>8, <2>1, <2>2
    <2>7. Owing' = [Owing EXCEPT ![s] = TRUE] BY <1>11, <2>6
    <2> QED BY <1>3, <2>4, <2>5, <2>7, TellsGap
<1>15. CASE e.kind = "repaint"
    <2>1. owed[s] # 0 BY <1>2, <1>15, <1>3 DEF Delivery
    <2>2. After(s, e) = pos[s] BY <1>15 DEF After
    <2>3. ToldTo(s)' = [what |-> "repaint", from |-> pos[s], to |-> pos[s]]
        BY <1>5, <1>6, <1>15, <2>2 DEF ToldTo, WhatOf
    <2>4. Telling(s, "repaint", pos[s])
        BY <1>2, <1>4, <1>7, <1>10, <2>2, <2>3 DEF Telling
    <2>5. PICK more \in BOOLEAN : more <=> owed'[s] # 0 OBVIOUS
    <2>6. Owing' = [Owing EXCEPT ![s] = more] BY <1>11, <2>5
    <2> QED BY <1>3, <2>1, <2>4, <2>6, TellsRepaint
<1>16. CASE e.kind = "exit"
    <2>1. /\ e.from = pos[s] /\ e.next = pos[s] + e.len /\ owed[s] = 0
          /\ Completed /\ e.next = ring.next_offset /\ e.len = 0
        BY <1>2, <1>16 DEF Delivery
    <2>2. After(s, e) = e.next /\ DueAfter(s, e) = owed[s] BY <1>16 DEF After, DueAfter
    <2>3. e.next = pos[s] BY <1>3, <2>1
    <2>4. ToldTo(s)' = [what |-> "exit", from |-> pos[s], to |-> pos[s]]
        BY <1>3, <1>5, <1>6, <1>16, <2>1, <2>3 DEF ToldTo, WhatOf
    <2>5. Telling(s, "exit", pos[s])
        BY <1>2, <1>4, <1>7, <1>10, <2>2, <2>3, <2>4 DEF Telling
    <2>6. Owing' = Owing BY <1>6, <1>12, <2>2
    <2> QED BY <1>3, <2>1, <2>3, <2>5, <2>6, TellsExit
<1> QED BY <1>2, <1>13, <1>14, <1>15, <1>16 DEF Delivery

\* Where a consumer stands may change only after it joined.
LEMMA PausedStutters ==
    ASSUME IInv, NEW s \in Subscribers, Paused(s)
    PROVE  UNCHANGED Stream!vars
<1>1. /\ phase[s] \in {"ready", "parked"} /\ UNCHANGED <<ring, completion, pos, owed, last>>
      /\ \E ph \in {"ready", "parked", "ended", "dropped"} : phase' = [phase EXCEPT ![s] = ph]
    BY PausedKeeps
<1>2. Joined' = Joined BY <1>1 DEF Joined, IInv, Maps
<1>3. Owing' = Owing /\ ToldAll' = ToldAll BY <1>1, HistoryKept
<1> QED BY <1>1, <1>2, <1>3, Stutters

\* register_subscriber joins the consumer at a position already produced.
LEMMA RegisterJoins ==
    ASSUME IInv, NEW s \in Subscribers, NEW q, NEW from \in Nat, Register(s, q, from),
           from <= ring.next_offset, NEW due, owed' = [owed EXCEPT ![s] = due]
    PROVE  Stream!Next
<1>1. /\ phase[s] = "new" /\ phase' = [phase EXCEPT ![s] = "ready"]
      /\ pos' = [pos EXCEPT ![s] = from] /\ UNCHANGED <<ring, completion, last>>
    BY DEF Register
<1>2. /\ ring.next_offset \in Nat /\ ring.produced = ring.next_offset
      /\ last[s].event.kind = "none"
    BY <1>1 DEF IInv, HubType, HubInv, Ring, RingConsistent, Consumer, ConsumerInv
<1>3. Joined' = Joined \union {s} /\ s \notin Joined BY <1>1 DEF Joined, IInv, Maps
<1>4. PICK repaint \in BOOLEAN : repaint <=> due # 0 OBVIOUS
<1>5. Owing' = [Owing EXCEPT ![s] = repaint] BY <1>4 DEF Owing, IInv, Maps
<1>6. ASSUME NEW t \in Subscribers PROVE ToldTo(t)' = ToldTo(t)
    <2>1. CASE t = s BY <1>1, <1>2, <2>1 DEF ToldTo, WhatOf
    <2>2. CASE t # s
        <3>1. pos'[t] = pos[t] /\ last'[t] = last[t] BY <1>1, <2>2 DEF IInv, Maps
        <3> QED BY <3>1, ToldKept
    <2> QED BY <2>1, <2>2
<1>7. ToldAll' = ToldAll BY <1>6 DEF ToldAll
<1>8. from \in 0..ring.produced BY <1>2
<1> QED BY <1>1, <1>3, <1>5, <1>7, <1>8, Joins

\* Push and close wake consumers, and move none of them into or out of the
\* ones that joined.
LEMMA NotifyJoined ==
    ASSUME NEW live, NotifyOne(live)
    PROVE  Joined' = Joined
BY DEF NotifyOne, Joined

\* The output actor implements the stream it promises: whatever eviction, queue
\* overflow, repaints, a late subscription and the close do together, a consumer
\* is told the next bytes themselves or an explicit, non-empty gap; a complete
\* repaint follows a gap before anything else; and the Exit comes only to a
\* consumer that was told everything.
THEOREM Refinement == Spec => ImplementsStream
<1>1. Init => Stream!Init
    <2> SUFFICES ASSUME Init PROVE Stream!Init OBVIOUS
    <2>1. ring.produced = 0 /\ ~Completed BY DEF Init, EmptyRing, Completed
    <2>2. Joined = {} /\ pos = [c \in Subscribers |-> 0]
          /\ Owing = [c \in Subscribers |-> FALSE]
        BY DEF Init, Joined, Owing
    <2>3. ASSUME NEW s \in Subscribers
          PROVE  ToldTo(s) = [what |-> "nothing", from |-> 0, to |-> 0]
        <3>1. last[s].event = NoEvent BY DEF Init
        <3> QED BY <3>1 DEF ToldTo, WhatOf, NoEvent
    <2>4. ToldAll = [c \in Subscribers |-> [what |-> "nothing", from |-> 0, to |-> 0]]
        BY <2>3 DEF ToldAll
    <2>5. Completed = FALSE BY <2>1 DEF Completed
    <2> QED BY <2>1, <2>2, <2>4, <2>5, Zenon DEF Stream!Init, Joined, Owing, ToldAll
<1>2. IInv /\ [Next]_vars => [Stream!Next]_Stream!vars
    <2> SUFFICES ASSUME IInv, [Next]_vars PROVE Stream!Next \/ UNCHANGED Stream!vars OBVIOUS
    <2>1. CASE Driven \/ UNCHANGED vars
        <3>1. UNCHANGED <<ring, completion, phase, pos, owed, last>>
            BY <2>1, DrivenFrame
        <3>2. Joined' = Joined BY <3>1 DEF Joined
        <3> QED BY <3>1, <3>2, HistoryKept, Stutters
    <2>2. ASSUME NEW n \in 1..MaxPush, Push(n) PROVE Stream!Next
        <3>1. ~Completed /\ UNCHANGED <<completion, pos, owed, last>>
            BY <2>2 DEF Push, historyVars
        <3>2. Joined' = Joined BY <2>2, NotifyJoined DEF Push
        <3>3. ring'.produced \in Nat /\ ring'.produced > ring.produced BY <2>2, PushKeeps
        <3> QED BY <3>1, <3>2, <3>3, HistoryKept, Produces
    <2>3. ASSUME NEW reason \in {"eof", "forced"}, Close(reason) PROVE Stream!Next
        <3>1. ~Completed /\ UNCHANGED <<ring, pos, owed, last>>
            BY <2>3 DEF Close, historyVars
        <3>2. Joined' = Joined BY <2>3, NotifyJoined DEF Close
        <3>3. Completed' BY <2>3, CloseKeeps
        <3> QED BY <3>1, <3>2, <3>3, HistoryKept, Seals
    <2>4. CASE Resize
        <3>1. UNCHANGED <<ring, completion, phase, pos, owed, last>>
            BY <2>4 DEF Resize, queueVars, historyVars
        <3>2. Joined' = Joined BY <3>1 DEF Joined
        <3> QED BY <3>1, <3>2, HistoryKept, Stutters
    <2>5. ASSUME NEW s \in Subscribers, NEW requested \in 0..MaxOffset,
                 Subscribe(s, requested)
          PROVE  Stream!Next
        <3>1. /\ requested \in Nat /\ requested <= ring.next_offset /\ owed' = owed
              /\ Register(s, SeedQueue(requested), requested)
            BY <2>5, MaxOffsetAssumption DEF Subscribe
        <3>2. owed' = [owed EXCEPT ![s] = owed[s]] BY <3>1 DEF IInv, Maps
        <3> QED BY <3>1, <3>2, RegisterJoins
    <2>6. ASSUME NEW s \in Subscribers, SubscribeRepaint(s) PROVE Stream!Next
        <3>1. terminal.watermark \in Nat /\ terminal.watermark <= ring.next_offset
            BY DEF IInv, HubType, HubInv, Terminals
        <3> QED BY <2>6, <3>1, RegisterJoins DEF SubscribeRepaint
    <2> QED BY <2>1, <2>2, <2>3, <2>4, <2>5, <2>6, NextCases, ReturnsTells, PausedStutters
<1> QED BY <1>1, <1>2, Invariance, PTL DEF Spec, ImplementsStream, Stream!Spec
=============================================================================
