----------------------------- MODULE OutputRing -----------------------------
(***************************************************************************)
(* The bounded output history of one session worker                        *)
(* (crates/session-worker/src/output.rs, struct OutputRing) and the pure   *)
(* operations on it.                                                       *)
(*                                                                         *)
(* A byte is identified by its position in the stream the PTY produced.    *)
(* The VecDeque only ever appends at its back and pops at its front, so it *)
(* holds the last `held` bytes produced: its element at index i is stream  *)
(* byte (produced - held) + i.  The offsets the code keeps beside it are   *)
(* fields of their own, because nothing but the code keeps them in step    *)
(* with the contents.                                                      *)
(*                                                                         *)
(* A chunk is [offset, from, len]: the offset the code labels it with, the *)
(* stream position of its first byte and its length.  A chunk is truthful  *)
(* when from = offset.                                                     *)
(***************************************************************************)
EXTENDS Integers, FiniteSets

CONSTANTS HistoryLimit,   \* OutputRing::limit, the history byte budget
          MaxOffset       \* the largest u64 offset; checked_add fails above

ASSUME HistoryLimitAssumption == HistoryLimit \in Nat \ {0}
ASSUME MaxOffsetAssumption    == MaxOffset \in Nat

Least(a, b) == IF a <= b THEN a ELSE b
Greatest(a, b) == IF a <= b THEN b ELSE a

Chunk == [offset : Nat, from : Int, len : Nat]
Ring  == [held : Nat, start_offset : Nat, next_offset : Nat, produced : Nat]

EmptyRing == [held |-> 0, start_offset |-> 0, next_offset |-> 0, produced |-> 0]

\* The stream position of the oldest byte still held.
Oldest(ring) == ring.produced - ring.held

\* checked_add of the length to next_offset: the push that would not fit.
PushOverflows(ring, n) == ring.next_offset + n > MaxOffset

\* Mutant: without the saturating lower bound, a short history evicts less than nothing.
EvictedUnclamped(ring, n) == ring.held + n - HistoryLimit

\* How many bytes the eviction loop pops once n bytes were appended.
Evicted(ring, n) == Greatest(ring.held + n - HistoryLimit, 0)

RingPush(ring, n) ==
    [held         |-> ring.held + n - Evicted(ring, n),
     start_offset |-> ring.start_offset + Evicted(ring, n),
     next_offset  |-> ring.next_offset + n,
     produced     |-> ring.produced + n]

\* The chunk that push returns, labelled with the offset before the append.
PushedChunk(ring, n) ==
    [offset |-> ring.next_offset, from |-> ring.produced, len |-> n]

\* Mutant: the offset is used as an index without rebasing it to start_offset.
BytesFromUnrebased(ring, offset, limit) ==
    LET skipped == Least(offset, ring.held)
    IN  [offset |-> offset, from |-> Oldest(ring) + skipped,
         len |-> Least(ring.held - skipped, limit)]

\* iter().skip(relative).take(limit), where relative saturates at zero.
BytesFromLimited(ring, offset, limit) ==
    LET relative == Greatest(offset - ring.start_offset, 0)
        skipped  == Least(relative, ring.held)
    IN  [offset |-> offset, from |-> Oldest(ring) + skipped,
         len |-> Least(ring.held - skipped, limit)]

BytesFrom(ring, offset) == BytesFromLimited(ring, offset, ring.held)

\* OutputRing::chunk returns None for a range it no longer holds, or never did.
HasChunk(ring, offset, end) ==
    /\ offset >= ring.start_offset
    /\ offset < end
    /\ end <= ring.next_offset

RingChunk(ring, offset, end, limit) ==
    BytesFromLimited(ring, offset, Least(end - offset, limit))

(***************************************************************************)
(* The offsets tell the truth about the contents: what the code relies on  *)
(* whenever it turns an offset into an index of the VecDeque.              *)
(***************************************************************************)
RingConsistent(ring) ==
    /\ ring.next_offset = ring.produced
    /\ ring.start_offset = Oldest(ring)
    /\ ring.held <= HistoryLimit
    /\ ring.next_offset <= MaxOffset
    /\ ring.held = Least(ring.produced, HistoryLimit)

Truthful(chunk) == chunk.from = chunk.offset
=============================================================================
