--------------------------- MODULE OutputRingProofs ---------------------------
(***************************************************************************)
(* Lemmas about the operations of OutputRing, for every history limit: the *)
(* offsets the code keeps beside the history stay true to it, and what is  *)
(* read back for an offset are the bytes the offset names.  The proofs of  *)
(* both users of the ring, OutputHub and OutputObservation, rest on them.  *)
(***************************************************************************)
EXTENDS OutputRing, TLAPS

\* A new ring is consistent.
LEMMA EmptyConsistent == EmptyRing \in Ring /\ RingConsistent(EmptyRing)
BY HistoryLimitAssumption, MaxOffsetAssumption
   DEF EmptyRing, Ring, RingConsistent, Oldest, Least

\* push keeps the offsets in step with the contents, whatever it evicts.
LEMMA PushConsistent ==
    ASSUME NEW r \in Ring, RingConsistent(r), NEW n \in Nat, ~PushOverflows(r, n)
    PROVE  /\ RingPush(r, n) \in Ring /\ RingConsistent(RingPush(r, n))
           /\ RingPush(r, n).next_offset = r.next_offset + n
<1>1. /\ r.held \in Nat /\ r.start_offset \in Nat /\ r.next_offset \in Nat
      /\ r.produced \in Nat /\ HistoryLimit \in Nat /\ MaxOffset \in Nat
    BY HistoryLimitAssumption, MaxOffsetAssumption DEF Ring
<1>2. PICK e : e = Evicted(r, n)
    OBVIOUS
<1>3. /\ e \in Nat
      /\ \/ e = 0 /\ r.held + n <= HistoryLimit
         \/ e = r.held + n - HistoryLimit /\ r.held + n > HistoryLimit
    BY <1>1, <1>2 DEF Evicted, Greatest
<1>4. RingPush(r, n) = [held |-> r.held + n - e, start_offset |-> r.start_offset + e,
                        next_offset |-> r.next_offset + n, produced |-> r.produced + n]
    BY <1>2 DEF RingPush
<1>5. RingPush(r, n) \in Ring
    BY <1>1, <1>3, <1>4 DEF Ring
<1>6. RingConsistent(RingPush(r, n))
    BY <1>1, <1>3, <1>4 DEF RingConsistent, Oldest, Least, PushOverflows
<1> QED BY <1>4, <1>5, <1>6

\* The bytes a consistent ring returns for an offset it holds are the ones the
\* offset names, as many as there are up to the limit.
LEMMA BytesTruthful ==
    ASSUME NEW r \in Ring, RingConsistent(r), NEW at \in Nat, NEW limit \in Nat,
           at >= r.start_offset, at <= r.next_offset
    PROVE  /\ BytesFromLimited(r, at, limit).from = at
           /\ BytesFromLimited(r, at, limit).len = Least(r.next_offset - at, limit)
<1>1. /\ r.held \in Nat /\ r.start_offset \in Nat /\ r.next_offset \in Nat
      /\ r.produced \in Nat
    BY DEF Ring
<1>2. r.next_offset = r.produced /\ r.start_offset = r.produced - r.held
    BY DEF RingConsistent, Oldest
<1>3. Greatest(at - r.start_offset, 0) = at - r.start_offset
    BY <1>1 DEF Greatest
<1>4. Least(at - r.start_offset, r.held) = at - r.start_offset
    BY <1>1, <1>2 DEF Least
<1>5. BytesFromLimited(r, at, limit) =
         [offset |-> at, from |-> (r.produced - r.held) + (at - r.start_offset),
          len |-> Least(r.held - (at - r.start_offset), limit)]
    BY <1>3, <1>4 DEF BytesFromLimited, Oldest
<1>6. r.held - (at - r.start_offset) = r.next_offset - at
    BY <1>1, <1>2
<1> QED BY <1>1, <1>2, <1>5, <1>6
=============================================================================
