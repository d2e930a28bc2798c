-------------------------- MODULE ControlInputProofs --------------------------
(***************************************************************************)
(* Proofs about ControlInput, for every number of connections, daemons,    *)
(* streams and write ids, every plan length and every dedup capacity: a    *)
(* write id is typed at most once within a namespace, an answer tells      *)
(* exactly what the PTY got, and no fragment is torn by another writer.    *)
(*                                                                         *)
(* None of the three is inductive. The invariant adds what the code relies *)
(* on:                                                                     *)
(*                                                                         *)
(*   LeaseInv     whoever works on a request holds the controller lease,   *)
(*                so that one plan is in hand at a time and the namespace  *)
(*                does not change under it;                                *)
(*   LockInv      whoever writes holds the execution lock;                 *)
(*   FragmentInv  a writer inside a fragment typed the last byte;          *)
(*   DedupInv     an id of which a byte was typed is still known to the    *)
(*                dedup state: by its entry, by the high watermark or by   *)
(*                the filter of evicted ids, so that eviction forgets the  *)
(*                outcome and never the write; and a stored outcome is     *)
(*                true;                                                    *)
(*   RequestInv   the request in hand has a pending entry and typed        *)
(*                exactly the bytes it counted;                            *)
(*   AnswerInv    a final answer is true and its id is not typed again.    *)
(*                                                                         *)
(* Each action has one lemma. Appending a byte, finishing a plan and       *)
(* selecting a namespace have lemmas about what they do to the pure state, *)
(* and the parts of the invariant are operators of that state.             *)
(***************************************************************************)
EXTENDS ControlInput, TLAPS

\* The steps of a connection that has a request in hand.
Working == {"plan", "lock", "write", "flushed"}

\* The outcomes that tell how much was typed.
Final == {"ok", "stalled", "io"}

\* A byte the PTY accepted.
TypedByte == [by : Writers, tenure : Nat, id : Ids \union {0}, byte : Nat]

\* An answer to a control write.
Answered == [tenure : Nat, id : Ids, content : Content,
             result : [kind : {"pending", "ok", "stalled", "io", "conflict", "unknown"},
                       written : Nat]]

\* An entry of the dedup state.
Entries == [present : BOOLEAN, fingerprint : Nat, result : Result]

\* The dedup state.
Dedups == [namespace : Connections \union Daemons \union {NoOne}, mode : Modes,
           entries : [Ids -> Entries], completed : Seq(Ids), high_watermark : Nat,
           evicted : SUBSET Ids]

\* The request in hand.
Requests == [mode : Modes, id : Ids \union {0}, content : Content \union {0}]

\* A control connection.
Conns == [pc : {"new", "idle", "plan", "lock", "write", "flushed", "closed"},
          daemon : Daemons \union {NoOne}, request : Requests, written : Nat]

\* An attach stream.
Attaches == [pc : {"new", "lock", "write", "done", "failed"}, written : Nat]

\* The reply task and the probes it answers.
Replies == [pc : {"wait", "lock", "write", "stopped"}, written : Nat, pending : BOOLEAN,
            closed : BOOLEAN, probes : 0..MaxProbes, unanswered : BOOLEAN]

\* The types of all variables, the history included.
TypeInv ==
  /\ lease \in Connections \union {NoOne}
  /\ conn \in [Connections -> Conns]
  /\ dedup \in Dedups
  /\ plans \in Connections \union {NoOne}
  /\ execution \in Writers \union {NoOne}
  /\ attach \in [Streams -> Attaches]
  /\ reply \in Replies
  /\ tenure \in Nat
  /\ requests \in 0..MaxRequests
  /\ typed \in Seq(TypedByte)
  /\ answers \subseteq Answered

\* A connection that is served holds the lease.
LeaseInv ==
  \A c \in Connections : conn[c].pc \in Working \union {"idle"} => lease = c

\* A writer at its writes holds the execution lock.
LockInv ==
  /\ \A c \in Connections : conn[c].pc \in {"write", "flushed"} => execution = c
  /\ \A s \in Streams : attach[s].pc = "write" => execution = s
  /\ reply.pc = "write" => execution = ReplyTask

\* x is the last byte of s.
LastIs(s, x) == Len(s) > 0 /\ s[Len(s)] = x

\* FragmentsWhole of a sequence of bytes.
Whole(s) ==
  \A i \in 1..Len(s) :
    (s[i].byte - 1) % FragmentBytes # 0 =>
      i > 1 /\ s[i - 1] = [s[i] EXCEPT !.byte = @ - 1]

\* A plan between two fragments wrote whole fragments; inside a fragment, its
\* last byte is the last the PTY accepted.
PlanFragment(r, c, s, t) ==
  /\ r.pc \in {"plan", "lock", "flushed"} => r.written % FragmentBytes = 0
  /\ r.pc = "write" /\ r.written % FragmentBytes # 0 =>
       LastIs(s, [by |-> c, tenure |-> t, id |-> r.request.id, byte |-> r.written])

\* A frame or reply that is partly written typed the last byte.
OtherFragment(r, w, s) ==
  r.pc = "write" /\ r.written # 0 =>
    LastIs(s, [by |-> w, tenure |-> 0, id |-> 0, byte |-> r.written])

\* Every writer is between two fragments or typed the last byte.
FragmentInv ==
  /\ \A c \in Connections : PlanFragment(conn[c], c, typed, tenure)
  /\ \A s \in Streams : /\ OtherFragment(attach[s], s, typed)
                        /\ attach[s].pc \in {"new", "lock"} => attach[s].written = 0
  /\ OtherFragment(reply, ReplyTask, typed)
  /\ Whole(typed)

\* The bytes of write i that s holds from tenure t (TypedBytes of a sequence).
BytesOf(s, t, i) ==
  {s[k].byte : k \in {j \in 1..Len(s) : /\ s[j].by \in Connections
                                        /\ s[j].tenure = t
                                        /\ s[j].id = i}}

\* TypedAtMostOnce of a sequence of bytes.
Once(s) == \A i, j \in 1..Len(s) : s[i] = s[j] /\ s[i].by \in Connections => i = j

\* An outcome agrees with the bytes that were typed.
Truth(kind, written, content, bytes) ==
  /\ kind = "ok" => bytes = 1..Total(content)
  /\ kind \in {"stalled", "io"} => bytes = 1..written

\* The dedup state knows that write i was started, although its outcome may be
\* evicted.
Started(d, i) ==
  \/ d.entries[i].present
  \/ d.mode = "monotonic" /\ i <= d.high_watermark
  \/ d.mode = "legacy" /\ i \in d.evicted

\* An unselected state holds no entry; the high watermark covers the entries.
DedupOk(d) ==
  /\ d.mode = "none" => \A i \in Ids : ~d.entries[i].present
  /\ d.mode = "monotonic" => \A i \in Ids : d.entries[i].present => i <= d.high_watermark

\* A write the state does not know was never typed, and a stored outcome is true.
EntriesTrue(d, s, t) ==
  \A i \in Ids :
    /\ ~Started(d, i) => BytesOf(s, t, i) = {}
    /\ d.entries[i].present =>
         Truth(d.entries[i].result.kind, d.entries[i].result.written,
               d.entries[i].fingerprint, BytesOf(s, t, i))

\* What the dedup state knows about this tenure; no tenure to come has bytes.
DedupInv ==
  /\ DedupOk(dedup)
  /\ EntriesTrue(dedup, typed, tenure)
  /\ \A t \in Nat, i \in Ids : t > tenure => BytesOf(typed, t, i) = {}

\* The request in hand is entered, pending, and typed what it counted.
RequestOk(r, d, s, t) ==
  r.pc \in Working =>
    /\ r.request.id \in Ids
    /\ r.request.content \in Content
    /\ d.mode \in {"monotonic", "legacy"}
    /\ d.entries[r.request.id].present
    /\ d.entries[r.request.id].fingerprint = r.request.content
    /\ d.entries[r.request.id].result.kind = "pending"
    /\ BytesOf(s, t, r.request.id) = 1..r.written

\* Every connection's request is in order.
RequestInv == \A c \in Connections : RequestOk(conn[c], dedup, typed, tenure)

\* An answer is true, and a final one of this tenure is for a started write.
AnswerOk(a, d, s, t) ==
  /\ a.tenure <= t
  /\ Truth(a.result.kind, a.result.written, a.content, BytesOf(s, a.tenure, a.id))
  /\ a.tenure = t /\ a.result.kind \in Final => Started(d, a.id)

\* A write in hand has no final answer yet.
Unanswered(a, r, t) ==
  a.tenure = t /\ a.result.kind \in Final /\ r.pc \in Working => r.request.id # a.id

\* Every answer given is true and stays so.
AnswerInv ==
  \A a \in answers : /\ AnswerOk(a, dedup, typed, tenure)
                     /\ \A c \in Connections : Unanswered(a, conn[c], tenure)

\* The part of the invariant about requests, outcomes and typed bytes.
InputInv == DedupInv /\ RequestInv /\ AnswerInv /\ Once(typed)

\* The inductive invariant.
IInv == TypeInv /\ LeaseInv /\ LockInv /\ FragmentInv /\ InputInv

\* No byte at all is a whole number of fragments.
LEMMA ZeroMod == 0 % FragmentBytes = 0
BY PlanAssumption

\* One more typed byte adds to the bytes of its own write only.
LEMMA BytesAppend ==
  ASSUME NEW s \in Seq(TypedByte), NEW x \in TypedByte, NEW t, NEW i
  PROVE  BytesOf(Append(s, x), t, i) =
           IF x.by \in Connections /\ x.tenure = t /\ x.id = i
           THEN BytesOf(s, t, i) \union {x.byte} ELSE BytesOf(s, t, i)
<1> DEFINE n == Len(s)
           e == Append(s, x)
           Sel(u) == {j \in 1..Len(u) : u[j].by \in Connections /\ u[j].tenure = t /\ u[j].id = i}
<1>1. /\ n \in Nat /\ Len(e) = n + 1 /\ e[n + 1] = x
      /\ \A j \in 1..n : e[j] = s[j]
  OBVIOUS
<1>2. 1..(n + 1) = (1..n) \union {n + 1} /\ n + 1 \notin 1..n
  BY <1>1
<1> HIDE DEF n, e
<1>3. Sel(e) = IF x.by \in Connections /\ x.tenure = t /\ x.id = i
               THEN Sel(s) \union {n + 1} ELSE Sel(s)
  BY <1>1, <1>2 DEF n
<1>4. BytesOf(e, t, i) = {e[k].byte : k \in Sel(e)} /\ BytesOf(s, t, i) = {s[k].byte : k \in Sel(s)}
  BY DEF BytesOf
<1>5. \A k \in Sel(s) : e[k].byte = s[k].byte
  BY <1>1 DEF n
<1> HIDE DEF Sel
<1>6. CASE x.by \in Connections /\ x.tenure = t /\ x.id = i
  <2>1. BytesOf(e, t, i) = BytesOf(s, t, i) \union {x.byte}
    BY <1>6, <1>3, <1>4, <1>5, <1>1
  <2> QED BY <2>1, <1>6 DEF e
<1>7. CASE ~(x.by \in Connections /\ x.tenure = t /\ x.id = i)
  <2>1. BytesOf(e, t, i) = BytesOf(s, t, i)
    BY <1>7, <1>3, <1>4, <1>5, <1>1
  <2> QED BY <2>1, <1>7 DEF e
<1> QED BY <1>6, <1>7

\* A byte that continues the fragment of the last byte tears none.
LEMMA WholeAppend ==
  ASSUME NEW s \in Seq(TypedByte), Whole(s), NEW x \in TypedByte,
         (x.byte - 1) % FragmentBytes # 0 => LastIs(s, [x EXCEPT !.byte = @ - 1])
  PROVE  Whole(Append(s, x))
<1> DEFINE n == Len(s)
           e == Append(s, x)
<1>1. /\ n \in Nat /\ Len(e) = n + 1 /\ e[n + 1] = x
      /\ \A j \in 1..n : e[j] = s[j]
  OBVIOUS
<1> HIDE DEF e
<1> SUFFICES ASSUME NEW i \in 1..(n + 1), (e[i].byte - 1) % FragmentBytes # 0
             PROVE  i > 1 /\ e[i - 1] = [e[i] EXCEPT !.byte = @ - 1]
  BY <1>1 DEF Whole, e
<1>2. CASE i \in 1..n
  <2>1. e[i] = s[i]
    BY <1>1, <1>2
  <2>2. i > 1 /\ s[i - 1] = [s[i] EXCEPT !.byte = @ - 1]
    BY <1>2, <2>1 DEF Whole
  <2>3. i - 1 \in 1..n
    BY <1>2, <2>2
  <2> QED BY <2>1, <2>2, <2>3, <1>1
<1>3. CASE i = n + 1
  <2>1. e[i] = x
    BY <1>1, <1>3
  <2>2. n > 0 /\ s[n] = [x EXCEPT !.byte = @ - 1]
    BY <2>1 DEF LastIs
  <2>3. n \in 1..n /\ i - 1 = n /\ i > 1
    BY <2>2, <1>1, <1>3
  <2> QED BY <2>1, <2>2, <2>3, <1>1
<1> QED BY <1>2, <1>3, <1>1

\* A byte its write did not type before keeps every byte unique.
LEMMA OnceAppend ==
  ASSUME NEW s \in Seq(TypedByte), Once(s), NEW x \in TypedByte,
         x.by \in Connections => x.byte \notin BytesOf(s, x.tenure, x.id)
  PROVE  Once(Append(s, x))
<1> DEFINE n == Len(s)
           e == Append(s, x)
<1>1. /\ n \in Nat /\ Len(e) = n + 1 /\ e[n + 1] = x
      /\ \A j \in 1..n : e[j] = s[j]
  OBVIOUS
<1>2. ASSUME NEW j \in 1..n, x.by \in Connections PROVE s[j] # x
  BY <1>2 DEF BytesOf
<1> HIDE DEF e
<1> SUFFICES ASSUME NEW i \in 1..(n + 1), NEW j \in 1..(n + 1), e[i] = e[j], e[i].by \in Connections
             PROVE  i = j
  BY <1>1 DEF Once, e
<1>3. CASE i \in 1..n /\ j \in 1..n
  BY <1>1, <1>3 DEF Once
<1>4. CASE i = n + 1 /\ j \in 1..n
  BY <1>1, <1>2, <1>4
<1>5. CASE j = n + 1 /\ i \in 1..n
  BY <1>1, <1>2, <1>5
<1>6. \A k \in 1..(n + 1) : k \in 1..n \/ k = n + 1
  BY <1>1
<1> QED BY <1>3, <1>4, <1>5, <1>6

\* The accepted byte is the last one.
LEMMA LastAppend ==
  ASSUME NEW s \in Seq(TypedByte), NEW x \in TypedByte
  PROVE  LastIs(Append(s, x), x) /\ Append(s, x) \in Seq(TypedByte)
BY DEF LastIs

\* A step that types nothing, answers nothing and leaves the requests in hand as
\* they are keeps the input invariant.
LEMMA InputKept ==
  ASSUME InputInv, UNCHANGED <<dedup, typed, tenure, answers>>,
         \A c \in Connections : conn'[c].pc \in Working =>
           /\ conn[c].pc \in Working
           /\ conn'[c].request = conn[c].request
           /\ conn'[c].written = conn[c].written
  PROVE  InputInv'
<1>1. DedupInv' /\ Once(typed)'
  BY DEF InputInv, DedupInv
<1>2. RequestInv'
  BY DEF InputInv, RequestInv, RequestOk
<1>3. AnswerInv'
  BY DEF InputInv, AnswerInv, Unanswered
<1> QED BY <1>1, <1>2, <1>3 DEF InputInv

\* The bytes of attach frames and replies are no control write's.
LEMMA InputOther ==
  ASSUME TypeInv, InputInv, UNCHANGED <<dedup, conn, tenure, answers>>,
         NEW x \in TypedByte, x.by \notin Connections, typed' = Append(typed, x)
  PROVE  InputInv'
<1>1. \A t, i : BytesOf(typed', t, i) = BytesOf(typed, t, i)
  BY BytesAppend DEF TypeInv
<1>2. Once(typed)'
  BY OnceAppend DEF InputInv, TypeInv
<1>3. DedupInv'
  BY <1>1 DEF InputInv, DedupInv, EntriesTrue
<1>4. RequestInv'
  BY <1>1 DEF InputInv, RequestInv, RequestOk
<1>5. AnswerInv'
  BY <1>1 DEF InputInv, AnswerInv, AnswerOk
<1> QED BY <1>2, <1>3, <1>4, <1>5 DEF InputInv

\* The lease is exclusive: only its holder is served.
LEMMA Alone ==
  ASSUME LeaseInv, NEW c \in Connections, conn[c].pc \in Working \union {"idle"}
  PROVE  /\ lease = c
         /\ \A k \in Connections \ {c} : conn[k].pc \notin Working \union {"idle"}
BY DEF LeaseInv

\* A connection counts a byte and goes to another step.
LEMMA ConnWritten ==
  ASSUME conn \in [Connections -> Conns], NEW c \in Connections, NEW n \in Nat,
         NEW p \in {"new", "idle", "plan", "lock", "write", "flushed", "closed"},
         conn' = [conn EXCEPT ![c].written = n, ![c].pc = p]
  PROVE  /\ conn' \in [Connections -> Conns]
         /\ conn'[c].pc = p
         /\ conn'[c].request = conn[c].request
         /\ conn'[c].written = n
         /\ \A k \in Connections \ {c} : conn'[k] = conn[k]
BY DEF Conns

\* A connection goes to another step.
LEMMA ConnPc ==
  ASSUME conn \in [Connections -> Conns], NEW c \in Connections,
         NEW p \in {"new", "idle", "plan", "lock", "write", "flushed", "closed"},
         conn' = [conn EXCEPT ![c].pc = p]
  PROVE  /\ conn' \in [Connections -> Conns]
         /\ conn'[c].pc = p
         /\ conn'[c].request = conn[c].request
         /\ conn'[c].written = conn[c].written
         /\ \A k \in Connections \ {c} : conn'[k] = conn[k]
BY DEF Conns

\* A connection acquires the free lease (ControllerLease::acquire).
LEMMA AcquireStep ==
  ASSUME IInv, NEW c \in Connections, NEW d \in Daemons, Acquire(c, d)
  PROVE  IInv'
<1> USE DEF IInv
<1>1. /\ conn[c].pc = "new" /\ lease = NoOne /\ lease' = c
      /\ UNCHANGED <<dedup, plans, execution, attach, reply, typed, tenure, answers, requests>>
  BY DEF Acquire
<1>2. /\ conn' \in [Connections -> Conns]
      /\ conn'[c].pc = "idle"
      /\ \A k \in Connections \ {c} : conn'[k] = conn[k]
  BY DEF Acquire, TypeInv, Conns
<1>3. TypeInv'
  BY <1>1, <1>2 DEF TypeInv
<1>4. \A k \in Connections : conn[k].pc \notin Working \union {"idle"}
  BY <1>1, NoOneAssumption DEF LeaseInv
<1>5. LeaseInv'
  BY <1>1, <1>2, <1>4 DEF LeaseInv
<1>6. LockInv'
  BY <1>1, <1>2 DEF LockInv
<1>7. FragmentInv'
  BY <1>1, <1>2 DEF FragmentInv, PlanFragment
<1>8. InputInv'
  BY <1>1, <1>2, <1>4, InputKept DEF Working
<1> QED BY <1>3, <1>5, <1>6, <1>7, <1>8

\* A connection ends and frees the lease.
LEMMA EndStep ==
  ASSUME IInv, NEW c \in Connections, End(c)
  PROVE  IInv'
<1> USE DEF IInv
<1>1. /\ conn[c].pc = "idle" /\ conn' = [conn EXCEPT ![c].pc = "closed"]
      /\ lease' = IF lease = c THEN NoOne ELSE lease
      /\ UNCHANGED <<dedup, plans, execution, attach, reply, typed, tenure, answers, requests>>
  BY DEF End
<1>2. /\ conn' \in [Connections -> Conns]
      /\ conn'[c].pc = "closed"
      /\ \A k \in Connections \ {c} : conn'[k] = conn[k]
  BY <1>1, ConnPc DEF TypeInv
<1>3. TypeInv'
  BY <1>1, <1>2 DEF TypeInv
<1>4. \A k \in Connections : conn'[k].pc \notin Working \union {"idle"}
  BY <1>1, <1>2, Alone DEF Working
<1>5. LeaseInv'
  BY <1>4 DEF LeaseInv
<1>6. LockInv'
  BY <1>1, <1>2 DEF LockInv
<1>7. FragmentInv'
  BY <1>1, <1>2 DEF FragmentInv, PlanFragment
<1>8. InputInv'
  BY <1>1, <1>4, InputKept
<1> QED BY <1>3, <1>5, <1>6, <1>7, <1>8

\* The plan lock is taken.
LEMMA LockPlanStep ==
  ASSUME IInv, NEW c \in Connections, LockPlan(c)
  PROVE  IInv'
<1> USE DEF IInv
<1>1. /\ conn[c].pc = "plan" /\ plans' = c /\ conn' = [conn EXCEPT ![c].pc = "lock"]
      /\ UNCHANGED <<lease, dedup, execution, attach, reply, typed, tenure, answers, requests>>
  BY DEF LockPlan
<1>2. /\ conn' \in [Connections -> Conns]
      /\ conn'[c].pc = "lock"
      /\ conn'[c].request = conn[c].request
      /\ conn'[c].written = conn[c].written
      /\ \A k \in Connections \ {c} : conn'[k] = conn[k]
  BY <1>1, ConnPc DEF TypeInv
<1>3. TypeInv'
  BY <1>1, <1>2 DEF TypeInv
<1>4. LeaseInv'
  BY <1>1, <1>2 DEF LeaseInv, Working
<1>5. LockInv'
  BY <1>1, <1>2 DEF LockInv
<1>6. FragmentInv'
  BY <1>1, <1>2 DEF FragmentInv, PlanFragment
<1>7. InputInv'
  BY <1>1, <1>2, InputKept DEF Working
<1> QED BY <1>3, <1>4, <1>5, <1>6, <1>7

\* The kinds of writers do not overlap.
LEMMA WritersDistinct ==
  /\ \A c \in Connections : c # NoOne /\ c # ReplyTask /\ c \notin Streams
  /\ \A s \in Streams : s # NoOne /\ s # ReplyTask /\ s \notin Connections
  /\ ReplyTask # NoOne
BY NoOneAssumption, WritersAssumption DEF NoOne, ReplyTask

\* The execution lock is taken for the next fragment.
LEMMA LockExecutionStep ==
  ASSUME IInv, NEW c \in Connections, LockExecution(c)
  PROVE  IInv'
<1> USE DEF IInv
<1>1. /\ conn[c].pc = "lock" /\ execution = NoOne /\ execution' = c
      /\ conn' = [conn EXCEPT ![c].pc = "write"]
      /\ UNCHANGED <<lease, dedup, plans, attach, reply, typed, tenure, answers, requests>>
  BY DEF LockExecution
<1>2. /\ conn' \in [Connections -> Conns]
      /\ conn'[c].pc = "write"
      /\ conn'[c].request = conn[c].request
      /\ conn'[c].written = conn[c].written
      /\ \A k \in Connections \ {c} : conn'[k] = conn[k]
  BY <1>1, ConnPc DEF TypeInv
<1>3. TypeInv'
  BY <1>1, <1>2 DEF TypeInv, Writers
<1>4. LeaseInv'
  BY <1>1, <1>2 DEF LeaseInv, Working
<1>5. LockInv'
  BY <1>1, <1>2, WritersDistinct DEF LockInv
<1>6. conn[c].written % FragmentBytes = 0
  BY <1>1 DEF FragmentInv, PlanFragment
<1>7. PlanFragment(conn'[c], c, typed, tenure)
  BY <1>2, <1>6 DEF PlanFragment
<1>8. FragmentInv'
  BY <1>1, <1>2, <1>7 DEF FragmentInv
<1>9. InputInv'
  BY <1>1, <1>2, InputKept DEF Working
<1> QED BY <1>3, <1>4, <1>5, <1>8, <1>9

\* A fragment is complete, and the lock is free over its delay.
LEMMA EndFragmentStep ==
  ASSUME IInv, NEW c \in Connections, EndFragment(c)
  PROVE  IInv'
<1> USE DEF IInv
<1>1. /\ conn[c].pc = "flushed" /\ execution' = NoOne
      /\ conn' = [conn EXCEPT ![c].pc = "lock"]
      /\ UNCHANGED <<lease, dedup, plans, attach, reply, typed, tenure, answers, requests>>
  BY DEF EndFragment
<1>2. /\ conn' \in [Connections -> Conns]
      /\ conn'[c].pc = "lock"
      /\ conn'[c].request = conn[c].request
      /\ conn'[c].written = conn[c].written
      /\ \A k \in Connections \ {c} : conn'[k] = conn[k]
  BY <1>1, ConnPc DEF TypeInv
<1>3. TypeInv'
  BY <1>1, <1>2 DEF TypeInv
<1>4. LeaseInv'
  BY <1>1, <1>2 DEF LeaseInv, Working
<1>5. execution = c
  BY <1>1 DEF LockInv
<1>6. LockInv'
  BY <1>1, <1>2, <1>5, WritersDistinct DEF LockInv
<1>7. PlanFragment(conn'[c], c, typed, tenure)
  BY <1>1, <1>2 DEF FragmentInv, PlanFragment
<1>8. FragmentInv'
  BY <1>1, <1>2, <1>7 DEF FragmentInv
<1>9. InputInv'
  BY <1>1, <1>2, InputKept DEF Working
<1> QED BY <1>3, <1>4, <1>6, <1>8, <1>9

\* One more byte of a plan: it is new, since the bytes typed so far are exactly
\* the counted prefix; it follows the last byte of its fragment; and no answer
\* was given for its write yet (write_within).
LEMMA WriteStep ==
  ASSUME IInv, NEW c \in Connections, Write(c)
  PROVE  IInv'
<1> USE DEF IInv
<1> DEFINE w == conn[c].written
           i == conn[c].request.id
           x == [by |-> c, tenure |-> tenure, id |-> i, byte |-> w + 1]
<1>1. /\ conn[c].pc = "write" /\ typed' = Append(typed, x)
      /\ UNCHANGED <<lease, dedup, plans, execution, attach, reply, tenure, answers, requests>>
  BY DEF Write
<1>2. /\ conn' \in [Connections -> Conns]
      /\ conn'[c].pc = IF (w + 1) % FragmentBytes = 0 THEN "flushed" ELSE "write"
      /\ conn'[c].request = conn[c].request
      /\ conn'[c].written = w + 1
      /\ \A k \in Connections \ {c} : conn'[k] = conn[k]
  <2>1. conn \in [Connections -> Conns] /\ conn[c].pc = "write" /\ w + 1 \in Nat
    BY <1>1 DEF TypeInv, Conns
  <2>2. CASE (w + 1) % FragmentBytes = 0
    <3>1. conn' = [conn EXCEPT ![c].written = w + 1, ![c].pc = "flushed"]
      BY <2>2 DEF Write
    <3> HIDE DEF w
    <3> QED BY <2>1, <2>2, <3>1, ConnWritten
  <2>3. CASE (w + 1) % FragmentBytes # 0
    <3>1. conn' = [conn EXCEPT ![c].written = w + 1, ![c].pc = "write"]
      BY <2>1, <2>3 DEF Write
    <3> HIDE DEF w
    <3> QED BY <2>1, <2>3, <3>1, ConnWritten
  <2> QED BY <2>2, <2>3
<1>3. RequestOk(conn[c], dedup, typed, tenure) /\ execution = c
  BY <1>1 DEF InputInv, RequestInv, LockInv
<1>4. /\ i \in Ids /\ dedup.entries[i].present /\ dedup.entries[i].result.kind = "pending"
      /\ BytesOf(typed, tenure, i) = 1..w
  BY <1>1, <1>3 DEF RequestOk, Working
<1>5. w \in Nat /\ c \in Writers /\ tenure \in Nat /\ typed \in Seq(TypedByte)
  BY DEF TypeInv, Conns, Writers
<1>6. x \in TypedByte /\ x.by = c /\ x.tenure = tenure /\ x.id = i /\ x.byte = w + 1
  BY <1>4, <1>5 DEF TypedByte
<1>7. LastIs(typed', x) /\ typed' \in Seq(TypedByte)
  BY <1>1, <1>5, <1>6, LastAppend
<1>9. (x.byte - 1) % FragmentBytes # 0 => LastIs(typed, [x EXCEPT !.byte = @ - 1])
  <2>1. [x EXCEPT !.byte = @ - 1] = [by |-> c, tenure |-> tenure, id |-> i, byte |-> w]
    BY <1>5
  <2>2. x.byte - 1 = w
    BY <1>5
  <2> QED BY <1>1, <2>1, <2>2 DEF FragmentInv, PlanFragment
<1>10. w + 1 \notin 1..w /\ 1..(w + 1) = (1..w) \union {w + 1}
  BY <1>5
<1>11. (w + 1) % FragmentBytes # 0 \/ (w + 1) % FragmentBytes = 0
  OBVIOUS
<1> HIDE DEF x, w, i
<1>8. \A t, j : BytesOf(typed', t, j) =
        IF tenure = t /\ i = j THEN BytesOf(typed, t, j) \union {w + 1} ELSE BytesOf(typed, t, j)
  BY <1>1, <1>5, <1>6, BytesAppend
<1>12. TypeInv'
  BY <1>1, <1>2, <1>7 DEF TypeInv
<1>13. LeaseInv'
  BY <1>1, <1>2 DEF LeaseInv, Working
<1>14. LockInv'
  BY <1>1, <1>2, <1>3 DEF LockInv
<1>15. FragmentInv'
  <2>1. Whole(typed')
    BY <1>1, <1>5, <1>6, <1>9, WholeAppend DEF FragmentInv
  <2>2. PlanFragment(conn'[c], c, typed', tenure')
    BY <1>1, <1>2, <1>7 DEF PlanFragment, x, i
  <2>3. ASSUME NEW k \in Connections \ {c} PROVE PlanFragment(conn'[k], k, typed', tenure')
    <3>1. conn[k].pc # "write"
      BY <1>3 DEF LockInv
    <3> QED BY <1>2, <3>1 DEF PlanFragment, FragmentInv
  <2>4. \A s \in Streams : attach[s].pc # "write"
    BY <1>3, WritersDistinct DEF LockInv
  <2>5. reply.pc # "write"
    BY <1>3, WritersDistinct DEF LockInv
  <2> QED BY <1>1, <2>1, <2>2, <2>3, <2>4, <2>5 DEF FragmentInv, OtherFragment
<1>16. Once(typed)'
  BY <1>1, <1>4, <1>5, <1>6, <1>10, OnceAppend DEF InputInv
<1>17. DedupInv'
  <2>1. Started(dedup, i)
    BY <1>4 DEF Started
  <2>2. EntriesTrue(dedup, typed', tenure)
    BY <1>4, <1>8, <2>1 DEF EntriesTrue, InputInv, DedupInv, Truth
  <2>3. \A t \in Nat, j \in Ids : t > tenure => BytesOf(typed', t, j) = {}
    BY <1>5, <1>8 DEF InputInv, DedupInv
  <2> QED BY <1>1, <2>2, <2>3 DEF InputInv, DedupInv
<1>18. RequestInv'
  <2>1. RequestOk(conn'[c], dedup, typed', tenure)
    BY <1>1, <1>2, <1>3, <1>4, <1>8, <1>10 DEF RequestOk, Working, i
  <2>2. \A k \in Connections \ {c} : conn'[k].pc \notin Working
    BY <1>1, <1>2, Alone DEF Working
  <2> QED BY <1>1, <2>1, <2>2 DEF RequestInv, RequestOk
<1>19. AnswerInv'
  <2> SUFFICES ASSUME NEW a \in answers
               PROVE  /\ AnswerOk(a, dedup, typed', tenure)
                      /\ \A k \in Connections : Unanswered(a, conn'[k], tenure)
    BY <1>1 DEF AnswerInv
  <2>1. AnswerOk(a, dedup, typed, tenure) /\ \A k \in Connections : Unanswered(a, conn[k], tenure)
    BY DEF InputInv, AnswerInv
  <2>2. a.tenure = tenure /\ a.id = i => a.result.kind \notin Final
    BY <1>1, <2>1 DEF Unanswered, Working, i
  <2>3. Truth(a.result.kind, a.result.written, a.content, BytesOf(typed', a.tenure, a.id))
    BY <1>8, <2>1, <2>2 DEF Truth, Final, AnswerOk
  <2>4. \A k \in Connections : Unanswered(a, conn'[k], tenure)
    BY <1>1, <1>2, <2>1 DEF Unanswered, Working
  <2> QED BY <2>1, <2>3, <2>4 DEF AnswerOk
<1> QED BY <1>12, <1>13, <1>14, <1>15, <1>16, <1>17, <1>18, <1>19 DEF InputInv

\* Storing an outcome changes the result of one entry only.
LEMMA StoreEffect ==
  ASSUME NEW d \in Dedups, NEW i \in Ids, NEW res \in Result
  PROVE  LET st == [d EXCEPT !.entries[i].result = res]
         IN  /\ st \in Dedups
             /\ st.mode = d.mode /\ st.high_watermark = d.high_watermark /\ st.evicted = d.evicted
             /\ st.entries[i].present <=> d.entries[i].present
             /\ st.entries[i].fingerprint = d.entries[i].fingerprint
             /\ st.entries[i].result = res
             /\ \A j \in Ids \ {i} : st.entries[j] = d.entries[j]
<1> DEFINE e == [d.entries EXCEPT ![i].result = res]
           st == [d EXCEPT !.entries = e]
<1>1. d.entries \in [Ids -> Entries]
  BY DEF Dedups
<1>2. /\ e \in [Ids -> Entries]
      /\ e[i].present <=> d.entries[i].present
      /\ e[i].fingerprint = d.entries[i].fingerprint
      /\ e[i].result = res
      /\ \A j \in Ids \ {i} : e[j] = d.entries[j]
  BY <1>1 DEF Entries
<1> HIDE DEF e
<1>3. /\ st \in Dedups /\ st.entries = e
      /\ st.mode = d.mode /\ st.high_watermark = d.high_watermark /\ st.evicted = d.evicted
  BY <1>2 DEF Dedups
<1> QED BY <1>2, <1>3 DEF e

\* WriteCoordinator::complete drops at most one entry, and a dropped legacy id
\* goes to the filter.
LEMMA CompleteEffect ==
  ASSUME NEW d \in Dedups, NEW i \in Ids
  PROVE  LET e == Complete(d, i)
         IN  /\ e \in Dedups
             /\ e.mode = d.mode /\ e.high_watermark = d.high_watermark
             /\ d.evicted \subseteq e.evicted
             /\ \A j \in Ids : \/ e.entries[j] = d.entries[j]
                               \/ e.entries[j] = Absent /\ (d.mode = "legacy" => j \in e.evicted)
<1> DEFINE q == Append(d.completed, i)
           h == Head(q)
           f == [d.entries EXCEPT ![h] = Absent]
<1>1. d.completed \in Seq(Ids) /\ d.entries \in [Ids -> Entries] /\ d.evicted \in SUBSET Ids
  BY DEF Dedups
<1>2. q \in Seq(Ids) /\ q # <<>> /\ h \in Ids /\ Tail(q) \in Seq(Ids)
  BY <1>1
<1>3. Absent \in Entries
  BY DEF Absent, Entries, Result, Pending
<1> HIDE DEF q, h
<1>4. f \in [Ids -> Entries] /\ f[h] = Absent /\ \A j \in Ids \ {h} : f[j] = d.entries[j]
  BY <1>1, <1>2, <1>3
<1> HIDE DEF f
<1>5. CASE ~(Len(q) > Capacity)
  <2>1. Complete(d, i) = [d EXCEPT !.completed = q, !.entries = d.entries, !.evicted = d.evicted]
    BY <1>5 DEF Complete, q
  <2> QED BY <1>1, <1>2, <2>1 DEF Dedups
<1>6. CASE Len(q) > Capacity /\ d.mode = "legacy"
  <2>1. Complete(d, i) = [d EXCEPT !.completed = Tail(q), !.entries = f,
                                   !.evicted = d.evicted \union {h}]
    BY <1>6 DEF Complete, q, h, f
  <2> DEFINE v == d.evicted \union {h}
  <2>2. v \in SUBSET Ids /\ d.evicted \subseteq v /\ h \in v
    BY <1>1, <1>2
  <2> HIDE DEF v
  <2>3. /\ Complete(d, i) \in Dedups /\ Complete(d, i).entries = f /\ Complete(d, i).evicted = v
        /\ Complete(d, i).mode = d.mode /\ Complete(d, i).high_watermark = d.high_watermark
    BY <1>2, <1>4, <2>1, <2>2 DEF Dedups, v
  <2> QED BY <1>4, <2>2, <2>3
<1>7. CASE Len(q) > Capacity /\ d.mode # "legacy"
  <2>1. Complete(d, i) = [d EXCEPT !.completed = Tail(q), !.entries = f, !.evicted = d.evicted]
    BY <1>7 DEF Complete, q, h, f
  <2> QED BY <1>1, <1>2, <1>4, <1>7, <2>1 DEF Dedups
<1> QED BY <1>5, <1>6, <1>7

\* A plan ends: its outcome, true for the bytes typed, is stored and answered,
\* and whatever is evicted stays known as started.
LEMMA FinishStep ==
  ASSUME IInv, NEW c \in Connections, conn[c].pc \in Working,
         NEW res \in Result, res.kind \in Final, Finish(c, res),
         Truth(res.kind, res.written, conn[c].request.content, 1..conn[c].written)
  PROVE  IInv'
<1> USE DEF IInv
<1> DEFINE rq == conn[c].request
           i  == rq.id
           st == [dedup EXCEPT !.entries[i].result = res]
           a0 == [tenure |-> tenure, id |-> i, content |-> rq.content, result |-> res]
<1>1. /\ dedup' = Complete(st, i)
      /\ answers' = answers \union {a0}
      /\ plans' = IF plans = c THEN NoOne ELSE plans
      /\ execution' = IF execution = c THEN NoOne ELSE execution
      /\ UNCHANGED <<lease, attach, reply, typed, tenure, requests>>
  BY DEF Finish
<1>2. /\ conn' \in [Connections -> Conns]
      /\ conn'[c].pc = "idle"
      /\ \A k \in Connections \ {c} : conn'[k] = conn[k]
  <2>1. NoRequest \in Requests
    BY DEF NoRequest, Requests, Modes
  <2>2. conn' = [conn EXCEPT ![c].pc = "idle", ![c].request = NoRequest]
    BY DEF Finish
  <2> QED BY <2>1, <2>2 DEF TypeInv, Conns
<1>3. RequestOk(conn[c], dedup, typed, tenure)
  BY DEF InputInv, RequestInv
<1>4. /\ i \in Ids /\ rq.content \in Content /\ dedup.mode \in {"monotonic", "legacy"}
      /\ dedup.entries[i].present /\ dedup.entries[i].fingerprint = rq.content
      /\ BytesOf(typed, tenure, i) = 1..conn[c].written
  BY <1>3 DEF RequestOk
<1>5. dedup \in Dedups /\ tenure \in Nat
  BY DEF TypeInv
<1>6. /\ a0 \in Answered
      /\ a0.tenure = tenure /\ a0.id = i /\ a0.content = rq.content /\ a0.result = res
  BY <1>4, <1>5 DEF Answered, Result
<1>7. conn[c].pc \in Working \union {"idle"}
  OBVIOUS
<1>8. \A k \in Connections : conn'[k].pc \notin Working
  BY <1>2, <1>7, Alone DEF Working
<1> HIDE DEF a0, i, rq
<1>9. /\ st \in Dedups
      /\ st.mode = dedup.mode /\ st.high_watermark = dedup.high_watermark /\ st.evicted = dedup.evicted
      /\ st.entries[i].present <=> dedup.entries[i].present
      /\ st.entries[i].fingerprint = dedup.entries[i].fingerprint
      /\ st.entries[i].result = res
      /\ \A j \in Ids \ {i} : st.entries[j] = dedup.entries[j]
  BY <1>4, <1>5, StoreEffect
<1> HIDE DEF st
<1>10. /\ dedup' \in Dedups
       /\ dedup'.mode = st.mode /\ dedup'.high_watermark = st.high_watermark
       /\ st.evicted \subseteq dedup'.evicted
       /\ \A j \in Ids : \/ dedup'.entries[j] = st.entries[j]
                         \/ dedup'.entries[j] = Absent /\ (st.mode = "legacy" => j \in dedup'.evicted)
  BY <1>1, <1>4, <1>9, CompleteEffect
<1>11. ~Absent.present
  BY DEF Absent
<1>12. DedupOk(dedup) /\ EntriesTrue(dedup, typed, tenure)
  BY DEF InputInv, DedupInv
<1>13. \A j \in Ids : st.entries[j].present <=> dedup.entries[j].present
  BY <1>9
<1>14. ASSUME NEW j \in Ids PROVE Started(dedup, j) => Started(dedup', j)
  <2>1. CASE dedup'.entries[j] = st.entries[j]
    BY <1>9, <1>10, <1>13, <2>1 DEF Started
  <2>2. CASE dedup'.entries[j] = Absent /\ (st.mode = "legacy" => j \in dedup'.evicted)
    BY <1>4, <1>9, <1>10, <1>12, <2>2 DEF Started, DedupOk
  <2> QED BY <1>10, <2>1, <2>2
<1>15. Started(dedup', i)
  BY <1>4, <1>14 DEF Started
<1>16. DedupOk(dedup')
  BY <1>4, <1>9, <1>10, <1>11, <1>12, <1>13 DEF DedupOk
<1>17. EntriesTrue(dedup', typed, tenure)
  <2> SUFFICES ASSUME NEW j \in Ids
               PROVE  /\ ~Started(dedup', j) => BytesOf(typed, tenure, j) = {}
                      /\ dedup'.entries[j].present =>
                           Truth(dedup'.entries[j].result.kind, dedup'.entries[j].result.written,
                                 dedup'.entries[j].fingerprint, BytesOf(typed, tenure, j))
    BY DEF EntriesTrue
  <2>1. ~Started(dedup', j) => BytesOf(typed, tenure, j) = {}
    BY <1>12, <1>14 DEF EntriesTrue
  <2>2. CASE dedup'.entries[j].present /\ j = i
    <3>1. dedup'.entries[j].result = res /\ dedup'.entries[j].fingerprint = rq.content
      BY <1>4, <1>9, <1>10, <1>11, <2>2
    <3>2. Truth(res.kind, res.written, rq.content, BytesOf(typed, tenure, j))
      BY <1>4, <2>2 DEF rq
    <3> QED BY <2>1, <3>1, <3>2
  <2>3. CASE dedup'.entries[j].present /\ j # i
    <3>1. dedup'.entries[j] = dedup.entries[j]
      BY <1>9, <1>10, <1>11, <2>3
    <3> QED BY <1>12, <2>1, <2>3, <3>1 DEF EntriesTrue
  <2> QED BY <2>1, <2>2, <2>3
<1>18. DedupInv'
  BY <1>1, <1>16, <1>17 DEF DedupInv, InputInv
<1>19. RequestInv'
  BY <1>8 DEF RequestInv, RequestOk
<1>20. AnswerInv'
  <2>1. AnswerOk(a0, dedup', typed, tenure)
    BY <1>4, <1>5, <1>6, <1>15 DEF AnswerOk, rq
  <2>2. ASSUME NEW a \in answers PROVE AnswerOk(a, dedup', typed, tenure)
    <3>1. AnswerOk(a, dedup, typed, tenure) /\ a.id \in Ids
      BY DEF InputInv, AnswerInv, TypeInv, Answered
    <3> QED BY <1>14, <3>1 DEF AnswerOk
  <2>3. ASSUME NEW a \in answers', NEW k \in Connections PROVE Unanswered(a, conn'[k], tenure')
    BY <1>8 DEF Unanswered
  <2> QED BY <1>1, <2>1, <2>2, <2>3 DEF AnswerInv
<1>21. TypeInv'
  <2>1. answers' \subseteq Answered
    BY <1>1, <1>6 DEF TypeInv
  <2> QED BY <1>1, <1>2, <1>10, <2>1 DEF TypeInv
<1>22. LeaseInv'
  BY <1>1, <1>2, <1>7, Alone DEF LeaseInv
<1>23. LockInv'
  <2>1. \A k \in Connections : conn'[k].pc \notin {"write", "flushed"}
    BY <1>8 DEF Working
  <2> QED BY <1>1, <2>1, WritersDistinct DEF LockInv
<1>24. FragmentInv'
  <2>1. \A k \in Connections : PlanFragment(conn'[k], k, typed', tenure')
    BY <1>8 DEF PlanFragment, Working
  <2> QED BY <1>1, <2>1 DEF FragmentInv
<1>25. Once(typed)'
  BY <1>1 DEF InputInv
<1> QED BY <1>18, <1>19, <1>20, <1>21, <1>22, <1>23, <1>24, <1>25 DEF InputInv

\* A lock was not free within the stall.
LEMMA StallOnLockStep ==
  ASSUME IInv, NEW c \in Connections, StallOnLock(c)
  PROVE  IInv'
<1> DEFINE res == [kind |-> "stalled", written |-> conn[c].written]
<1>1. conn[c].written \in Nat
  BY DEF IInv, TypeInv, Conns
<1>2. conn[c].pc \in Working /\ Finish(c, res)
  BY DEF StallOnLock, Working
<1>3. res \in Result /\ res.kind \in Final
  BY <1>1 DEF Result, Final
<1>4. Truth(res.kind, res.written, conn[c].request.content, 1..conn[c].written)
  BY DEF Truth
<1> QED BY <1>2, <1>3, <1>4, FinishStep

\* The PTY stalls or fails: the counted prefix is what it got.
LEMMA FailWriteStep ==
  ASSUME IInv, NEW c \in Connections, FailWrite(c)
  PROVE  IInv'
<1>1. conn[c].pc \in Working
  BY DEF FailWrite, Working
<1>2. PICK kind \in {"stalled", "io"} : Finish(c, [kind |-> kind, written |-> conn[c].written])
  BY DEF FailWrite
<1> DEFINE res == [kind |-> kind, written |-> conn[c].written]
<1>3. conn[c].written \in Nat
  BY DEF IInv, TypeInv, Conns
<1>4. res \in Result /\ res.kind \in Final
  BY <1>3 DEF Result, Final
<1>5. Truth(res.kind, res.written, conn[c].request.content, 1..conn[c].written)
  BY DEF Truth
<1> QED BY <1>1, <1>2, <1>4, <1>5, FinishStep

\* A plan is complete: every byte was typed.
LEMMA EndPlanStep ==
  ASSUME IInv, NEW c \in Connections, EndPlan(c)
  PROVE  IInv'
<1> DEFINE res == [kind |-> "ok", written |-> conn[c].written]
<1>1. conn[c].written \in Nat
  BY DEF IInv, TypeInv, Conns
<1>2. conn[c].pc \in Working /\ Finish(c, res)
  BY DEF EndPlan, Working
<1>3. res \in Result /\ res.kind \in Final
  BY <1>1 DEF Result, Final
<1>4. Truth(res.kind, res.written, conn[c].request.content, 1..conn[c].written)
  BY DEF Truth, EndPlan
<1> QED BY <1>2, <1>3, <1>4, FinishStep

\* A dedup state that was just reset.
Fresh(d, mode) ==
  /\ d.mode = mode
  /\ d.high_watermark = 0
  /\ d.evicted = {}
  /\ \A i \in Ids : d.entries[i] = Absent

\* DedupState::select_namespace keeps the state of the same namespace and mode,
\* and resets it for another.
LEMMA SelectEffect ==
  ASSUME dedup \in Dedups, NEW n \in Connections \union Daemons \union {NoOne},
         NEW mode \in {"monotonic", "legacy"}
  PROVE  LET st == SelectNamespace(n, mode)
         IN  /\ st \in Dedups
             /\ st.mode = mode
             /\ st = dedup \/ Fresh(st, mode)
<1>1. CASE dedup.namespace = n /\ dedup.mode = mode
  BY <1>1 DEF SelectNamespace
<1>2. CASE ~(dedup.namespace = n /\ dedup.mode = mode)
  <2> DEFINE e  == [i \in Ids |-> Absent]
             st == [namespace |-> n, mode |-> mode, entries |-> e, completed |-> <<>>,
                    high_watermark |-> 0, evicted |-> {}]
  <2>1. SelectNamespace(n, mode) = st
    BY <1>2 DEF SelectNamespace
  <2>2. Absent \in Entries
    BY DEF Absent, Entries, Result, Pending
  <2>3. e \in [Ids -> Entries] /\ \A i \in Ids : e[i] = Absent
    BY <2>2
  <2> HIDE DEF e
  <2>4. st \in Dedups
    BY <2>3 DEF Dedups, Modes
  <2>5. Fresh(st, mode)
    BY <2>3 DEF Fresh
  <2> QED BY <2>1, <2>4, <2>5
<1> QED BY <1>1, <1>2

\* Selecting a namespace, with the tenure it begins, keeps what is known: a new
\* tenure has no bytes and no answers.
LEMMA SelectKept ==
  ASSUME TypeInv, InputInv, NEW st \in Dedups, NEW mode \in {"monotonic", "legacy"},
         st = dedup \/ Fresh(st, mode),
         tenure' = IF st = dedup THEN tenure ELSE tenure + 1
  PROVE  /\ tenure' \in Nat /\ tenure <= tenure'
         /\ DedupOk(st)
         /\ EntriesTrue(st, typed, tenure')
         /\ \A t \in Nat, i \in Ids : t > tenure' => BytesOf(typed, t, i) = {}
         /\ \A a \in answers : AnswerOk(a, st, typed, tenure')
<1>1. tenure \in Nat /\ typed \in Seq(TypedByte)
  BY DEF TypeInv
<1>2. CASE st = dedup
  BY <1>1, <1>2 DEF InputInv, DedupInv, AnswerInv
<1>3. CASE st # dedup
  <2>1. tenure' = tenure + 1 /\ tenure' \in Nat /\ tenure' > tenure
    BY <1>1, <1>3
  <2>2. Fresh(st, mode) /\ \A i \in Ids : ~st.entries[i].present
    <3>1. ~Absent.present
      BY DEF Absent
    <3> QED BY <1>3, <3>1 DEF Fresh
  <2>3. \A t \in Nat, i \in Ids : t > tenure => BytesOf(typed, t, i) = {}
    BY DEF InputInv, DedupInv
  <2>4. DedupOk(st)
    BY <2>2 DEF DedupOk
  <2>5. EntriesTrue(st, typed, tenure')
    BY <2>1, <2>2, <2>3 DEF EntriesTrue
  <2>6. \A t \in Nat, i \in Ids : t > tenure' => BytesOf(typed, t, i) = {}
    BY <1>1, <2>1, <2>3
  <2>7. ASSUME NEW a \in answers PROVE AnswerOk(a, st, typed, tenure')
    <3>1. AnswerOk(a, dedup, typed, tenure) /\ a.tenure \in Nat
      BY DEF InputInv, AnswerInv, TypeInv, Answered
    <3>2. a.tenure <= tenure' /\ a.tenure # tenure'
      BY <1>1, <2>1, <3>1 DEF AnswerOk
    <3> QED BY <3>1, <3>2 DEF AnswerOk
  <2> QED BY <1>1, <2>1, <2>4, <2>5, <2>6, <2>7
<1> QED BY <1>2, <1>3

\* A write is entered: it becomes started, and every write that was stays so.
LEMMA StartEffect ==
  ASSUME NEW d \in Dedups, NEW i \in Ids, NEW content \in Content,
         NEW mode \in {"monotonic", "legacy"}, d.mode = mode, ~Started(d, i),
         dedup' = [d EXCEPT !.entries[i] = [present |-> TRUE, fingerprint |-> content,
                                            result |-> Pending],
                                !.high_watermark = IF mode = "monotonic" THEN i ELSE @]
  PROVE  /\ dedup' \in Dedups /\ dedup'.mode = mode
         /\ dedup'.entries[i].present /\ dedup'.entries[i].fingerprint = content
         /\ dedup'.entries[i].result.kind = "pending"
         /\ \A j \in Ids \ {i} : dedup'.entries[j] = d.entries[j]
         /\ DedupOk(d) => DedupOk(dedup')
         /\ \A j \in Ids : Started(d, j) => Started(dedup', j)
<1> DEFINE x == [present |-> TRUE, fingerprint |-> content, result |-> Pending]
           e == [d.entries EXCEPT ![i] = x]
           h == IF mode = "monotonic" THEN i ELSE d.high_watermark
<1>1. d.entries \in [Ids -> Entries] /\ d.high_watermark \in Nat /\ Ids \subseteq Nat
  BY IdsAssumption DEF Dedups
<1>2. content \in Nat
  BY PlanAssumption DEF Content
<1>3. x \in Entries /\ x.present /\ x.fingerprint = content /\ x.result.kind = "pending"
  BY <1>2 DEF Entries, Result, Pending
<1> HIDE DEF x
<1>4. e \in [Ids -> Entries] /\ e[i] = x /\ \A j \in Ids \ {i} : e[j] = d.entries[j]
  BY <1>1, <1>3
<1>5. h \in Nat /\ (mode = "monotonic" => h = i)
  BY <1>1
<1>6. dedup' = [d EXCEPT !.entries = e, !.high_watermark = h]
  BY DEF x
<1> HIDE DEF e, h
<1>7. /\ dedup' \in Dedups /\ dedup'.mode = mode /\ dedup'.entries = e
      /\ dedup'.high_watermark = h /\ dedup'.evicted = d.evicted
  BY <1>4, <1>5, <1>6 DEF Dedups
<1>8. mode = "monotonic" => ~(i <= d.high_watermark)
  BY DEF Started
<1>9. ASSUME NEW j \in Ids, j <= d.high_watermark, mode = "monotonic" PROVE j <= h
  BY <1>1, <1>5, <1>8, <1>9
<1>10. ASSUME DedupOk(d) PROVE DedupOk(dedup')
  <2>1. dedup'.mode # "none"
    BY <1>7
  <2>2. ASSUME NEW j \in Ids, mode = "monotonic", dedup'.entries[j].present
        PROVE  j <= dedup'.high_watermark
    <3>1. CASE j = i
      BY <1>1, <1>5, <1>7, <2>2, <3>1
    <3>2. CASE j # i
      BY <1>4, <1>7, <1>9, <1>10, <2>2, <3>2 DEF DedupOk
    <3> QED BY <3>1, <3>2
  <2> QED BY <1>7, <2>1, <2>2 DEF DedupOk
<1>11. ASSUME NEW j \in Ids, Started(d, j) PROVE Started(dedup', j)
  <2>1. CASE j = i
    BY <1>3, <1>4, <1>7, <2>1 DEF Started
  <2>2. CASE j # i
    BY <1>4, <1>7, <1>9, <1>11, <2>2 DEF Started
  <2> QED BY <2>1, <2>2
<1> QED BY <1>3, <1>4, <1>7, <1>10, <1>11

\* A request is refused, answered from the stored outcome, or started; it is
\* started only if nothing of it was typed (execute_control, execute_legacy).
LEMMA RequestStep ==
  ASSUME IInv, NEW c \in Connections, NEW mode \in {"monotonic", "legacy"}, NEW id \in Ids,
         NEW content \in Content, Request(c, mode, id, content)
  PROVE  IInv'
<1> USE DEF IInv
<1> DEFINE ns == IF mode = "monotonic" THEN c ELSE conn[c].daemon
           st == SelectNamespace(ns, mode)
           rq == [mode |-> mode, id |-> id, content |-> content]
           MayStart == /\ mode = "monotonic" => ~(id <= st.high_watermark)
                       /\ mode # "monotonic" => id \notin st.evicted
<1>1. /\ conn[c].pc = "idle" /\ lease = c
      /\ requests < MaxRequests /\ requests' = requests + 1
      /\ tenure' = IF st = dedup THEN tenure ELSE tenure + 1
      /\ UNCHANGED <<lease, execution, attach, reply, typed>>
  BY DEF Request
<1>2. \/ Answer(c, st, rq, [kind |-> "conflict", written |-> 0])
      \/ /\ st.entries[id].present /\ st.entries[id].fingerprint = content
         /\ Answer(c, st, rq, st.entries[id].result)
      \/ Answer(c, st, rq, [kind |-> "unknown", written |-> 0])
      \/ ~st.entries[id].present /\ MayStart /\ Start(c, st, rq)
  <2>1. CASE st.entries[id].present /\ st.entries[id].fingerprint # content
    BY <2>1 DEF Request
  <2>2. CASE st.entries[id].present /\ st.entries[id].fingerprint = content
    BY <2>2 DEF Request
  <2>3. CASE ~st.entries[id].present
    <3>1. PICK maybe \in MaybeExecuted(st, rq) :
            IF maybe THEN Answer(c, st, rq, [kind |-> "unknown", written |-> 0])
            ELSE Start(c, st, rq)
      BY <2>3 DEF Request
    <3>2. CASE mode = "monotonic"
      <4>1. maybe = (id <= st.high_watermark)
        BY <3>1, <3>2 DEF MaybeExecuted
      <4> QED BY <2>3, <3>1, <3>2, <4>1
    <3>3. CASE mode # "monotonic"
      <4>1. maybe = (id \in st.evicted) \/ maybe
        BY <3>1, <3>3 DEF MaybeExecuted
      <4> QED BY <2>3, <3>1, <3>3, <4>1
    <3> QED BY <3>2, <3>3
  <2> QED BY <2>1, <2>2, <2>3
<1>3. ns \in Connections \union Daemons \union {NoOne}
  BY DEF TypeInv, Conns
<1>4. dedup \in Dedups /\ conn \in [Connections -> Conns]
  BY DEF TypeInv
<1> HIDE DEF ns
<1>5. st \in Dedups /\ st.mode = mode /\ (st = dedup \/ Fresh(st, mode))
  BY <1>3, <1>4, SelectEffect
<1> HIDE DEF st
<1>6. /\ tenure' \in Nat /\ tenure <= tenure'
      /\ DedupOk(st)
      /\ EntriesTrue(st, typed, tenure')
      /\ \A t \in Nat, i \in Ids : t > tenure' => BytesOf(typed, t, i) = {}
      /\ \A a \in answers : AnswerOk(a, st, typed, tenure')
  BY <1>1, <1>5, SelectKept
<1>7. \A k \in Connections : conn[k].pc \notin Working
  BY <1>1, Alone DEF Working
<1>8. requests' \in 0..MaxRequests
  BY <1>1, BoundsAssumption DEF TypeInv
<1>9. ASSUME conn' = conn PROVE LeaseInv' /\ LockInv' /\ FragmentInv'
  <2>1. LeaseInv'
    BY <1>1, <1>9 DEF LeaseInv
  <2>2. LockInv'
    BY <1>1, <1>9 DEF LockInv
  <2>3. \A k \in Connections : PlanFragment(conn'[k], k, typed', tenure')
    BY <1>7, <1>9 DEF PlanFragment, Working
  <2> QED BY <1>1, <2>1, <2>2, <2>3 DEF FragmentInv
<1>10. ASSUME NEW res \in [kind : {"pending", "ok", "stalled", "io", "conflict", "unknown"},
                           written : Nat],
              Answer(c, st, rq, res),
              Truth(res.kind, res.written, content, BytesOf(typed, tenure', id)),
              res.kind \in Final => Started(st, id)
       PROVE  IInv'
  <2> DEFINE a0 == [tenure |-> tenure', id |-> id, content |-> content, result |-> res]
  <2>1. dedup' = st /\ answers' = answers \union {a0} /\ UNCHANGED <<conn, plans>>
    BY <1>10 DEF Answer
  <2>2. /\ a0 \in Answered
        /\ a0.tenure = tenure' /\ a0.id = id /\ a0.content = content /\ a0.result = res
    BY <1>6 DEF Answered
  <2> HIDE DEF a0
  <2>3. AnswerOk(a0, st, typed, tenure')
    BY <1>6, <1>10, <2>2 DEF AnswerOk
  <2>4. ASSUME NEW a \in answers', NEW k \in Connections PROVE Unanswered(a, conn'[k], tenure')
    BY <1>7, <2>1 DEF Unanswered
  <2>5. AnswerInv'
    BY <1>1, <1>6, <2>1, <2>3, <2>4 DEF AnswerInv
  <2>6. DedupInv' /\ RequestInv' /\ Once(typed)'
    BY <1>1, <1>6, <1>7, <2>1 DEF DedupInv, RequestInv, RequestOk, InputInv
  <2>7. answers' \subseteq Answered
    BY <2>1, <2>2 DEF TypeInv
  <2>8. TypeInv'
    BY <1>1, <1>5, <1>6, <1>8, <2>1, <2>7 DEF TypeInv
  <2> QED BY <1>9, <2>1, <2>5, <2>6, <2>8 DEF InputInv
<1>11. CASE Answer(c, st, rq, [kind |-> "conflict", written |-> 0])
  BY <1>10, <1>11 DEF Truth, Final
<1>12. CASE Answer(c, st, rq, [kind |-> "unknown", written |-> 0])
  BY <1>10, <1>12 DEF Truth, Final
<1>13. CASE /\ st.entries[id].present /\ st.entries[id].fingerprint = content
            /\ Answer(c, st, rq, st.entries[id].result)
  <2>1. st.entries[id].result \in Result
    BY <1>5 DEF Dedups, Entries
  <2>2. Started(st, id)
    BY <1>13 DEF Started
  <2>3. Truth(st.entries[id].result.kind, st.entries[id].result.written, content,
              BytesOf(typed, tenure', id))
    BY <1>6, <1>13 DEF EntriesTrue
  <2>4. st.entries[id].result \in [kind : {"pending", "ok", "stalled", "io", "conflict", "unknown"},
                                   written : Nat]
    BY <2>1 DEF Result
  <2> QED BY <1>10, <1>13, <2>2, <2>3, <2>4
<1>14. CASE ~st.entries[id].present /\ MayStart /\ Start(c, st, rq)
  <2>1. ~Started(st, id)
    BY <1>5, <1>14 DEF Started
  <2>2. /\ dedup' = [st EXCEPT !.entries[id] = [present |-> TRUE, fingerprint |-> content,
                                                result |-> Pending],
                               !.high_watermark = IF mode = "monotonic" THEN id ELSE @]
        /\ conn' = [conn EXCEPT ![c].pc = "plan", ![c].request = rq, ![c].written = 0]
        /\ UNCHANGED <<plans, answers>>
    BY <1>14 DEF Start
  <2>3. rq \in Requests /\ rq.id = id /\ rq.content = content
    BY DEF Requests, Modes
  <2> HIDE DEF rq
  <2>4. /\ conn' \in [Connections -> Conns]
        /\ conn'[c].pc = "plan" /\ conn'[c].request = rq /\ conn'[c].written = 0
        /\ \A k \in Connections \ {c} : conn'[k] = conn[k]
    BY <1>4, <2>2, <2>3 DEF Conns
  <2>5. /\ dedup' \in Dedups /\ dedup'.mode = mode
        /\ dedup'.entries[id].present /\ dedup'.entries[id].fingerprint = content
        /\ dedup'.entries[id].result.kind = "pending"
        /\ \A j \in Ids \ {id} : dedup'.entries[j] = st.entries[j]
        /\ DedupOk(st) => DedupOk(dedup')
        /\ \A j \in Ids : Started(st, j) => Started(dedup', j)
    BY <1>5, <2>1, <2>2, StartEffect, ZenonT(60)
  <2>6. BytesOf(typed, tenure', id) = {} /\ 1..0 = {}
    BY <1>6, <2>1 DEF EntriesTrue
  <2>7. EntriesTrue(dedup', typed, tenure')
    <3> SUFFICES ASSUME NEW j \in Ids
                 PROVE  /\ ~Started(dedup', j) => BytesOf(typed, tenure', j) = {}
                        /\ dedup'.entries[j].present =>
                             Truth(dedup'.entries[j].result.kind, dedup'.entries[j].result.written,
                                   dedup'.entries[j].fingerprint, BytesOf(typed, tenure', j))
      BY DEF EntriesTrue
    <3>1. ~Started(dedup', j) => BytesOf(typed, tenure', j) = {}
      BY <1>6, <2>5 DEF EntriesTrue
    <3>2. CASE j = id
      BY <2>5, <3>1, <3>2 DEF Truth
    <3>3. CASE j # id
      BY <1>6, <2>5, <3>1, <3>3 DEF EntriesTrue
    <3> QED BY <3>2, <3>3
  <2>8. DedupInv'
    BY <1>1, <1>6, <2>5, <2>7 DEF DedupInv
  <2>9. RequestInv'
    <3>1. RequestOk(conn'[c], dedup', typed', tenure')
      BY <1>1, <2>3, <2>4, <2>5, <2>6 DEF RequestOk
    <3>2. \A k \in Connections \ {c} : RequestOk(conn'[k], dedup', typed', tenure')
      BY <1>7, <2>4 DEF RequestOk
    <3> QED BY <3>1, <3>2 DEF RequestInv
  <2>10. AnswerInv'
    <3> SUFFICES ASSUME NEW a \in answers
                 PROVE  /\ AnswerOk(a, dedup', typed', tenure')
                        /\ \A k \in Connections : Unanswered(a, conn'[k], tenure')
      BY <2>2 DEF AnswerInv
    <3>1. AnswerOk(a, st, typed, tenure') /\ a.id \in Ids
      BY <1>6 DEF TypeInv, Answered
    <3>2. AnswerOk(a, dedup', typed', tenure')
      BY <1>1, <2>5, <3>1 DEF AnswerOk
    <3>3. a.tenure = tenure' /\ a.result.kind \in Final => a.id # id
      BY <2>1, <3>1 DEF AnswerOk
    <3>4. Unanswered(a, conn'[c], tenure')
      BY <2>3, <2>4, <3>3 DEF Unanswered
    <3>5. \A k \in Connections \ {c} : Unanswered(a, conn'[k], tenure')
      BY <1>7, <2>4 DEF Unanswered
    <3> QED BY <3>2, <3>4, <3>5
  <2>11. TypeInv'
    BY <1>1, <1>6, <1>8, <2>2, <2>4, <2>5 DEF TypeInv
  <2>12. LeaseInv'
    BY <1>1, <2>4, Alone DEF LeaseInv
  <2>13. LockInv'
    BY <1>1, <2>4 DEF LockInv
  <2>14. FragmentInv'
    <3>1. PlanFragment(conn'[c], c, typed', tenure')
      BY <2>4, ZeroMod DEF PlanFragment
    <3>2. \A k \in Connections \ {c} : PlanFragment(conn'[k], k, typed', tenure')
      BY <1>7, <2>4 DEF PlanFragment, Working
    <3> QED BY <1>1, <3>1, <3>2 DEF FragmentInv
  <2>15. Once(typed)'
    BY <1>1 DEF InputInv
  <2> QED BY <2>8, <2>9, <2>10, <2>11, <2>12, <2>13, <2>14, <2>15 DEF InputInv
<1> QED BY <1>2, <1>11, <1>12, <1>13, <1>14

\* An attach frame arrives.
LEMMA StreamFrameStep ==
  ASSUME IInv, NEW s \in Streams, StreamFrame(s)
  PROVE  IInv'
<1> USE DEF IInv
<1>1. /\ attach[s].pc = "new"
      /\ UNCHANGED <<lease, conn, dedup, plans, execution, reply, typed, tenure, answers, requests>>
  BY DEF StreamFrame
<1>2. /\ attach' \in [Streams -> Attaches]
      /\ attach'[s].pc = "lock" /\ attach'[s].written = attach[s].written
      /\ \A k \in Streams \ {s} : attach'[k] = attach[k]
  BY DEF StreamFrame, TypeInv, Attaches
<1>3. TypeInv'
  BY <1>1, <1>2 DEF TypeInv
<1>4. LeaseInv' /\ LockInv'
  BY <1>1, <1>2 DEF LeaseInv, LockInv
<1>5. FragmentInv'
  BY <1>1, <1>2 DEF FragmentInv, OtherFragment
<1>6. InputInv'
  BY <1>1, InputKept
<1> QED BY <1>3, <1>4, <1>5, <1>6

\* An attach frame gets the execution lock.
LEMMA StreamLockStep ==
  ASSUME IInv, NEW s \in Streams, StreamLock(s)
  PROVE  IInv'
<1> USE DEF IInv
<1>1. /\ attach[s].pc = "lock" /\ execution = NoOne /\ execution' = s
      /\ UNCHANGED <<lease, conn, dedup, plans, reply, typed, tenure, answers, requests>>
  BY DEF StreamLock
<1>2. /\ attach' \in [Streams -> Attaches]
      /\ attach'[s].pc = "write" /\ attach'[s].written = attach[s].written
      /\ \A k \in Streams \ {s} : attach'[k] = attach[k]
  BY DEF StreamLock, TypeInv, Attaches
<1>3. TypeInv'
  BY <1>1, <1>2 DEF TypeInv, Writers
<1>4. LeaseInv' /\ LockInv'
  BY <1>1, <1>2, WritersDistinct DEF LeaseInv, LockInv
<1>5. FragmentInv'
  BY <1>1, <1>2 DEF FragmentInv, OtherFragment
<1>6. InputInv'
  BY <1>1, InputKept
<1> QED BY <1>3, <1>4, <1>5, <1>6

\* A byte of a frame or reply begins it or follows its last byte.
LEMMA OtherByte ==
  ASSUME TypeInv, NEW r, NEW w \in Streams \union {ReplyTask}, r.pc = "write", r.written \in Nat,
         OtherFragment(r, w, typed), Whole(typed),
         typed' = Append(typed, [by |-> w, tenure |-> 0, id |-> 0, byte |-> r.written + 1])
  PROVE  /\ [by |-> w, tenure |-> 0, id |-> 0, byte |-> r.written + 1] \in TypedByte
         /\ typed' \in Seq(TypedByte)
         /\ Whole(typed')
         /\ LastIs(typed', [by |-> w, tenure |-> 0, id |-> 0, byte |-> r.written + 1])
<1> DEFINE x == [by |-> w, tenure |-> 0, id |-> 0, byte |-> r.written + 1]
<1>1. x \in TypedByte
  BY DEF TypedByte, Writers
<1>2. [x EXCEPT !.byte = @ - 1] = [by |-> w, tenure |-> 0, id |-> 0, byte |-> r.written]
  OBVIOUS
<1>3. x.byte - 1 = r.written
  OBVIOUS
<1>4. (x.byte - 1) % FragmentBytes # 0 => LastIs(typed, [x EXCEPT !.byte = @ - 1])
  BY <1>2, <1>3, ZeroMod DEF OtherFragment
<1> HIDE DEF x
<1>5. typed \in Seq(TypedByte) /\ typed' = Append(typed, x)
  BY DEF TypeInv, x
<1>6. LastIs(typed', x) /\ typed' \in Seq(TypedByte)
  BY <1>1, <1>5, LastAppend
<1>7. Whole(typed')
  BY <1>1, <1>4, <1>5, WholeAppend
<1> QED BY <1>1, <1>6, <1>7 DEF x

\* A byte of an attach frame.
LEMMA StreamWriteStep ==
  ASSUME IInv, NEW s \in Streams, StreamWrite(s)
  PROVE  IInv'
<1> USE DEF IInv
<1> DEFINE w == attach[s].written
           x == [by |-> s, tenure |-> 0, id |-> 0, byte |-> w + 1]
<1>1. /\ attach[s].pc = "write" /\ typed' = Append(typed, x)
      /\ execution' = (IF w + 1 = FragmentBytes THEN NoOne ELSE execution)
      /\ UNCHANGED <<lease, conn, dedup, plans, reply, tenure, answers, requests>>
  BY DEF StreamWrite
<1>2. attach \in [Streams -> Attaches] /\ w \in Nat /\ w + 1 \in Nat
  BY DEF TypeInv, Attaches
<1>3. attach' = [attach EXCEPT ![s].written = w + 1,
                               ![s].pc = IF w + 1 = FragmentBytes THEN "done" ELSE "write"]
  BY <1>1, <1>2 DEF StreamWrite
<1>4. OtherFragment(attach[s], s, typed) /\ Whole(typed) /\ execution = s
  BY <1>1 DEF FragmentInv, LockInv
<1>5. x \in TypedByte /\ x.by = s /\ typed' \in Seq(TypedByte) /\ Whole(typed') /\ LastIs(typed', x)
  BY <1>1, <1>2, <1>4, OtherByte
<1> HIDE DEF w
<1>6. /\ attach' \in [Streams -> Attaches]
      /\ attach'[s].pc = IF w + 1 = FragmentBytes THEN "done" ELSE "write"
      /\ attach'[s].written = w + 1
      /\ \A k \in Streams \ {s} : attach'[k] = attach[k]
  BY <1>2, <1>3 DEF Attaches
<1>7. TypeInv'
  BY <1>1, <1>5, <1>6 DEF TypeInv
<1>8. \A k \in Connections : conn[k].pc \notin {"write", "flushed"}
  BY <1>4, WritersDistinct DEF LockInv
<1>9. \A k \in Streams \ {s} : attach[k].pc # "write"
  BY <1>4 DEF LockInv
<1>10. reply.pc # "write"
  BY <1>4, WritersDistinct DEF LockInv
<1>11. LeaseInv' /\ LockInv'
  BY <1>1, <1>4, <1>6, <1>8, <1>9, <1>10 DEF LeaseInv, LockInv
<1>12. FragmentInv'
  <2>1. \A k \in Connections : PlanFragment(conn'[k], k, typed', tenure')
    BY <1>1, <1>8 DEF FragmentInv, PlanFragment
  <2>2. OtherFragment(attach'[s], s, typed') /\ attach'[s].pc \notin {"new", "lock"}
    BY <1>5, <1>6 DEF OtherFragment
  <2>3. \A k \in Streams \ {s} :
          /\ OtherFragment(attach'[k], k, typed')
          /\ attach'[k].pc \in {"new", "lock"} => attach'[k].written = 0
    BY <1>6, <1>9 DEF FragmentInv, OtherFragment
  <2>4. OtherFragment(reply', ReplyTask, typed')
    BY <1>1, <1>10 DEF OtherFragment
  <2> QED BY <1>5, <2>1, <2>2, <2>3, <2>4 DEF FragmentInv
<1> HIDE DEF x
<1>13. InputInv'
  BY <1>1, <1>5, WritersDistinct, InputOther
<1> QED BY <1>7, <1>11, <1>12, <1>13

\* An attach write fails and frees the lock.
LEMMA StreamFailStep ==
  ASSUME IInv, NEW s \in Streams, StreamFail(s)
  PROVE  IInv'
<1> USE DEF IInv
<1>1. /\ attach[s].pc = "write" /\ execution' = NoOne
      /\ UNCHANGED <<lease, conn, dedup, plans, reply, typed, tenure, answers, requests>>
  BY DEF StreamFail
<1>2. /\ attach' \in [Streams -> Attaches]
      /\ attach'[s].pc = "failed"
      /\ \A k \in Streams \ {s} : attach'[k] = attach[k]
  BY DEF StreamFail, TypeInv, Attaches
<1>3. TypeInv'
  BY <1>1, <1>2 DEF TypeInv
<1>4. execution = s
  BY <1>1 DEF LockInv
<1>5. LeaseInv' /\ LockInv'
  BY <1>1, <1>2, <1>4, WritersDistinct DEF LeaseInv, LockInv
<1>6. FragmentInv'
  BY <1>1, <1>2 DEF FragmentInv, OtherFragment
<1>7. InputInv'
  BY <1>1, InputKept
<1> QED BY <1>3, <1>5, <1>6, <1>7

\* The reply task goes on without the lock.
LEMMA ReplyMoves ==
  ASSUME IInv,
         UNCHANGED <<lease, conn, dedup, plans, execution, attach, typed, tenure, answers, requests>>,
         reply' \in Replies, reply'.written = reply.written,
         reply'.pc = "write" => reply.pc = "write"
  PROVE  IInv'
<1> USE DEF IInv
<1>1. TypeInv'
  BY DEF TypeInv
<1>2. LeaseInv' /\ LockInv'
  BY DEF LeaseInv, LockInv
<1>3. FragmentInv'
  BY DEF FragmentInv, OtherFragment
<1>4. InputInv'
  BY InputKept
<1> QED BY <1>1, <1>2, <1>3, <1>4

\* A status probe is queued.
LEMMA ProbeStep ==
  ASSUME IInv, Probe
  PROVE  IInv'
<1>1. reply' \in Replies /\ reply'.written = reply.written /\ reply'.pc = reply.pc
  <2>1. reply \in Replies /\ reply.probes + 1 \in 0..MaxProbes
    BY BoundsAssumption DEF Probe, IInv, TypeInv, Replies
  <2>2. (reply.pc = "write") \in BOOLEAN
    OBVIOUS
  <2> QED BY <2>1, <2>2 DEF Probe, Replies
<1> QED BY <1>1, ReplyMoves DEF Probe

\* The probes are closed.
LEMMA CloseProbesStep ==
  ASSUME IInv, CloseProbes
  PROVE  IInv'
<1>1. reply' \in Replies /\ reply'.written = reply.written /\ reply'.pc = reply.pc
  BY DEF CloseProbes, IInv, TypeInv, Replies
<1> QED BY <1>1, ReplyMoves DEF CloseProbes

\* The reply task wakes up.
LEMMA ReplyWaitStep ==
  ASSUME IInv, ReplyWait
  PROVE  IInv'
<1>1. reply' \in Replies /\ reply'.written = reply.written /\ reply'.pc # "write"
  BY DEF ReplyWait, IInv, TypeInv, Replies
<1> QED BY <1>1, ReplyMoves DEF ReplyWait

\* The reply gets the execution lock.
LEMMA ReplyLockStep ==
  ASSUME IInv, ReplyLock
  PROVE  IInv'
<1> USE DEF IInv
<1>1. /\ execution = NoOne /\ execution' = ReplyTask
      /\ UNCHANGED <<lease, conn, dedup, plans, attach, typed, tenure, answers, requests>>
  BY DEF ReplyLock
<1>2. reply' \in Replies /\ reply'.written = 0 /\ reply'.pc = "write"
  BY DEF ReplyLock, TypeInv, Replies
<1>3. TypeInv'
  BY <1>1, <1>2 DEF TypeInv, Writers
<1>4. LeaseInv' /\ LockInv'
  BY <1>1, <1>2, WritersDistinct DEF LeaseInv, LockInv
<1>5. FragmentInv'
  BY <1>1, <1>2 DEF FragmentInv, OtherFragment
<1>6. InputInv'
  BY <1>1, InputKept
<1> QED BY <1>3, <1>4, <1>5, <1>6

\* A byte of a reply.
LEMMA ReplyWriteStep ==
  ASSUME IInv, ReplyWrite
  PROVE  IInv'
<1> USE DEF IInv
<1> DEFINE w == reply.written
           x == [by |-> ReplyTask, tenure |-> 0, id |-> 0, byte |-> w + 1]
<1>1. /\ reply.pc = "write" /\ typed' = Append(typed, x)
      /\ execution' = (IF w + 1 = FragmentBytes THEN NoOne ELSE execution)
      /\ UNCHANGED <<lease, conn, dedup, plans, attach, tenure, answers, requests>>
  BY DEF ReplyWrite
<1>2. reply \in Replies /\ w \in Nat /\ w + 1 \in Nat
  BY DEF TypeInv, Replies
<1>3. reply' = [reply EXCEPT !.written = w + 1,
                             !.pc = IF w + 1 = FragmentBytes THEN "wait" ELSE "write"]
  BY <1>1, <1>2 DEF ReplyWrite
<1>4. OtherFragment(reply, ReplyTask, typed) /\ Whole(typed) /\ execution = ReplyTask
  BY <1>1 DEF FragmentInv, LockInv
<1>5. /\ x \in TypedByte /\ x.by = ReplyTask
      /\ typed' \in Seq(TypedByte) /\ Whole(typed') /\ LastIs(typed', x)
  BY <1>1, <1>2, <1>4, OtherByte
<1> HIDE DEF w
<1>6. /\ reply' \in Replies
      /\ reply'.pc = IF w + 1 = FragmentBytes THEN "wait" ELSE "write"
      /\ reply'.written = w + 1
  BY <1>2, <1>3 DEF Replies
<1>7. TypeInv'
  BY <1>1, <1>5, <1>6 DEF TypeInv
<1>8. \A k \in Connections : conn[k].pc \notin {"write", "flushed"}
  BY <1>4, WritersDistinct DEF LockInv
<1>9. \A k \in Streams : attach[k].pc # "write"
  BY <1>4, WritersDistinct DEF LockInv
<1>10. LeaseInv' /\ LockInv'
  BY <1>1, <1>4, <1>6, <1>8, <1>9 DEF LeaseInv, LockInv
<1>11. FragmentInv'
  <2>1. \A k \in Connections : PlanFragment(conn'[k], k, typed', tenure')
    BY <1>1, <1>8 DEF FragmentInv, PlanFragment
  <2>2. OtherFragment(reply', ReplyTask, typed')
    BY <1>5, <1>6 DEF OtherFragment
  <2>3. \A k \in Streams :
          /\ OtherFragment(attach'[k], k, typed')
          /\ attach'[k].pc \in {"new", "lock"} => attach'[k].written = 0
    BY <1>1, <1>9 DEF FragmentInv, OtherFragment
  <2> QED BY <1>5, <2>1, <2>2, <2>3 DEF FragmentInv
<1> HIDE DEF x
<1>12. ReplyTask \notin Connections
  BY WritersDistinct
<1>13. InputInv'
  BY <1>1, <1>5, <1>12, InputOther
<1> QED BY <1>7, <1>10, <1>11, <1>13

\* A reply is dropped.
LEMMA ReplyDropStep ==
  ASSUME IInv, ReplyDrop
  PROVE  IInv'
<1> USE DEF IInv
<1>1. /\ execution' = (IF execution = ReplyTask THEN NoOne ELSE execution)
      /\ UNCHANGED <<lease, conn, dedup, plans, attach, typed, tenure, answers, requests>>
  BY DEF ReplyDrop
<1>2. reply' \in Replies /\ reply'.pc = "wait"
  BY DEF ReplyDrop, TypeInv, Replies
<1>3. TypeInv'
  BY <1>1, <1>2 DEF TypeInv
<1>4. LeaseInv' /\ LockInv'
  BY <1>1, <1>2, WritersDistinct DEF LeaseInv, LockInv
<1>5. FragmentInv'
  BY <1>1, <1>2 DEF FragmentInv, OtherFragment
<1>6. InputInv'
  BY <1>1, InputKept
<1> QED BY <1>3, <1>4, <1>5, <1>6

\* The invariant holds of a worker that was just started.
LEMMA InitIInv == Init => IInv
<1> SUFFICES ASSUME Init PROVE IInv
  OBVIOUS
<1>1. /\ lease = NoOne /\ plans = NoOne /\ execution = NoOne /\ tenure = 0 /\ requests = 0
      /\ typed = <<>> /\ answers = {}
  BY DEF Init
<1>2. conn \in [Connections -> Conns] /\ \A c \in Connections : conn[c].pc = "new"
  BY DEF Init, Conns, Requests, NoRequest, Modes
<1>3. /\ attach \in [Streams -> Attaches]
      /\ \A s \in Streams : attach[s].pc = "new" /\ attach[s].written = 0
  BY DEF Init, Attaches
<1>4. reply \in Replies /\ reply.pc = "wait"
  BY BoundsAssumption DEF Init, Replies
<1>5. Absent \in Entries /\ ~Absent.present
  BY DEF Absent, Entries, Result, Pending
<1> DEFINE e == [i \in Ids |-> Absent]
<1>6. e \in [Ids -> Entries] /\ \A i \in Ids : ~e[i].present
  BY <1>5
<1>7. dedup = [namespace |-> NoOne, mode |-> "none", entries |-> e, completed |-> <<>>,
               high_watermark |-> 0, evicted |-> {}]
  BY DEF Init
<1> HIDE DEF e
<1>8. dedup \in Dedups /\ dedup.mode = "none" /\ \A i \in Ids : ~dedup.entries[i].present
  BY <1>6, <1>7 DEF Dedups, Modes
<1>9. typed \in Seq(TypedByte) /\ Len(typed) = 0 /\ 1..0 = {}
  BY <1>1
<1>10. TypeInv
  BY <1>1, <1>2, <1>3, <1>4, <1>8, <1>9, BoundsAssumption DEF TypeInv
<1>11. LeaseInv /\ LockInv
  BY <1>2, <1>3, <1>4 DEF LeaseInv, LockInv, Working
<1>12. FragmentInv
  BY <1>2, <1>3, <1>4, <1>9 DEF FragmentInv, PlanFragment, OtherFragment, Whole
<1>13. \A t, i : BytesOf(typed, t, i) = {}
  BY <1>9 DEF BytesOf
<1>14. DedupInv
  BY <1>8, <1>13 DEF DedupInv, DedupOk, EntriesTrue
<1>15. RequestInv /\ AnswerInv /\ Once(typed)
  BY <1>1, <1>2, <1>9 DEF RequestInv, RequestOk, AnswerInv, Once, Working
<1> QED BY <1>10, <1>11, <1>12, <1>14, <1>15 DEF IInv, InputInv

\* A step of something else.
LEMMA StutterStep ==
  ASSUME IInv, UNCHANGED vars
  PROVE  IInv'
<1>1. UNCHANGED <<lease, conn, dedup, plans, execution, attach, reply, typed, tenure, answers, requests>>
  BY DEF vars
<1>2. reply \in Replies
  BY DEF IInv, TypeInv
<1> QED BY <1>1, <1>2, ReplyMoves

\* The inductive invariant of the PTY's input: what the lease, the locks and the
\* dedup state guarantee to each other, under any interleaving of control plans,
\* attach frames and replies.
THEOREM Invariance == Spec => []IInv
<1>1. Init => IInv
  BY InitIInv
<1>2. IInv /\ [Next]_vars => IInv'
  <2> SUFFICES ASSUME IInv, [Next]_vars PROVE IInv'
    OBVIOUS
  <2>1. CASE UNCHANGED vars
    BY <2>1, StutterStep
  <2>2. ASSUME NEW c \in Connections, Handle(c) PROVE IInv'
    BY <2>2, LockPlanStep, LockExecutionStep, WriteStep, FailWriteStep, StallOnLockStep,
       EndFragmentStep, EndPlanStep DEF Handle
  <2>3. ASSUME NEW c \in Connections, NEW d \in Daemons, Acquire(c, d) PROVE IInv'
    BY <2>3, AcquireStep
  <2>4. ASSUME NEW c \in Connections, NEW mode \in {"monotonic", "legacy"}, NEW id \in Ids,
               NEW content \in Content, Request(c, mode, id, content)
        PROVE  IInv'
    BY <2>4, RequestStep
  <2>5. ASSUME NEW c \in Connections, End(c) PROVE IInv'
    BY <2>5, EndStep
  <2>6. ASSUME NEW s \in Streams, StreamStep(s) PROVE IInv'
    BY <2>6, StreamFrameStep, StreamLockStep, StreamWriteStep, StreamFailStep DEF StreamStep
  <2>7. CASE Probe \/ CloseProbes \/ ReplyStep
    BY <2>7, ProbeStep, CloseProbesStep, ReplyWaitStep, ReplyLockStep, ReplyWriteStep,
       ReplyDropStep DEF ReplyStep
  <2> QED BY <2>1, <2>2, <2>3, <2>4, <2>5, <2>6, <2>7 DEF Next
<1> QED BY <1>1, <1>2, PTL DEF Spec

\* Every variable keeps its type.
THEOREM TypeCorrect == Spec => []TypeOK
<1>1. IInv => TypeOK
  BY DEF IInv, TypeInv, TypeOK, Conns, Requests, Dedups, Entries, Attaches, Replies
<1> QED BY <1>1, Invariance, PTL

\* A retried control write is never typed twice within a namespace, however
\* little the dedup state may hold (execute_control, execute_legacy, complete).
THEOREM OnceSafe == Spec => []TypedAtMostOnce
<1>1. IInv => TypedAtMostOnce
  BY DEF IInv, InputInv, Once, TypedAtMostOnce
<1> QED BY <1>1, Invariance, PTL

\* No writer's bytes land inside another's fragment, also when a plan frees the
\* lock over a delay (execute_locked).
THEOREM FragmentsSafe == Spec => []FragmentsWhole
<1>1. IInv => FragmentsWhole
  BY DEF IInv, FragmentInv, Whole, FragmentsWhole
<1> QED BY <1>1, Invariance, PTL

\* An answer, first or repeated, tells exactly what the PTY got: every byte on
\* success, the counted prefix on a stall or an error (wait_result).
THEOREM AnswersSafe == Spec => []AnswersTruthful
<1>1. IInv => AnswersTruthful
  <2> SUFFICES ASSUME IInv, NEW a \in answers
               PROVE  /\ a.result.kind = "ok" => TypedBytes(a.tenure, a.id) = 1..Total(a.content)
                      /\ a.result.kind \in {"stalled", "io"} =>
                           TypedBytes(a.tenure, a.id) = 1..a.result.written
    BY DEF AnswersTruthful
  <2>1. TypedBytes(a.tenure, a.id) = BytesOf(typed, a.tenure, a.id)
    BY DEF TypedBytes, BytesOf
  <2>2. Truth(a.result.kind, a.result.written, a.content, BytesOf(typed, a.tenure, a.id))
    BY DEF IInv, InputInv, AnswerInv, AnswerOk
  <2> QED BY <2>1, <2>2 DEF Truth
<1> QED BY <1>1, Invariance, PTL

=============================================================================
