----------------------- MODULE OutputObservationProofs -----------------------
(***************************************************************************)
(* Proofs about OutputObservation: for every history limit, page size and  *)
(* number of observers, a page tells the truth about the stream, a timeout *)
(* means that nothing was there, and nothing produced after a lease was    *)
(* released leaves the worker on a stream of it.                           *)
(***************************************************************************)
EXTENDS OutputObservation, OutputRingProofs

-----------------------------------------------------------------------------
(* One page *)

\* What observe promises about the page for a request.
PageGood(p, after) ==
    /\ p \in Page
    /\ p.len > 0 => p.from = p.start
    /\ p.len <= MaxBytes
    /\ p.start + p.len <= p.end
    /\ p.has_more <=> p.start + p.len < p.end
    /\ after # NoOffset => (IF p.gap THEN after < p.start ELSE p.start = after)
    /\ p.start < p.end => p.len > 0

\* HubState::observe on a consistent ring.
LEMMA ObserveGood ==
    ASSUME ring \in Ring, RingConsistent(ring), completed \in BOOLEAN,
           NEW after \in Int, after = NoOffset \/ after \in 0..ring.next_offset
    PROVE  /\ PageGood(Observe(after), after)
           /\ Observe(after).exited = completed /\ Observe(after).timed_out = FALSE
           /\ Observe(after).end = ring.next_offset
<1>1. /\ ring.held \in Nat /\ ring.start_offset \in Nat /\ ring.next_offset \in Nat
      /\ ring.produced \in Nat /\ MaxBytes \in Nat /\ MaxBytes > 0
      /\ ring.start_offset <= ring.next_offset
    BY MaxBytesAssumption DEF Ring, RingConsistent, Oldest
<1>2. PICK start : start = PageStart(after)
    OBVIOUS
<1>3. /\ start \in Nat /\ start >= ring.start_offset /\ start <= ring.next_offset
      /\ after # NoOffset => (IF Gap(after) THEN after < start ELSE start = after)
    <2>1. CASE after = NoOffset
        <3>1. start = Greatest(ring.next_offset - MaxBytes, ring.start_offset)
            BY <1>2, <2>1 DEF PageStart, Gap
        <3> QED BY <1>1, <2>1, <3>1 DEF Greatest
    <2>2. CASE Gap(after)
        <3>1. start = ring.start_offset
            BY <1>2, <2>2 DEF PageStart, Gap
        <3> QED BY <1>1, <2>2, <3>1 DEF Gap
    <2>3. CASE after # NoOffset /\ ~Gap(after)
        <3>1. start = after
            BY <1>2, <2>3 DEF PageStart
        <3> QED BY <1>1, <2>3, <3>1 DEF Gap
    <2> QED BY <2>1, <2>2, <2>3
<1>4. PICK c : c = BytesFromLimited(ring, start, MaxBytes)
    OBVIOUS
<1>5. c.from = start /\ c.len = Least(ring.next_offset - start, MaxBytes)
    BY <1>1, <1>3, <1>4, BytesTruthful
<1>6. /\ c.len \in Nat /\ c.len <= MaxBytes /\ start + c.len <= ring.next_offset
      /\ start < ring.next_offset => c.len > 0
    BY <1>1, <1>3, <1>5 DEF Least
<1>7. Gap(after) \in BOOLEAN /\ (start + c.len < ring.next_offset) \in BOOLEAN
    BY DEF Gap
<1>8. Observe(after) = [start |-> start, from |-> c.from, len |-> c.len,
                        end |-> ring.next_offset, gap |-> Gap(after),
                        has_more |-> start + c.len < ring.next_offset,
                        exited |-> completed, timed_out |-> FALSE]
    BY <1>2, <1>4 DEF Observe
<1>9. Observe(after) \in Page
    BY <1>1, <1>3, <1>5, <1>6, <1>7, <1>8 DEF Page
<1>10. PICK p : p = Observe(after)
    OBVIOUS
<1>11. /\ p.start = start /\ p.from = start /\ p.len = c.len /\ p.end = ring.next_offset
       /\ p.gap = Gap(after) /\ p.has_more = (start + c.len < ring.next_offset)
       /\ p.exited = completed /\ p.timed_out = FALSE
    BY <1>5, <1>8, <1>10
<1>12. after # NoOffset => (IF p.gap THEN after < p.start ELSE p.start = after)
    BY <1>3, <1>11
<1>13. p.has_more <=> p.start + p.len < p.end
    BY <1>11
<1>14. PageGood(p, after)
    BY <1>1, <1>3, <1>6, <1>9, <1>10, <1>11, <1>12, <1>13 DEF PageGood
<1> QED BY <1>10, <1>11, <1>14

-----------------------------------------------------------------------------
(* The streams *)

\* What a stream's timeout flag says about its page.
TimeoutGood(s) ==
    /\ s.page.timed_out => s.wait /\ s.page.len = 0 /\ ~s.page.exited
    /\ s.wait /\ s.after # NoOffset /\ s.page.len = 0 /\ ~s.page.exited => s.page.timed_out

Stream == [pc : Steps, after : Int, wait : BOOLEAN, epoch : 0..MaxEpoch, end : Nat,
           woken : BOOLEAN, page : Page]

\* A request lies within the output, only a request that waits gets to the wait,
\* and a page that was taken is a good one that ends within the output.
Good(s, next) ==
    /\ s \in Stream
    /\ s.after = NoOffset \/ s.after \in 0..next
    /\ s.pc \in {"enable", "recheck", "waiting", "late"} => s.wait /\ s.after # NoOffset
    /\ s.pc \in Taken => PageGood(s.page, s.after) /\ TimeoutGood(s) /\ s.page.end <= next

\* A stream belongs to this lease or an earlier one, and a page on its way to the
\* client ends within what was there when an earlier one was released.
Fenced(s, epoch, ends) ==
    /\ s.epoch <= epoch
    /\ s.pc \in {"writing", "written"} /\ epoch # s.epoch => s.page.end <= ends[s.epoch]

IInv ==
    /\ ring \in Ring /\ RingConsistent(ring)
    /\ completed \in BOOLEAN /\ shutdown \in BOOLEAN /\ lease_epoch \in 0..MaxEpoch
    /\ cut \in [0..MaxEpoch -> Nat]
    /\ DOMAIN stream = Observers /\ stream = [o \in Observers |-> stream[o]]
    /\ \A o \in Observers : Good(stream[o], ring.next_offset) /\ Fenced(stream[o], lease_epoch, cut)

\* A step that only moves a stream, to a place that owes nothing it did not owe.
LEMMA MoveGood ==
    ASSUME IInv, NEW o \in Observers, NEW pc \in Steps, Go(o, pc),
           pc \in {"recheck", "waiting", "late"} =>
              stream[o].pc \in {"enable", "recheck", "waiting"},
           pc \in Taken => stream[o].pc \in Taken,
           pc \in {"writing", "written"} =>
              stream[o].pc \in {"writing", "written"} \/ ~Released(o),
           pc # "enable"
    PROVE  Good(stream'[o], ring.next_offset) /\ Fenced(stream'[o], lease_epoch, cut)
<1>1. PICK s : s = stream[o]
    OBVIOUS
<1>2. PICK t : t = [s EXCEPT !.pc = pc]
    OBVIOUS
<1>3. /\ stream'[o] = t /\ Good(s, ring.next_offset) /\ Fenced(s, lease_epoch, cut)
    BY <1>1, <1>2 DEF IInv, Go
<1>4. /\ t \in Stream /\ t.pc = pc /\ t.after = s.after /\ t.wait = s.wait
      /\ t.page = s.page /\ t.epoch = s.epoch
    BY <1>2, <1>3 DEF Good, Stream
<1>5. TimeoutGood(s) => TimeoutGood(t)
    BY <1>4 DEF TimeoutGood
<1>6. Good(t, ring.next_offset)
    BY <1>1, <1>3, <1>4, <1>5 DEF Good
<1>7. Fenced(t, lease_epoch, cut)
    BY <1>1, <1>3, <1>4 DEF Fenced, Released
<1> QED BY <1>3, <1>6, <1>7

\* The page await_observation_page takes before it decides to wait.
LEMMA TakePageGood ==
    ASSUME IInv, NEW o \in Observers, TakePage(o)
    PROVE  Good(stream'[o], ring.next_offset) /\ Fenced(stream'[o], lease_epoch, cut)
<1>1. PICK s : s = stream[o]
    OBVIOUS
<1>2. PICK p : p = Observe(s.after)
    OBVIOUS
<1>3. s \in Stream /\ (s.after = NoOffset \/ s.after \in 0..ring.next_offset) /\ s.after \in Int
    BY <1>1 DEF IInv, Good, Stream
<1>4. PageGood(p, s.after) /\ p.timed_out = FALSE /\ p.end = ring.next_offset
    BY <1>2, <1>3, ObserveGood DEF IInv
<1>5. p \in Page
    BY <1>4 DEF PageGood
<1>6. Fenced(s, lease_epoch, cut)
    BY <1>1 DEF IInv
<1>7. CASE stream' = [stream EXCEPT ![o] = [s EXCEPT !.pc = "enable", !.end = p.end]]
           /\ s.after # NoOffset /\ s.wait
    <2>1. stream'[o] = [s EXCEPT !.pc = "enable", !.end = p.end]
        BY <1>7 DEF IInv
    <2>2. PICK t : t = stream'[o]
        OBVIOUS
    <2>3. p.end \in Nat
        BY <1>5 DEF Page
    <2>4. t \in Stream /\ t.pc = "enable" /\ t.after = s.after /\ t.wait = s.wait
          /\ t.epoch = s.epoch
        BY <1>3, <2>1, <2>2, <2>3 DEF Stream, Steps
    <2>5. Fenced(t, lease_epoch, cut)
        BY <1>6, <2>4 DEF Fenced
    <2> QED BY <1>3, <1>7, <2>2, <2>4, <2>5 DEF Good, Taken
<1>8. CASE stream' = [stream EXCEPT ![o] = [s EXCEPT !.pc = "taken", !.page = p]]
           /\ ~(s.after # NoOffset /\ p.start = p.end /\ ~p.exited /\ s.wait)
    <2>1. stream'[o] = [s EXCEPT !.pc = "taken", !.page = p]
        BY <1>8 DEF IInv
    <2>2. PICK t : t = stream'[o]
        OBVIOUS
    <2>3. t \in Stream /\ t.pc = "taken" /\ t.page = p /\ t.after = s.after /\ t.wait = s.wait
          /\ t.epoch = s.epoch
        BY <1>3, <1>5, <2>1, <2>2 DEF Stream, Steps
    <2>4. p.len = 0 => p.start = p.end
        BY <1>4 DEF PageGood, Page
    <2>5. TimeoutGood(t)
        BY <1>4, <1>8, <2>3, <2>4 DEF TimeoutGood
    <2>6. Fenced(t, lease_epoch, cut)
        BY <1>6, <2>3 DEF Fenced
    <2>7. p.end \in Nat /\ p.end <= ring.next_offset
        BY <1>4, <1>5 DEF Page
    <2> QED BY <1>3, <1>4, <2>2, <2>3, <2>5, <2>6, <2>7 DEF Good
<1> QED BY <1>1, <1>2, <1>7, <1>8 DEF TakePage

\* The page it takes when the deadline passes.
LEMMA TakeLastPageGood ==
    ASSUME IInv, NEW o \in Observers, TakeLastPage(o)
    PROVE  Good(stream'[o], ring.next_offset) /\ Fenced(stream'[o], lease_epoch, cut)
<1>1. PICK s : s = stream[o]
    OBVIOUS
<1>2. PICK p : p = Observe(s.after)
    OBVIOUS
<1>3. s \in Stream /\ (s.after = NoOffset \/ s.after \in 0..ring.next_offset) /\ s.after \in Int
    BY <1>1 DEF IInv, Good, Stream
<1>4. PageGood(p, s.after) /\ p.end = ring.next_offset /\ s.wait /\ s.after # NoOffset
    BY <1>1, <1>2, <1>3, ObserveGood DEF IInv, Good, TakeLastPage
<1>5. p \in Page
    BY <1>4 DEF PageGood
<1>6. Fenced(s, lease_epoch, cut)
    BY <1>1 DEF IInv
<1>7. CASE stream' = [stream EXCEPT ![o].pc = "page",
                        ![o].page = [p EXCEPT !.timed_out = TimedOut(s.after, p)]]
    <2>1. PICK out \in BOOLEAN : out = TimedOut(s.after, p)
        BY DEF TimedOut
    <2>2. PICK q : q = [p EXCEPT !.timed_out = out]
        OBVIOUS
    <2>3. /\ q \in Page /\ q.timed_out = out /\ q.start = p.start /\ q.from = p.from
          /\ q.len = p.len /\ q.end = p.end /\ q.gap = p.gap /\ q.has_more = p.has_more
          /\ q.exited = p.exited
        BY <1>5, <2>2 DEF Page
    <2>4. PICK t : t = stream'[o]
        OBVIOUS
    <2>5. t = [[s EXCEPT !.pc = "page"] EXCEPT !.page = q]
        BY <1>1, <1>7, <2>1, <2>2, <2>4 DEF IInv
    <2>6. t \in Stream /\ t.pc = "page" /\ t.page = q /\ t.after = s.after /\ t.wait = s.wait
          /\ t.epoch = s.epoch
        BY <1>3, <2>3, <2>5 DEF Stream, Steps
    <2>7. PageGood(q, s.after)
        BY <1>4, <2>3 DEF PageGood
    <2>8. p.len = 0 => p.start = p.end
        BY <1>4 DEF PageGood, Page
    <2>9. q.timed_out <=> (p.start = p.end /\ p.len = 0 /\ ~p.exited)
        BY <1>4, <2>1, <2>3 DEF TimedOut
    <2>10. TimeoutGood(t)
        BY <1>4, <2>3, <2>6, <2>8, <2>9 DEF TimeoutGood
    <2>11. Fenced(t, lease_epoch, cut)
        BY <1>6, <2>6 DEF Fenced
    <2>12. q.end \in Nat /\ q.end <= ring.next_offset
        BY <1>4, <1>5, <2>3 DEF Page
    <2> QED BY <1>3, <2>4, <2>6, <2>7, <2>10, <2>11, <2>12 DEF Good
<1> QED BY <1>1, <1>2, <1>7 DEF TakeLastPage

\* The steps of one stream.
StreamStep(o) == Open(o) \/ Serve(o) \/ Deadline(o) \/ Disconnect(o) \/ WritePage(o)

\* Every step of a stream keeps it good, and behind its lease.
LEMMA StreamGood ==
    ASSUME IInv, NEW o \in Observers, StreamStep(o)
    PROVE  Good(stream'[o], ring.next_offset) /\ Fenced(stream'[o], lease_epoch, cut)
<1>1. CASE Open(o)
    <2>1. PICK after \in {NoOffset} \union 0..ring.next_offset, wait \in BOOLEAN :
             stream' = [stream EXCEPT ![o] = [@ EXCEPT !.pc = "look", !.after = after,
                                                       !.wait = wait, !.epoch = lease_epoch]]
        BY <1>1 DEF Open
    <2>2. PICK s : s = stream[o]
        OBVIOUS
    <2>3. s \in Stream /\ after \in Int /\ lease_epoch \in 0..MaxEpoch
        BY <2>2 DEF IInv, Good, NoOffset
    <2>4. PICK t : t = stream'[o]
        OBVIOUS
    <2>5. t = [[[[s EXCEPT !.pc = "look"] EXCEPT !.after = after] EXCEPT !.wait = wait]
                   EXCEPT !.epoch = lease_epoch]
        BY <2>1, <2>2, <2>4 DEF IInv
    <2>6. t \in Stream /\ t.pc = "look" /\ t.after = after /\ t.epoch = lease_epoch
        BY <2>3, <2>5 DEF Stream, Steps
    <2>7. Fenced(t, lease_epoch, cut)
        BY <2>3, <2>6, MaxEpochAssumption DEF Fenced
    <2> QED BY <2>1, <2>4, <2>6, <2>7 DEF Good, Taken
<1>2. CASE Look(o)
    <2>1. Go(o, "observe") \/ Go(o, "released")
        BY <1>2 DEF Look
    <2> QED BY <2>1, MoveGood DEF Steps, Taken
<1>3. CASE TakePage(o)
    BY <1>3, TakePageGood
<1>4. CASE ReturnPage(o)
    <2>1. stream[o].pc = "taken" /\ (Go(o, "page") \/ Go(o, "released"))
        BY <1>4 DEF ReturnPage
    <2> QED BY <2>1, MoveGood DEF Steps, Taken
<1>5. CASE Enable(o)
    <2>1. PICK s : s = stream[o]
        OBVIOUS
    <2>2. Good(s, ring.next_offset) /\ s.pc = "enable" /\ Fenced(s, lease_epoch, cut)
        BY <1>5, <2>1 DEF IInv, Enable
    <2>3. PICK t : t = stream'[o]
        OBVIOUS
    <2>4. t = [[s EXCEPT !.pc = "recheck"] EXCEPT !.woken = FALSE]
        BY <1>5, <2>1, <2>3 DEF IInv, Enable
    <2>5. t \in Stream /\ t.pc = "recheck" /\ t.after = s.after /\ t.wait = s.wait
          /\ t.epoch = s.epoch
        BY <2>2, <2>4 DEF Good, Stream, Steps
    <2>6. Fenced(t, lease_epoch, cut)
        BY <2>2, <2>5 DEF Fenced
    <2> QED BY <2>2, <2>3, <2>5, <2>6 DEF Good, Taken
<1>6. CASE Recheck(o)
    <2>1. stream[o].pc = "recheck" /\ (Go(o, "look") \/ Go(o, "gone") \/ Go(o, "waiting"))
        BY <1>6 DEF Recheck, AfterWait
    <2> QED BY <2>1, MoveGood DEF Steps, Taken
<1>7. CASE Wake(o)
    <2>1. Go(o, "look") \/ Go(o, "gone") \/ Go(o, "released")
        BY <1>7 DEF Wake, AfterWait
    <2> QED BY <2>1, MoveGood DEF Steps, Taken
<1>8. CASE TakeLastPage(o)
    BY <1>8, TakeLastPageGood
<1>9. CASE Authorize(o)
    <2>1. /\ stream[o].pc = "page"
          /\ (Go(o, "writing") /\ ~Released(o)) \/ Go(o, "released") \/ Go(o, "gone")
        BY <1>9 DEF Authorize
    <2> QED BY <2>1, MoveGood DEF Steps, Taken
<1>10. CASE Deadline(o)
    <2>1. stream[o].pc \in {"enable", "waiting"} /\ (Go(o, "late") \/ Go(o, "released"))
        BY <1>10 DEF Deadline
    <2> QED BY <2>1, MoveGood DEF Steps, Taken
<1>11. CASE Disconnect(o)
    BY <1>11, MoveGood DEF Disconnect, Steps, Taken
<1>12. CASE WritePage(o)
    <2>1. stream[o].pc = "writing" /\ (Go(o, "written") \/ Go(o, "gone"))
        BY <1>12 DEF WritePage
    <2> QED BY <2>1, MoveGood DEF Steps, Taken
<1> QED BY <1>1, <1>2, <1>3, <1>4, <1>5, <1>6, <1>7, <1>8, <1>9, <1>10, <1>11, <1>12
        DEF Serve, StreamStep

\* A stream's step changes that stream alone.
LEMMA StreamFrame ==
    ASSUME IInv, NEW o \in Observers, StreamStep(o)
    PROVE  /\ UNCHANGED <<ring, completed, lease_epoch, shutdown, cut>>
           /\ \E t : stream' = [stream EXCEPT ![o] = t]
<1>1. UNCHANGED <<ring, completed, lease_epoch, shutdown, cut>>
    BY DEF StreamStep, Open, Serve, Look, TakePage, ReturnPage, Enable, Recheck, Wake,
           TakeLastPage, Authorize, Deadline, Disconnect, WritePage
<1>2. stream' = [stream EXCEPT ![o] = stream'[o]]
    BY DEF IInv, StreamStep, Open, Serve, Look, TakePage, ReturnPage, Enable, Recheck, Wake,
           TakeLastPage, Authorize, Deadline, Disconnect, WritePage, Go
<1> QED BY <1>1, <1>2

\* Output, or its end, wakes the registered waiters and does nothing else to them.
LEMMA NotifyGood ==
    ASSUME IInv, NotifyWaiters, NEW next \in Nat, next >= ring.next_offset
    PROVE  /\ DOMAIN stream' = Observers /\ stream' = [o \in Observers |-> stream'[o]]
           /\ \A o \in Observers : Good(stream'[o], next) /\ Fenced(stream'[o], lease_epoch, cut)
<1>1. DOMAIN stream' = Observers /\ stream' = [o \in Observers |-> stream'[o]]
    BY DEF NotifyWaiters
<1>2. ASSUME NEW o \in Observers
      PROVE  Good(stream'[o], next) /\ Fenced(stream'[o], lease_epoch, cut)
    <2>1. PICK s : s = stream[o]
        OBVIOUS
    <2>2. PICK t : t = stream'[o]
        OBVIOUS
    <2>3. t = s \/ t = [s EXCEPT !.woken = TRUE]
        BY <2>1, <2>2 DEF NotifyWaiters
    <2>4. Good(s, ring.next_offset) /\ ring.next_offset \in Nat /\ Fenced(s, lease_epoch, cut)
        BY <2>1 DEF IInv, Ring
    <2>5. s \in Stream
        BY <2>4 DEF Good
    <2>6. /\ t \in Stream /\ t.pc = s.pc /\ t.after = s.after /\ t.wait = s.wait
          /\ t.page = s.page /\ t.epoch = s.epoch
        BY <2>3, <2>5 DEF Stream
    <2>7. TimeoutGood(s) => TimeoutGood(t)
        BY <2>6 DEF TimeoutGood
    <2>8. s.after \in 0..ring.next_offset => s.after \in 0..next
        BY <2>4
    <2>9. Fenced(t, lease_epoch, cut)
        BY <2>4, <2>6 DEF Fenced
    <2>10. s.page.end \in Nat /\ (s.page.end <= ring.next_offset => s.page.end <= next)
        BY <2>4, <2>5 DEF Stream, Page
    <2> QED BY <2>1, <2>2, <2>4, <2>6, <2>7, <2>8, <2>9, <2>10 DEF Good
<1> QED BY <1>1, <1>2

\* IInv is an invariant: the streams stay good while output arrives, is evicted
\* and ends, and the lease comes and goes.
THEOREM Invariance == Spec => []IInv
<1>1. Init => IInv
    <2> SUFFICES ASSUME Init PROVE IInv
        OBVIOUS
    <2>1. NoPage \in Page
        BY DEF NoPage, Page
    <2>2. PICK s : s = [pc |-> "new", after |-> 0, wait |-> FALSE, epoch |-> 0,
                        end |-> 0, woken |-> FALSE, page |-> NoPage]
        OBVIOUS
    <2>3. s \in Stream
        BY <2>1, <2>2, MaxEpochAssumption DEF Stream, Steps
    <2>4. stream = [o \in Observers |-> s]
        BY <2>2 DEF Init
    <2>5. ring = EmptyRing /\ ring.next_offset = 0
        BY DEF Init, EmptyRing
    <2>6. Good(s, 0)
        BY <2>2, <2>3 DEF Good, Taken
    <2>7. ring \in Ring /\ RingConsistent(ring)
        <3>1. ring = EmptyRing
            BY DEF Init
        <3> QED BY <3>1, EmptyConsistent
    <2>8. completed \in BOOLEAN /\ shutdown \in BOOLEAN /\ lease_epoch \in 0..MaxEpoch
        <3>1. completed = FALSE /\ shutdown = FALSE /\ lease_epoch = 0
            BY DEF Init
        <3>2. lease_epoch \in 0..MaxEpoch
            BY <3>1, MaxEpochAssumption
        <3> QED BY <3>1, <3>2
    <2>9. DOMAIN stream = Observers /\ stream = [o \in Observers |-> stream[o]]
        BY <2>4
    <2>10. \A o \in Observers : Good(stream[o], ring.next_offset)
        BY <2>4, <2>5, <2>6
    <2>11. \A o \in Observers : Fenced(stream[o], lease_epoch, cut)
        <3>1. lease_epoch = 0 /\ \A o \in Observers : stream[o].epoch = 0 /\ stream[o].pc = "new"
            BY <2>2, <2>4 DEF Init
        <3> QED BY <3>1 DEF Fenced
    <2>12. cut \in [0..MaxEpoch -> Nat]
        BY DEF Init
    <2> QED BY <2>7, <2>8, <2>9, <2>10, <2>11, <2>12 DEF IInv
<1>2. IInv /\ [Next]_vars => IInv'
    <2> SUFFICES ASSUME IInv, [Next]_vars PROVE IInv'
        OBVIOUS
    <2>1. ASSUME NEW n \in 1..MaxPush, Push(n) PROVE IInv'
        <3>1. /\ ring' \in Ring /\ RingConsistent(ring')
              /\ ring'.next_offset = ring.next_offset + n
            BY <2>1, PushConsistent, MaxPushAssumption DEF IInv, Push
        <3>2. ring'.next_offset \in Nat /\ ring'.next_offset >= ring.next_offset
            BY <3>1, MaxPushAssumption DEF IInv, Ring
        <3>3. NotifyWaiters
            BY <2>1 DEF Push
        <3>4. completed' \in BOOLEAN /\ shutdown' \in BOOLEAN /\ UNCHANGED <<lease_epoch, cut>>
            BY <2>1 DEF IInv, Push
        <3> QED BY <3>1, <3>2, <3>3, <3>4, NotifyGood DEF IInv
    <2>2. CASE Close
        <3>1. ring' = ring /\ ring.next_offset \in Nat /\ ring.next_offset >= ring.next_offset
            BY <2>2 DEF IInv, Close, Ring
        <3>2. NotifyWaiters
            BY <2>2 DEF Close
        <3>3. completed' \in BOOLEAN /\ shutdown' \in BOOLEAN /\ UNCHANGED <<lease_epoch, cut>>
            BY <2>2 DEF IInv, Close
        <3> QED BY <3>1, <3>2, <3>3, NotifyGood DEF IInv
    <2>3. CASE ReleaseLease
        <3>1. /\ lease_epoch \in Nat /\ lease_epoch < MaxEpoch /\ lease_epoch' = lease_epoch + 1
              /\ cut' = [cut EXCEPT ![lease_epoch] = ring.next_offset]
              /\ UNCHANGED <<ring, completed, shutdown, stream>> /\ ring.next_offset \in Nat
            BY <2>3, MaxEpochAssumption DEF IInv, ReleaseLease, Ring
        <3>2. cut' \in [0..MaxEpoch -> Nat] /\ lease_epoch' \in 0..MaxEpoch
            BY <3>1, MaxEpochAssumption DEF IInv
        <3>3. ASSUME NEW o \in Observers PROVE Fenced(stream[o], lease_epoch', cut')
            <4>1. PICK s : s = stream[o]
                OBVIOUS
            <4>2. Good(s, ring.next_offset) /\ Fenced(s, lease_epoch, cut) /\ s \in Stream
                BY <4>1 DEF IInv, Good
            <4>3. s.epoch \in 0..MaxEpoch /\ s.page.end \in Nat /\ s.epoch <= lease_epoch
                BY <4>2 DEF Stream, Page, Fenced
            <4>4. s.pc \in {"writing", "written"} => s.page.end <= ring.next_offset
                BY <4>2 DEF Good, Taken
            <4>5. CASE s.epoch = lease_epoch
                <5>1. cut'[s.epoch] = ring.next_offset
                    BY <3>1, <4>3, <4>5 DEF IInv
                <5> QED BY <3>1, <4>1, <4>3, <4>4, <5>1 DEF Fenced
            <4>6. CASE s.epoch # lease_epoch
                <5>1. cut'[s.epoch] = cut[s.epoch]
                    BY <3>1, <4>3, <4>6 DEF IInv
                <5> QED BY <3>1, <4>1, <4>2, <4>3, <4>6, <5>1 DEF Fenced
            <4> QED BY <4>5, <4>6
        <3> QED BY <3>1, <3>2, <3>3 DEF IInv
    <2>4. CASE Shutdown
        BY <2>4 DEF IInv, Shutdown
    <2>5. ASSUME NEW o \in Observers, StreamStep(o) PROVE IInv'
        <3>1. Good(stream'[o], ring.next_offset) /\ Fenced(stream'[o], lease_epoch, cut)
            BY <2>5, StreamGood
        <3>2. PICK t : stream' = [stream EXCEPT ![o] = t]
            BY <2>5, StreamFrame
        <3>3. UNCHANGED <<ring, completed, lease_epoch, shutdown, cut>>
            BY <2>5, StreamFrame
        <3> QED BY <3>1, <3>2, <3>3 DEF IInv
    <2>6. CASE UNCHANGED vars
        BY <2>6 DEF IInv, vars
    <2> QED BY <2>1, <2>2, <2>3, <2>4, <2>5, <2>6 DEF Next, StreamStep
<1> QED BY <1>1, <1>2, PTL DEF Spec

\* Every variable keeps its type.
THEOREM TypeCorrect == Spec => []TypeOK
<1>1. IInv => TypeOK
    BY DEF IInv, TypeOK, Good, Stream
<1> QED BY <1>1, Invariance, PTL

\* A timeout is reported exactly for an empty page of a running session that was
\* waited for, though output may arrive while the deadline passes
\* (observation_timed_out).
THEOREM TimeoutSafe == Spec => []TimeoutMeansNothingNew
<1>1. IInv => TimeoutMeansNothingNew
    BY DEF IInv, TimeoutMeansNothingNew, Good, TimeoutGood
<1> QED BY <1>1, Invariance, PTL

\* A page tells the truth about the output it was taken from, however much of it
\* was evicted before, and a client that continues at its end misses nothing
\* (HubState::observe); and its timeout flag says that nothing was there.
THEOREM PageSafe == Spec => []PageTruthful
<1>1. IInv /\ TimeoutMeansNothingNew => PageTruthful
    BY DEF IInv, PageTruthful, Good, PageGood
<1> QED BY <1>1, Invariance, TimeoutSafe, PTL

\* Nothing produced after a lease was released leaves the worker on a stream of it,
\* whenever between the checks of the stream, its wait, its last look and the
\* frames of its page the release comes (await_observation_page,
\* serve_observation_data).
THEOREM ReleaseSafe == Spec => []NoOutputAfterRelease
<1>1. IInv => NoOutputAfterRelease
    BY DEF IInv, NoOutputAfterRelease, Fenced, Released
<1> QED BY <1>1, Invariance, PTL
=============================================================================
