-------------------------- MODULE OutputObservation --------------------------
(***************************************************************************)
(* One-shot observation streams over the output history                    *)
(* (crates/session-worker/src/output.rs, observe and wait_for_observation, *)
(* and server.rs, await_observation_page).  A stream asks for one bounded  *)
(* page after an offset, or for the tail; at the end of the history it     *)
(* waits until there is output, the output closes, its lease is released,  *)
(* its deadline passes, its peer goes away or the worker shuts down.       *)
(*                                                                         *)
(* Notify::notify_waiters wakes only the waiters registered at that moment *)
(* and stores no permit, so registration must come before the recheck.     *)
(***************************************************************************)
EXTENDS OutputRing

CONSTANTS Observers,  \* identities of the observation streams
          MaxBytes,   \* ObservationGrant::max_bytes
          MaxPush,    \* bound: bytes of one PTY read
          MaxEpoch    \* bound: lease releases

ASSUME MaxBytesAssumption == MaxBytes \in Nat \ {0}
ASSUME MaxPushAssumption  == MaxPush \in Nat \ {0}
ASSUME MaxEpochAssumption == MaxEpoch \in Nat

VARIABLES ring,         \* HubState.ring
          completed,    \* HubState.completion.is_some()
          lease_epoch,  \* Shared.lease_epoch
          shutdown,     \* Shared.shutdown
          stream,       \* per observer: progress, request and page
          cut           \* history: where the output ended when an epoch ended

vars == <<ring, completed, lease_epoch, shutdown, stream, cut>>

\* after_offset = None, which asks for the tail of the history.
NoOffset == -1

Page == [start : Nat, from : Int, len : Nat, end : Nat,
         gap : BOOLEAN, has_more : BOOLEAN, exited : BOOLEAN, timed_out : BOOLEAN]

NoPage == [start |-> 0, from |-> 0, len |-> 0, end |-> 0,
           gap |-> FALSE, has_more |-> FALSE, exited |-> FALSE, timed_out |-> FALSE]

Steps == {"new", "look", "observe", "enable", "recheck", "waiting", "taken", "late",
          "page", "writing", "written", "released", "gone"}

Init ==
    /\ ring = EmptyRing
    /\ completed = FALSE
    /\ lease_epoch = 0
    /\ shutdown = FALSE
    /\ stream = [o \in Observers |->
                   [pc |-> "new", after |-> 0, wait |-> FALSE, epoch |-> 0,
                    end |-> 0, woken |-> FALSE, page |-> NoPage]]
    /\ cut = [epoch \in 0..MaxEpoch |-> 0]

Go(o, pc) == stream' = [stream EXCEPT ![o].pc = pc]

\* The request lies before the retained history.
Gap(after) == after # NoOffset /\ after < ring.start_offset

PageStart(after) ==
    CASE after = NoOffset -> Greatest(ring.next_offset - MaxBytes, ring.start_offset)
      [] Gap(after)       -> ring.start_offset
      [] OTHER            -> after

\* HubState::observe
Observe(after) ==
    LET start == PageStart(after)
        chunk == BytesFromLimited(ring, start, MaxBytes)
    IN  [start |-> start, from |-> chunk.from, len |-> chunk.len,
         end |-> ring.next_offset, gap |-> Gap(after),
         has_more |-> start + chunk.len < ring.next_offset,
         exited |-> completed, timed_out |-> FALSE]

\* observation_timed_out
TimedOut(after, page) ==
    after # NoOffset /\ page.start = page.end /\ page.len = 0 /\ ~page.exited

-----------------------------------------------------------------------------
(* The PTY side and the owner of the lease *)

\* Notified::enable makes the waiter known before it rechecks.
Registered(o) == stream[o].pc \in {"recheck", "waiting"}

\* Notify::notify_waiters: every registered waiter, and nobody else.
NotifyWaiters ==
    stream' = [o \in Observers |-> IF Registered(o)
                                   THEN [stream[o] EXCEPT !.woken = TRUE]
                                   ELSE stream[o]]

Push(n) ==
    /\ ~completed
    /\ ~PushOverflows(ring, n)
    /\ ring' = RingPush(ring, n)
    /\ NotifyWaiters
    /\ UNCHANGED <<completed, lease_epoch, shutdown, cut>>

Close ==
    /\ ~completed
    /\ completed' = TRUE
    /\ NotifyWaiters
    /\ UNCHANGED <<ring, lease_epoch, shutdown, cut>>

\* bump_lease_epoch
ReleaseLease ==
    /\ lease_epoch < MaxEpoch
    /\ lease_epoch' = lease_epoch + 1
    /\ cut' = [cut EXCEPT ![lease_epoch] = ring.next_offset]
    /\ UNCHANGED <<ring, completed, shutdown, stream>>

Shutdown ==
    /\ ~shutdown
    /\ shutdown' = TRUE
    /\ UNCHANGED <<ring, completed, lease_epoch, stream, cut>>

-----------------------------------------------------------------------------
(* One observation stream *)

\* The stream is redeemed under the current lease epoch; validate_data_start
\* refused an offset ahead of the output.
Open(o) ==
    /\ stream[o].pc = "new"
    /\ \E after \in {NoOffset} \union 0..ring.next_offset, wait \in BOOLEAN :
          stream' = [stream EXCEPT ![o] = [@ EXCEPT !.pc = "look", !.after = after,
                                                    !.wait = wait, !.epoch = lease_epoch]]
    /\ UNCHANGED <<ring, completed, lease_epoch, shutdown, cut>>

Released(o) == lease_epoch # stream[o].epoch

\* The top of the loop of await_observation_page: check the lease ...
Look(o) ==
    /\ stream[o].pc = "look"
    /\ Go(o, IF Released(o) THEN "released" ELSE "observe")
    /\ UNCHANGED <<ring, completed, lease_epoch, shutdown, cut>>

\* ... take a page under the hub's lock, decide whether to wait ...
TakePage(o) ==
    LET page    == Observe(stream[o].after)
        waiting == /\ stream[o].after # NoOffset
                   /\ page.start = page.end
                   /\ ~page.exited
                   /\ stream[o].wait
    IN  /\ stream[o].pc = "observe"
        /\ stream' = [stream EXCEPT ![o] =
                        IF waiting
                        THEN [@ EXCEPT !.pc = "enable", !.end = page.end]
                        ELSE [@ EXCEPT !.pc = "taken", !.page = page]]
        /\ UNCHANGED <<ring, completed, lease_epoch, shutdown, cut>>

\* ... and check the lease again before a page that need not wait is returned.
ReturnPage(o) ==
    /\ stream[o].pc = "taken"
    /\ Go(o, IF Released(o) THEN "released" ELSE "page")
    /\ UNCHANGED <<ring, completed, lease_epoch, shutdown, cut>>

\* wait_for_observation: register the waiter ...
Enable(o) ==
    /\ stream[o].pc = "enable"
    /\ stream' = [stream EXCEPT ![o] = [@ EXCEPT !.pc = "recheck", !.woken = FALSE]]
    /\ UNCHANGED <<ring, completed, lease_epoch, shutdown, cut>>

\* Mutant: the registered waiter sleeps without rechecking.
RecheckDropped(o) ==
    /\ stream[o].pc = "recheck"
    /\ Go(o, "waiting")
    /\ UNCHANGED <<ring, completed, lease_epoch, shutdown, cut>>

\* Where the loop goes on when wait_for_observation returned.
AfterWait == IF shutdown THEN "gone" ELSE "look"

\* ... and only then recheck what was observed, under the hub's lock.
Recheck(o) ==
    /\ stream[o].pc = "recheck"
    /\ Go(o, IF ring.next_offset # stream[o].end \/ completed THEN AfterWait ELSE "waiting")
    /\ UNCHANGED <<ring, completed, lease_epoch, shutdown, cut>>

\* The wait ends: by output or close, by shutdown, by the released lease.
Wake(o) ==
    /\ stream[o].pc = "waiting"
    /\ \/ stream[o].woken /\ Go(o, AfterWait)
       \/ shutdown /\ Go(o, "gone")
       \/ Released(o) /\ Go(o, "released")
    /\ UNCHANGED <<ring, completed, lease_epoch, shutdown, cut>>

\* The deadline passes: check the lease ...
Deadline(o) ==
    /\ stream[o].pc \in {"enable", "waiting"}
    /\ Go(o, IF Released(o) THEN "released" ELSE "late")
    /\ UNCHANGED <<ring, completed, lease_epoch, shutdown, cut>>

\* ... and let a last look decide between a late page and a timeout.  This page
\* is returned without another check.
TakeLastPage(o) ==
    LET page == Observe(stream[o].after)
    IN  /\ stream[o].pc = "late"
        /\ stream' = [stream EXCEPT ![o].pc = "page",
                        ![o].page = [page EXCEPT !.timed_out =
                                        TimedOut(stream[o].after, page)]]
        /\ UNCHANGED <<ring, completed, lease_epoch, shutdown, cut>>

\* The peer closes the stream, or sends a frame on this output-only stream.
Disconnect(o) ==
    /\ stream[o].pc \in {"enable", "waiting"}
    /\ Go(o, "gone")
    /\ UNCHANGED <<ring, completed, lease_epoch, shutdown, cut>>

\* Mutant: the page is sent without looking at the lease again.
AuthorizeUnchecked(o) ==
    /\ stream[o].pc = "page"
    /\ \E pc \in {"writing", "gone"} : Go(o, pc)
    /\ UNCHANGED <<ring, completed, lease_epoch, shutdown, cut>>

\* serve_observation_data proves the peer again (it may no longer be the process
\* that redeemed the token, which ends the stream) and rechecks the lease.
Authorize(o) ==
    /\ stream[o].pc = "page"
    /\ \E pc \in {IF Released(o) THEN "released" ELSE "writing", "gone"} : Go(o, pc)
    /\ UNCHANGED <<ring, completed, lease_epoch, shutdown, cut>>

\* write_observation_page awaits the client for every frame of the page, from the
\* observation start to the close, and looks at nothing in between: a lease
\* released meanwhile does not stop it.  A failed write ends the stream.
WritePage(o) ==
    /\ stream[o].pc = "writing"
    /\ \E pc \in {"written", "gone"} : Go(o, pc)
    /\ UNCHANGED <<ring, completed, lease_epoch, shutdown, cut>>

Serve(o) ==
    \/ Look(o) \/ TakePage(o) \/ ReturnPage(o) \/ Enable(o) \/ Recheck(o) \/ Wake(o)
    \/ TakeLastPage(o) \/ Authorize(o)

Next ==
    \/ \E n \in 1..MaxPush : Push(n)
    \/ Close \/ ReleaseLease \/ Shutdown
    \/ \E o \in Observers : Open(o) \/ Serve(o) \/ Deadline(o) \/ Disconnect(o) \/ WritePage(o)

Spec == Init /\ [][Next]_vars

\* The task serving a stream runs whenever it is ready.  The deadline is left out,
\* so nothing below is owed to the timeout, and so is WritePage, which a client
\* that does not read holds up for ever.
FairSpec == Spec /\ \A o \in Observers : WF_vars(Serve(o))

-----------------------------------------------------------------------------
(* Properties *)

TypeOK ==
    /\ ring \in Ring
    /\ completed \in BOOLEAN /\ shutdown \in BOOLEAN
    /\ lease_epoch \in 0..MaxEpoch
    /\ stream \in [Observers -> [pc : Steps, after : Int, wait : BOOLEAN,
                                 epoch : 0..MaxEpoch, end : Nat, woken : BOOLEAN,
                                 page : Page]]
    /\ cut \in [0..MaxEpoch -> Nat]

\* The pages that were taken, on their way to the client or there.
Taken == {"taken", "page", "writing", "written"}

\* A timeout is reported only for a page with nothing in it, and a page that
\* reports none is not an empty one of a running session that was waited for
\* (observation_timed_out).
TimeoutMeansNothingNew ==
    \A o \in Observers :
        LET p == stream[o].page
        IN  stream[o].pc \in Taken =>
              /\ p.timed_out => stream[o].wait /\ p.len = 0 /\ ~p.exited
              /\ stream[o].wait /\ stream[o].after # NoOffset /\ p.len = 0 /\ ~p.exited
                    => p.timed_out

\* A page tells the truth: its bytes are the ones its offset names, it starts
\* where the request asked or reports exactly what was evicted before it, and
\* it says there is more exactly when it ends before the output does, so a
\* client that continues at its end misses nothing (HubState::observe); and its
\* timeout flag means that nothing was there.
PageTruthful ==
    /\ \A o \in Observers :
         LET p == stream[o].page
             after == stream[o].after
         IN  stream[o].pc \in Taken =>
               /\ p.len > 0 => p.from = p.start
               /\ p.len <= MaxBytes
               /\ p.start + p.len <= p.end
               /\ p.has_more <=> p.start + p.len < p.end
               /\ after # NoOffset => (IF p.gap THEN after < p.start ELSE p.start = after)
               /\ p.start < p.end => p.len > 0
    /\ TimeoutMeansNothingNew

\* Nothing a session produced after its lease was released leaves the worker on a
\* stream of that lease, although the lease is checked before the page is taken,
\* may be released while the stream waits, looks or writes, and the writing of
\* a page is not stopped by it (await_observation_page, serve_observation_data).
NoOutputAfterRelease ==
    \A o \in Observers :
        stream[o].pc \in {"writing", "written"} /\ Released(o) =>
            stream[o].page.end <= cut[stream[o].epoch]

\* An observer waiting when output arrives, the output closes, or the lease is
\* released stops waiting, and gets as far as the client lets it, without its
\* deadline having to pass.
WaitersAreAnswered ==
    \A o \in Observers :
        (stream[o].pc = "waiting" /\
            (ring.next_offset # stream[o].end \/ completed \/ Released(o) \/ shutdown))
        ~> (stream[o].pc \in {"writing", "written", "released", "gone"})
=============================================================================
