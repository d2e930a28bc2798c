------------------------ MODULE SessionCreateProofs ------------------------
(***************************************************************************)
(* Proofs about SessionCreate, for every number of faults, crashes and     *)
(* removals: no runtime and no committed session loses its checkout, and   *)
(* nothing a create made is ever out of reach of the next start.           *)
(*                                                                         *)
(* Neither is inductive as it stands. Whether a compensation may run is    *)
(* decided long before it removes the checkout: by a retirement, by the    *)
(* record that names no generation yet, or by a listing a retry trusts. So *)
(* the invariant says what holds wherever the holder of the lock stands:   *)
(*                                                                         *)
(*   HolderInv  who may stand where, and that all but the watch of an      *)
(*              abandoned job have an uncommitted record before them;      *)
(*   CreateInv  while the create runs, nobody listed or watches the        *)
(*              session; before its intent, nothing exists;                *)
(*   PlaceInv   what the create has made at each of its steps;             *)
(*   GoneInv    who compensates, or may start to from what is listed,      *)
(*              knows that no worker of the generation is left; and the    *)
(*              watched job was never initialized;                         *)
(*   UndoInv    the order of the compensation: checkout, binding, record;  *)
(*   CommitInv  a committed session has no transaction left.               *)
(***************************************************************************)
EXTENDS SessionCreate, TLAPS

\* Where a create stands that goes on, and where whoever compensates stands.
Doing == {"bind", "checkout", "generation", "start", "connect", "initialize",
          "inspect", "commit"}
Undoing == {"cleanup", "unbind", "drop"}

\* The values of tx.
Whos == {"none", "create", "start", "retry", "watch", "remove"}
Pcs == {"idle", "probe", "adopt", "intent", "retire"} \cup Doing \cup Undoing
Txs == [who : Whos, pc : Pcs, rm : BOOLEAN]

\* Who holds the lifecycle lock where, and the record it holds it for.
HolderInv ==
  /\ tx \in Txs
  /\ tx.who = "none" => tx = NoTx
  /\ tx.pc = "idle" => tx.who = "none"
  /\ tx.pc \in Doing => tx.who = "create"
  /\ tx.pc \in {"probe", "adopt"} => tx.who \in {"start", "retry"} /\ ~tx.rm
  /\ tx.pc = "intent" => tx.who = "remove"
  /\ tx.rm => tx.who \in {"start", "retry", "remove"}
  /\ tx.who = "remove" => tx.rm
  /\ tx.who \in {"create", "start", "retry", "remove"}
       => rec # None /\ rec.txn # "none"
  /\ ~up => tx = NoTx /\ mem = "none" /\ ~watching

\* No worker of the generation exists, and none can come from its job.
Dead == phase \in {"none", "gone"} /\ ~job

\* The create is the first transaction of its session and the only one while
\* it runs; before it nothing exists.
CreateInv ==
  /\ tx.who = "create" =>
       /\ answer = "none" /\ rec.txn = "create" /\ mem = "none"
       /\ ~watching /\ ~presumed
  /\ tx.who # "create" /\ answer = "none" =>
       /\ tx = NoTx /\ rec = None /\ checkout = "absent"
       /\ phase = "none" /\ ~job /\ ~watching /\ ~presumed

\* What the create has made where it stands.
PlaceInv ==
  /\ tx.pc \in {"bind", "checkout"} => checkout = "absent"
  /\ tx.pc = "checkout" => binding
  /\ tx.pc \in {"bind", "checkout", "generation"} => ~rec.gen
  /\ tx.pc = "start" => phase = "none" /\ ~job
  /\ tx.pc \in Doing \ {"bind", "checkout"} => checkout = "present"
  /\ tx.pc \in Doing \ {"bind", "checkout", "generation"} => rec.gen

\* A record without a generation launched nothing; whoever compensates, writes a
\* removal or is listed for compensation has no worker left, except where a
\* removal presumed it; an abandoned job that is watched was never initialized.
GoneInv ==
  /\ rec # None /\ ~rec.gen => phase = "none" /\ ~job
  /\ tx.pc \in {"intent"} \cup Undoing => Dead \/ presumed
  /\ mem = "compensation" => Dead \/ presumed
  /\ watching \/ tx.who = "watch" => phase \in {"none", "starting", "idle", "gone"}

\* The compensation removes the checkout, then the binding, then the record.
UndoInv ==
  /\ tx.pc \in {"unbind", "drop"} => checkout # "present"
  /\ tx.pc = "drop" => ~binding

\* A committed session is served and nothing of its create is left running; an
\* adoption finds the checkout and no watch.
CommitInv ==
  /\ Committed => up /\ tx = NoTx /\ mem = "live" /\ ~watching
  /\ tx.pc = "adopt" => ~watching /\ (checkout = "present" \/ presumed)
  /\ answer = "ok" => Committed

\* The inductive invariant.
IInv ==
  /\ TypeOK /\ HolderInv /\ CreateInv /\ PlaceInv /\ GoneInv /\ UndoInv
  /\ CommitInv /\ CheckoutKept /\ NothingHidden

-----------------------------------------------------------------------------
(* Effects of the building blocks *)

\* A free lock.
LEMMA NoTxFields ==
  NoTx \in Txs /\ NoTx.who = "none" /\ NoTx.pc = "idle" /\ NoTx.rm = FALSE
BY DEF NoTx, Txs, Whos, Pcs

\* A holder that goes on stays the same holder.
LEMMA GoToEffect ==
  ASSUME tx \in Txs, NEW p \in Pcs, GoTo(p)
  PROVE  tx' \in Txs /\ tx'.who = tx.who /\ tx'.pc = p /\ tx'.rm = tx.rm
BY DEF GoTo, Txs

\* Writing the generation, the commit or the removal leaves the rest of the
\* record alone.
LEMMA RecordEffects ==
  ASSUME rec \in Records
  PROVE  /\ rec # None
         /\ [rec EXCEPT !.gen = TRUE] \in Records
         /\ [rec EXCEPT !.gen = TRUE] # None
         /\ [rec EXCEPT !.gen = TRUE].gen = TRUE
         /\ [rec EXCEPT !.gen = TRUE].txn = rec.txn
         /\ \A t \in {"none", "remove"} :
              /\ [rec EXCEPT !.txn = t] \in Records
              /\ [rec EXCEPT !.txn = t] # None
              /\ [rec EXCEPT !.txn = t].txn = t
              /\ [rec EXCEPT !.txn = t].gen = rec.gen
<1>1. [rec EXCEPT !.gen = TRUE] \in Records
      /\ [rec EXCEPT !.gen = TRUE].gen = TRUE
      /\ [rec EXCEPT !.gen = TRUE].txn = rec.txn
  BY DEF Records
<1>2. ASSUME NEW t \in {"none", "remove"}
      PROVE  /\ [rec EXCEPT !.txn = t] \in Records
             /\ [rec EXCEPT !.txn = t].txn = t
             /\ [rec EXCEPT !.txn = t].gen = rec.gen
  BY DEF Records
<1> QED BY <1>1, <1>2, NoneAssumption

\* A lock just taken.
LEMMA HeldByFields ==
  ASSUME NEW w \in Whos, NEW p \in Pcs
  PROVE  /\ HeldBy(w, p) \in Txs /\ HeldBy(w, p).who = w
         /\ HeldBy(w, p).pc = p /\ HeldBy(w, p).rm = FALSE
BY DEF HeldBy, Txs

\* A fault stays within its budget.
LEMMA FaultKept ==
  ASSUME faults \in 0..Faults, Fault \/ NoFault
  PROVE  faults' \in 0..Faults
BY BudgetAssumption DEF Fault, NoFault

\* The listing of an entry that could not be classified never starts a
\* compensation that was not due before.
LEMMA PendingListed ==
  ASSUME TypeOK
  PROVE  /\ list_pending \in Listings /\ list_pending # "none"
         /\ list_pending = "compensation" => mem = "compensation"
BY DEF TypeOK, Listings, list_pending

\* A holder that gives up without touching the files or the worker may list the
\* session for compensation only when no worker is left, and a watched job only
\* when it was never initialized: every early return of the reconciliation, the
\* retry, the watch and the removal.
LEMMA FinishKeeps ==
  ASSUME IInv, tx.pc # "idle", Finish(TRUE) \/ Finish(FALSE), Fault \/ NoFault,
         Frame, UNCHANGED <<files, worker>>,
         unread' \in BOOLEAN, watching' \in BOOLEAN, mem' \in Listings,
         mem' # "none" => rec # None,
         mem' = "compensation" => Dead \/ presumed,
         watching' => phase \in {"none", "starting", "idle", "gone"}
  PROVE  IInv'
<1>u. UNCHANGED <<up, rec, binding, checkout, job, phase, journal, presumed,
                  crashes, removes>>
  BY DEF Frame, files, worker
<1>f. /\ tx' = NoTx /\ retry' \in {retry, TRUE}
      /\ answer' = IF tx.who = "create" THEN "failed" ELSE answer
  BY DEF Finish, IInv, TypeOK
<1> USE <1>u, <1>f
<1>1. tx'.who = "none" /\ tx'.pc = "idle" /\ tx'.rm = FALSE /\ tx' \in Txs
  BY NoTxFields
<1>2. tx # NoTx /\ tx.who # "none" /\ up /\ ~Committed
  BY NoTxFields DEF IInv, HolderInv, CommitInv
<1>3. answer' # "none" /\ answer' # "ok"
  BY <1>2 DEF IInv, CreateInv, CommitInv
<1>t. TypeOK'
  <2>1. faults' \in 0..Faults BY FaultKept DEF IInv, TypeOK
  <2>2. retry' \in BOOLEAN BY DEF IInv, TypeOK
  <2>3. answer' \in {"none", "ok", "failed", "lost"} BY DEF IInv, TypeOK
  <2> QED BY <1>1, <2>1, <2>2, <2>3 DEF IInv, TypeOK
<1>4. HolderInv' BY <1>1, <1>2 DEF IInv, HolderInv, Doing
<1>5. CreateInv' /\ PlaceInv' BY <1>1, <1>3 DEF CreateInv, PlaceInv, Doing
<1>6. GoneInv' BY <1>1 DEF IInv, GoneInv, Undoing, Dead
<1>7. UndoInv' BY <1>1 DEF UndoInv
<1>8. CommitInv' BY <1>1, <1>2, <1>3 DEF CommitInv, Committed
<1>9. CheckoutKept' BY <1>2 DEF IInv, CheckoutKept, Committed
<1>10. NothingHidden' BY DEF IInv, NothingHidden
<1> QED BY <1>t, <1>4, <1>5, <1>6, <1>7, <1>8, <1>9, <1>10 DEF IInv

-----------------------------------------------------------------------------
(* The create *)

\* What every step of a running create relies on.
LEMMA CreateStepHolds ==
  ASSUME IInv, tx.pc \in Doing, up
  PROVE  /\ tx \in Txs /\ rec \in Records /\ rec # None /\ rec.txn = "create"
         /\ tx.who = "create" /\ ~tx.rm /\ ~Committed
         /\ mem = "none" /\ answer = "none" /\ ~watching /\ ~presumed
<1>1. tx \in Txs /\ tx.who = "create" /\ rec # None /\ rec.txn # "none" /\ ~tx.rm
  BY DEF IInv, HolderInv, Doing
<1>2. rec.txn = "create" /\ mem = "none" /\ answer = "none" /\ ~watching /\ ~presumed
  BY <1>1 DEF IInv, CreateInv
<1> QED BY <1>1, <1>2 DEF IInv, TypeOK, Committed

\* A step of the create that stays in the create, or turns to its compensation,
\* keeps what is said of holders and commits.
LEMMA CreateMoves ==
  ASSUME IInv, up, tx.pc \in Doing, tx' \in Txs, tx'.who = "create", ~tx'.rm,
         tx'.pc \notin {"idle", "probe", "adopt", "intent", "unbind", "drop"},
         UNCHANGED <<up, presumed, mem, watching, answer>>,
         rec' # None, rec'.txn = "create"
  PROVE  HolderInv' /\ CreateInv' /\ UndoInv' /\ CommitInv'
<1>1. mem = "none" /\ answer = "none" /\ ~watching /\ ~presumed
  BY CreateStepHolds
<1>2. HolderInv' BY DEF HolderInv
<1>3. CreateInv' BY <1>1 DEF CreateInv
<1>4. UndoInv' BY DEF UndoInv
<1>5. CommitInv' BY <1>1 DEF CommitInv, Committed
<1> QED BY <1>2, <1>3, <1>4, <1>5

\* The create (transact_pty_registration and what it calls), one lemma per step.
LEMMA CreateBindKeeps == ASSUME IInv, CreateBind, Frame PROVE IInv'
<1>1. up /\ tx.pc = "bind" BY DEF CreateBind, Step, At
<1>2. /\ tx \in Txs /\ rec \in Records /\ rec # None /\ rec.txn = "create"
      /\ tx.who = "create" /\ ~tx.rm /\ ~Committed
      /\ mem = "none" /\ answer = "none" /\ ~watching /\ ~presumed
  BY <1>1, CreateStepHolds DEF Doing
<1>3. checkout = "absent" /\ ~rec.gen /\ phase = "none" /\ ~job
  BY <1>1, <1>2 DEF IInv, PlaceInv, GoneInv
<1>4. /\ tx' \in Txs /\ tx'.who = "create" /\ ~tx'.rm
      /\ \/ tx'.pc = "checkout" /\ binding' = TRUE
         \/ tx'.pc = "cleanup" /\ binding' = binding
  BY <1>2, GoToEffect DEF CreateBind, Pcs, Doing, Undoing
<1>5. UNCHANGED <<up, presumed, crashes, removes, rec, checkout, job, phase, journal,
                mem, watching, retry, unread, answer>>
  BY DEF CreateBind, Continue, Frame, worker
<1>6. faults' \in 0..Faults BY FaultKept DEF CreateBind, IInv, TypeOK
<1>7. TypeOK'
  <2>1. binding' \in BOOLEAN BY <1>4 DEF IInv, TypeOK
  <2> QED BY <1>4, <1>5, <1>6, <2>1 DEF IInv, TypeOK
<1>8. HolderInv' /\ CreateInv' /\ UndoInv' /\ CommitInv'
  BY <1>1, <1>2, <1>4, <1>5, CreateMoves DEF Doing
<1>9. PlaceInv' BY <1>2, <1>3, <1>4, <1>5 DEF PlaceInv, Doing
<1>10. GoneInv' BY <1>2, <1>3, <1>4, <1>5 DEF GoneInv, Dead, Undoing
<1>11. CheckoutKept' BY <1>2, <1>3, <1>4, <1>5 DEF CheckoutKept, Committed
<1>12. NothingHidden' BY <1>2, <1>3, <1>4, <1>5 DEF NothingHidden
<1> QED BY <1>7, <1>8, <1>9, <1>10, <1>11, <1>12 DEF IInv

LEMMA CreateCheckoutKeeps == ASSUME IInv, CreateCheckout, Frame PROVE IInv'
<1>1. up /\ tx.pc = "checkout" BY DEF CreateCheckout, Step, At
<1>2. /\ tx \in Txs /\ rec \in Records /\ rec # None /\ rec.txn = "create"
      /\ tx.who = "create" /\ ~tx.rm /\ ~Committed
      /\ mem = "none" /\ answer = "none" /\ ~watching /\ ~presumed
  BY <1>1, CreateStepHolds DEF Doing
<1>3. checkout = "absent" /\ binding /\ ~rec.gen /\ phase = "none" /\ ~job
  BY <1>1, <1>2 DEF IInv, PlaceInv, GoneInv
<1>4. /\ tx' \in Txs /\ tx'.who = "create" /\ ~tx'.rm
      /\ \/ tx'.pc = "generation" /\ checkout' = "present" /\ binding' = binding
         \/ tx'.pc = "cleanup" /\ checkout' = "present" /\ binding' = binding
         \/ tx'.pc = "cleanup" /\ checkout' = checkout /\ binding' \in BOOLEAN
  BY <1>2, GoToEffect DEF CreateCheckout, Pcs, Doing, Undoing
<1>5. UNCHANGED <<up, presumed, crashes, removes, rec, job, phase, journal,
                mem, watching, retry, unread, answer>>
  BY DEF CreateCheckout, Continue, Frame, worker
<1>6. faults' \in 0..Faults BY FaultKept DEF CreateCheckout, IInv, TypeOK
<1>7. TypeOK'
  <2>1. binding' \in BOOLEAN /\ checkout' \in {"absent", "present"}
    BY <1>3, <1>4 DEF IInv, TypeOK
  <2> QED BY <1>4, <1>5, <1>6, <2>1 DEF IInv, TypeOK
<1>8. HolderInv' /\ CreateInv' /\ UndoInv' /\ CommitInv'
  BY <1>1, <1>2, <1>4, <1>5, CreateMoves DEF Doing
<1>9. PlaceInv' BY <1>2, <1>3, <1>4, <1>5 DEF PlaceInv, Doing
<1>10. GoneInv' BY <1>2, <1>3, <1>4, <1>5 DEF GoneInv, Dead, Undoing
<1>11. CheckoutKept' BY <1>2, <1>3, <1>4, <1>5 DEF CheckoutKept, Committed
<1>12. NothingHidden' BY <1>2, <1>3, <1>4, <1>5 DEF NothingHidden
<1> QED BY <1>7, <1>8, <1>9, <1>10, <1>11, <1>12 DEF IInv

LEMMA CreateGenerationKeeps == ASSUME IInv, CreateGeneration, Frame PROVE IInv'
<1>1. up /\ tx.pc = "generation" BY DEF CreateGeneration, Step, At
<1>2. /\ tx \in Txs /\ rec \in Records /\ rec # None /\ rec.txn = "create"
      /\ tx.who = "create" /\ ~tx.rm /\ ~Committed
      /\ mem = "none" /\ answer = "none" /\ ~watching /\ ~presumed
  BY <1>1, CreateStepHolds DEF Doing
<1>3. checkout = "present" /\ binding /\ phase = "none" /\ ~job
  BY <1>1, <1>2 DEF IInv, PlaceInv, GoneInv, Doing, NothingHidden
<1>4. /\ tx' \in Txs /\ tx'.who = "create" /\ ~tx'.rm
      /\ rec' \in Records /\ rec' # None /\ rec'.txn = "create"
      /\ \/ tx'.pc = "start" /\ rec'.gen
         \/ tx'.pc = "cleanup"
  BY <1>2, GoToEffect, RecordEffects DEF CreateGeneration, Pcs, Doing, Undoing
<1>5. UNCHANGED <<up, presumed, crashes, removes, binding, checkout, job, phase, journal,
                mem, watching, retry, unread, answer>>
  BY DEF CreateGeneration, Continue, Frame, worker
<1>6. faults' \in 0..Faults BY FaultKept DEF CreateGeneration, IInv, TypeOK
<1>7. TypeOK' BY <1>4, <1>5, <1>6 DEF IInv, TypeOK
<1>8. HolderInv' /\ CreateInv' /\ UndoInv' /\ CommitInv'
  BY <1>1, <1>2, <1>4, <1>5, CreateMoves DEF Doing
<1>9. PlaceInv' BY <1>2, <1>3, <1>4, <1>5 DEF PlaceInv, Doing
<1>10. GoneInv' BY <1>2, <1>3, <1>4, <1>5 DEF GoneInv, Dead, Undoing
<1>11. CheckoutKept' BY <1>2, <1>3, <1>4, <1>5 DEF CheckoutKept, Committed
<1>12. NothingHidden' BY <1>2, <1>3, <1>4, <1>5 DEF NothingHidden
<1> QED BY <1>7, <1>8, <1>9, <1>10, <1>11, <1>12 DEF IInv

LEMMA CreateStartKeeps == ASSUME IInv, CreateStart, Frame PROVE IInv'
<1>1. up /\ tx.pc = "start" BY DEF CreateStart, Step, At
<1>2. /\ tx \in Txs /\ rec \in Records /\ rec # None /\ rec.txn = "create"
      /\ tx.who = "create" /\ ~tx.rm /\ ~Committed
      /\ mem = "none" /\ answer = "none" /\ ~watching /\ ~presumed
  BY <1>1, CreateStepHolds DEF Doing
<1>3. checkout = "present" /\ binding /\ phase = "none" /\ ~job /\ rec.gen
  BY <1>1, <1>2 DEF IInv, PlaceInv, Doing, NothingHidden
<1>4. /\ tx' \in Txs /\ tx'.who = "create" /\ ~tx'.rm
      /\ \/ tx'.pc = "connect" /\ phase' = "starting" /\ job' = TRUE
         \/ tx'.pc \in {"connect", "cleanup"} /\ phase' = "none" /\ ~job' 
  BY <1>2, <1>3, GoToEffect DEF CreateStart, Pcs, Doing, Undoing
<1>5. UNCHANGED <<up, presumed, crashes, removes, rec, binding, checkout, journal,
                mem, watching, retry, unread, answer>>
  BY DEF CreateStart, Continue, Frame, files
<1>6. faults' \in 0..Faults BY FaultKept DEF CreateStart, IInv, TypeOK
<1>7. TypeOK'
  <2>1. job' \in BOOLEAN /\ phase' \in Phases
    BY <1>3, <1>4 DEF Phases, IInv, TypeOK, CreateStart
  <2> QED BY <1>4, <1>5, <1>6, <2>1 DEF IInv, TypeOK
<1>8. HolderInv' /\ CreateInv' /\ UndoInv' /\ CommitInv'
  BY <1>1, <1>2, <1>4, <1>5, CreateMoves DEF Doing
<1>9. PlaceInv' BY <1>2, <1>3, <1>4, <1>5 DEF PlaceInv, Doing
<1>10. GoneInv' BY <1>2, <1>3, <1>4, <1>5 DEF GoneInv, Dead, Undoing
<1>11. CheckoutKept' BY <1>2, <1>3, <1>4, <1>5 DEF CheckoutKept, Committed
<1>12. NothingHidden' BY <1>2, <1>3, <1>4, <1>5 DEF NothingHidden
<1> QED BY <1>7, <1>8, <1>9, <1>10, <1>11, <1>12 DEF IInv

LEMMA CreateConnectKeeps == ASSUME IInv, CreateConnect, Frame PROVE IInv'
<1>1. up /\ tx.pc = "connect" BY DEF CreateConnect, Step, At
<1>2. /\ tx \in Txs /\ rec \in Records /\ rec # None /\ rec.txn = "create"
      /\ tx.who = "create" /\ ~tx.rm /\ ~Committed
      /\ mem = "none" /\ answer = "none" /\ ~watching /\ ~presumed
  BY <1>1, CreateStepHolds DEF Doing
<1>3. checkout = "present" /\ binding /\ rec.gen
  BY <1>1, <1>2 DEF IInv, PlaceInv, Doing, NothingHidden
<1>4. /\ tx' \in Txs /\ tx'.who = "create" /\ ~tx'.rm
      /\ tx'.pc \in {"initialize", "retire"}
  BY <1>2, GoToEffect DEF CreateConnect, Pcs, Doing, Undoing
<1>5. UNCHANGED <<up, presumed, crashes, removes, rec, binding, checkout, job, phase,
                journal, mem, watching, retry, unread, answer>>
  BY DEF CreateConnect, Continue, Frame, files, worker
<1>6. faults' \in 0..Faults BY FaultKept DEF CreateConnect, IInv, TypeOK
<1>7. TypeOK' BY <1>4, <1>5, <1>6 DEF IInv, TypeOK
<1>8. HolderInv' /\ CreateInv' /\ UndoInv' /\ CommitInv'
  BY <1>1, <1>2, <1>4, <1>5, CreateMoves DEF Doing
<1>9. PlaceInv' BY <1>2, <1>3, <1>4, <1>5 DEF PlaceInv, Doing
<1>10. GoneInv' BY <1>2, <1>3, <1>4, <1>5 DEF GoneInv, Dead, Undoing
<1>11. CheckoutKept' BY <1>2, <1>3, <1>4, <1>5 DEF CheckoutKept, Committed
<1>12. NothingHidden' BY <1>2, <1>3, <1>4, <1>5 DEF NothingHidden
<1> QED BY <1>7, <1>8, <1>9, <1>10, <1>11, <1>12 DEF IInv

LEMMA CreateInitializeKeeps == ASSUME IInv, CreateInitialize, Frame PROVE IInv'
<1>1. up /\ tx.pc = "initialize" BY DEF CreateInitialize, Step, At
<1>2. /\ tx \in Txs /\ rec \in Records /\ rec # None /\ rec.txn = "create"
      /\ tx.who = "create" /\ ~tx.rm /\ ~Committed
      /\ mem = "none" /\ answer = "none" /\ ~watching /\ ~presumed
  BY <1>1, CreateStepHolds DEF Doing
<1>3. checkout = "present" /\ binding /\ rec.gen
  BY <1>1, <1>2 DEF IInv, PlaceInv, Doing, NothingHidden
<1>4. /\ tx' \in Txs /\ tx'.who = "create" /\ ~tx'.rm
      /\ tx'.pc \in {"inspect", "retire"} /\ phase' \in {phase, "spawning"}
  BY <1>2, GoToEffect DEF CreateInitialize, Pcs, Doing, Undoing
<1>5. UNCHANGED <<up, presumed, crashes, removes, rec, binding, checkout, job,
                journal, mem, watching, retry, unread, answer>>
  BY DEF CreateInitialize, Continue, Frame, files
<1>6. faults' \in 0..Faults BY FaultKept DEF CreateInitialize, IInv, TypeOK
<1>7. TypeOK'
  <2>1. phase' \in Phases BY <1>4 DEF Phases, IInv, TypeOK
  <2> QED BY <1>4, <1>5, <1>6, <2>1 DEF IInv, TypeOK
<1>8. HolderInv' /\ CreateInv' /\ UndoInv' /\ CommitInv'
  BY <1>1, <1>2, <1>4, <1>5, CreateMoves DEF Doing
<1>9. PlaceInv' BY <1>2, <1>3, <1>4, <1>5 DEF PlaceInv, Doing
<1>10. GoneInv' BY <1>2, <1>3, <1>4, <1>5 DEF GoneInv, Dead, Undoing
<1>11. CheckoutKept' BY <1>2, <1>3, <1>4, <1>5 DEF CheckoutKept, Committed
<1>12. NothingHidden' BY <1>2, <1>3, <1>4, <1>5 DEF NothingHidden
<1> QED BY <1>7, <1>8, <1>9, <1>10, <1>11, <1>12 DEF IInv

LEMMA CreateInspectKeeps == ASSUME IInv, CreateInspect, Frame PROVE IInv'
<1>1. up /\ tx.pc = "inspect" BY DEF CreateInspect, Step, At
<1>2. /\ tx \in Txs /\ rec \in Records /\ rec # None /\ rec.txn = "create"
      /\ tx.who = "create" /\ ~tx.rm /\ ~Committed
      /\ mem = "none" /\ answer = "none" /\ ~watching /\ ~presumed
  BY <1>1, CreateStepHolds DEF Doing
<1>3. checkout = "present" /\ binding /\ rec.gen
  BY <1>1, <1>2 DEF IInv, PlaceInv, Doing, NothingHidden
<1>4. /\ tx' \in Txs /\ tx'.who = "create" /\ ~tx'.rm
      /\ tx'.pc \in {"commit", "retire"}
  BY <1>2, GoToEffect DEF CreateInspect, Pcs, Doing, Undoing
<1>5. UNCHANGED <<up, presumed, crashes, removes, rec, binding, checkout, job, phase,
                journal, mem, watching, retry, unread, answer>>
  BY DEF CreateInspect, Continue, Frame, files, worker
<1>6. faults' \in 0..Faults BY FaultKept DEF CreateInspect, IInv, TypeOK
<1>7. TypeOK' BY <1>4, <1>5, <1>6 DEF IInv, TypeOK
<1>8. HolderInv' /\ CreateInv' /\ UndoInv' /\ CommitInv'
  BY <1>1, <1>2, <1>4, <1>5, CreateMoves DEF Doing
<1>9. PlaceInv' BY <1>2, <1>3, <1>4, <1>5 DEF PlaceInv, Doing
<1>10. GoneInv' BY <1>2, <1>3, <1>4, <1>5 DEF GoneInv, Dead, Undoing
<1>11. CheckoutKept' BY <1>2, <1>3, <1>4, <1>5 DEF CheckoutKept, Committed
<1>12. NothingHidden' BY <1>2, <1>3, <1>4, <1>5 DEF NothingHidden
<1> QED BY <1>7, <1>8, <1>9, <1>10, <1>11, <1>12 DEF IInv

\* The intent is written where nothing exists (create_intent_record).
LEMMA CreateIntentKeeps == ASSUME IInv, CreateIntent, Frame PROVE IInv'
<1>1. up /\ tx = NoTx /\ rec = None /\ answer = "none"
  BY DEF CreateIntent, Free
<1>2. tx.who = "none" /\ tx.pc = "idle" BY <1>1, NoTxFields
<1>3. /\ checkout = "absent" /\ phase = "none" /\ ~job /\ ~watching /\ ~presumed
      /\ ~binding /\ mem = "none"
  BY <1>1, <1>2 DEF IInv, CreateInv, NothingHidden
<1>4. UNCHANGED <<up, presumed, crashes, removes, binding, checkout, job, phase,
                  journal, mem, watching, retry, unread>>
  BY DEF CreateIntent, Frame, worker, tasks
<1>5. faults' \in 0..Faults BY FaultKept DEF CreateIntent, IInv, TypeOK
<1>6. CASE rec' = [txn |-> "create", gen |-> FALSE] /\ tx' = HeldBy("create", "bind")
           /\ answer' = answer
  <2>1. rec' \in Records /\ rec' # None /\ rec'.txn = "create" /\ ~rec'.gen
    <3>1. rec' \in Records /\ rec'.txn = "create" /\ ~rec'.gen BY <1>6 DEF Records
    <3> QED BY <3>1, NoneAssumption
  <2>2. tx' \in Txs /\ tx'.who = "create" /\ tx'.pc = "bind" /\ ~tx'.rm
    BY <1>6, HeldByFields DEF Whos, Pcs, Doing
  <2> HIDE <1>6
  <2>3. answer' = "none" BY <1>1, <1>6
  <2>4. TypeOK' BY <1>4, <1>5, <2>1, <2>2, <2>3 DEF IInv, TypeOK
  <2>5. HolderInv' BY <1>1, <1>4, <2>1, <2>2 DEF HolderInv
  <2>6. CreateInv' /\ PlaceInv'
    BY <1>3, <1>4, <2>1, <2>2, <2>3 DEF CreateInv, PlaceInv, Doing
  <2>7. GoneInv' /\ UndoInv'
    BY <1>3, <1>4, <2>1, <2>2 DEF GoneInv, UndoInv, Dead, Undoing
  <2>8. CommitInv' /\ CheckoutKept'
    BY <1>3, <1>4, <2>1, <2>2, <2>3 DEF CommitInv, CheckoutKept, Committed
  <2>9. NothingHidden' BY <1>3, <1>4, <2>1 DEF NothingHidden
  <2> QED BY <2>4, <2>5, <2>6, <2>7, <2>8, <2>9 DEF IInv
<1>7. CASE answer' = "failed" /\ UNCHANGED <<rec, tx>>
  <2>1. TypeOK' BY <1>4, <1>5, <1>7 DEF IInv, TypeOK
  <2>2. HolderInv' BY <1>4, <1>7 DEF IInv, HolderInv
  <2>3. CreateInv' /\ PlaceInv' BY <1>2, <1>7 DEF CreateInv, PlaceInv, Doing
  <2>4. GoneInv' /\ UndoInv'
    BY <1>2, <1>3, <1>4, <1>7 DEF GoneInv, UndoInv, Dead, Undoing
  <2>5. CommitInv' /\ CheckoutKept'
    BY <1>1, <1>2, <1>3, <1>4, <1>7 DEF CommitInv, CheckoutKept, Committed
  <2>6. NothingHidden' BY <1>3, <1>4, <1>7 DEF NothingHidden
  <2> QED BY <2>1, <2>2, <2>3, <2>4, <2>5, <2>6 DEF IInv
<1> QED BY <1>6, <1>7 DEF CreateIntent

\* The commit finds the checkout in place; a commit that failed turns to the
\* retirement of the generation (transact_pty_registration).
LEMMA CreateCommitKeeps == ASSUME IInv, CreateCommit, Frame PROVE IInv'
<1>1. up /\ tx.pc = "commit" BY DEF CreateCommit, Step, At
<1>2. /\ tx \in Txs /\ rec \in Records /\ rec # None /\ rec.txn = "create"
      /\ tx.who = "create" /\ ~tx.rm /\ ~Committed
      /\ mem = "none" /\ answer = "none" /\ ~watching /\ ~presumed
  BY <1>1, CreateStepHolds DEF Doing
<1>3. checkout = "present" /\ binding /\ rec.gen
  BY <1>1, <1>2 DEF IInv, PlaceInv, Doing, NothingHidden
<1>4. UNCHANGED <<up, presumed, crashes, removes, binding, checkout, watching,
                  retry, unread>>
  BY DEF CreateCommit, Frame
<1>5. faults' \in 0..Faults BY FaultKept DEF CreateCommit, IInv, TypeOK
<1>6. CASE /\ rec' = [rec EXCEPT !.txn = "none"] /\ mem' = "live"
           /\ tx' = NoTx /\ answer' = "ok" /\ UNCHANGED worker
  <2>1. rec' \in Records /\ rec' # None /\ rec'.txn = "none" /\ rec'.gen
    BY <1>2, <1>3, <1>6, RecordEffects
  <2>2. tx' \in Txs /\ tx'.who = "none" /\ tx'.pc = "idle" /\ ~tx'.rm
    BY <1>6, NoTxFields
  <2>3. /\ mem' = "live" /\ tx' = NoTx /\ answer' = "ok"
        /\ UNCHANGED <<job, phase, journal>>
    BY <1>6 DEF worker
  <2>4. TypeOK' BY <1>4, <1>5, <2>1, <2>2, <2>3 DEF IInv, TypeOK, Listings
  <2>5. HolderInv' BY <1>1, <1>4, <2>2, <2>3 DEF HolderInv, Doing
  <2>6. CreateInv' /\ PlaceInv' BY <2>2, <2>3 DEF CreateInv, PlaceInv, Doing
  <2>7. GoneInv' /\ UndoInv'
    BY <1>2, <1>4, <2>1, <2>2, <2>3 DEF GoneInv, UndoInv, Undoing
  <2>8. CommitInv' /\ CheckoutKept'
    BY <1>1, <1>2, <1>3, <1>4, <2>1, <2>2, <2>3
    DEF CommitInv, CheckoutKept, Committed
  <2>9. NothingHidden' BY <1>3, <1>4, <2>1 DEF NothingHidden
  <2> QED BY <2>4, <2>5, <2>6, <2>7, <2>8, <2>9 DEF IInv
<1>7. CASE /\ GoTo("retire") /\ UNCHANGED <<rec, mem, answer>>
           /\ \/ /\ phase = "running" /\ phase' = "exited"
                 /\ journal' = "terminal" /\ UNCHANGED job
              \/ UNCHANGED worker
  <2>1. tx' \in Txs /\ tx'.who = "create" /\ ~tx'.rm /\ tx'.pc = "retire"
    BY <1>2, <1>7, GoToEffect DEF Pcs
  <2>2. /\ UNCHANGED <<rec, mem, answer, job>> /\ phase' \in {phase, "exited"}
        /\ journal' \in {journal, "terminal"}
    BY <1>7 DEF worker
  <2>3. TypeOK'
    <3>1. phase' \in Phases /\ journal' \in {"none", "live", "terminal"}
      BY <2>2 DEF IInv, TypeOK, Phases
    <3> QED BY <1>4, <1>5, <2>1, <2>2, <3>1 DEF IInv, TypeOK
  <2>4. HolderInv' /\ CreateInv' /\ UndoInv' /\ CommitInv'
    BY <1>1, <1>2, <1>4, <2>1, <2>2, CreateMoves DEF Doing
  <2>5. PlaceInv' /\ GoneInv'
    BY <1>2, <1>3, <1>4, <2>1, <2>2 DEF PlaceInv, GoneInv, Doing, Undoing
  <2>6. CheckoutKept' /\ NothingHidden'
    BY <1>2, <1>3, <1>4, <2>2 DEF CheckoutKept, NothingHidden, Committed
  <2> QED BY <2>3, <2>4, <2>5, <2>6 DEF IInv
<1> QED BY <1>6, <1>7 DEF CreateCommit

-----------------------------------------------------------------------------
(* Retirement and compensation *)

\* A retirement or compensation that fails returns: towards the client of a
\* removal, to the supervision retry, or to the next start
\* (defer_create_compensation and the failures of the removals).
LEMMA UndoneKeeps ==
  ASSUME IInv, tx.pc \in Undoing \cup {"retire"}, Frame,
         UNCHANGED <<files, worker, watching>>,
         \/ tx.rm /\ RemovalFailed
         \/ ~tx.rm /\ RetireUnconfirmed
         \/ tx.pc \in Undoing /\ ~tx.rm /\ defer_create_compensation
  PROVE  IInv'
<1>1. /\ tx.pc # "idle" /\ TypeOK
      /\ tx.rm => rec # None
      /\ tx.pc \in Undoing => Dead \/ presumed
      /\ mem = "compensation" => Dead \/ presumed
      /\ watching => phase \in {"none", "starting", "idle", "gone"}
      /\ mem # "none" => rec # None
  BY DEF IInv, HolderInv, GoneInv, NothingHidden, Undoing
<1>2. /\ mem \in Listings /\ unread \in BOOLEAN
      /\ list_pending \in Listings
      /\ list_pending = "compensation" => mem = "compensation"
  BY <1>1, PendingListed DEF TypeOK
<1>3. /\ watching' \in BOOLEAN
      /\ watching' => phase \in {"none", "starting", "idle", "gone"}
      /\ UNCHANGED <<files, worker>>
  BY <1>1 DEF TypeOK, files, worker
<1>4. CASE tx.rm /\ RemovalFailed
  <2>1. unread' \in BOOLEAN /\ (Fault \/ NoFault) BY <1>2, <1>4 DEF RemovalFailed
  <2>2. /\ mem' \in {mem, "reconn", "conflict", list_pending}
        /\ Finish(TRUE) \/ Finish(FALSE)
    BY <1>4 DEF RemovalFailed
  <2>3. /\ mem' \in Listings
        /\ mem' # "none" => rec # None
        /\ mem' = "compensation" => Dead \/ presumed
    BY <1>1, <1>2, <1>4, <2>2 DEF Listings
  <2> QED BY <1>1, <1>3, <2>1, <2>2, <2>3, FinishKeeps
<1>5. CASE ~tx.rm /\ RetireUnconfirmed
  <2>1. unread' \in BOOLEAN /\ (Fault \/ NoFault)
    BY <1>2, <1>5 DEF RetireUnconfirmed
  <2>2. /\ \/ mem' = mem
           \/ rec # None /\ mem' \in {"reconn", list_pending}
        /\ Finish(TRUE) \/ Finish(FALSE)
    BY <1>5 DEF RetireUnconfirmed
  <2>3. /\ mem' \in Listings
        /\ mem' # "none" => rec # None
        /\ mem' = "compensation" => Dead \/ presumed
    BY <1>1, <1>2, <1>5, <2>2 DEF Listings
  <2> QED BY <1>1, <1>3, <2>1, <2>2, <2>3, FinishKeeps
<1>6. CASE tx.pc \in Undoing /\ ~tx.rm /\ defer_create_compensation
  <2>1. unread' \in BOOLEAN /\ (Fault \/ NoFault)
    BY <1>2, <1>6 DEF defer_create_compensation
  <2>2. /\ \/ mem' = mem
           \/ rec # None /\ mem' \in {"compensation", list_pending}
        /\ Finish(TRUE) \/ Finish(FALSE)
    BY <1>6 DEF defer_create_compensation
  <2>3. /\ mem' \in Listings
        /\ mem' # "none" => rec # None
        /\ mem' = "compensation" => Dead \/ presumed
    BY <1>1, <1>2, <1>6, <2>2 DEF Listings
  <2> QED BY <1>1, <1>3, <2>1, <2>2, <2>3, FinishKeeps
<1> QED BY <1>4, <1>5, <1>6

\* While the lock is held, the session is not committed and its create began.
LEMMA HeldFacts ==
  ASSUME IInv, tx.pc # "idle"
  PROVE  /\ up /\ tx \in Txs /\ tx.who \in Whos \ {"none"} /\ ~Committed
         /\ answer # "ok" /\ (tx.who # "create" => answer # "none")
<1>1. up /\ tx \in Txs /\ tx # NoTx /\ tx.who # "none"
  BY NoTxFields DEF IInv, HolderInv
<1>2. ~Committed /\ answer # "ok" BY <1>1 DEF IInv, CommitInv
<1>3. tx.who # "create" => answer # "none" BY <1>1 DEF IInv, CreateInv
<1> QED BY <1>1, <1>2, <1>3 DEF Txs

\* A holder that goes on to retire or compensate stays within its rights.
LEMMA HolderMoves ==
  ASSUME IInv, tx.pc # "idle", tx' \in Txs, tx'.who = tx.who, tx'.rm = tx.rm,
         tx'.pc \in Undoing \cup {"retire"},
         UNCHANGED <<up, presumed, mem, watching, answer>>, rec' = rec
  PROVE  HolderInv' /\ CreateInv' /\ PlaceInv' /\ CommitInv'
<1>1. /\ up /\ tx.who \in Whos \ {"none"} /\ ~Committed
      /\ answer # "ok" /\ (tx.who # "create" => answer # "none")
  BY HeldFacts
<1>2. HolderInv' BY <1>1 DEF IInv, HolderInv, Doing, Undoing
<1>3. CreateInv' BY <1>1 DEF IInv, CreateInv
<1>4. PlaceInv' BY DEF PlaceInv, Doing, Undoing
<1>5. CommitInv' BY <1>1 DEF CommitInv, Committed, Undoing
<1> QED BY <1>2, <1>3, <1>4, <1>5

\* A retirement that succeeds leaves no worker: only after it the compensation
\* or the removal intent is reached.
LEMMA RetireKeeps == ASSUME IInv, Retire, Frame PROVE IInv'
<1>1. up /\ tx.pc = "retire" BY DEF Retire, At
<1>2. UNCHANGED <<up, presumed, crashes, removes, rec, binding, checkout, journal,
                  watching>>
  BY DEF Retire, Frame, files
<1>3. CASE /\ job' = FALSE /\ phase' = IF phase = "none" THEN "none" ELSE "gone"
           /\ GoTo(IF tx.who = "remove" THEN "intent" ELSE "cleanup")
           /\ NoFault /\ Continue /\ UNCHANGED <<mem, unread>>
  <2>1. /\ ~job' /\ phase' \in {"none", "gone"} /\ (phase = "none" => phase' = "none")
        /\ UNCHANGED <<mem, unread, retry, answer, faults>>
    BY <1>3 DEF Continue, NoFault
  <2>2. /\ tx' \in Txs /\ tx'.who = tx.who /\ tx'.rm = tx.rm
        /\ \/ tx'.pc = "intent" /\ tx.who = "remove"
           \/ tx'.pc = "cleanup" /\ tx.who # "remove"
    BY <1>1, <1>3, HeldFacts, GoToEffect DEF Pcs, Undoing
  <2>3. /\ ~Committed /\ tx.who # "none"
        /\ answer # "ok" /\ (tx.who # "create" => answer # "none")
    BY <1>1, HeldFacts
  <2>4. TypeOK'
    <3>1. phase' \in Phases /\ job' \in BOOLEAN BY <2>1, <1>3 DEF Phases
    <3> QED BY <1>2, <2>1, <2>2, <3>1 DEF IInv, TypeOK
  <2>5. HolderInv' BY <1>1, <1>2, <2>1, <2>2, <2>3 DEF IInv, HolderInv, Doing
  <2>6. CreateInv' BY <1>2, <2>1, <2>2, <2>3 DEF IInv, CreateInv
  <2>7. PlaceInv' BY <2>2 DEF PlaceInv, Doing
  <2>8. GoneInv' BY <1>2, <2>1, <2>2 DEF IInv, GoneInv, Dead
  <2>9. UndoInv' BY <2>2 DEF UndoInv
  <2>10. CommitInv' BY <1>2, <2>1, <2>2, <2>3 DEF CommitInv, Committed
  <2>11. CheckoutKept' BY <1>2, <2>1, <2>3 DEF CheckoutKept, Committed
  <2>12. NothingHidden' BY <1>2, <2>1 DEF IInv, NothingHidden
  <2> QED BY <2>4, <2>5, <2>6, <2>7, <2>8, <2>9, <2>10, <2>11, <2>12 DEF IInv
<1>4. CASE /\ IF tx.rm THEN RemovalFailed ELSE RetireUnconfirmed
           /\ UNCHANGED <<job, phase>>
  <2>1. UNCHANGED <<files, worker, watching>> BY <1>2, <1>4 DEF files, worker
  <2> QED BY <1>1, <1>4, <2>1, UndoneKeeps
<1> QED BY <1>3, <1>4 DEF Retire

\* The checkout goes only when no runtime can use it (cleanup_bound_worktree).
LEMMA CleanupKeeps == ASSUME IInv, Cleanup, Frame PROVE IInv'
<1>1. up /\ tx.pc = "cleanup" BY DEF Cleanup, At
<1>2. UNCHANGED <<up, presumed, crashes, removes, rec, binding, job, phase, journal,
                  watching>>
  BY DEF Cleanup, Frame, worker
<1>3. tx \in Txs /\ ~Committed /\ (Dead \/ presumed)
  BY <1>1, HeldFacts DEF IInv, GoneInv, Undoing
<1>4. CASE /\ checkout' \in {"absent", "left"} /\ GoTo("unbind")
           /\ Fault \/ NoFault
           /\ Continue /\ UNCHANGED <<mem, unread>>
  <2>1. tx' \in Txs /\ tx'.who = tx.who /\ tx'.rm = tx.rm /\ tx'.pc = "unbind"
    BY <1>3, <1>4, GoToEffect DEF Pcs, Undoing
  <2>2. UNCHANGED <<mem, unread, retry, answer>> BY <1>4 DEF Continue
  <2>3. faults' \in 0..Faults BY <1>4, FaultKept DEF IInv, TypeOK
  <2>4. TypeOK' BY <1>2, <1>4, <2>1, <2>2, <2>3 DEF IInv, TypeOK
  <2>5. HolderInv' /\ CreateInv' /\ PlaceInv' /\ CommitInv'
    BY <1>1, <1>2, <2>1, <2>2, HolderMoves DEF Undoing
  <2>6. GoneInv' BY <1>2, <1>3, <2>1, <2>2 DEF IInv, GoneInv, Dead
  <2>7. UndoInv' BY <1>4, <2>1 DEF UndoInv
  <2>8. CheckoutKept' BY <1>2, <1>3 DEF CheckoutKept, Committed, Dead
  <2>9. NothingHidden' BY <1>2, <1>4, <2>2 DEF IInv, NothingHidden
  <2> QED BY <2>4, <2>5, <2>6, <2>7, <2>8, <2>9 DEF IInv
<1>5. CASE Undone /\ UNCHANGED checkout
  <2>1. UNCHANGED <<files, worker, watching>> BY <1>2, <1>5 DEF files, worker
  <2> QED BY <1>1, <1>5, <2>1, UndoneKeeps DEF Undone, Undoing
<1> QED BY <1>4, <1>5 DEF Cleanup, Gone

\* The binding goes after the checkout.
LEMMA UnbindKeeps == ASSUME IInv, Unbind, Frame PROVE IInv'
<1>1. up /\ tx.pc = "unbind" BY DEF Unbind, At
<1>2. UNCHANGED <<up, presumed, crashes, removes, rec, checkout, job, phase, journal,
                  watching>>
  BY DEF Unbind, Frame, worker
<1>3. tx \in Txs /\ ~Committed /\ (Dead \/ presumed) /\ checkout # "present"
  BY <1>1, HeldFacts DEF IInv, GoneInv, UndoInv, Undoing
<1>4. CASE /\ binding' = FALSE /\ GoTo("drop") /\ NoFault
           /\ Continue /\ UNCHANGED <<mem, unread>>
  <2>1. tx' \in Txs /\ tx'.who = tx.who /\ tx'.rm = tx.rm /\ tx'.pc = "drop"
    BY <1>3, <1>4, GoToEffect DEF Pcs, Undoing
  <2>2. UNCHANGED <<mem, unread, retry, answer, faults>>
    BY <1>4 DEF Continue, NoFault
  <2>3. ~binding' /\ binding' \in BOOLEAN BY <1>4
  <2>4. TypeOK' BY <1>2, <2>1, <2>2, <2>3 DEF IInv, TypeOK
  <2>5. HolderInv' /\ CreateInv' /\ PlaceInv' /\ CommitInv'
    BY <1>1, <1>2, <2>1, <2>2, HolderMoves DEF Undoing
  <2>6. GoneInv' BY <1>2, <1>3, <2>1, <2>2 DEF IInv, GoneInv, Dead
  <2>7. UndoInv' BY <1>2, <1>3, <2>1, <2>3 DEF UndoInv
  <2>8. CheckoutKept' BY <1>2, <1>3 DEF CheckoutKept, Committed, Dead
  <2>9. NothingHidden' BY <1>2, <1>3, <2>2, <2>3 DEF IInv, NothingHidden
  <2> QED BY <2>4, <2>5, <2>6, <2>7, <2>8, <2>9 DEF IInv
<1>5. CASE Undone /\ UNCHANGED binding
  <2>1. UNCHANGED <<files, worker, watching>> BY <1>2, <1>5 DEF files, worker
  <2> QED BY <1>1, <1>5, <2>1, UndoneKeeps DEF Undone, Undoing
<1> QED BY <1>4, <1>5 DEF Unbind

\* The record goes last, when nothing is left that it would have found.
LEMMA DropKeeps == ASSUME IInv, Drop, Frame PROVE IInv'
<1>1. up /\ tx.pc = "drop" BY DEF Drop, At
<1>2. UNCHANGED <<up, presumed, crashes, removes, binding, checkout, job, phase,
                  journal, watching>>
  BY DEF Drop, Frame, worker
<1>3. /\ Dead \/ presumed
      /\ checkout # "present" /\ ~binding
      /\ answer # "ok" /\ (tx.who # "create" => answer # "none")
  BY <1>1, HeldFacts DEF IInv, GoneInv, UndoInv, Undoing
<1>4. CASE rec' = None /\ mem' = "none" /\ Finish(FALSE) /\ NoFault /\ UNCHANGED unread
  <2>1. /\ tx' = NoTx /\ tx' \in Txs /\ tx'.who = "none" /\ tx'.pc = "idle"
        /\ ~tx'.rm /\ rec' = None /\ mem' = "none"
    BY <1>4, NoTxFields DEF Finish
  <2>2. /\ answer' = IF tx.who = "create" THEN "failed" ELSE answer
        /\ retry' = retry /\ UNCHANGED <<unread, faults>>
    BY <1>4 DEF Finish, NoFault, IInv, TypeOK
  <2>3. answer' \notin {"none", "ok"} BY <1>3, <2>2
  <2>4. TypeOK'
    <3>1. answer' \in {"none", "ok", "failed", "lost"} BY <2>2 DEF IInv, TypeOK
    <3> QED BY <1>2, <2>1, <2>2, <3>1 DEF IInv, TypeOK, Listings
  <2>5. HolderInv' BY <1>1, <1>2, <2>1 DEF HolderInv, Doing
  <2>6. CreateInv' /\ PlaceInv' BY <2>1, <2>3 DEF CreateInv, PlaceInv, Doing
  <2>7. GoneInv' /\ UndoInv'
    BY <1>2, <2>1 DEF IInv, GoneInv, UndoInv, Undoing
  <2>8. CommitInv' BY <2>1, <2>3 DEF CommitInv, Committed
  <2>9. CheckoutKept' BY <1>2, <1>3, <2>1 DEF CheckoutKept, Committed, Dead
  <2>10. NothingHidden' BY <1>2, <1>3, <2>1 DEF NothingHidden, Dead
  <2> QED BY <2>4, <2>5, <2>6, <2>7, <2>8, <2>9, <2>10 DEF IInv
<1>5. CASE Undone /\ UNCHANGED rec
  <2>1. UNCHANGED <<files, worker, watching>> BY <1>2, <1>5 DEF files, worker
  <2> QED BY <1>1, <1>5, <2>1, UndoneKeeps DEF Undone, Undoing
<1> QED BY <1>4, <1>5 DEF Drop

-----------------------------------------------------------------------------
(* Reconciliation and removal *)

\* What a reconciliation relies on.
LEMMA ProbeHolds ==
  ASSUME IInv, tx.pc \in {"probe", "adopt"}
  PROVE  /\ tx.pc # "idle" /\ tx \in Txs /\ tx.who \in {"start", "retry"} /\ ~tx.rm
         /\ rec \in Records /\ rec # None /\ ~Committed /\ answer # "none"
         /\ list_pending \in Listings
         /\ list_pending = "compensation" => Dead \/ presumed
<1>1. /\ tx.pc # "idle" /\ tx \in Txs /\ tx.who \in {"start", "retry"} /\ ~tx.rm
      /\ rec # None
  BY DEF IInv, HolderInv
<1>2. ~Committed /\ answer # "none" BY <1>1, HeldFacts
<1>3. list_pending \in Listings /\ (list_pending = "compensation" => Dead \/ presumed)
  BY PendingListed DEF IInv, GoneInv
<1> QED BY <1>1, <1>2, <1>3 DEF IInv, TypeOK

\* Incomplete evidence changes nothing but the listing.
LEMMA ProbeIncompleteKeeps == ASSUME IInv, ProbeIncomplete, Frame PROVE IInv'
<1>1. /\ tx.pc # "idle" /\ rec # None /\ list_pending \in Listings
      /\ list_pending = "compensation" => Dead \/ presumed
  BY ProbeHolds DEF ProbeIncomplete, At
<1>2. /\ mem' \in {"conflict", list_pending} /\ Finish(TRUE) /\ Fault
      /\ UNCHANGED <<files, worker>> /\ UNCHANGED <<watching, unread>>
  BY DEF ProbeIncomplete, files, worker
<1>3. /\ mem' \in Listings
      /\ mem' = "compensation" => Dead \/ presumed
  BY <1>1, <1>2 DEF Listings
<1>4. /\ watching' \in BOOLEAN /\ unread' \in BOOLEAN
      /\ watching' => phase \in {"none", "starting", "idle", "gone"}
  BY <1>2 DEF IInv, TypeOK, GoneInv
<1> QED BY <1>1, <1>2, <1>3, <1>4, FinishKeeps

\* The classification of an uncommitted record (reconcile_record): only a record
\* that names no generation is compensated without a retirement.
LEMMA ProbeKeeps == ASSUME IInv, Probe, Frame PROVE IInv'
<1>1. up /\ tx.pc = "probe" BY DEF Probe, At
<1>2. /\ tx.pc # "idle" /\ tx \in Txs /\ tx.who \in {"start", "retry"} /\ ~tx.rm
      /\ rec \in Records /\ rec # None /\ ~Committed /\ answer # "none"
      /\ list_pending \in Listings
      /\ list_pending = "compensation" => Dead \/ presumed
  BY <1>1, ProbeHolds
<1>3. UNCHANGED <<up, presumed, crashes, removes, rec, binding, checkout, job, phase,
                  journal, unread>>
      /\ UNCHANGED <<files, worker>>
  BY DEF Probe, Frame, files, worker
<1>4. CASE phase = "running" /\ GoTo("adopt") /\ NoFault /\ Continue
           /\ UNCHANGED <<mem, watching>>
  <2>1. tx' \in Txs /\ tx'.who = tx.who /\ tx'.rm = tx.rm /\ tx'.pc = "adopt"
    BY <1>2, <1>4, GoToEffect DEF Pcs
  <2>2. UNCHANGED <<mem, watching, retry, answer, faults>>
    BY <1>4 DEF Continue, NoFault
  <2>3. ~watching /\ (checkout = "present" \/ presumed) /\ answer # "ok"
    BY <1>2, <1>4, HeldFacts DEF IInv, GoneInv, CheckoutKept
  <2>4. TypeOK' BY <1>3, <2>1, <2>2 DEF IInv, TypeOK
  <2>5. HolderInv' BY <1>1, <1>2, <1>3, <2>1, <2>2 DEF IInv, HolderInv, Doing
  <2>6. CreateInv' /\ PlaceInv' BY <1>2, <2>1, <2>2 DEF CreateInv, PlaceInv, Doing
  <2>7. GoneInv' /\ UndoInv'
    BY <1>2, <1>3, <2>1, <2>2 DEF IInv, GoneInv, UndoInv, Undoing, Dead
  <2>8. CommitInv' /\ CheckoutKept'
    BY <1>2, <1>3, <2>1, <2>2, <2>3 DEF CommitInv, CheckoutKept, Committed
  <2>9. NothingHidden' BY <1>3, <2>2 DEF IInv, NothingHidden
  <2> QED BY <2>4, <2>5, <2>6, <2>7, <2>8, <2>9 DEF IInv
<1>5. CASE /\ NoFault /\ Continue /\ UNCHANGED <<mem, watching>>
           /\ \/ GoTo("retire")
              \/ ~Answers /\ ~rec.gen /\ GoTo("cleanup")
  <2>1. /\ tx' \in Txs /\ tx'.who = tx.who /\ tx'.rm = tx.rm
        /\ \/ tx'.pc = "retire"
           \/ tx'.pc = "cleanup" /\ ~rec.gen
    BY <1>2, <1>5, GoToEffect DEF Pcs, Undoing
  <2>2. UNCHANGED <<mem, watching, retry, answer, faults>>
    BY <1>5 DEF Continue, NoFault
  <2>3. tx'.pc = "cleanup" => phase = "none" /\ ~job
    BY <1>2, <2>1 DEF IInv, GoneInv
  <2>4. TypeOK' BY <1>3, <2>1, <2>2 DEF IInv, TypeOK
  <2>5. HolderInv' /\ CreateInv' /\ PlaceInv' /\ CommitInv'
    BY <1>2, <1>3, <2>1, <2>2, HolderMoves DEF Undoing
  <2>6. GoneInv' /\ UndoInv'
    BY <1>2, <1>3, <2>1, <2>2, <2>3 DEF IInv, GoneInv, UndoInv, Undoing, Dead
  <2>7. CheckoutKept' /\ NothingHidden'
    BY <1>3, <2>2 DEF IInv, CheckoutKept, NothingHidden, Committed
  <2> QED BY <2>4, <2>5, <2>6, <2>7 DEF IInv
<1>6. CASE /\ phase \in {"spawning", "starting"}
           /\ mem' \in {"lost", "conflict", list_pending}
           /\ Fault \/ NoFault
           /\ Finish(TRUE) \/ Finish(FALSE)
           /\ \/ UNCHANGED watching
              \/ phase = "starting" /\ watching' = TRUE
  <2>1. /\ mem' \in Listings
        /\ mem' = "compensation" => Dead \/ presumed
    BY <1>2, <1>6 DEF Listings
  <2>2. /\ watching' \in BOOLEAN /\ unread' \in BOOLEAN
        /\ watching' => phase \in {"none", "starting", "idle", "gone"}
    <3>1. watching \in BOOLEAN /\ unread \in BOOLEAN BY DEF IInv, TypeOK
    <3>2. watching => phase \in {"none", "starting", "idle", "gone"}
      BY DEF IInv, GoneInv
    <3>3. CASE UNCHANGED watching BY <1>3, <3>1, <3>2, <3>3
    <3>4. CASE phase = "starting" /\ watching' = TRUE BY <1>3, <3>1, <3>4
    <3> QED BY <1>6, <3>3, <3>4
  <2> QED BY <1>2, <1>3, <1>6, <2>1, <2>2, FinishKeeps
<1> QED BY <1>4, <1>5, <1>6 DEF Probe

\* An adopted runtime still has its checkout (adopt_live_record).
LEMMA AdoptKeeps == ASSUME IInv, Adopt, Frame PROVE IInv'
<1>1. up /\ tx.pc = "adopt" BY DEF Adopt, At
<1>2. /\ tx.pc # "idle" /\ tx \in Txs /\ tx.who \in {"start", "retry"} /\ ~tx.rm
      /\ rec \in Records /\ rec # None /\ ~Committed /\ answer # "none"
      /\ list_pending \in Listings
      /\ list_pending = "compensation" => Dead \/ presumed
  BY <1>1, ProbeHolds
<1>3. UNCHANGED <<up, presumed, crashes, removes, binding, checkout, job, phase,
                  journal, watching, unread>>
  BY DEF Adopt, Frame, worker
<1>4. ~watching /\ (checkout = "present" \/ presumed)
  BY <1>1 DEF IInv, CommitInv
<1>5. faults' \in 0..Faults BY FaultKept DEF Adopt, IInv, TypeOK
<1>6. CASE /\ Finish(FALSE)
           /\ rec' = [rec EXCEPT !.txn = "none"] /\ mem' = "live"
  <2>1. rec' \in Records /\ rec' # None /\ rec'.txn = "none" /\ rec'.gen = rec.gen
    BY <1>2, <1>6, RecordEffects
  <2>2. /\ tx' = NoTx /\ tx' \in Txs /\ tx'.who = "none" /\ tx'.pc = "idle" /\ ~tx'.rm
        /\ answer' = answer /\ retry' = retry /\ mem' = "live"
    BY <1>2, <1>6, NoTxFields DEF Finish, IInv, TypeOK
  <2>3. TypeOK' BY <1>3, <1>5, <2>1, <2>2 DEF IInv, TypeOK, Listings
  <2>4. HolderInv' BY <1>1, <1>3, <2>2 DEF HolderInv, Doing
  <2>5. CreateInv' /\ PlaceInv' BY <1>2, <2>2 DEF CreateInv, PlaceInv, Doing
  <2>6. GoneInv' /\ UndoInv'
    BY <1>2, <1>3, <1>4, <2>1, <2>2 DEF IInv, GoneInv, UndoInv, Undoing
  <2>7. CommitInv' /\ CheckoutKept'
    BY <1>1, <1>3, <1>4, <2>1, <2>2 DEF CommitInv, CheckoutKept, Committed
  <2>8. NothingHidden' BY <1>2, <1>3, <2>1 DEF IInv, NothingHidden
  <2> QED BY <2>3, <2>4, <2>5, <2>6, <2>7, <2>8 DEF IInv
<1>7. CASE /\ Finish(TRUE) \/ Finish(FALSE)
           /\ Fault \/ NoFault
           /\ mem' \in {list_pending, "nodetector"} /\ UNCHANGED rec
  <2>1. /\ mem' \in Listings
        /\ mem' = "compensation" => Dead \/ presumed
    BY <1>2, <1>7 DEF Listings
  <2>2. watching' \in BOOLEAN /\ unread' \in BOOLEAN /\ ~watching'
    BY <1>3, <1>4 DEF IInv, TypeOK
  <2>3. UNCHANGED <<files, worker>> BY <1>3, <1>7 DEF files, worker
  <2> QED BY <1>2, <1>7, <2>1, <2>2, <2>3, FinishKeeps
<1> QED BY <1>6, <1>7 DEF Adopt

\* A removal intent is finished through the retirement of its worker.
LEMMA ProbeRemovalKeeps == ASSUME IInv, ProbeRemoval, Frame PROVE IInv'
<1>1. up /\ tx.pc = "probe" BY DEF ProbeRemoval, At
<1>2. /\ tx.pc # "idle" /\ tx \in Txs /\ tx.who \in {"start", "retry"} /\ ~tx.rm
      /\ rec \in Records /\ rec # None /\ ~Committed /\ answer # "none"
      /\ list_pending \in Listings
      /\ list_pending = "compensation" => Dead \/ presumed
  BY <1>1, ProbeHolds
<1>3. UNCHANGED <<up, presumed, crashes, removes, rec, binding, checkout, watching,
                  unread>>
  BY DEF ProbeRemoval, Frame, files
<1>4. CASE /\ tx' = [tx EXCEPT !.pc = "retire", !.rm = TRUE]
           /\ NoFault /\ Continue /\ UNCHANGED mem
           /\ \/ /\ phase \in {"running", "exited"}
                 /\ phase' = "exited" /\ journal' = "terminal" /\ UNCHANGED job
              \/ UNCHANGED worker
  <2>1. tx' \in Txs /\ tx'.who = tx.who /\ tx'.pc = "retire" /\ tx'.rm
    <3> DEFINE t == [tx EXCEPT !.pc = "retire"]
    <3>1. t \in Txs /\ t.who = tx.who /\ t.pc = "retire" BY <1>2 DEF Txs, Pcs
    <3>2. tx' = [t EXCEPT !.rm = TRUE] BY <1>2, <1>4 DEF Txs
    <3> HIDE DEF t
    <3> QED BY <3>1, <3>2 DEF Txs
  <2>2. UNCHANGED <<mem, retry, answer, faults>> BY <1>4 DEF Continue, NoFault
  <2>3. /\ job' = job /\ journal' \in {journal, "terminal"}
        /\ \/ phase' = phase
           \/ phase \in {"running", "exited"} /\ phase' = "exited"
    BY <1>4 DEF worker
  <2> HIDE <1>4
  <2>4. answer # "ok" BY <1>2, HeldFacts
  <2>5. TypeOK'
    <3>1. phase' \in Phases /\ journal' \in {"none", "live", "terminal"}
      BY <2>3 DEF IInv, TypeOK, Phases
    <3> QED BY <1>3, <2>1, <2>2, <2>3, <3>1 DEF IInv, TypeOK
  <2>6. HolderInv' BY <1>1, <1>2, <1>3, <2>1, <2>2 DEF IInv, HolderInv, Doing
  <2>7. CreateInv' /\ PlaceInv' BY <1>2, <2>1, <2>2 DEF CreateInv, PlaceInv, Doing
  <2>8. GoneInv' /\ UndoInv'
    BY <1>2, <1>3, <2>1, <2>2, <2>3 DEF IInv, GoneInv, UndoInv, Undoing, Dead
  <2>9. CommitInv' BY <1>2, <1>3, <2>1, <2>2, <2>4 DEF CommitInv, Committed
  <2>10. CheckoutKept' BY <1>2, <1>3, <2>3 DEF IInv, CheckoutKept, Committed
  <2>11. NothingHidden' BY <1>3, <2>2, <2>3 DEF IInv, NothingHidden
  <2> QED BY <2>5, <2>6, <2>7, <2>8, <2>9, <2>10, <2>11 DEF IInv
<1>5. CASE /\ mem' \in {"reconn", list_pending} /\ Finish(TRUE)
           /\ Fault \/ NoFault
           /\ UNCHANGED worker
  <2>1. /\ mem' \in Listings
        /\ mem' = "compensation" => Dead \/ presumed
    BY <1>2, <1>5 DEF Listings
  <2>2. /\ watching' \in BOOLEAN /\ unread' \in BOOLEAN
        /\ watching' => phase \in {"none", "starting", "idle", "gone"}
    BY <1>3 DEF IInv, TypeOK, GoneInv
  <2>3. UNCHANGED <<files, worker>> BY <1>3, <1>5 DEF files, worker
  <2> QED BY <1>2, <1>5, <2>1, <2>2, <2>3, FinishKeeps
<1> QED BY <1>4, <1>5 DEF ProbeRemoval

\* The removal is recorded with its worker retired, or presumed gone.
LEMMA RemoveIntentKeeps == ASSUME IInv, RemoveIntent, Frame PROVE IInv'
<1>1. up /\ tx.pc = "intent" BY DEF RemoveIntent, At
<1>2. /\ tx.pc # "idle" /\ tx \in Txs /\ tx.who = "remove" /\ tx.rm
      /\ rec \in Records /\ rec # None
      /\ answer # "ok" /\ answer # "none"
  BY <1>1, HeldFacts DEF IInv, HolderInv, TypeOK
<1>3. /\ UNCHANGED <<up, presumed, crashes, removes, binding, checkout, job, phase,
                     journal, watching, mem, unread>>
  BY DEF RemoveIntent, Frame, worker
<1>4. Dead \/ presumed BY <1>1 DEF IInv, GoneInv
<1>5. CASE /\ rec' = [rec EXCEPT !.txn = "remove"] /\ GoTo("cleanup")
           /\ NoFault /\ Continue
  <2>1. rec' \in Records /\ rec' # None /\ rec'.txn = "remove" /\ rec'.gen = rec.gen
    BY <1>2, <1>5, RecordEffects
  <2>2. tx' \in Txs /\ tx'.who = "remove" /\ tx'.rm /\ tx'.pc = "cleanup"
    BY <1>2, <1>5, GoToEffect DEF Pcs, Undoing
  <2>3. UNCHANGED <<retry, answer, faults>> BY <1>5 DEF Continue, NoFault
  <2> HIDE <1>5
  <2>4. TypeOK' BY <1>3, <2>1, <2>2, <2>3 DEF IInv, TypeOK
  <2>5. HolderInv' BY <1>1, <1>3, <2>1, <2>2 DEF HolderInv, Doing
  <2>6. CreateInv' /\ PlaceInv' BY <1>2, <2>2, <2>3 DEF CreateInv, PlaceInv, Doing
  <2>7. GoneInv' /\ UndoInv'
    BY <1>2, <1>3, <1>4, <2>1, <2>2 DEF IInv, GoneInv, UndoInv, Dead
  <2>8. CommitInv' /\ CheckoutKept'
   
      BY <1>2, <1>3, <1>4, <2>1, <2>2, <2>3
      DEF CommitInv, CheckoutKept, Committed, Dead
  <2>9. NothingHidden' BY <1>2, <1>3, <2>1 DEF IInv, NothingHidden
  <2> QED BY <2>4, <2>5, <2>6, <2>7, <2>8, <2>9 DEF IInv
<1>6. CASE Fault /\ Finish(FALSE) /\ UNCHANGED rec
  <2>1. /\ mem' \in Listings /\ watching' \in BOOLEAN /\ unread' \in BOOLEAN
    BY <1>3 DEF IInv, TypeOK
  <2>2. watching' => phase \in {"none", "starting", "idle", "gone"}
    BY <1>3 DEF IInv, GoneInv
  <2>3. UNCHANGED <<files, worker>> BY <1>3, <1>6 DEF files, worker
  <2> QED BY <1>2, <1>4, <1>6, <2>1, <2>2, <2>3, FinishKeeps
<1> QED BY <1>5, <1>6 DEF RemoveIntent

-----------------------------------------------------------------------------
(* Taking the lock *)

\* Taking the lock, for a watch, a retry or a removal: a compensation that is
\* begun at once needs a session without a worker.
LEMMA TakeKeeps ==
  ASSUME IInv, tx = NoTx, up, ~Committed, answer # "none", TypeOK',
         tx' \in Txs, tx'.who \in {"watch", "retry", "remove"},
         tx'.pc \in {"probe", "retire", "intent", "cleanup"},
         tx'.pc = "probe" => tx'.who = "retry",
         tx'.pc = "intent" => tx'.who = "remove",
         tx'.rm = (tx'.who = "remove"),
         tx'.who # "watch" => rec # None,
         tx'.who = "watch" => phase \in {"none", "starting", "idle", "gone"},
         tx'.pc \in {"intent", "cleanup"} => Dead \/ presumed',
         presumed => presumed', watching' => watching,
         UNCHANGED <<up, files, job, phase, mem, answer>>
  PROVE  IInv'
<1>1. UNCHANGED <<rec, binding, checkout>> BY DEF files
<1>2. answer # "ok" BY DEF IInv, CommitInv
<1>3. HolderInv' BY <1>1 DEF HolderInv, Doing, Committed
<1>4. CreateInv' /\ PlaceInv' BY <1>1 DEF CreateInv, PlaceInv, Doing
<1>5. GoneInv' /\ UndoInv' BY <1>1 DEF IInv, GoneInv, UndoInv, Undoing, Dead
<1>6. CommitInv' BY <1>1, <1>2 DEF CommitInv, Committed
<1>7. CheckoutKept' BY <1>1 DEF IInv, CheckoutKept, Committed
<1>8. NothingHidden' BY <1>1 DEF IInv, NothingHidden
<1> QED BY <1>3, <1>4, <1>5, <1>6, <1>7, <1>8 DEF IInv

\* The watch of an abandoned job gets the lock (watch_abandoned_create).
LEMMA WatchTakeKeeps == ASSUME IInv, WatchTake, Frame PROVE IInv'
<1>1. up /\ watching /\ tx = NoTx /\ tx.who = "none"
  BY NoTxFields DEF WatchTake, Free
<1>2. /\ ~Committed /\ answer # "none"
      /\ phase \in {"none", "starting", "idle", "gone"}
  BY <1>1 DEF IInv, CreateInv, GoneInv, CommitInv
<1>3. tx' \in Txs /\ tx'.who = "watch" /\ tx'.pc = "retire" /\ tx'.rm = FALSE
  BY HeldByFields DEF WatchTake, Whos, Pcs
<1>4. ~watching' /\ watching' \in BOOLEAN
      /\ UNCHANGED <<up, presumed, crashes, removes, rec, binding, checkout, job,
                     phase, journal, mem, retry, unread, answer, faults>>
  BY DEF WatchTake, Frame, files, worker
<1>5. TypeOK' BY <1>3, <1>4 DEF IInv, TypeOK
<1> QED BY <1>1, <1>2, <1>3, <1>4, <1>5, TakeKeeps DEF files

\* The invariant does not depend on the budgets, the retry set or the journal.
LEMMA IdleKeeps ==
  ASSUME IInv, TypeOK',
         UNCHANGED <<up, files, job, phase, mem, tx, watching, answer, presumed>>
  PROVE  IInv'
<1>1. UNCHANGED <<rec, binding, checkout>> BY DEF files
<1>2. HolderInv' BY <1>1 DEF IInv, HolderInv
<1>3. CreateInv' /\ PlaceInv' BY <1>1 DEF IInv, CreateInv, PlaceInv
<1>4. GoneInv' /\ UndoInv' BY <1>1 DEF IInv, GoneInv, UndoInv, Dead
<1>5. CommitInv' /\ CheckoutKept'
  BY <1>1 DEF IInv, CommitInv, CheckoutKept, Committed
<1>6. NothingHidden' BY <1>1 DEF IInv, NothingHidden
<1> QED BY <1>2, <1>3, <1>4, <1>5, <1>6 DEF IInv

\* A retry trusts the listing of a compensation (retry_supervised_session).
LEMMA RetryTakeKeeps == ASSUME IInv, RetryTake, Frame PROVE IInv'
<1>1. up /\ tx = NoTx /\ tx.who = "none"
  BY NoTxFields DEF RetryTake, Free
<1>2. /\ retry' \in BOOLEAN
      /\ UNCHANGED <<up, presumed, crashes, removes, rec, binding, checkout, job,
                     phase, journal, mem, watching, unread, answer, faults>>
  BY DEF RetryTake, Frame, files, worker
<1>3. CASE UNCHANGED tx
  <2>1. TypeOK' BY <1>2, <1>3 DEF IInv, TypeOK
  <2> QED BY <1>2, <1>3, <2>1, IdleKeeps DEF files
<1>4. CASE /\ mem \in {"reconn", "conflict", "compensation"}
           /\ \/ tx' = HeldBy("retry", "probe")
              \/ mem = "compensation" /\ tx' = HeldBy("retry", "cleanup")
  <2>1. rec # None /\ ~Committed /\ answer # "none"
    BY <1>1, <1>4 DEF IInv, NothingHidden, CommitInv, CreateInv
  <2>2. tx' \in Txs /\ tx'.who = "retry" /\ tx'.rm = FALSE
        /\ (tx'.pc = "probe" \/ (tx'.pc = "cleanup" /\ mem = "compensation"))
    <3>1. "retry" \in Whos /\ "probe" \in Pcs /\ "cleanup" \in Pcs
      BY DEF Whos, Pcs, Undoing
    <3>2. CASE tx' = HeldBy("retry", "probe") BY <3>1, <3>2, HeldByFields
    <3>3. CASE mem = "compensation" /\ tx' = HeldBy("retry", "cleanup")
      BY <3>1, <3>3, HeldByFields
    <3> QED BY <1>4, <3>2, <3>3
  <2>3. tx'.pc = "cleanup" => Dead \/ presumed BY <2>2 DEF IInv, GoneInv
  <2>4. TypeOK' BY <1>2, <2>2 DEF IInv, TypeOK
  <2> HIDE <1>4
  <2> QED BY <1>1, <1>2, <2>1, <2>2, <2>3, <2>4, TakeKeeps DEF files
<1> QED BY <1>3, <1>4 DEF RetryTake

\* A removal of an uncommitted session is begun (remove_with).
LEMMA RemoveTakeKeeps == ASSUME IInv, RemoveTake PROVE IInv'
<1>1. /\ up /\ tx = NoTx /\ tx.who = "none" /\ rec # None /\ rec.txn = "create"
  BY NoTxFields DEF RemoveTake, Free, Uncommitted
<1>2. ~Committed /\ answer # "none"
  BY <1>1 DEF IInv, CreateInv, Committed
<1>3. UNCHANGED <<up, rec, binding, checkout, job, phase, journal, mem, watching,
                  retry, unread, answer, faults, crashes>>
  BY DEF RemoveTake, files, worker, tasks
<1>4. removes' \in 0..Removes
  BY BudgetAssumption DEF RemoveTake, IInv, TypeOK
<1>5. CASE UNCHANGED <<tx, presumed>>
  <2>1. TypeOK' BY <1>3, <1>4, <1>5 DEF IInv, TypeOK
  <2> QED BY <1>3, <1>5, <2>1, IdleKeeps DEF files
<1>6. CASE \/ /\ tx' = [who |-> "remove", pc |-> "retire", rm |-> TRUE]
              /\ UNCHANGED presumed
           \/ /\ tx' = [who |-> "remove", pc |-> "intent", rm |-> TRUE]
              /\ presumed' = TRUE
  <2>1. /\ tx' \in Txs /\ tx'.who = "remove" /\ tx'.rm = TRUE
        /\ tx'.pc = "retire" \/ (tx'.pc = "intent" /\ presumed')
    <3>1. CASE tx' = [who |-> "remove", pc |-> "retire", rm |-> TRUE]
      BY <3>1 DEF Txs, Whos, Pcs
    <3>2. CASE /\ tx' = [who |-> "remove", pc |-> "intent", rm |-> TRUE]
               /\ presumed' = TRUE
      BY <3>2 DEF Txs, Whos, Pcs
    <3> QED BY <1>6, <3>1, <3>2
  <2>2. presumed' \in BOOLEAN /\ (presumed => presumed')
    BY <1>6 DEF IInv, TypeOK
  <2> HIDE <1>6
  <2>3. TypeOK' BY <1>3, <1>4, <2>1, <2>2 DEF IInv, TypeOK
  <2> QED BY <1>1, <1>2, <1>3, <2>1, <2>2, <2>3, TakeKeeps DEF files
<1> QED BY <1>5, <1>6 DEF RemoveTake

-----------------------------------------------------------------------------
(* Start, worker and crashes *)

\* A start finds a free lock and an uncommitted record (reconcile_workers).
LEMMA StartKeeps == ASSUME IInv, Start PROVE IInv'
<1>1. /\ ~up /\ up' = TRUE
      /\ UNCHANGED <<rec, binding, checkout, job, phase, journal, mem, watching,
                     retry, answer, presumed, faults, crashes, removes>>
      /\ unread' = FALSE
  BY DEF Start, files, worker
<1>2. /\ tx = NoTx /\ tx.who = "none" /\ mem = "none" /\ ~watching /\ ~Committed
      /\ answer # "ok"
  BY <1>1, NoTxFields DEF IInv, HolderInv, CommitInv
<1>3. /\ tx' \in Txs /\ ~tx'.rm
      /\ \/ tx' = NoTx /\ tx'.who = "none" /\ tx'.pc = "idle"
         \/ rec # None /\ tx'.who = "start" /\ tx'.pc = "probe"
  <2>1. CASE rec = None BY <2>1, NoTxFields DEF Start
  <2>2. CASE rec # None
    <3>1. "start" \in Whos /\ "probe" \in Pcs BY DEF Whos, Pcs
    <3>2. tx' = HeldBy("start", "probe") BY <2>2 DEF Start
    <3> QED BY <2>2, <3>1, <3>2, HeldByFields
  <2> QED BY <2>1, <2>2
<1>4. TypeOK' BY <1>1, <1>3, ZenonT(60) DEF IInv, TypeOK
<1>5. HolderInv' BY <1>1, <1>2, <1>3 DEF HolderInv, Doing, Committed
<1>6. CreateInv' /\ PlaceInv'
  BY <1>1, <1>2, <1>3 DEF IInv, CreateInv, PlaceInv, Doing
<1>7. GoneInv' /\ UndoInv'
  BY <1>1, <1>2, <1>3 DEF IInv, GoneInv, UndoInv, Undoing
<1>8. CommitInv' BY <1>1, <1>2, <1>3 DEF CommitInv, Committed
<1>9. CheckoutKept' BY <1>1 DEF IInv, CheckoutKept, Committed
<1>10. NothingHidden' BY <1>1 DEF IInv, NothingHidden
<1> QED BY <1>4, <1>5, <1>6, <1>7, <1>8, <1>9, <1>10 DEF IInv

\* The worker goes on by itself, under any holder.
LEMMA WorkerKeeps ==
  ASSUME IInv, WorkerReady \/ WorkerSpawns \/ WorkerExits \/ WorkerEnds
  PROVE  IInv'
<1>1. UNCHANGED <<up, rec, binding, checkout, mem, tx, watching, retry, unread,
                  answer, presumed, faults, crashes, removes, job>>
  BY DEF WorkerReady, WorkerSpawns, WorkerExits, WorkerEnds, daemon, files, tasks
<1>2. /\ phase \notin {"none", "gone"}
      /\ \/ phase = "starting" /\ phase' = "idle"
         \/ phase \in {"spawning", "running"} /\ phase' \in {"running", "exited"}
         \/ phase' = "gone"
  BY DEF WorkerReady, WorkerSpawns, WorkerExits, WorkerEnds
<1>3. journal' \in {journal, "live", "terminal"}
  BY DEF WorkerReady, WorkerSpawns, WorkerExits, WorkerEnds
<1>4. TypeOK'
  <2>1. phase' \in Phases /\ journal' \in {"none", "live", "terminal"}
    BY <1>2, <1>3 DEF IInv, TypeOK, Phases
  <2> QED BY <1>1, <2>1 DEF IInv, TypeOK
<1>5. HolderInv' BY <1>1 DEF IInv, HolderInv
<1>6. CreateInv' BY <1>1, <1>2 DEF IInv, CreateInv
<1>7. PlaceInv' BY <1>1, <1>2 DEF IInv, PlaceInv, Doing
<1>8. GoneInv' BY <1>1, <1>2 DEF IInv, GoneInv, Undoing, Dead
<1>9. UndoInv' /\ CommitInv' BY <1>1 DEF IInv, UndoInv, CommitInv, Committed
<1>10. CheckoutKept' BY <1>1, <1>2 DEF IInv, CheckoutKept, Committed
<1>11. NothingHidden' BY <1>1 DEF IInv, NothingHidden
<1> QED BY <1>4, <1>5, <1>6, <1>7, <1>8, <1>9, <1>10, <1>11 DEF IInv

\* A crash loses the lock and what was listed, and keeps the files; a host crash
\* ends the worker as well.
LEMMA CrashKeeps == ASSUME IInv, DaemonCrash \/ HostCrash PROVE IInv'
<1>1. /\ up /\ rec # None /\ rec.txn # "none"
      /\ UNCHANGED <<rec, binding, checkout, journal, presumed, faults, removes,
                     unread>>
      /\ up' = FALSE /\ mem' = "none" /\ tx' = NoTx /\ watching' = FALSE
      /\ retry' = FALSE
  BY DEF DaemonCrash, HostCrash, Crash, files
<1>2. crashes' \in 0..Crashes
  BY BudgetAssumption DEF DaemonCrash, HostCrash, Crash, IInv, TypeOK
<1>3. answer' = IF answer = "none" THEN "lost" ELSE answer
  BY DEF DaemonCrash, HostCrash, Crash
<1>4. \/ UNCHANGED <<job, phase>>
      \/ job' = FALSE /\ phase' = IF phase = "none" THEN "none" ELSE "gone"
  BY DEF DaemonCrash, HostCrash
<1>5. tx' \in Txs /\ tx'.who = "none" /\ tx'.pc = "idle" /\ ~tx'.rm
  BY <1>1, NoTxFields
<1>6. answer # "ok" BY <1>1 DEF IInv, CommitInv, Committed
<1>7. TypeOK'
  <2>1. job' \in BOOLEAN /\ phase' \in Phases BY <1>4 DEF IInv, TypeOK, Phases
  <2>2. answer' \in {"none", "ok", "failed", "lost"} BY <1>3 DEF IInv, TypeOK
  <2> QED BY <1>1, <1>2, <1>5, <2>1, <2>2 DEF IInv, TypeOK, Listings
<1>8. HolderInv' BY <1>1, <1>5 DEF HolderInv, Doing
<1>9. CreateInv' /\ PlaceInv' BY <1>3, <1>5 DEF CreateInv, PlaceInv, Doing
<1>10. GoneInv' /\ UndoInv'
  BY <1>1, <1>4, <1>5 DEF IInv, GoneInv, UndoInv, Undoing
<1>11. CommitInv' BY <1>1, <1>3, <1>5, <1>6 DEF CommitInv, Committed
<1>12. CheckoutKept' BY <1>1, <1>4 DEF IInv, CheckoutKept, Committed
<1>13. NothingHidden' BY <1>1, <1>4 DEF IInv, NothingHidden
<1> QED BY <1>7, <1>8, <1>9, <1>10, <1>11, <1>12, <1>13 DEF IInv

-----------------------------------------------------------------------------
(* The theorems *)

\* The invariant holds before the create.
LEMMA InitHolds == Init => IInv
<1> SUFFICES ASSUME Init PROVE IInv OBVIOUS
<1>1. tx \in Txs /\ tx.who = "none" /\ tx.pc = "idle" /\ ~tx.rm
  BY NoTxFields DEF Init
<1>2. TypeOK
  <2>1. faults \in 0..Faults /\ crashes \in 0..Crashes /\ removes \in 0..Removes
    BY BudgetAssumption DEF Init
  <2> QED BY <1>1, <2>1 DEF Init, TypeOK, Phases, Listings
<1>3. HolderInv BY <1>1 DEF Init, HolderInv, Doing
<1>4. CreateInv /\ PlaceInv BY <1>1 DEF Init, CreateInv, PlaceInv, Doing
<1>5. GoneInv /\ UndoInv BY <1>1 DEF Init, GoneInv, UndoInv, Undoing
<1>6. CommitInv /\ CheckoutKept BY <1>1 DEF Init, CommitInv, CheckoutKept, Committed
<1>7. NothingHidden BY DEF Init, NothingHidden
<1> QED BY <1>2, <1>3, <1>4, <1>5, <1>6, <1>7 DEF IInv

\* Every step keeps the invariant.
LEMMA StepHolds == IInv /\ [Next]_vars => IInv'
<1> SUFFICES ASSUME IInv, [Next]_vars PROVE IInv' OBVIOUS
<1>1. CASE CreateStep /\ Frame
  BY <1>1, CreateIntentKeeps, CreateBindKeeps, CreateCheckoutKeeps,
     CreateGenerationKeeps, CreateStartKeeps, CreateConnectKeeps,
     CreateInitializeKeeps, CreateInspectKeeps, CreateCommitKeeps
  DEF CreateStep
<1>2. CASE SettleStep /\ Frame
  BY <1>2, RetireKeeps, CleanupKeeps, UnbindKeeps, DropKeeps, ProbeIncompleteKeeps,
     ProbeKeeps, ProbeRemovalKeeps, AdoptKeeps, RemoveIntentKeeps
  DEF SettleStep
<1>3. CASE (WatchTake \/ RetryTake) /\ Frame
  BY <1>3, WatchTakeKeeps, RetryTakeKeeps
<1>4. CASE RemoveTake BY <1>4, RemoveTakeKeeps
<1>5. CASE Start BY <1>5, StartKeeps
<1>6. CASE WorkerReady \/ WorkerSpawns \/ WorkerExits \/ WorkerEnds
  BY <1>6, WorkerKeeps
<1>7. CASE DaemonCrash \/ HostCrash BY <1>7, CrashKeeps
<1>8. CASE UNCHANGED vars
  <2>1. /\ UNCHANGED <<up, rec, binding, checkout, job, phase, journal, mem, tx,
                       watching, retry, unread, answer, presumed>>
        /\ UNCHANGED <<faults, crashes, removes>>
    BY <1>8 DEF vars, files, worker, tasks
  <2>2. TypeOK' BY <2>1 DEF IInv, TypeOK
  <2> QED BY <2>1, <2>2, IdleKeeps DEF files
<1> QED BY <1>1, <1>2, <1>3, <1>4, <1>5, <1>6, <1>7, <1>8 DEF Next, DaemonStep

\* Every reachable state satisfies the inductive invariant.
THEOREM Invariance == Spec => []IInv
BY InitHolds, StepHolds, PTL DEF Spec

\* Every variable keeps its values; every listing is one the retry knows.
THEOREM TypeCorrect == Spec => []TypeOK
<1>1. IInv => TypeOK BY DEF IInv
<1> QED BY <1>1, Invariance, PTL

\* Whatever fails or crashes, in whatever order the create, the startup
\* reconciliation, the retry, the watch and removals take the lifecycle lock, the
\* compensation never removes the checkout of a runtime or of a committed session
\* (try_compensate_create, cleanup_bound_worktree), unless a removal presumed a
\* lost worker gone.
THEOREM CheckoutSafe == Spec => []CheckoutKept
<1>1. IInv => CheckoutKept BY DEF IInv
<1> QED BY <1>1, Invariance, PTL

\* Whatever fails or crashes, a checkout always has its binding, a binding, a job
\* and an entry have their record, and the record of a job names its generation
\* (create_intent_record, create_and_bind, transact_pty_registration,
\* try_compensate_create): the next start finds what is left.
THEOREM ReachSafe == Spec => []NothingHidden
<1>1. IInv => NothingHidden BY DEF IInv
<1> QED BY <1>1, Invariance, PTL

=============================================================================
