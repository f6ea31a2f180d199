------------------------------ MODULE Refunds ------------------------------
(***************************************************************************)
(* executeRefund: the settled payments of a failing resource inside a      *)
(* failure window are paid back from the insurance pool.  The vault has no *)
(* replay guard, so the only one is the idempotency store: it remembers,   *)
(* per window, which payers were refunded, and a run skips those.          *)
(*                                                                         *)
(* One step runs from one await to the next.  A run may throw or its       *)
(* process stop anywhere, and is then called again; two runs may overlap,  *)
(* and two windows may hold the same payment.  A refund is broadcast and   *)
(* marked at once and mined, or reverted, later: nobody waits for its      *)
(* receipt.  Each payment is of one unit.                                  *)
(***************************************************************************)
EXTENDS Naturals, FiniteSets

CONSTANTS Payments, Payer,   \* settled payments, and whose each is
          Runs, WindowOf,      \* calls of executeRefund, and the window of each
          Affected,          \* window -> payments settled inside it
          InitialPool,
          MaxRetries         \* bound: times a run that ended is called again

ASSUME RefundAssumption ==
  /\ IsFiniteSet(Payments) /\ IsFiniteSet(Runs)
  /\ InitialPool \in Nat /\ MaxRetries \in Nat
  /\ \A r \in Runs : Affected[WindowOf[r]] \subseteq Payments

VARIABLES refundRun,      \* run -> position, payments to check, pending, sending
          marks,          \* <<window, payer>> of the store
          mempool,        \* payment -> refunds broadcast and not mined
          refundPool,     \* insurancePoolBalance
          repaid,         \* payment -> refunds mined
          reverted,       \* history: a broadcast refund found the pool empty
          retries,
          careless        \* history: see RefundsSettled

refundVars == <<refundRun, marks, mempool, refundPool, repaid, reverted,
                retries, careless>>

RunIdle == [pc |-> "idle", check |-> {}, pending |-> {}, sent |-> {}]

RefundInit ==
  /\ refundRun = [r \in Runs |-> RunIdle]
  /\ marks = {}
  /\ mempool = [p \in Payments |-> 0]
  /\ refundPool = InitialPool
  /\ repaid = [p \in Payments |-> 0]
  /\ reverted = FALSE /\ retries = 0 /\ careless = FALSE

AnotherAtWork(r) ==
  \E q \in Runs \ {r} :
    WindowOf[q] = WindowOf[r] /\ refundRun[q].pc \notin {"idle", "done", "failed"}

\* identifyAffectedBuyers.  A payment that another window holds too is refunded
\* under either key; a run beside another of its window misses the other's marks.
RefundStarts(r) ==
  /\ refundRun[r].pc = "idle"
  /\ refundRun' = [refundRun EXCEPT ![r] =
       IF Affected[WindowOf[r]] = {} THEN [RunIdle EXCEPT !.pc = "done"]
       ELSE [RunIdle EXCEPT !.pc = "checking", !.check = Affected[WindowOf[r]]]]
  /\ careless' = (careless \/ AnotherAtWork(r))
  /\ UNCHANGED <<marks, mempool, refundPool, repaid, reverted, retries>>

IsRefundedNever(r, p) == FALSE

IsRefunded(r, p) == <<WindowOf[r], Payer[p]>> \in marks

\* The payers marked by an earlier run are skipped.
CheckBuyer(r, p) ==
  /\ refundRun[r].pc = "checking" /\ p \in refundRun[r].check
  /\ LET check == refundRun[r].check \ {p}
         pending == refundRun[r].pending \cup (IF IsRefunded(r, p) THEN {} ELSE {p})
     IN refundRun' = [refundRun EXCEPT ![r].check = check, ![r].pending = pending,
          ![r].pc = CASE check # {} -> "checking"
                      [] check = {} /\ pending = {} -> "done"
                      [] OTHER -> "bounding"]
  /\ UNCHANGED <<marks, mempool, refundPool, repaid, reverted, retries, careless>>

\* The whole remainder must be covered by the pool before anything is sent.
BoundByPool(r) ==
  /\ refundRun[r].pc = "bounding"
  /\ refundRun' = [refundRun EXCEPT ![r].pc =
       IF Cardinality(refundRun[r].pending) <= refundPool THEN "writing" ELSE "failed"]
  /\ UNCHANGED <<marks, mempool, refundPool, repaid, reverted, retries, careless>>

WriteRefund(r, p) ==
  /\ refundRun[r].pc = "writing" /\ p \in refundRun[r].pending
  /\ mempool' = [mempool EXCEPT ![p] = @ + 1]
  /\ refundRun' = [refundRun EXCEPT ![r].pc = "marking", ![r].sent = {p}]
  /\ UNCHANGED <<marks, refundPool, repaid, reverted, retries, careless>>

MarkRefunded(r) ==
  /\ refundRun[r].pc = "marking"
  /\ marks' = marks \cup {<<WindowOf[r], Payer[p]>> : p \in refundRun[r].sent}
  /\ LET left == refundRun[r].pending \ refundRun[r].sent IN
     refundRun' = [refundRun EXCEPT ![r].pending = left, ![r].sent = {},
                   ![r].pc = IF left = {} THEN "done" ELSE "writing"]
  /\ UNCHANGED <<mempool, refundPool, repaid, reverted, retries, careless>>

\* A read, a write or the store throws, or the process stops.
RefundThrows(r) ==
  /\ refundRun[r].pc \notin {"idle", "done", "failed"}
  /\ refundRun' = [refundRun EXCEPT ![r].pc = "failed"]
  /\ careless' = (careless \/ refundRun[r].pc = "marking")
  /\ UNCHANGED <<marks, mempool, refundPool, repaid, reverted, retries>>

RefundRetried(r) ==
  /\ refundRun[r].pc \in {"done", "failed"} /\ retries < MaxRetries
  /\ refundRun' = [refundRun EXCEPT ![r] = RunIdle]
  /\ retries' = retries + 1
  /\ UNCHANGED <<marks, mempool, refundPool, repaid, reverted, careless>>

\* StakingVault.refund, when the transaction is mined.
RefundMined(p) ==
  /\ mempool[p] > 0
  /\ mempool' = [mempool EXCEPT ![p] = @ - 1]
  /\ IF refundPool > 0
     THEN /\ refundPool' = refundPool - 1
          /\ repaid' = [repaid EXCEPT ![p] = @ + 1]
          /\ UNCHANGED reverted
     ELSE reverted' = TRUE /\ UNCHANGED <<refundPool, repaid>>
  /\ UNCHANGED <<refundRun, marks, retries, careless>>

RefundNext ==
  \/ \E r \in Runs :
       \/ RefundStarts(r) \/ BoundByPool(r) \/ MarkRefunded(r)
       \/ RefundThrows(r) \/ RefundRetried(r)
       \/ \E p \in Payments : CheckBuyer(r, p) \/ WriteRefund(r, p)
  \/ \E p \in Payments : RefundMined(p)

RefundSpec == RefundInit /\ [][RefundNext]_refundVars

-----------------------------------------------------------------------------
\* Types.
RefundTypeOK ==
  /\ \A r \in Runs :
       /\ refundRun[r].pc \in {"idle", "checking", "bounding", "writing",
                               "marking", "done", "failed"}
       /\ refundRun[r].check \cup refundRun[r].pending \subseteq Affected[WindowOf[r]]
       /\ refundRun[r].sent \subseteq refundRun[r].pending
  /\ marks \subseteq {<<WindowOf[r], Payer[p]>> : r \in Runs, p \in Payments}
  /\ mempool \in [Payments -> Nat] /\ repaid \in [Payments -> Nat]
  /\ refundPool \in 0..InitialPool /\ retries \in 0..MaxRetries
  /\ reverted \in BOOLEAN /\ careless \in BOOLEAN

\* Refunds of a payment, on chain and on their way.
Refunds(p) == repaid[p] + mempool[p]

WindowsOf(p) == {WindowOf[r] : r \in {q \in Runs : p \in Affected[WindowOf[q]]}}

(***************************************************************************)
(* As long as runs of a window do not overlap and none stops between a broadcast and   *)
(* its mark, a payment is refunded at most once per window that holds it,  *)
(* whatever throws and is retried in between; and a run that ends has paid *)
(* each of its payers something, or is about to (refund.ts:183-255).       *)
(***************************************************************************)
RefundsSettled ==
  ~careless =>
    /\ \A p \in Payments : Refunds(p) <= Cardinality(WindowsOf(p))
    /\ \A r \in Runs : refundRun[r].pc = "done" =>
         \A p \in Affected[WindowOf[r]] :
           \/ reverted
           \/ \E q \in Affected[WindowOf[r]] : Payer[q] = Payer[p] /\ Refunds(q) > 0

\* refund.ts:152-154: "a buyer already refunded for this (resourceId, window) batch
\* is SKIPPED on a retry, never paid twice".
DocRefund ==
  \A p \in Payments : Refunds(p) <= Cardinality(WindowsOf(p))
=============================================================================
