----------------------------- MODULE MCServices -----------------------------
(***************************************************************************)
(* The components that count, charge and list: the splitter contract, the  *)
(* facilitator's spend cap, batching and reservations, the refunds, the    *)
(* buyer's budget, those who pay for a call, the studio's admission and    *)
(* its wallet forms, the data proxy, the scorer, the marketplace and the   *)
(* recovery of gates.                                                      *)
(* They share no state, so a behaviour is that of one of them, chosen at   *)
(* the start, while the others rest in an initial state.                   *)
(***************************************************************************)
EXTENDS SpendCap, Batching, Refunds, BuyerBudget, DataProxy, Scoring,
        Marketplace, Recovery, PayPage, Admission, PaymentSplitter, Wallet,
        Reservations

VARIABLE component

servicesVars == <<component, capVars, batchVars, refundVars, budgetVars,
                  proxyVars, scoringVars, marketVars, recoveryVars,
                  payVars, admissionVars, splitterVars, walletVars,
                  reservationVars>>

-----------------------------------------------------------------------------
(***************************************************************************)
(* The functions of the cfg.  A payer with a cap of 2 takes it whole in one*)
(* call and half of it in two others; three debits of one unit and half of *)
(* a split that does not come out even; a payment of one payer lies in two *)
(* refund windows, of which another payer shares one; the cards of the     *)
(* buyer's start-up ask for its whole ceiling and for half of it; two      *)
(* visitors share the window of all and each has one of its own, in a      *)
(* limiter that tracks a single key; two verifies of one nonce, which is   *)
(* released, and one of a nonce that is spent.                             *)
(***************************************************************************)
AmountIs   == [c \in Calls |-> IF c = "c1" THEN 2 ELSE 1]
DebitIs    == [c \in Debits |-> IF c = "c3" THEN 2 ELSE 1]
PayerIs    == [p \in Payments |-> IF p = "p3" THEN "b" ELSE "a"]
WindowIs   == [r \in Runs |-> IF r = "r3" THEN "w2" ELSE "w1"]
InWindow   == [w \in {"w1", "w2"} |-> IF w = "w1" THEN Payments ELSE {"p3"}]
ToolIs     == [c \in BuyerCalls |-> IF c = "c3" THEN "t2" ELSE "t1"]
QuotesAt   == [t \in {"t1", "t2"} |-> IF t = "t1" THEN 1 ELSE 2]
IsNamed    == [p \in Payers |-> p]
TwoForAll  == [w \in Windows |-> IF w = "page_all" THEN 2 ELSE 1]
ReservedOf == [c \in Verifies \cup Finishers |->
                 IF c \in {"v3", "f2"} THEN "n2" ELSE "n1"]
Finishes   == [f \in Finishers |-> IF f = "f2" THEN "spend" ELSE "release"]
LastsTwo   == [w \in Windows |-> 2]
Keyed      == [w \in Windows |->
                 [v \in Visitors |-> IF w = "page_ip" THEN v ELSE "all"]]

-----------------------------------------------------------------------------
\* What the initial states leave open is fixed for a component at rest.
AtRest ==
  /\ component # "spend cap" => store = "memory"
  /\ component # "recovery" => handler = [s \in Gated |-> "absent"]
  /\ component # "proxy" => dns = Addresses \ Blocked
  /\ component # "splitter" => creatorBps = 3 /\ treasury = "fund"
  /\ component # "marketplace" => ~armed /\ ~chain.registered
  /\ component # "wallet" => surface = "sdk"
  /\ component # "reservations" => adapter = "memory"

ServicesInit ==
  /\ component \in {"spend cap", "batching", "refunds", "buyer", "proxy",
                    "scorer", "marketplace", "recovery", "payers", "admission",
                    "splitter", "wallet", "reservations"}
  /\ CapInit /\ BatchInit /\ RefundInit /\ BudgetInit
  /\ DataProxyInit /\ ScoringInit /\ MarketInit /\ RecoveryInit
  /\ PayPageInit /\ AdmissionInit /\ SplitterInit /\ WalletInit
  /\ ReservationsInit
  /\ AtRest

ServicesNext ==
  /\ UNCHANGED component
  /\ IF component = "spend cap" THEN CapNext ELSE UNCHANGED capVars
  /\ IF component = "batching" THEN BatchNext ELSE UNCHANGED batchVars
  /\ IF component = "refunds" THEN RefundNext ELSE UNCHANGED refundVars
  /\ IF component = "buyer" THEN BudgetNext ELSE UNCHANGED budgetVars
  /\ IF component = "proxy" THEN DataProxyNext ELSE UNCHANGED proxyVars
  /\ IF component = "scorer" THEN ScoringNext ELSE UNCHANGED scoringVars
  /\ IF component = "marketplace" THEN MarketNext ELSE UNCHANGED marketVars
  /\ IF component = "recovery" THEN RecoveryNext ELSE UNCHANGED recoveryVars
  /\ IF component = "payers" THEN PayPageNext ELSE UNCHANGED payVars
  /\ IF component = "admission" THEN AdmissionNext ELSE UNCHANGED admissionVars
  /\ IF component = "splitter" THEN SplitterNext ELSE UNCHANGED splitterVars
  /\ IF component = "wallet" THEN WalletNext ELSE UNCHANGED walletVars
  /\ IF component = "reservations" THEN ReservationsNext ELSE UNCHANGED reservationVars

ServicesSpec == ServicesInit /\ [][ServicesNext]_servicesVars

-----------------------------------------------------------------------------
\* The components keep their types; a resource makes no more upstream calls than
\* it may, none of them pinned to an address that was not vetted
\* (proxy.ts:214-320); a takedown that reports success is complete
\* (takedown.ts:45-75); who retries what it recorded pays a call once; a window
\* that forgot nobody admits no more than twice its limit in its length, and a
\* published listing shows on the next page (fixed-window.server.ts:64-72,
\* browse.server.ts:144-153); flushes keep to the split (PaymentSplitter.sol:74-92);
\* a wallet form reports what became of the money, over balances read since
\* (useDeposit.ts:92-120, useReceiptWait.ts:46-69); and a reservation counts against
\* the balance while it stands (pgRedis.ts:73-84, 129-150).
ServicesOK ==
  CASE component = "spend cap"   -> CapTypeOK
    [] component = "batching"    -> BatchTypeOK
    [] component = "refunds"     -> RefundTypeOK
    [] component = "buyer"       -> BudgetTypeOK
    [] component = "proxy"       -> DataProxyTypeOK /\ QuotaHolds /\ ConnectsToChecked
    [] component = "scorer"      -> ScoringTypeOK
    [] component = "marketplace" -> MarketTypeOK /\ TakedownComplete
    [] component = "recovery"    -> RecoveryTypeOK
    [] component = "payers"      -> PayPageTypeOK /\ PaysOnceWhereAsked
    [] component = "admission"   -> AdmissionTypeOK /\ AdmissionCeiling /\ ListedIsSeen
    [] component = "splitter"    -> SplitterTypeOK /\ SplitIsFair
    [] component = "wallet"      -> WalletTypeOK /\ WalletOK
    [] component = "reservations" -> ReservationsTypeOK /\ GrantedIsCounted /\ SumCovers
=============================================================================
