---------------------------- MODULE BuyerBudget ----------------------------
(***************************************************************************)
(* The buyer's MCP tools: each call reserves the cap of its card in the    *)
(* budget of its tool and of the day, pays through the client, and commits *)
(* what was debited, or releases the hold when the payment threw.          *)
(*                                                                         *)
(* The card of the hold is the one read when the server started.  To pay,  *)
(* the client reads the card again, and signs an authorization for the cap *)
(* it serves by then, at most the client's own ceiling; once it is posted, *)
(* the seller may settle it once, for any amount up to what was signed,    *)
(* until it expires, whatever the client gets to see of it.  Calls         *)
(* overlap, and the day may change under them.                             *)
(***************************************************************************)
EXTENDS Naturals, FiniteSets, FiniteSetsExt

CONSTANTS BuyerCalls, ToolOf,       \* calls, and the tool of each
          CardCap,                  \* tool -> pricing.max of the card at start-up
          Served,                   \* what pricing.max of a card read later may be
          Ceiling,                  \* maxCapTokens, in base units
          PerToolCap, PerDayCap,
          Days                      \* bound: 1..Days

ASSUME BudgetAssumption ==
  /\ IsFiniteSet(BuyerCalls) /\ Ceiling \in Nat \ {0}
  /\ PerToolCap \in Nat /\ PerDayCap \in Nat /\ Days \in Nat \ {0}
  /\ \A c \in BuyerCalls : CardCap[ToolOf[c]] \in Nat
  /\ Served \subseteq Nat

BuyerTools == {ToolOf[c] : c \in BuyerCalls}

VARIABLES today,
          committed, pending,       \* [tool |-> ..., day |-> ...] totals
          buyerCall,                \* call -> position, the day of its hold
          signed,                   \* call -> the cap signed for it
          debited                   \* call -> what the escrow debited for it

budgetVars == <<today, committed, pending, buyerCall, signed, debited>>

NoTotals == [tool |-> [t \in BuyerTools |-> 0], day |-> [d \in 1..Days |-> 0]]

BudgetInit ==
  /\ today = 1
  /\ committed = NoTotals /\ pending = NoTotals
  /\ buyerCall = [c \in BuyerCalls |-> [pc |-> "idle", day |-> 1, open |-> FALSE]]
  /\ signed = [c \in BuyerCalls |-> 0]
  /\ debited = [c \in BuyerCalls |-> 0]

CallTo(c, pc) == buyerCall' = [buyerCall EXCEPT ![c].pc = pc]

\* The totals with an amount added to those of the call's tool and day.
Plus(totals, c, d, amount) ==
  [tool |-> [totals.tool EXCEPT ![ToolOf[c]] = @ + amount],
   day |-> [totals.day EXCEPT ![d] = @ + amount]]

Less(totals, c, d, amount) ==
  [tool |-> [totals.tool EXCEPT ![ToolOf[c]] = @ - amount],
   day |-> [totals.day EXCEPT ![d] = @ - amount]]

Basis(c) == CardCap[ToolOf[c]]

(***************************************************************************)
(* The guard.                                                              *)
(***************************************************************************)
AdmitsIgnoringPending(c) ==
  /\ committed.tool[ToolOf[c]] + Basis(c) <= PerToolCap
  /\ committed.day[today] + Basis(c) <= PerDayCap

Admits(c) ==
  /\ committed.tool[ToolOf[c]] + pending.tool[ToolOf[c]] + Basis(c) <= PerToolCap
  /\ committed.day[today] + pending.day[today] + Basis(c) <= PerDayCap

Reserve(c) ==
  /\ buyerCall[c].pc = "idle"
  /\ IF Admits(c)
     THEN /\ pending' = Plus(pending, c, today, Basis(c))
          /\ buyerCall' = [buyerCall EXCEPT ![c].pc = "quote", ![c].day = today]
     ELSE CallTo(c, "denied") /\ UNCHANGED pending
  /\ UNCHANGED <<today, committed, signed, debited>>

CommitHold(c, amount) ==
  /\ pending' = Less(pending, c, buyerCall[c].day, Basis(c))
  /\ committed' = Plus(committed, c, buyerCall[c].day, amount)

ReleaseHold(c) ==
  pending' = Less(pending, c, buyerCall[c].day, Basis(c)) /\ UNCHANGED committed

(***************************************************************************)
(* pay.                                                                    *)
(***************************************************************************)
SignedCap(cardCap) == IF cardCap > Ceiling THEN Ceiling ELSE cardCap

\* The card is read again and gives the cap; the unpaid call is answered 402, and
\* the signed one is posted.  Nothing is signed for a cap of zero.
SignAndPost(c) ==
  /\ buyerCall[c].pc = "quote"
  /\ \E cardCap \in Served \ {0} : signed' = [signed EXCEPT ![c] = SignedCap(cardCap)]
  /\ buyerCall' = [buyerCall EXCEPT ![c].pc = "posted", ![c].open = TRUE]
  /\ UNCHANGED <<today, committed, pending, debited>>

\* 200: the response, and the receipt's amount.
PaidAnswer(c) ==
  /\ buyerCall[c].pc = "posted" /\ debited[c] > 0
  /\ CommitHold(c, debited[c])
  /\ CallTo(c, "paid")
  /\ UNCHANGED <<today, signed, debited>>

\* Any other status is returned, not thrown: the hold is committed to zero.
OtherAnswer(c) ==
  /\ buyerCall[c].pc = "posted"
  /\ CommitHold(c, 0)
  /\ CallTo(c, "unpaid")
  /\ UNCHANGED <<today, signed, debited>>

\* The card or the quote is refused, the answer is lost, or the receipt cannot be fetched.
PayThrows(c) ==
  /\ buyerCall[c].pc \in {"quote", "posted"}
  /\ ReleaseHold(c)
  /\ CallTo(c, "failed")
  /\ UNCHANGED <<today, signed, debited>>

(***************************************************************************)
(* The seller's side, through the facilitator and the escrow.              *)
(***************************************************************************)
SellerSettles(c) ==
  /\ buyerCall[c].open
  /\ \E amount \in 1..signed[c] : debited' = [debited EXCEPT ![c] = amount]
  /\ buyerCall' = [buyerCall EXCEPT ![c].open = FALSE]
  /\ UNCHANGED <<today, committed, pending, signed>>

AuthorizationExpires(c) ==
  /\ buyerCall[c].open
  /\ buyerCall' = [buyerCall EXCEPT ![c].open = FALSE]
  /\ UNCHANGED <<today, committed, pending, signed, debited>>

DayChanges ==
  /\ today < Days
  /\ today' = today + 1
  /\ UNCHANGED <<committed, pending, buyerCall, signed, debited>>

BudgetNext ==
  \/ DayChanges
  \/ \E c \in BuyerCalls :
       \/ Reserve(c) \/ SignAndPost(c) \/ PaidAnswer(c) \/ OtherAnswer(c)
       \/ PayThrows(c) \/ SellerSettles(c) \/ AuthorizationExpires(c)

BudgetSpec == BudgetInit /\ [][BudgetNext]_budgetVars

-----------------------------------------------------------------------------
\* Types.
BudgetTypeOK ==
  /\ today \in 1..Days
  /\ \A totals \in {committed, pending} :
       totals \in [tool : [BuyerTools -> Nat], day : [1..Days -> Nat]]
  /\ buyerCall \in [BuyerCalls ->
       [pc : {"idle", "denied", "quote", "posted", "paid", "unpaid", "failed"},
        day : 1..Days, open : BOOLEAN]]
  /\ signed \in [BuyerCalls -> 0..Ceiling]
  /\ \A c \in BuyerCalls : debited[c] \in 0..signed[c]

DebitedTo(calls) == MapThenSumSet(LAMBDA c : debited[c], calls)

\* What a call was charged within its hold; the card may have become dearer.
WithinHold == [c \in BuyerCalls |-> IF debited[c] > Basis(c) THEN Basis(c) ELSE debited[c]]
WithinHoldOf(calls) == MapThenSumSet(LAMBDA c : WithinHold[c], calls)

Holding(calls) == {c \in calls : buyerCall[c].pc \in {"quote", "posted"}}
AnsweredCalls(calls) == {c \in calls : buyerCall[c].pc = "paid"}

OfTool(t) == {c \in BuyerCalls : ToolOf[c] = t}
OfDay(d) == {c \in BuyerCalls : buyerCall[c].day = d}

(***************************************************************************)
(* However the calls overlap, the holds of a tool, and of a day, never     *)
(* pass its cap: those in the air with what answered calls were charged of *)
(* theirs.  A tool or a day is charged past its cap only by what dearer    *)
(* cards took on top of a hold (budget.ts:121-157, server.ts:99).          *)
(***************************************************************************)
BudgetHolds ==
  LET atMost(calls, cap) ==
        WithinHoldOf(AnsweredCalls(calls)) + MapThenSumSet(Basis, Holding(calls)) <= cap
  IN /\ \A t \in BuyerTools : atMost(OfTool(t), PerToolCap)
     /\ \A d \in 1..Days : atMost(OfDay(d), PerDayCap)

\* budget.ts:11-13: "N parallel calls can never collectively exceed the cap": nor
\* does what answered calls of a tool, or of a day, were charged.
DocParallel ==
  /\ \A t \in BuyerTools : DebitedTo(AnsweredCalls(OfTool(t))) <= PerToolCap
  /\ \A d \in 1..Days : DebitedTo(AnsweredCalls(OfDay(d))) <= PerDayCap

\* budget.ts:14: "on a pay failure release undoes the reservation so a reverted
\* pay does not leak budget room": what a tool was charged stays within its cap.
DocBudget ==
  \A t \in BuyerTools : DebitedTo(OfTool(t)) <= PerToolCap
=============================================================================
