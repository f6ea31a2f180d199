-------------------------- MODULE PaymentSplitter --------------------------
(***************************************************************************)
(* The contract of the exact scheme: it collects what relayers transfer to *)
(* it, and anyone may flush the whole balance to the creator and the       *)
(* treasury.  The creator's share is floored at every flush, and the admin *)
(* may change the split and the treasury between any two of them.          *)
(*                                                                         *)
(* The admin's handover (OpenZeppelin's) and events are left out; a token  *)
(* transfer that reverts leaves everything as it was.                      *)
(***************************************************************************)
EXTENDS Naturals, FiniteSets, FiniteSetsExt

CONSTANTS Accounts,               \* creator and treasuries
          SplitCreator,           \* the creator, set for good
          Denominator,            \* BPS_DENOMINATOR
          Splits, Values,         \* the shares and the transfers that occur
          MaxReceived             \* bound

ASSUME SplitterAssumption ==
  /\ IsFiniteSet(Accounts) /\ SplitCreator \in Accounts
  /\ Denominator \in Nat \ {0} /\ Splits \subseteq 0 .. Denominator
  /\ Values \subseteq Nat \ {0} /\ MaxReceived \in Nat

VARIABLES balance,        \* the token: the splitter's balance and the accounts'
          creatorBps, treasury,
          received,       \* history: all that was transferred in
          flushed         \* history: flushes that paid, and their shares summed,
                          \* in units of 1/Denominator

splitterVars == <<balance, creatorBps, treasury, received, flushed>>

SplitterInit ==
  /\ balance = [held |-> 0, paid |-> [a \in Accounts |-> 0]]
  /\ creatorBps \in Splits /\ treasury \in Accounts
  /\ received = 0
  /\ flushed = [count |-> 0, share |-> 0]

\* transferWithAuthorization to the splitter, by a relayer.
Receive ==
  /\ \E v \in Values :
       /\ received + v <= MaxReceived
       /\ received' = received + v
       /\ balance' = [balance EXCEPT !.held = @ + v]
  /\ UNCHANGED <<creatorBps, treasury, flushed>>

Distribute ==
  LET toCreator == (balance.held * creatorBps) \div Denominator
      credit(a) == (IF a = SplitCreator THEN toCreator ELSE 0)
                   + (IF a = treasury THEN balance.held - toCreator ELSE 0)
  IN /\ balance.held > 0
     /\ balance' = [held |-> 0, paid |-> [a \in Accounts |-> balance.paid[a] + credit(a)]]
     /\ flushed' = [count |-> flushed.count + 1,
                    share |-> flushed.share + balance.held * creatorBps]
     /\ UNCHANGED <<creatorBps, treasury, received>>

SetSplit ==
  /\ creatorBps' \in Splits
  /\ UNCHANGED <<balance, treasury, received, flushed>>

SetTreasury ==
  /\ treasury' \in Accounts
  /\ UNCHANGED <<balance, creatorBps, received, flushed>>

SplitterNext == Receive \/ Distribute \/ SetSplit \/ SetTreasury

-----------------------------------------------------------------------------
SplitterTypeOK ==
  /\ balance \in [held : 0 .. MaxReceived, paid : [Accounts -> 0 .. MaxReceived]]
  /\ creatorBps \in Splits /\ treasury \in Accounts
  /\ received \in 0 .. MaxReceived

\* Nothing is lost or made (PaymentSplitter.sol:74-79); and however often, and
\* by whomever, small balances are flushed, the creator is short of the shares
\* in force by less than a unit a flush.
SplitIsFair ==
  /\ balance.held + MapThenSumSet(LAMBDA a : balance.paid[a], Accounts) = received
  /\ (balance.paid[SplitCreator] + flushed.count) * Denominator >= flushed.share
=============================================================================
