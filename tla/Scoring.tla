------------------------------ MODULE Scoring ------------------------------
(***************************************************************************)
(* The scheduled re-scoring loop of one listed resource: every tick probes *)
(* the endpoint without paying (its card, then one unpaid call that must   *)
(* be answered 402 within the budget), folds the outcome through the       *)
(* strike reducer and applies the transition.                              *)
(*                                                                         *)
(* The timer starts a tick whether or not the last one has ended, so ticks *)
(* overlap; what keeps the counter right is that reading, reducing and     *)
(* writing the strike state happen between two awaits.  The endpoint goes  *)
(* up and down as it likes.  The rolling score is advisory and left out.   *)
(***************************************************************************)
EXTENDS Integers, Sequences

CONSTANTS Ticks,          \* ticks that may be in progress at a time
          StrikeLimit,    \* STRIKE_LIMIT, 5 in the code
          MaxFolds        \* bound: probes folded

ASSUME ScoringAssumption == StrikeLimit \in Nat \ {0} /\ MaxFolds \in Nat

\* What a call of the endpoint meets: the pay gate in time, the gate too late,
\* an answer without payment, or no card or connection at all.
Conditions == {"gated", "slow", "free", "down"}

VARIABLES endpoint,       \* the condition of the endpoint
          scoring,        \* tick -> position, and the probe result it applies
          strikes,        \* the StrikeState of the store
          folded,         \* history: outcome of every folded probe
          reviews,        \* bond slash reviews the caller has raised
          lostReviews     \* reviews whose applyResult threw

scoringVars == <<endpoint, scoring, strikes, folded, reviews, lostReviews>>

TickIdle == [pc |-> "idle", deactivated |-> FALSE]

InitialStrikeState == [consecutive |-> 0, active |-> TRUE]

ScoringInit ==
  /\ endpoint = "gated"
  /\ scoring = [t \in Ticks |-> TickIdle]
  /\ strikes = InitialStrikeState
  /\ folded = <<>>
  /\ reviews = 0 /\ lostReviews = 0

EndpointChanges ==
  /\ \E c \in Conditions : c # endpoint /\ endpoint' = c
  /\ UNCHANGED <<scoring, strikes, folded, reviews, lostReviews>>

TickStarts(t) ==
  /\ scoring[t].pc = "idle"
  /\ scoring' = [scoring EXCEPT ![t].pc = "card"]
  /\ UNCHANGED <<endpoint, strikes, folded, reviews, lostReviews>>

(***************************************************************************)
(* reduceStrike, and one fold of the loop: getState, reduce, setState in   *)
(* one step, whatever the other ticks did since this probe began.          *)
(***************************************************************************)
ReduceStrikeNoReset(s, passed) ==
  LET n == IF passed THEN s.consecutive ELSE s.consecutive + 1 IN
  [consecutive |-> n, active |-> s.active /\ n < StrikeLimit]

ReduceStrike(s, passed) ==
  IF passed THEN [s EXCEPT !.consecutive = 0]
  ELSE LET n == s.consecutive + 1 IN
       [consecutive |-> n, active |-> s.active /\ n < StrikeLimit]

Fold(t, passed) ==
  LET next == ReduceStrike(strikes, passed) IN
  /\ strikes' = next
  /\ folded' = Append(folded, passed)
  /\ scoring' = [scoring EXCEPT ![t] =
       [pc |-> "applying", deactivated |-> strikes.active /\ ~next.active]]

\* The card is fetched and validated; the call follows only when it is good.
ProbeCard(t) ==
  /\ scoring[t].pc = "card" /\ Len(folded) < MaxFolds
  /\ \/ /\ endpoint # "down"
        /\ scoring' = [scoring EXCEPT ![t].pc = "call"]
        /\ UNCHANGED <<strikes, folded>>
     \/ endpoint = "down" /\ Fold(t, FALSE)
  /\ UNCHANGED <<endpoint, reviews, lostReviews>>

\* The unpaid call: 402 in time is the only answer that passes.
ProbeCall(t) ==
  /\ scoring[t].pc = "call" /\ Len(folded) < MaxFolds
  /\ Fold(t, endpoint = "gated")
  /\ UNCHANGED <<endpoint, reviews, lostReviews>>

\* A prober that throws counts as no probe at all: the tick goes on.
ProbeThrows(t) ==
  /\ scoring[t].pc \in {"card", "call"}
  /\ scoring' = [scoring EXCEPT ![t] = TickIdle]
  /\ UNCHANGED <<endpoint, strikes, folded, reviews, lostReviews>>

\* applyResult de-lists, pauses and raises the review.  When it throws the error
\* is only reported: the state is written, so no later fold deactivates again.
ApplyResult(t) ==
  /\ scoring[t].pc = "applying"
  /\ scoring' = [scoring EXCEPT ![t] = TickIdle]
  /\ \/ /\ reviews' = reviews + (IF scoring[t].deactivated THEN 1 ELSE 0)
        /\ UNCHANGED lostReviews
     \/ /\ lostReviews' = lostReviews + (IF scoring[t].deactivated THEN 1 ELSE 0)
        /\ UNCHANGED reviews
  /\ UNCHANGED <<endpoint, strikes, folded>>

ScoringNext ==
  \/ EndpointChanges
  \/ \E t \in Ticks : \/ TickStarts(t) \/ ProbeCard(t) \/ ProbeCall(t)
                      \/ ProbeThrows(t) \/ ApplyResult(t)

ScoringSpec == ScoringInit /\ [][ScoringNext]_scoringVars

-----------------------------------------------------------------------------
\* Types.
ScoringTypeOK ==
  /\ endpoint \in Conditions
  /\ scoring \in [Ticks -> [pc : {"idle", "card", "call", "applying"},
                         deactivated : BOOLEAN]]
  /\ strikes \in [consecutive : Nat, active : BOOLEAN]
  /\ folded \in Seq(BOOLEAN)
  /\ reviews \in Nat /\ lostReviews \in Nat

StruckOut ==
  \E i \in 0..(Len(folded) - StrikeLimit) :
    \A j \in (i + 1)..(i + StrikeLimit) : ~folded[j]

(***************************************************************************)
(* However the ticks overlap, a resource is inactive exactly when          *)
(* StrikeLimit probes folded one after the other failed at some time, and  *)
(* its deactivation is handed over exactly once: one review raised, one in *)
(* the hands of a tick, or one lost with an applyResult that threw         *)
(* (strikes.ts:118-176, schedule.ts:117-129).                              *)
(***************************************************************************)
DeactivationJustified ==
  LET pending == {t \in Ticks : scoring[t].deactivated} IN
  /\ ~strikes.active <=> StruckOut
  /\ \A t, u \in pending : t = u
  /\ reviews + lostReviews + (IF pending = {} THEN 0 ELSE 1)
       = IF strikes.active THEN 0 ELSE 1
=============================================================================
