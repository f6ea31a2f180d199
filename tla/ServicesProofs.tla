--------------------------- MODULE ServicesProofs ---------------------------
(***************************************************************************)
(* The components around the paid call, each proved for every value of its *)
(* constants: the recovery of gates, the scorer, the buyer's budget, the   *)
(* marketplace, the data proxy, the splitter, those who pay for a call,    *)
(* the studio's limits and memo, its wallet forms and the SDK's deposits;  *)
(* and at the end all of them together, with what the facilitator counts   *)
(* (CountingProofs).                                                       *)
(***************************************************************************)
EXTENDS MCServices, CountingProofs

-----------------------------------------------------------------------------
(***************************************************************************)
(* The recovery of gates.  What is reported of a resource is reported once *)
(* in a pass, after which the pass leaves its gate alone; and the part     *)
(* that replaces a gate is reached only by a resource that is understood   *)
(* and has a handler.                                                      *)
(***************************************************************************)
Replacing == {"handler", "image", "remove", "start", "route", "card", "publish"}

PassTyped ==
  /\ pass \in [pc : {"idle", "next", "card", "publish"} \cup Awaiting,
               apply : BOOLEAN, todo : SUBSET Gated, at : SUBSET Gated]
  /\ pass.at = {} \/ \E s \in Gated : pass.at = {s}

HostTyped ==
  /\ gate \in [Gated -> {"absent", "old", "carded"}]
  /\ handler \in [Gated -> {"absent", "stopped", "running"}]
  /\ items \in [Gated -> {"none", "skipped", "planned", "failed", "listed"}]

\* The pass is done with a resource it has reported, and reaches the part that
\* replaces a gate only with one that is understood and has a handler.
PassInOrder ==
  /\ pass.at \cap pass.todo = {}
  /\ \A s \in pass.at \cup pass.todo : items[s] = "none"
  /\ pass.pc \in Replacing =>
       \A s \in pass.at : handler[s] # "absent" /\ s \notin Broken
  /\ pass.pc = "publish" => \A s \in pass.at : CardServed(s)

RecoveryInv == PassTyped /\ HostTyped /\ GatesKept /\ PassInOrder

LEMMA RecoveryStart == RecoveryInit => RecoveryInv
<1> SUFFICES ASSUME RecoveryInit PROVE RecoveryInv
  OBVIOUS
<1> USE RecoveryAssumption DEF RecoveryInit, NoPass
<1>1. PassTyped /\ HostTyped
  BY DEF PassTyped, HostTyped
<1>2. GatesKept
  BY DEF GatesKept
<1>3. PassInOrder
  BY DEF PassInOrder, Replacing
<1> QED BY <1>1, <1>2, <1>3 DEF RecoveryInv

\* A pass that is done with a resource keeps the order, and one that goes on only
\* changes its position.
LEMMA EndsInOrder ==
  ASSUME PassTyped, HostTyped, PassInOrder, NEW s \in pass.at, NEW status,
         Ends(s, status)
  PROVE  PassInOrder'
<1>1. pass'.at = {} /\ pass'.todo = pass.todo /\ pass'.pc = "next"
  BY DEF Ends, PassTyped
<1>2. \A x \in pass.todo : items'[x] = "none"
  BY DEF Ends, PassTyped, HostTyped, PassInOrder
<1> QED BY <1>1, <1>2 DEF PassInOrder, Replacing

LEMMA GoesOn ==
  ASSUME PassTyped, NEW to, GoOn(to)
  PROVE  /\ pass'.pc = to /\ pass'.at = pass.at /\ pass'.todo = pass.todo
         /\ items' = items
BY DEF GoOn, PassTyped

LEMMA RecoveryStep ==
  ASSUME RecoveryInv, [RecoveryNext]_recoveryVars
  PROVE  RecoveryInv'
<1> USE RecoveryAssumption DEF RecoveryInv
<1>1. CASE PassStarts
  <2>1. PassTyped'
    BY <1>1 DEF PassStarts, PassTyped, Awaiting
  <2>2. HostTyped'
    BY <1>1 DEF PassStarts, PassTyped, HostTyped
  <2>3. GatesKept'
    BY <1>1 DEF PassTyped, HostTyped, PassStarts, GatesKept, PassInOrder, Replacing, CardServed
  <2>4. PassInOrder'
    BY <1>1 DEF PassTyped, HostTyped, PassStarts, GatesKept, PassInOrder, Replacing, CardServed
  <2> QED BY <2>1, <2>2, <2>3, <2>4
<1>2. CASE NextGate
  <2>1. PassTyped'
    <3>1. CASE pass' = NoPass
      BY <3>1 DEF NoPass, PassTyped
    <3>2. ASSUME NEW s \in pass.todo,
                 pass' = [pass EXCEPT !.at = {s}, !.todo = @ \ {s}, !.pc = "inspect"]
          PROVE  PassTyped'
      BY <3>2 DEF PassTyped, Awaiting
    <3> QED BY <1>2, <3>1, <3>2 DEF NextGate
  <2>2. HostTyped'
    BY <1>2 DEF NextGate, NoPass, PassTyped, HostTyped
  <2>3. GatesKept'
    BY <1>2 DEF PassTyped, HostTyped, NextGate, NoPass, GatesKept, PassInOrder, Replacing, CardServed
  <2>4. PassInOrder'
    <3>1. CASE pass' = NoPass
      BY <1>2, <3>1 DEF NoPass, PassInOrder, Replacing
    <3>2. ASSUME NEW s \in pass.todo,
                 pass' = [pass EXCEPT !.at = {s}, !.todo = @ \ {s}, !.pc = "inspect"]
          PROVE  PassInOrder'
      <4>1. pass'.at = {s} /\ pass'.todo = pass.todo \ {s} /\ pass'.pc = "inspect"
        BY <3>2 DEF PassTyped
      <4> QED BY <1>2, <4>1 DEF NextGate, PassInOrder, Replacing
    <3> QED BY <1>2, <3>1, <3>2 DEF NextGate
  <2> QED BY <2>1, <2>2, <2>3, <2>4
<1>3. CASE ProcessStops
  <2>1. PassTyped'
    BY <1>3 DEF ProcessStops, NoPass, PassTyped, Awaiting
  <2>2. HostTyped'
    BY <1>3 DEF ProcessStops, NoPass, PassTyped, HostTyped
  <2>3. GatesKept'
    BY <1>3 DEF PassTyped, HostTyped, ProcessStops, NoPass, GatesKept, PassInOrder, Replacing, CardServed
  <2>4. PassInOrder'
    BY <1>3 DEF PassTyped, HostTyped, ProcessStops, NoPass, GatesKept, PassInOrder, Replacing, CardServed
  <2> QED BY <2>1, <2>2, <2>3, <2>4
<1>4. ASSUME NEW s \in Gated, InspectGate(s) PROVE RecoveryInv'
  <2>1. PassTyped'
    BY <1>4 DEF InspectGate, Ends, GoOn, PassTyped, Awaiting
  <2>2. HostTyped'
    BY <1>4 DEF InspectGate, Ends, GoOn, PassTyped, HostTyped
  <2>3. GatesKept'
    BY <1>4 DEF PassTyped, HostTyped, InspectGate, Ends, GoOn, GatesKept, PassInOrder, Replacing, CardServed
  <2>4. PassInOrder'
    <3>1. CASE handler[s] # "absent" /\ s \notin Broken /\ GoOn("handler")
      <4>1. pass.at = {s}
        BY <1>4 DEF InspectGate, PassTyped
      <4> QED BY <1>4, <3>1, <4>1, GoesOn DEF InspectGate, PassInOrder, Replacing
    <3> QED BY <1>4, <3>1, EndsInOrder DEF InspectGate
  <2> QED BY <2>1, <2>2, <2>3, <2>4
<1>5. ASSUME NEW s \in Gated, RestartHandler(s) PROVE RecoveryInv'
  <2>1. PassTyped'
    BY <1>5 DEF RestartHandler, Ends, GoOn, PassTyped, Awaiting
  <2>2. HostTyped'
    BY <1>5 DEF RestartHandler, Ends, GoOn, PassTyped, HostTyped
  <2>3. GatesKept'
    BY <1>5 DEF PassTyped, HostTyped, RestartHandler, Ends, GoOn, GatesKept, PassInOrder, Replacing, CardServed
  <2>4. PassInOrder'
    <3>1. CASE GoOn("image") /\ handler' = [handler EXCEPT ![s] = "running"]
      BY <1>5, <3>1, GoesOn DEF RestartHandler, HostTyped, PassInOrder, Replacing
    <3> QED BY <1>5, <3>1, EndsInOrder DEF RestartHandler
  <2> QED BY <2>1, <2>2, <2>3, <2>4
<1>6. ASSUME NEW s \in Gated, BuildImage(s) PROVE RecoveryInv'
  <2>1. PassTyped'
    BY <1>6 DEF BuildImage, GoOn, PassTyped, Awaiting
  <2>2. HostTyped'
    BY <1>6 DEF BuildImage, GoOn, PassTyped, HostTyped
  <2>3. GatesKept'
    BY <1>6 DEF PassTyped, HostTyped, BuildImage, GoOn, GatesKept, PassInOrder, Replacing, CardServed
  <2>4. PassInOrder'
    BY <1>6 DEF PassTyped, HostTyped, BuildImage, GoOn, GatesKept, PassInOrder, Replacing, CardServed
  <2> QED BY <2>1, <2>2, <2>3, <2>4
<1>7. ASSUME NEW s \in Gated, RemoveGate(s) PROVE RecoveryInv'
  <2>1. PassTyped'
    BY <1>7 DEF RemoveGate, GoOn, PassTyped, Awaiting
  <2>2. HostTyped'
    BY <1>7 DEF RemoveGate, GoOn, PassTyped, HostTyped
  <2>3. GatesKept'
    BY <1>7 DEF PassTyped, HostTyped, RemoveGate, GoOn, GatesKept, PassInOrder, Replacing, CardServed
  <2>4. PassInOrder'
    BY <1>7 DEF PassTyped, HostTyped, RemoveGate, GoOn, GatesKept, PassInOrder, Replacing, CardServed
  <2> QED BY <2>1, <2>2, <2>3, <2>4
<1>8. ASSUME NEW s \in Gated, RecreateGate(s) PROVE RecoveryInv'
  <2>1. PassTyped'
    BY <1>8 DEF RecreateGate, GoOn, PassTyped, Awaiting
  <2>2. HostTyped'
    BY <1>8 DEF RecreateGate, GoOn, PassTyped, HostTyped
  <2>3. GatesKept'
    BY <1>8 DEF PassTyped, HostTyped, RecreateGate, GoOn, GatesKept, PassInOrder, Replacing, CardServed
  <2>4. PassInOrder'
    BY <1>8 DEF PassTyped, HostTyped, RecreateGate, GoOn, GatesKept, PassInOrder, Replacing, CardServed
  <2> QED BY <2>1, <2>2, <2>3, <2>4
<1>9. ASSUME NEW s \in Gated, RewriteRoute(s) PROVE RecoveryInv'
  <2>1. PassTyped'
    BY <1>9 DEF RewriteRoute, GoOn, PassTyped, Awaiting
  <2>2. HostTyped'
    BY <1>9 DEF RewriteRoute, GoOn, PassTyped, HostTyped
  <2>3. GatesKept'
    BY <1>9 DEF PassTyped, HostTyped, RewriteRoute, GoOn, GatesKept, PassInOrder, Replacing, CardServed
  <2>4. PassInOrder'
    BY <1>9 DEF PassTyped, HostTyped, RewriteRoute, GoOn, GatesKept, PassInOrder, Replacing, CardServed
  <2> QED BY <2>1, <2>2, <2>3, <2>4
<1>10. ASSUME NEW s \in Gated, AwaitCard(s) PROVE RecoveryInv'
  <2>1. PassTyped'
    BY <1>10 DEF AwaitCard, Ends, GoOn, PassTyped, Awaiting
  <2>2. HostTyped'
    BY <1>10 DEF AwaitCard, Ends, GoOn, PassTyped, HostTyped
  <2>3. GatesKept'
    BY <1>10 DEF PassTyped, HostTyped, AwaitCard, Ends, GoOn, GatesKept, PassInOrder, Replacing, CardServed
  <2>4. PassInOrder'
    <3>1. CASE CardServed(s) /\ GoOn("publish")
      <4>1. pass.at = {s}
        BY <1>10 DEF AwaitCard, PassTyped
      <4> QED BY <1>10, <3>1, <4>1, GoesOn
              DEF AwaitCard, PassInOrder, Replacing, CardServed
    <3> QED BY <1>10, <3>1, EndsInOrder DEF AwaitCard
  <2> QED BY <2>1, <2>2, <2>3, <2>4
<1>11. ASSUME NEW s \in Gated, RecoverPublish(s) PROVE RecoveryInv'
  <2>1. PassTyped'
    BY <1>11 DEF RecoverPublish, Ends, PassTyped, Awaiting
  <2>2. HostTyped'
    BY <1>11 DEF RecoverPublish, Ends, PassTyped, HostTyped
  <2>3. GatesKept'
    BY <1>11 DEF PassTyped, HostTyped, RecoverPublish, Ends, GatesKept, PassInOrder, Replacing, CardServed
  <2>4. PassInOrder'
    BY <1>11, EndsInOrder DEF RecoverPublish
  <2> QED BY <2>1, <2>2, <2>3, <2>4
<1>12. ASSUME NEW s \in Gated, RecoveryThrows(s) PROVE RecoveryInv'
  <2>1. PassTyped'
    BY <1>12 DEF RecoveryThrows, Ends, PassTyped, Awaiting
  <2>2. HostTyped'
    BY <1>12 DEF RecoveryThrows, Ends, PassTyped, HostTyped
  <2>3. GatesKept'
    BY <1>12 DEF PassTyped, HostTyped, RecoveryThrows, Ends, GatesKept, PassInOrder, Replacing, CardServed, Awaiting
  <2>4. PassInOrder'
    BY <1>12 DEF PassTyped, HostTyped, RecoveryThrows, Ends, GatesKept, PassInOrder, Replacing, CardServed
  <2> QED BY <2>1, <2>2, <2>3, <2>4
<1>13. CASE UNCHANGED recoveryVars
  BY <1>13 DEF recoveryVars, PassTyped, HostTyped, GatesKept, PassInOrder, CardServed
<1> QED BY <1>1, <1>2, <1>3, <1>4, <1>5, <1>6, <1>7, <1>8, <1>9, <1>10, <1>11, <1>12,
           <1>13 DEF RecoveryNext

\* Whatever fails, is retried or stops: a gate is missing only when its
\* replacement did not start, a resource that is not understood or has no handler
\* is not touched, and what a pass reports as listed is listed and serves its card.
THEOREM GatesStay == RecoverySpec => []GatesKept
<1>1. RecoveryInv /\ [RecoveryNext]_recoveryVars => RecoveryInv'
  BY RecoveryStep
<1>2. RecoveryInv => GatesKept
  BY DEF RecoveryInv
<1> QED BY RecoveryStart, <1>1, <1>2, PTL DEF RecoverySpec

-----------------------------------------------------------------------------
(***************************************************************************)
(* The scorer.  The counter is the length of the run of failures that the  *)
(* folds end with.                                                         *)
(***************************************************************************)
EndsInFailures(f, n) ==
  /\ n \in 0..Len(f)
  /\ \A j \in (Len(f) - n + 1)..Len(f) : ~f[j]
  /\ n = Len(f) \/ f[Len(f) - n]

\* Some StrikeLimit probes of f, folded one after the other, failed.
FailedInARow(f) ==
  \E i \in 0..(Len(f) - StrikeLimit) : \A j \in (i + 1)..(i + StrikeLimit) : ~f[j]

ScoringInv ==
  /\ ScoringTypeOK
  /\ DeactivationJustified
  /\ \A t \in Ticks : scoring[t].deactivated => scoring[t].pc = "applying"
  /\ EndsInFailures(folded, strikes.consecutive)
  /\ strikes.active => strikes.consecutive < StrikeLimit

LEMMA RunGrows ==
  ASSUME NEW f \in Seq(BOOLEAN), NEW n \in Nat, EndsInFailures(f, n)
  PROVE  /\ EndsInFailures(Append(f, FALSE), n + 1)
         /\ FailedInARow(Append(f, FALSE)) <=> FailedInARow(f) \/ n + 1 >= StrikeLimit
<1> DEFINE g == Append(f, FALSE)
<1>1. /\ Len(g) = Len(f) + 1 /\ Len(f) \in Nat
      /\ \A j \in 1..Len(f) : g[j] = f[j]
      /\ g[Len(f) + 1] = FALSE
  OBVIOUS
<1>2. n \in 0..Len(f) /\ StrikeLimit \in Nat \ {0}
  BY ScoringAssumption DEF EndsInFailures
<1> HIDE DEF g
<1>3. EndsInFailures(g, n + 1)
  BY <1>1, <1>2, SMTT(30) DEF EndsInFailures
<1>4. ASSUME FailedInARow(f) PROVE FailedInARow(g)
  <2>1. PICK i \in 0..(Len(f) - StrikeLimit) : \A j \in (i + 1)..(i + StrikeLimit) : ~f[j]
    BY <1>4 DEF FailedInARow
  <2>2. i \in 0..(Len(g) - StrikeLimit) /\ \A j \in (i + 1)..(i + StrikeLimit) : ~g[j]
    BY <1>1, <1>2, <2>1
  <2> QED BY <2>2 DEF FailedInARow
<1>5. ASSUME n + 1 >= StrikeLimit PROVE FailedInARow(g)
  <2> DEFINE i == Len(g) - StrikeLimit
  <2>1. i \in 0..(Len(g) - StrikeLimit)
    BY <1>1, <1>2, <1>5
  <2>2. \A j \in (i + 1)..(i + StrikeLimit) : ~g[j]
    BY <1>1, <1>2, <1>3, <1>5 DEF EndsInFailures
  <2> HIDE DEF i
  <2> QED BY <2>1, <2>2 DEF FailedInARow
<1>6. ASSUME FailedInARow(g), n + 1 < StrikeLimit PROVE FailedInARow(f)
  <2>1. PICK i \in 0..(Len(g) - StrikeLimit) : \A j \in (i + 1)..(i + StrikeLimit) : ~g[j]
    BY <1>6 DEF FailedInARow
  <2>2. i + StrikeLimit # Len(g)
    <3> SUFFICES ASSUME i + StrikeLimit = Len(g) PROVE FALSE
      OBVIOUS
    <3>1. Len(f) - n \in (i + 1)..(i + StrikeLimit) /\ Len(f) - n \in 1..Len(f)
      BY <1>1, <1>2, <1>6
    <3>2. f[Len(f) - n]
      BY <1>1, <1>2, <3>1 DEF EndsInFailures
    <3> QED BY <1>1, <2>1, <3>1, <3>2
  <2>3. i \in 0..(Len(f) - StrikeLimit) /\ \A j \in (i + 1)..(i + StrikeLimit) : ~f[j]
    BY <1>1, <1>2, <2>1, <2>2
  <2> QED BY <2>3 DEF FailedInARow
<1>7. n + 1 >= StrikeLimit \/ n + 1 < StrikeLimit
  BY <1>2
<1> QED BY <1>3, <1>4, <1>5, <1>6, <1>7 DEF g

LEMMA RunEnds ==
  ASSUME NEW f \in Seq(BOOLEAN)
  PROVE  /\ EndsInFailures(Append(f, TRUE), 0)
         /\ FailedInARow(Append(f, TRUE)) <=> FailedInARow(f)
<1> DEFINE g == Append(f, TRUE)
<1>1. /\ Len(g) = Len(f) + 1 /\ Len(f) \in Nat
      /\ \A j \in 1..Len(f) : g[j] = f[j]
      /\ g[Len(f) + 1] = TRUE
  OBVIOUS
<1>2. StrikeLimit \in Nat \ {0}
  BY ScoringAssumption
<1> HIDE DEF g
<1>3. EndsInFailures(g, 0)
  BY <1>1 DEF EndsInFailures
<1>4. ASSUME FailedInARow(f) PROVE FailedInARow(g)
  <2>1. PICK i \in 0..(Len(f) - StrikeLimit) : \A j \in (i + 1)..(i + StrikeLimit) : ~f[j]
    BY <1>4 DEF FailedInARow
  <2>2. i \in 0..(Len(g) - StrikeLimit) /\ \A j \in (i + 1)..(i + StrikeLimit) : ~g[j]
    BY <1>1, <1>2, <2>1
  <2> QED BY <2>2 DEF FailedInARow
<1>5. ASSUME FailedInARow(g) PROVE FailedInARow(f)
  <2>1. PICK i \in 0..(Len(g) - StrikeLimit) : \A j \in (i + 1)..(i + StrikeLimit) : ~g[j]
    BY <1>5 DEF FailedInARow
  <2>2. i + StrikeLimit # Len(g)
    BY <1>1, <1>2, <2>1
  <2>3. i \in 0..(Len(f) - StrikeLimit) /\ \A j \in (i + 1)..(i + StrikeLimit) : ~f[j]
    BY <1>1, <1>2, <2>1, <2>2
  <2> QED BY <2>3 DEF FailedInARow
<1> QED BY <1>3, <1>4, <1>5 DEF g

LEMMA ScoringStart == ScoringInit => ScoringInv
<1> SUFFICES ASSUME ScoringInit PROVE ScoringInv
  OBVIOUS
<1> USE ScoringAssumption DEF ScoringInit, TickIdle, InitialStrikeState
<1>1. ScoringTypeOK
  BY DEF ScoringTypeOK, Conditions
<1>2. ~StruckOut
  BY DEF StruckOut
<1>3. DeactivationJustified
  BY <1>2 DEF DeactivationJustified
<1>4. EndsInFailures(folded, strikes.consecutive)
  BY DEF EndsInFailures
<1> QED BY <1>1, <1>3, <1>4 DEF ScoringInv

\* What the fold of one probe makes of the strike state.
LEMMA FoldStrikes ==
  ASSUME ScoringInv, NEW t \in Ticks, NEW passed \in BOOLEAN, Fold(t, passed)
  PROVE  /\ strikes' \in [consecutive : Nat, active : BOOLEAN]
         /\ folded' \in Seq(BOOLEAN)
         /\ EndsInFailures(folded', strikes'.consecutive)
         /\ strikes'.active => strikes.active /\ strikes'.consecutive < StrikeLimit
         /\ ~strikes'.active <=> FailedInARow(folded')
<1> DEFINE n == strikes.consecutive
<1>1. /\ folded \in Seq(BOOLEAN) /\ n \in Nat /\ strikes.active \in BOOLEAN
      /\ EndsInFailures(folded, n)
      /\ strikes.active => n < StrikeLimit
      /\ ~strikes.active <=> FailedInARow(folded)
  BY DEF ScoringInv, ScoringTypeOK, DeactivationJustified, StruckOut, FailedInARow
<1>2. CASE passed
  <2>1. /\ folded' = Append(folded, TRUE)
        /\ strikes' = [consecutive |-> 0, active |-> strikes.active]
    BY <1>2 DEF Fold, ReduceStrike, ScoringInv, ScoringTypeOK
  <2>2. strikes'.consecutive = 0 /\ strikes'.active = strikes.active
    BY <2>1
  <2>3. /\ EndsInFailures(Append(folded, TRUE), 0)
        /\ FailedInARow(Append(folded, TRUE)) <=> FailedInARow(folded)
    BY <1>1, RunEnds
  <2>4. folded' \in Seq(BOOLEAN) /\ strikes' \in [consecutive : Nat, active : BOOLEAN]
    BY <1>1, <2>1
  <2>5. EndsInFailures(folded', strikes'.consecutive)
    BY <2>1, <2>2, <2>3
  <2>6. strikes'.active => strikes.active /\ strikes'.consecutive < StrikeLimit
    BY <1>1, <2>2, ScoringAssumption
  <2>7. ~strikes'.active <=> FailedInARow(folded')
    BY <1>1, <2>1, <2>2, <2>3, ScoringAssumption
  <2> QED BY <2>4, <2>5, <2>6, <2>7
<1>3. CASE ~passed
  <2>1. /\ folded' = Append(folded, FALSE)
        /\ strikes' = [consecutive |-> n + 1,
                       active |-> strikes.active /\ n + 1 < StrikeLimit]
    BY <1>3 DEF Fold, ReduceStrike, ScoringInv, ScoringTypeOK
  <2>2. strikes'.consecutive = n + 1
        /\ (strikes'.active <=> strikes.active /\ n + 1 < StrikeLimit)
    BY <2>1
  <2>3. /\ EndsInFailures(Append(folded, FALSE), n + 1)
        /\ FailedInARow(Append(folded, FALSE))
             <=> FailedInARow(folded) \/ n + 1 >= StrikeLimit
    BY <1>1, RunGrows
  <2>4. folded' \in Seq(BOOLEAN) /\ strikes' \in [consecutive : Nat, active : BOOLEAN]
    BY <1>1, <2>1
  <2>5. EndsInFailures(folded', strikes'.consecutive)
    BY <2>1, <2>2, <2>3
  <2>6. strikes'.active => strikes.active /\ strikes'.consecutive < StrikeLimit
    BY <1>1, <2>2, ScoringAssumption
  <2>7. ~strikes'.active <=> FailedInARow(folded')
    <3>1. n + 1 >= StrikeLimit <=> ~(n + 1 < StrikeLimit)
      BY <1>1, ScoringAssumption
    <3>2. folded' = Append(folded, FALSE)
      BY <2>1
    <3> HIDE DEF n
    <3> QED BY <1>1, <2>2, <2>3, <3>1, <3>2, Zenon
  <2> QED BY <2>4, <2>5, <2>6, <2>7
<1> QED BY <1>2, <1>3

LEMMA FoldKeeps ==
  ASSUME ScoringInv, NEW t \in Ticks, NEW passed \in BOOLEAN, Fold(t, passed),
         scoring[t].pc \in {"card", "call"},
         UNCHANGED <<endpoint, reviews, lostReviews>>
  PROVE  ScoringInv'
<1> DEFINE handing == {u \in Ticks : scoring[u].deactivated}
           struck  == strikes.active /\ ~strikes'.active
<1>1. /\ strikes' \in [consecutive : Nat, active : BOOLEAN]
      /\ folded' \in Seq(BOOLEAN)
      /\ EndsInFailures(folded', strikes'.consecutive)
      /\ strikes'.active => strikes.active /\ strikes'.consecutive < StrikeLimit
      /\ ~strikes'.active <=> FailedInARow(folded')
  BY FoldStrikes
<1>2. scoring' = [scoring EXCEPT ![t] = [pc |-> "applying", deactivated |-> struck]]
  BY DEF Fold
<1>3. /\ scoring \in [Ticks -> [pc : {"idle", "card", "call", "applying"},
                                deactivated : BOOLEAN]]
      /\ \A u \in Ticks : scoring[u].deactivated => scoring[u].pc = "applying"
      /\ strikes.active \in BOOLEAN
  BY DEF ScoringInv, ScoringTypeOK
<1>4. struck \in BOOLEAN
  BY <1>1, <1>3
<1> HIDE DEF struck
<1>5. /\ ScoringTypeOK'
      /\ \A u \in Ticks : scoring'[u].deactivated => scoring'[u].pc = "applying"
  BY <1>1, <1>2, <1>3, <1>4 DEF ScoringInv, ScoringTypeOK
<1>6. t \notin handing
  BY <1>3
<1>7. {u \in Ticks : scoring'[u].deactivated} = IF struck THEN handing \cup {t} ELSE handing
  BY <1>2, <1>3, <1>4, <1>6
<1>8. /\ \A u, v \in handing : u = v
      /\ reviews \in Nat /\ lostReviews \in Nat
      /\ reviews + lostReviews + (IF handing = {} THEN 0 ELSE 1)
           = IF strikes.active THEN 0 ELSE 1
  BY DEF ScoringInv, DeactivationJustified, ScoringTypeOK
<1>a. reviews \in Nat /\ lostReviews \in Nat
  BY DEF ScoringInv, ScoringTypeOK
<1> HIDE DEF handing
<1>9. DeactivationJustified'
  <2>1. ~strikes'.active <=> StruckOut'
    BY <1>1 DEF StruckOut, FailedInARow
  <2>2. CASE struck
    <3>0. strikes.active
      BY <2>2 DEF struck
    <3> DEFINE waiting == IF handing = {} THEN 0 ELSE 1
    <3>1. waiting \in Nat /\ (waiting = 0 => handing = {})
      OBVIOUS
    <3>2. reviews + lostReviews + waiting = 0
      BY <1>8, <3>0
    <3> HIDE DEF waiting
    <3>3. reviews = 0 /\ lostReviews = 0 /\ waiting = 0
      BY <1>a, <3>1, <3>2
    <3>4. handing = {}
      BY <3>1, <3>3
    <3> QED BY <1>7, <2>1, <2>2, <3>3, <3>4 DEF DeactivationJustified, struck
  <2>3. CASE ~struck
    <3>1. strikes'.active = strikes.active
      BY <1>1, <1>3, <2>3 DEF struck
    <3> QED BY <1>7, <1>8, <2>1, <2>3, <3>1 DEF DeactivationJustified
  <2> QED BY <2>2, <2>3
<1> QED BY <1>1, <1>5, <1>9 DEF ScoringInv

LEMMA ScoringStep ==
  ASSUME ScoringInv, [ScoringNext]_scoringVars
  PROVE  ScoringInv'
<1>1. CASE EndpointChanges
  <2>1. ScoringTypeOK'
    BY <1>1 DEF ScoringInv, ScoringTypeOK, EndpointChanges
  <2> QED BY <1>1, <2>1 DEF ScoringInv, EndpointChanges, DeactivationJustified, StruckOut
<1>2. ASSUME NEW t \in Ticks, TickStarts(t) PROVE ScoringInv'
  <2>1. ScoringTypeOK' /\ \A u \in Ticks : scoring'[u].deactivated = scoring[u].deactivated
    BY <1>2 DEF ScoringInv, ScoringTypeOK, TickStarts
  <2>2. \A u \in Ticks : scoring'[u].deactivated => scoring'[u].pc = "applying"
    BY <1>2 DEF ScoringInv, ScoringTypeOK, TickStarts
  <2> QED BY <1>2, <2>1, <2>2 DEF ScoringInv, TickStarts, DeactivationJustified, StruckOut
<1>3. ASSUME NEW t \in Ticks, ProbeCard(t) PROVE ScoringInv'
  <2>1. CASE Fold(t, FALSE)
    BY <1>3, <2>1, FoldKeeps DEF ProbeCard
  <2>2. CASE scoring' = [scoring EXCEPT ![t].pc = "call"] /\ UNCHANGED <<strikes, folded>>
    <3>1. ScoringTypeOK' /\ \A u \in Ticks : scoring'[u].deactivated = scoring[u].deactivated
      BY <1>3, <2>2 DEF ScoringInv, ScoringTypeOK, ProbeCard
    <3>2. \A u \in Ticks : scoring'[u].deactivated => scoring'[u].pc = "applying"
      BY <1>3, <2>2 DEF ScoringInv, ScoringTypeOK, ProbeCard
    <3> QED BY <1>3, <2>2, <3>1, <3>2
            DEF ScoringInv, ProbeCard, DeactivationJustified, StruckOut
  <2> QED BY <1>3, <2>1, <2>2 DEF ProbeCard
<1>4. ASSUME NEW t \in Ticks, ProbeCall(t) PROVE ScoringInv'
  BY <1>4, FoldKeeps DEF ProbeCall
<1>5. ASSUME NEW t \in Ticks, ProbeThrows(t) PROVE ScoringInv'
  <2>1. ScoringTypeOK' /\ \A u \in Ticks : scoring'[u].deactivated = scoring[u].deactivated
    BY <1>5 DEF ScoringInv, ScoringTypeOK, ProbeThrows, TickIdle
  <2>2. \A u \in Ticks : scoring'[u].deactivated => scoring'[u].pc = "applying"
    BY <1>5 DEF ScoringInv, ScoringTypeOK, ProbeThrows, TickIdle
  <2> QED BY <1>5, <2>1, <2>2 DEF ScoringInv, ProbeThrows, DeactivationJustified, StruckOut
<1>6. ASSUME NEW t \in Ticks, ApplyResult(t) PROVE ScoringInv'
  <2> DEFINE handing == {u \in Ticks : scoring[u].deactivated}
             rest    == {u \in Ticks : scoring'[u].deactivated}
             one     == IF scoring[t].deactivated THEN 1 ELSE 0
  <2>1. ScoringTypeOK'
    BY <1>6 DEF ScoringInv, ScoringTypeOK, ApplyResult, TickIdle
  <2>2. \A u \in Ticks : scoring'[u].deactivated => scoring'[u].pc = "applying"
    BY <1>6 DEF ScoringInv, ScoringTypeOK, ApplyResult, TickIdle
  <2>3. rest = handing \ {t}
    BY <1>6 DEF ScoringInv, ScoringTypeOK, ApplyResult, TickIdle
  <2>4. /\ \A u, v \in handing : u = v
        /\ reviews \in Nat /\ lostReviews \in Nat
        /\ reviews + lostReviews + (IF handing = {} THEN 0 ELSE 1)
             = IF strikes.active THEN 0 ELSE 1
        /\ ~strikes.active <=> StruckOut
    BY DEF ScoringInv, DeactivationJustified, ScoringTypeOK
  <2>5. one = IF t \in handing THEN 1 ELSE 0
    OBVIOUS
  <2>6. reviews' + lostReviews' = reviews + lostReviews + one
    BY <1>6, <2>4 DEF ApplyResult
  <2>7. reviews' \in Nat /\ lostReviews' \in Nat
    BY <2>1 DEF ScoringTypeOK
  <2> HIDE DEF handing, one
  <2>8. /\ \A u, v \in rest : u = v
        /\ reviews' + lostReviews' + (IF rest = {} THEN 0 ELSE 1)
             = IF strikes.active THEN 0 ELSE 1
    <3>1. CASE t \in handing
      <4>1. rest = {} /\ handing # {}
        BY <2>3, <2>4, <3>1
      <4> QED BY <2>4, <2>5, <2>6, <3>1, <4>1
    <3>2. CASE t \notin handing
      <4>1. rest = handing
        BY <2>3, <3>2
      <4> QED BY <2>4, <2>5, <2>6, <3>2, <4>1
    <3> QED BY <3>1, <3>2
  <2>9. DeactivationJustified'
    BY <1>6, <2>4, <2>8 DEF DeactivationJustified, StruckOut, ApplyResult
  <2> QED BY <1>6, <2>1, <2>2, <2>9 DEF ScoringInv, ApplyResult
<1>7. CASE UNCHANGED scoringVars
  <2>1. ScoringTypeOK'
    BY <1>7 DEF ScoringInv, ScoringTypeOK, scoringVars
  <2> QED BY <1>7, <2>1 DEF ScoringInv, scoringVars, DeactivationJustified, StruckOut
<1> QED BY <1>1, <1>2, <1>3, <1>4, <1>5, <1>6, <1>7 DEF ScoringNext

\* However the ticks overlap, a resource is inactive exactly when StrikeLimit
\* probes folded one after the other failed, and its deactivation is handed over
\* exactly once (reduceStrike and the re-scoring loop).
THEOREM DeactivationIsJustified == ScoringSpec => []DeactivationJustified
<1>1. ScoringInv /\ [ScoringNext]_scoringVars => ScoringInv'
  BY ScoringStep
<1>2. ScoringInv => DeactivationJustified
  BY DEF ScoringInv
<1> QED BY ScoringStart, <1>1, <1>2, PTL DEF ScoringSpec

-----------------------------------------------------------------------------
(***************************************************************************)
(* The buyer's budget.  A line is one total the guard keeps, that of a     *)
(* tool or of a day; what the guard holds on a line is exactly the caps of *)
(* the calls in the air, and what it committed what was debited for the    *)
(* calls that were answered.  A dearer card may take more than its hold,   *)
(* so the cap bounds the holds and what was charged within them.           *)
(***************************************************************************)
Lines == ({"tool"} \X BuyerTools) \cup ({"day"} \X (1..Days))

OnLine(totals, k) == IF k[1] = "tool" THEN totals.tool[k[2]] ELSE totals.day[k[2]]
LineCap(k) == IF k[1] = "tool" THEN PerToolCap ELSE PerDayCap
FallsOn(c, k) == IF k[1] = "tool" THEN ToolOf[c] = k[2] ELSE buyerCall[c].day = k[2]

PaidOn(k) == {c \in BuyerCalls : FallsOn(c, k) /\ buyerCall[c].pc = "paid"}
HeldOn(k) == {c \in BuyerCalls : FallsOn(c, k) /\ buyerCall[c].pc \in {"quote", "posted"}}

Bases == [c \in BuyerCalls |-> Basis(c)]

BudgetTotals == [tool : [BuyerTools -> Int], day : [1..Days -> Int]]

BudgetTyped ==
  /\ today \in 1..Days
  /\ committed \in BudgetTotals /\ pending \in BudgetTotals
  /\ buyerCall \in [BuyerCalls ->
       [pc : {"idle", "denied", "quote", "posted", "paid", "unpaid", "failed"},
        day : 1..Days, open : BOOLEAN]]
  /\ signed \in [BuyerCalls -> 0..Ceiling]
  /\ debited \in [BuyerCalls -> Nat]

\* A call is debited at most once, after it was posted.
DebitedOnce ==
  \A c \in BuyerCalls :
    /\ debited[c] > 0 => ~buyerCall[c].open
    /\ buyerCall[c].pc = "paid" => debited[c] > 0
    /\ buyerCall[c].pc \in {"idle", "denied", "quote"} =>
         debited[c] = 0 /\ ~buyerCall[c].open

LinesHold ==
  \A k \in Lines :
    /\ SumOver(debited, PaidOn(k)) = OnLine(committed, k)
    /\ SumOver(Bases, HeldOn(k)) = OnLine(pending, k)
    /\ SumOver(WithinHold, PaidOn(k)) + OnLine(pending, k) <= LineCap(k)

BudgetInv == BudgetTyped /\ DebitedOnce /\ LinesHold

LEMMA BasisTyped ==
  /\ \A c \in BuyerCalls : Basis(c) \in Nat /\ Bases[c] = Basis(c)
  /\ \A cardCap \in Served : SignedCap(cardCap) \in 0..Ceiling
  /\ PerToolCap \in Nat /\ PerDayCap \in Nat /\ IsFiniteSet(BuyerCalls)
BY BudgetAssumption DEF Basis, Bases, SignedCap

LEMMA WithinHoldTyped ==
  ASSUME BudgetTyped, NEW c \in BuyerCalls
  PROVE  WithinHold[c] \in Nat /\ WithinHold[c] <= Basis(c) /\ WithinHold[c] <= debited[c]
BY BasisTyped DEF BudgetTyped, WithinHold

LEMMA LinesFinite ==
  ASSUME NEW k
  PROVE  IsFiniteSet(PaidOn(k)) /\ IsFiniteSet(HeldOn(k))
BY BasisTyped, FS_Subset DEF PaidOn, HeldOn

LEMMA LineTyped ==
  ASSUME NEW totals \in BudgetTotals, NEW k \in Lines
  PROVE  OnLine(totals, k) \in Int
BY DEF OnLine, Lines, BudgetTotals

\* What the arithmetic of the guard does to a line.
LEMMA PlusOnLine ==
  ASSUME NEW totals \in BudgetTotals, NEW c \in BuyerCalls, NEW d \in 1..Days,
         NEW amount \in Int, NEW k \in Lines
  PROVE  /\ Plus(totals, c, d, amount) \in BudgetTotals
         /\ OnLine(Plus(totals, c, d, amount), k) =
              OnLine(totals, k)
                + (IF (k[1] = "tool" /\ ToolOf[c] = k[2]) \/ (k[1] # "tool" /\ d = k[2])
                   THEN amount ELSE 0)
<1> DEFINE tool == [totals.tool EXCEPT ![ToolOf[c]] = @ + amount]
           day  == [totals.day EXCEPT ![d] = @ + amount]
<1>1. /\ totals.tool \in [BuyerTools -> Int] /\ totals.day \in [1..Days -> Int]
      /\ ToolOf[c] \in BuyerTools
  BY DEF BuyerTools, BudgetTotals
<1>2. /\ tool \in [BuyerTools -> Int] /\ day \in [1..Days -> Int]
      /\ \A t \in BuyerTools : tool[t] = totals.tool[t] + (IF t = ToolOf[c] THEN amount ELSE 0)
      /\ \A e \in 1..Days : day[e] = totals.day[e] + (IF e = d THEN amount ELSE 0)
  <2>1. /\ tool \in [BuyerTools -> Int]
        /\ \A t \in BuyerTools : tool[t] = totals.tool[t] + (IF t = ToolOf[c] THEN amount ELSE 0)
    BY <1>1
  <2>2. /\ day \in [1..Days -> Int]
        /\ \A e \in 1..Days : day[e] = totals.day[e] + (IF e = d THEN amount ELSE 0)
    <3> DEFINE days == 1..Days
    <3>1. totals.day \in [days -> Int] /\ d \in days /\ amount \in Int
      BY <1>1
    <3> HIDE DEF days
    <3>2. day \in [days -> Int]
      BY ONLY <3>1
    <3>3. day[d] = totals.day[d] + amount
      BY ONLY <3>1
    <3>4. \A e \in days : totals.day[e] \in Int /\ (e # d => day[e] = totals.day[e])
      BY ONLY <3>1
    <3> HIDE DEF day
    <3>5. \A e \in days : day[e] = totals.day[e] + (IF e = d THEN amount ELSE 0)
      BY <3>3, <3>4
    <3> QED BY <3>2, <3>5 DEF days
  <2> QED BY <2>1, <2>2
<1>3. Plus(totals, c, d, amount) = [tool |-> tool, day |-> day]
  BY DEF Plus
<1> HIDE DEF tool, day
<1>4. Plus(totals, c, d, amount) \in BudgetTotals
  BY <1>2, <1>3 DEF BudgetTotals
<1>5. CASE k[1] = "tool"
  <2>1. k[2] \in BuyerTools
    BY <1>5 DEF Lines
  <2> QED BY <1>2, <1>3, <1>4, <1>5, <2>1 DEF OnLine
<1>6. CASE k[1] # "tool"
  <2>1. k[2] \in 1..Days
    BY <1>6 DEF Lines
  <2> QED BY <1>2, <1>3, <1>4, <1>6, <2>1 DEF OnLine
<1> QED BY <1>5, <1>6

LEMMA LessOnLine ==
  ASSUME NEW totals \in BudgetTotals, NEW c \in BuyerCalls, NEW d \in 1..Days,
         NEW amount \in Int, NEW k \in Lines
  PROVE  /\ Less(totals, c, d, amount) \in BudgetTotals
         /\ OnLine(Less(totals, c, d, amount), k) =
              OnLine(totals, k)
                - (IF (k[1] = "tool" /\ ToolOf[c] = k[2]) \/ (k[1] # "tool" /\ d = k[2])
                   THEN amount ELSE 0)
<1> DEFINE tool == [totals.tool EXCEPT ![ToolOf[c]] = @ - amount]
           day  == [totals.day EXCEPT ![d] = @ - amount]
<1>1. /\ totals.tool \in [BuyerTools -> Int] /\ totals.day \in [1..Days -> Int]
      /\ ToolOf[c] \in BuyerTools
  BY DEF BuyerTools, BudgetTotals
<1>2. /\ tool \in [BuyerTools -> Int] /\ day \in [1..Days -> Int]
      /\ \A t \in BuyerTools : tool[t] = totals.tool[t] - (IF t = ToolOf[c] THEN amount ELSE 0)
      /\ \A e \in 1..Days : day[e] = totals.day[e] - (IF e = d THEN amount ELSE 0)
  <2>1. /\ tool \in [BuyerTools -> Int]
        /\ \A t \in BuyerTools : tool[t] = totals.tool[t] - (IF t = ToolOf[c] THEN amount ELSE 0)
    BY <1>1
  <2>2. /\ day \in [1..Days -> Int]
        /\ \A e \in 1..Days : day[e] = totals.day[e] - (IF e = d THEN amount ELSE 0)
    <3> DEFINE days == 1..Days
    <3>1. totals.day \in [days -> Int] /\ d \in days /\ amount \in Int
      BY <1>1
    <3> HIDE DEF days
    <3>2. day \in [days -> Int]
      BY ONLY <3>1
    <3>3. day[d] = totals.day[d] - amount
      BY ONLY <3>1
    <3>4. \A e \in days : totals.day[e] \in Int /\ (e # d => day[e] = totals.day[e])
      BY ONLY <3>1
    <3> HIDE DEF day
    <3>5. \A e \in days : day[e] = totals.day[e] - (IF e = d THEN amount ELSE 0)
      BY <3>3, <3>4
    <3> QED BY <3>2, <3>5 DEF days
  <2> QED BY <2>1, <2>2
<1>3. Less(totals, c, d, amount) = [tool |-> tool, day |-> day]
  BY DEF Less
<1> HIDE DEF tool, day
<1>4. Less(totals, c, d, amount) \in BudgetTotals
  BY <1>2, <1>3 DEF BudgetTotals
<1>5. CASE k[1] = "tool"
  <2>1. k[2] \in BuyerTools
    BY <1>5 DEF Lines
  <2> QED BY <1>2, <1>3, <1>4, <1>5, <2>1 DEF OnLine
<1>6. CASE k[1] # "tool"
  <2>1. k[2] \in 1..Days
    BY <1>6 DEF Lines
  <2> QED BY <1>2, <1>3, <1>4, <1>6, <2>1 DEF OnLine
<1> QED BY <1>5, <1>6

LEMMA BudgetStart == BudgetInit => BudgetInv
<1> SUFFICES ASSUME BudgetInit PROVE BudgetInv
  OBVIOUS
<1> USE DEF BudgetInit
<1>1. BudgetTyped /\ DebitedOnce
  BY BudgetAssumption, BasisTyped DEF BudgetTyped, DebitedOnce, NoTotals, BudgetTotals
<1>2. LinesHold
  <2> SUFFICES ASSUME NEW k \in Lines
               PROVE  /\ SumOver(debited, PaidOn(k)) = OnLine(committed, k)
                      /\ SumOver(Bases, HeldOn(k)) = OnLine(pending, k)
                      /\ SumOver(WithinHold, PaidOn(k)) + OnLine(pending, k) <= LineCap(k)
    BY DEF LinesHold
  <2>1. PaidOn(k) = {} /\ HeldOn(k) = {}
    BY DEF PaidOn, HeldOn
  <2>2. OnLine(committed, k) = 0 /\ OnLine(pending, k) = 0
    BY DEF OnLine, Lines, NoTotals
  <2> QED BY <2>1, <2>2, SumEmpty, BasisTyped DEF LineCap
<1> QED BY <1>1, <1>2 DEF BudgetInv

\* A step that leaves the totals alone, and the calls they stand for.
LEMMA LinesUntouched ==
  ASSUME BudgetInv, BudgetTyped', DebitedOnce',
         UNCHANGED <<committed, pending>>,
         \A k \in Lines : PaidOn(k)' = PaidOn(k) /\ HeldOn(k)' = HeldOn(k),
         \A c \in BuyerCalls : buyerCall[c].pc = "paid" => debited'[c] = debited[c]
  PROVE  BudgetInv'
<1> SUFFICES ASSUME NEW k \in Lines
             PROVE  /\ SumOver(debited', PaidOn(k)') = SumOver(debited, PaidOn(k))
                    /\ SumOver(WithinHold', PaidOn(k)') = SumOver(WithinHold, PaidOn(k))
  BY DEF BudgetInv, LinesHold
<1>1. /\ IsFiniteSet(PaidOn(k))
      /\ \A c \in PaidOn(k) : debited[c] = debited'[c] /\ WithinHold[c] = WithinHold'[c]
  BY LinesFinite DEF PaidOn, WithinHold
<1>2. SumOver(debited, PaidOn(k)) = SumOver(debited', PaidOn(k))
  BY <1>1, SumEqual
<1>3. SumOver(WithinHold, PaidOn(k)) = SumOver(WithinHold', PaidOn(k))
  BY <1>1, SumEqual
<1> QED BY <1>2, <1>3

LEMMA ReserveKeeps ==
  ASSUME BudgetInv, NEW c \in BuyerCalls, Reserve(c)
  PROVE  BudgetInv'
<1> USE DEF BudgetInv
<1>1. CASE ~Admits(c)
  <2>1. /\ buyerCall[c].pc = "idle"
        /\ buyerCall' = [buyerCall EXCEPT ![c].pc = "denied"]
        /\ UNCHANGED <<today, committed, pending, signed, debited>>
    BY <1>1 DEF Reserve, CallTo
  <2>2. BudgetTyped' /\ DebitedOnce'
    BY <2>1 DEF BudgetTyped, DebitedOnce
  <2>3. \A k \in Lines : PaidOn(k)' = PaidOn(k) /\ HeldOn(k)' = HeldOn(k)
    BY <2>1 DEF PaidOn, HeldOn, FallsOn, BudgetTyped
  <2> QED BY <2>1, <2>2, <2>3, LinesUntouched
<1>2. CASE Admits(c)
  <2>1. /\ buyerCall[c].pc = "idle"
        /\ buyerCall' = [buyerCall EXCEPT ![c].pc = "quote", ![c].day = today]
        /\ pending' = Plus(pending, c, today, Basis(c))
        /\ UNCHANGED <<today, committed, signed, debited>>
    BY <1>2 DEF Reserve
  <2>2. Basis(c) \in Int /\ Bases[c] = Basis(c) /\ today \in 1..Days
        /\ pending \in BudgetTotals /\ committed \in BudgetTotals
    BY BasisTyped DEF BudgetTyped
  <2>3. \A k \in Lines :
          /\ pending' \in BudgetTotals
          /\ OnLine(pending', k) = OnLine(pending, k)
               + (IF (k[1] = "tool" /\ ToolOf[c] = k[2]) \/ (k[1] # "tool" /\ today = k[2])
                  THEN Basis(c) ELSE 0)
    BY <2>1, <2>2, PlusOnLine
  <2>4. <<"tool", ToolOf[c]>> \in Lines
    BY DEF Lines, BuyerTools
  <2>5. pending' \in BudgetTotals
    BY <2>3, <2>4
  <2>6. BudgetTyped' /\ DebitedOnce'
    BY <2>1, <2>5 DEF BudgetTyped, DebitedOnce
  <2>7. ASSUME NEW k \in Lines
        PROVE  /\ SumOver(debited', PaidOn(k)') = OnLine(committed', k)
               /\ SumOver(Bases, HeldOn(k)') = OnLine(pending', k)
               /\ SumOver(WithinHold', PaidOn(k)') + OnLine(pending', k) <= LineCap(k)
    <3> DEFINE counts == (k[1] = "tool" /\ ToolOf[c] = k[2])
                           \/ (k[1] # "tool" /\ today = k[2])
    <3>1. PaidOn(k)' = PaidOn(k)
      BY <2>1 DEF PaidOn, FallsOn, BudgetTyped
    <3>2. HeldOn(k)' = IF counts THEN HeldOn(k) \cup {c} ELSE HeldOn(k)
      BY <2>1 DEF HeldOn, FallsOn, BudgetTyped
    <3>3. c \notin HeldOn(k) /\ IsFiniteSet(HeldOn(k))
          /\ \A x \in HeldOn(k) \cup {c} : Bases[x] \in Int
      BY <2>1, LinesFinite, BasisTyped DEF HeldOn
    <3>4. SumOver(Bases, HeldOn(k) \cup {c}) = Bases[c] + SumOver(Bases, HeldOn(k))
      BY <3>3, SumAdd
    <3>5. /\ SumOver(debited, PaidOn(k)) = OnLine(committed, k)
          /\ SumOver(Bases, HeldOn(k)) = OnLine(pending, k)
          /\ SumOver(WithinHold, PaidOn(k)) + OnLine(pending, k) <= LineCap(k)
          /\ OnLine(committed, k) \in Int /\ OnLine(pending, k) \in Int
      BY <2>2, LineTyped DEF LinesHold
    <3>10. /\ SumOver(WithinHold, PaidOn(k)) \in Int /\ LineCap(k) \in Int
           /\ SumOver(WithinHold, PaidOn(k)) <= OnLine(committed, k)
      <4>1. IsFiniteSet(PaidOn(k))
            /\ \A x \in PaidOn(k) : WithinHold[x] \in Int /\ debited[x] \in Int
                                   /\ WithinHold[x] <= debited[x]
        <5>1. \A x \in BuyerCalls : /\ WithinHold[x] \in Nat
                                  /\ WithinHold[x] <= debited[x]
          BY WithinHoldTyped
        <5>2. \A x \in BuyerCalls : debited[x] \in Nat
          BY DEF BudgetTyped
        <5> QED BY <5>1, <5>2, LinesFinite DEF PaidOn
      <4>2. SumOver(WithinHold, PaidOn(k)) <= SumOver(debited, PaidOn(k))
        BY <4>1, SumSmaller
      <4>3. SumOver(WithinHold, PaidOn(k)) \in Int
        BY <4>1, SumInt
      <4>4. LineCap(k) \in Int
        BY BasisTyped DEF LineCap
      <4> QED BY <3>5, <4>2, <4>3, <4>4
    <3>11. SumOver(WithinHold', PaidOn(k)') = SumOver(WithinHold, PaidOn(k))
      <4>1. WithinHold' = WithinHold
        BY <2>1 DEF WithinHold
      <4> QED BY <3>1, <4>1
    <3>6. counts => OnLine(committed, k) + OnLine(pending, k) + Basis(c) <= LineCap(k)
      BY <1>2 DEF Admits, OnLine, LineCap, Lines
    <3>7. OnLine(pending', k) = OnLine(pending, k) + (IF counts THEN Basis(c) ELSE 0)
      BY <2>3
    <3> HIDE DEF counts
    <3>8. CASE counts
      BY <2>1, <2>2, <3>1, <3>2, <3>4, <3>5, <3>6, <3>7, <3>8, <3>10, <3>11
    <3>9. CASE ~counts
      BY <2>1, <2>2, <3>1, <3>2, <3>5, <3>7, <3>9, <3>11
    <3> QED BY <3>8, <3>9
  <2>8. LinesHold'
    BY <2>7 DEF LinesHold
  <2> QED BY <2>6, <2>8
<1> QED BY <1>1, <1>2

\* A call leaves the air: its hold goes, and what it was charged is committed.
LEMMA HoldEnds ==
  ASSUME BudgetInv, NEW c \in BuyerCalls, buyerCall[c].pc \in {"quote", "posted"},
         NEW to \in {"paid", "unpaid", "failed"},
         buyerCall' = [buyerCall EXCEPT ![c].pc = to],
         UNCHANGED <<today, signed, debited>>,
         pending' = Less(pending, c, buyerCall[c].day, Basis(c)),
         committed' = IF to = "paid"
                      THEN Plus(committed, c, buyerCall[c].day, debited[c])
                      ELSE committed,
         to = "paid" => debited[c] > 0
  PROVE  BudgetInv'
<1> USE DEF BudgetInv
<1> DEFINE d == buyerCall[c].day
           adds(k) == (k[1] = "tool" /\ ToolOf[c] = k[2]) \/ (k[1] # "tool" /\ d = k[2])
<1>1. /\ Basis(c) \in Nat /\ Bases[c] = Basis(c) /\ d \in 1..Days
      /\ pending \in BudgetTotals /\ committed \in BudgetTotals
      /\ debited[c] \in Nat /\ WithinHold[c] \in Nat /\ WithinHold[c] <= Basis(c)
      /\ WithinHold' = WithinHold
  BY BasisTyped, WithinHoldTyped DEF BudgetTyped, WithinHold
<1>2. ASSUME NEW k \in Lines
      PROVE  /\ pending' \in BudgetTotals /\ committed' \in BudgetTotals
             /\ OnLine(pending', k) = OnLine(pending, k) - (IF adds(k) THEN Basis(c) ELSE 0)
             /\ OnLine(committed', k) = OnLine(committed, k)
                  + (IF to = "paid" /\ adds(k) THEN debited[c] ELSE 0)
  <2>1. OnLine(committed, k) \in Int
    BY <1>1, LineTyped
  <2>2. CASE to = "paid"
    BY <1>1, <2>2, PlusOnLine, LessOnLine
  <2>3. CASE to # "paid"
    BY <1>1, <2>1, <2>3, LessOnLine
  <2> QED BY <2>2, <2>3
<1>3. <<"tool", ToolOf[c]>> \in Lines
  BY DEF Lines, BuyerTools
<1>4. BudgetTyped'
  BY <1>2, <1>3 DEF BudgetTyped
<1>5. DebitedOnce'
  BY DEF BudgetTyped, DebitedOnce
<1>6. ASSUME NEW k \in Lines
      PROVE  /\ SumOver(debited', PaidOn(k)') = OnLine(committed', k)
             /\ SumOver(Bases, HeldOn(k)') = OnLine(pending', k)
             /\ SumOver(WithinHold', PaidOn(k)') + OnLine(pending', k) <= LineCap(k)
  <2>1. adds(k) <=> FallsOn(c, k)
    BY DEF FallsOn
  <2>2. PaidOn(k)' = IF to = "paid" /\ adds(k) THEN PaidOn(k) \cup {c} ELSE PaidOn(k)
    BY <2>1 DEF PaidOn, FallsOn, BudgetTyped
  <2>3. HeldOn(k)' = IF adds(k) THEN HeldOn(k) \ {c} ELSE HeldOn(k)
    BY <2>1 DEF HeldOn, FallsOn, BudgetTyped
  <2>4. /\ IsFiniteSet(HeldOn(k)) /\ IsFiniteSet(PaidOn(k)) /\ c \notin PaidOn(k)
        /\ adds(k) => c \in HeldOn(k)
        /\ \A x \in HeldOn(k) : Bases[x] \in Int
        /\ \A x \in PaidOn(k) \cup {c} : debited[x] \in Int /\ WithinHold[x] \in Int
    <3>1. IsFiniteSet(HeldOn(k)) /\ IsFiniteSet(PaidOn(k))
      BY LinesFinite
    <3>2. c \notin PaidOn(k) /\ (adds(k) => c \in HeldOn(k))
      BY <2>1 DEF HeldOn, PaidOn
    <3>3. \A x \in HeldOn(k) : Bases[x] \in Int
      BY BasisTyped DEF HeldOn
    <3>4. \A x \in PaidOn(k) \cup {c} : debited[x] \in Int /\ WithinHold[x] \in Int
      BY WithinHoldTyped DEF PaidOn, BudgetTyped
    <3> QED BY <3>1, <3>2, <3>3, <3>4
  <2>5. adds(k) => SumOver(Bases, HeldOn(k)) = Bases[c] + SumOver(Bases, HeldOn(k) \ {c})
    BY <2>4, SumRemove
  <2>6. SumOver(debited, PaidOn(k) \cup {c}) = debited[c] + SumOver(debited, PaidOn(k))
    BY <2>4, SumAdd
  <2>12. /\ SumOver(WithinHold, PaidOn(k) \cup {c}) = WithinHold[c] + SumOver(WithinHold, PaidOn(k))
         /\ SumOver(WithinHold, PaidOn(k)) \in Int
    BY <2>4, SumAdd, SumInt
  <2>7. SumOver(Bases, HeldOn(k) \ {c}) \in Int
    BY <2>4, FS_RemoveElement, FS_Subset, SumInt
  <2>8. /\ SumOver(debited, PaidOn(k)) = OnLine(committed, k)
        /\ SumOver(Bases, HeldOn(k)) = OnLine(pending, k)
        /\ SumOver(WithinHold, PaidOn(k)) + OnLine(pending, k) <= LineCap(k)
        /\ OnLine(committed, k) \in Int /\ OnLine(pending, k) \in Int
        /\ LineCap(k) \in Int
    BY <1>1, LineTyped, BasisTyped DEF LinesHold, LineCap
  <2>9. /\ OnLine(pending', k) = OnLine(pending, k) - (IF adds(k) THEN Basis(c) ELSE 0)
        /\ OnLine(committed', k) = OnLine(committed, k)
             + (IF to = "paid" /\ adds(k) THEN debited[c] ELSE 0)
    BY <1>2
  <2> HIDE DEF adds
  <2>10. CASE adds(k)
    BY <1>1, <2>2, <2>3, <2>5, <2>6, <2>7, <2>8, <2>9, <2>10, <2>12
  <2>11. CASE ~adds(k)
    BY <1>1, <2>2, <2>3, <2>8, <2>9, <2>11
  <2> QED BY <2>10, <2>11
<1>7. LinesHold'
  BY <1>6 DEF LinesHold
<1> QED BY <1>4, <1>5, <1>7

LEMMA BudgetStep ==
  ASSUME BudgetInv, [BudgetNext]_budgetVars
  PROVE  BudgetInv'
<1> USE DEF BudgetInv
<1>1. CASE DayChanges \/ UNCHANGED budgetVars
  <2>1. UNCHANGED <<committed, pending, buyerCall, signed, debited>> /\ today' \in 1..Days
    BY <1>1, BudgetAssumption DEF DayChanges, budgetVars, BudgetTyped
  <2>2. BudgetTyped' /\ DebitedOnce'
    BY <2>1 DEF BudgetTyped, DebitedOnce
  <2>3. \A k \in Lines : PaidOn(k)' = PaidOn(k) /\ HeldOn(k)' = HeldOn(k)
    BY <2>1 DEF PaidOn, HeldOn, FallsOn
  <2> QED BY <2>1, <2>2, <2>3, LinesUntouched
<1>2. ASSUME NEW c \in BuyerCalls, SignAndPost(c) PROVE BudgetInv'
  <2>1. BudgetTyped' /\ DebitedOnce'
    BY <1>2, BasisTyped DEF SignAndPost, BudgetTyped, DebitedOnce
  <2>2. \A k \in Lines : PaidOn(k)' = PaidOn(k) /\ HeldOn(k)' = HeldOn(k)
    BY <1>2 DEF SignAndPost, PaidOn, HeldOn, FallsOn, BudgetTyped
  <2> QED BY <1>2, <2>1, <2>2, LinesUntouched DEF SignAndPost
<1>3. ASSUME NEW c \in BuyerCalls, AuthorizationExpires(c) PROVE BudgetInv'
  <2>1. BudgetTyped' /\ DebitedOnce'
    BY <1>3 DEF AuthorizationExpires, BudgetTyped, DebitedOnce
  <2>2. \A k \in Lines : PaidOn(k)' = PaidOn(k) /\ HeldOn(k)' = HeldOn(k)
    BY <1>3 DEF AuthorizationExpires, PaidOn, HeldOn, FallsOn, BudgetTyped
  <2> QED BY <1>3, <2>1, <2>2, LinesUntouched DEF AuthorizationExpires
<1>4. ASSUME NEW c \in BuyerCalls, SellerSettles(c) PROVE BudgetInv'
  <2>1. PICK amount \in 1..signed[c] : debited' = [debited EXCEPT ![c] = amount]
    BY <1>4 DEF SellerSettles
  <2>2. amount \in Nat
    BY DEF BudgetTyped
  <2>3. BudgetTyped' /\ DebitedOnce'
    BY <1>4, <2>1, <2>2 DEF SellerSettles, BudgetTyped, DebitedOnce
  <2>4. \A k \in Lines : PaidOn(k)' = PaidOn(k) /\ HeldOn(k)' = HeldOn(k)
    BY <1>4 DEF SellerSettles, PaidOn, HeldOn, FallsOn, BudgetTyped
  <2>5. \A d \in BuyerCalls : buyerCall[d].pc = "paid" => debited'[d] = debited[d]
    BY <1>4, <2>1 DEF SellerSettles, BudgetTyped, DebitedOnce
  <2> QED BY <1>4, <2>3, <2>4, <2>5, LinesUntouched DEF SellerSettles
<1>5. ASSUME NEW c \in BuyerCalls, PaidAnswer(c) PROVE BudgetInv'
  BY <1>5, HoldEnds DEF PaidAnswer, CommitHold, CallTo
<1>6. ASSUME NEW c \in BuyerCalls, OtherAnswer(c) PROVE BudgetInv'
  <2>1. Plus(committed, c, buyerCall[c].day, 0) = committed
    <3> DEFINE d == buyerCall[c].day
    <3>1. committed.tool \in [BuyerTools -> Int] /\ ToolOf[c] \in BuyerTools
          /\ committed.day \in [1..Days -> Int] /\ d \in 1..Days
          /\ committed = [tool |-> committed.tool, day |-> committed.day]
      BY DEF BudgetTyped, BudgetTotals, BuyerTools
    <3>2. [committed.tool EXCEPT ![ToolOf[c]] = @ + 0] = committed.tool
      BY <3>1
    <3> HIDE DEF d
    <3>3. committed.day[d] + 0 = committed.day[d]
      <4> DEFINE days == 1..Days
      <4>1. committed.day \in [days -> Int] /\ d \in days
        BY <3>1
      <4> HIDE DEF days
      <4> QED BY ONLY <4>1
    <3>4. [committed.day EXCEPT ![d] = @ + 0] = committed.day
      BY <3>1, <3>3, Zenon
    <3> QED BY <3>1, <3>2, <3>4 DEF Plus, d
  <2> QED BY <1>6, <2>1, HoldEnds DEF OtherAnswer, CommitHold, CallTo
<1>7. ASSUME NEW c \in BuyerCalls, PayThrows(c) PROVE BudgetInv'
  BY <1>7, HoldEnds DEF PayThrows, ReleaseHold, CallTo
<1> QED BY <1>1, <1>2, <1>3, <1>4, <1>5, <1>6, <1>7, ReserveKeeps DEF BudgetNext

\* The sum of the caps, over the function of FiniteSums.
LEMMA BasesSum ==
  ASSUME NEW S \in SUBSET BuyerCalls
  PROVE  MapThenSumSet(Basis, S) = SumOver(Bases, S)
<1> DEFINE Folded(h) == h = [T \in SUBSET S |-> IF T = {} THEN 0
                             ELSE Basis(Pick(T)) + h[T \ {Pick(T)}]]
<1>1. MapThenSumSet(Basis, S) = (CHOOSE h : Folded(h))[S]
  BY DEF MapThenSumSet, MapThenFoldSet, Pick
<1>2. \A T \in SUBSET S : T # {} => Bases[Pick(T)] = Basis(Pick(T))
  BY PickIn, BasisTyped
<1>3. ASSUME NEW h
      PROVE  Folded(h) <=> SumsOf(Bases, S, h)
  <2> DEFINE with(T) == IF T = {} THEN 0 ELSE Basis(Pick(T)) + h[T \ {Pick(T)}]
             from(T) == IF T = {} THEN 0 ELSE Bases[Pick(T)] + h[T \ {Pick(T)}]
  <2>1. \A T \in SUBSET S : with(T) = from(T)
    BY <1>2
  <2>2. Folded(h) <=> h = [T \in SUBSET S |-> with(T)]
    OBVIOUS
  <2>3. SumsOf(Bases, S, h) <=> h = [T \in SUBSET S |-> from(T)]
    BY DEF SumsOf
  <2> HIDE DEF with, from, Folded
  <2> QED BY <2>1, <2>2, <2>3
<1> HIDE DEF Folded
<1>4. IsFiniteSet(S)
  BY BasisTyped, FS_Subset
<1>5. PICK g : SumsOf(Bases, S, g) /\ \A h : SumsOf(Bases, S, h) => h = g
  BY <1>4, SumsExist
<1>6. (CHOOSE h : Folded(h)) = g
  BY <1>3, <1>5
<1>7. SumOver(Bases, S) = g[S]
  BY <1>4, <1>5, SumOverIs
<1> QED BY <1>1, <1>6, <1>7

\* However calls overlap, expire, fail or are answered late, whatever day it turns
\* and whatever the card asks for by then: the holds in the air of a tool and of a
\* day, and what answered calls were charged of theirs, never pass its cap (the
\* reserve, commit and release of the budget around pay).
THEOREM BudgetIsHeld == BudgetSpec => []BudgetHolds
<1>1. BudgetInv /\ [BudgetNext]_budgetVars => BudgetInv'
  BY BudgetStep
<1>2. ASSUME BudgetInv PROVE BudgetHolds
  <2>1. ASSUME NEW k \in Lines
        PROVE  WithinHoldOf(PaidOn(k)) + MapThenSumSet(Basis, HeldOn(k)) <= LineCap(k)
    <3>1. WithinHoldOf(PaidOn(k)) = SumOver(WithinHold, PaidOn(k))
      BY DEF WithinHoldOf, SumOver
    <3>2. MapThenSumSet(Basis, HeldOn(k)) = SumOver(Bases, HeldOn(k))
      BY BasesSum DEF HeldOn
    <3> QED BY <1>2, <3>1, <3>2 DEF BudgetInv, LinesHold
  <2>2. ASSUME NEW t \in BuyerTools
        PROVE  WithinHoldOf(AnsweredCalls(OfTool(t)))
                 + MapThenSumSet(Basis, Holding(OfTool(t))) <= PerToolCap
    <3> DEFINE k == <<"tool", t>>
    <3>1. k \in Lines /\ LineCap(k) = PerToolCap
      BY DEF Lines, LineCap
    <3>2. PaidOn(k) = AnsweredCalls(OfTool(t)) /\ HeldOn(k) = Holding(OfTool(t))
      BY DEF PaidOn, HeldOn, FallsOn, AnsweredCalls, Holding, OfTool
    <3> HIDE DEF k
    <3> QED BY <2>1, <3>1, <3>2
  <2>3. ASSUME NEW d \in 1..Days
        PROVE  WithinHoldOf(AnsweredCalls(OfDay(d)))
                 + MapThenSumSet(Basis, Holding(OfDay(d))) <= PerDayCap
    <3> DEFINE k == <<"day", d>>
    <3>1. k \in Lines /\ LineCap(k) = PerDayCap
      BY DEF Lines, LineCap
    <3>2. PaidOn(k) = AnsweredCalls(OfDay(d)) /\ HeldOn(k) = Holding(OfDay(d))
      BY DEF PaidOn, HeldOn, FallsOn, AnsweredCalls, Holding, OfDay
    <3> HIDE DEF k
    <3> QED BY <2>1, <3>1, <3>2
  <2> QED BY <2>2, <2>3 DEF BudgetHolds
<1>3. BudgetInv => BudgetHolds
  BY <1>2
<1> QED BY BudgetStart, <1>1, <1>3, PTL DEF BudgetSpec

-----------------------------------------------------------------------------
(***************************************************************************)
(* The marketplace.  A claim gets into the record only through a publish   *)
(* that found no creator there.                                            *)
(***************************************************************************)
Rightful(S) == S \subseteq {Owner} \/ S \in blind

Creators == Claims \cup {{Owner}}
Chains == [registered : BOOLEAN, agent : Nat, paused : BOOLEAN, minted : Nat]

PublishPositions ==
  {"idle", "bond", "enqueue", "blocked", "held", "probe", "rejected", "split",
   "finalize", "unverified", "mint", "update", "owner", "existing", "card",
   "upsert", "listed", "failed"}

Records == [creator : Creators, agent : Nat, active : BOOLEAN]
PublishRecords == [pc : PublishPositions, agent : Nat, creator : Creators]

MarketTyped ==
  /\ chain \in Chains
  /\ index \in SUBSET Records
  /\ publish \in [Publishes -> PublishRecords]
  /\ blind \in SUBSET Claims

\* Whom a publish will list, once it has looked for the owner.
ClaimsChecked ==
  \A p \in Publishes :
    /\ publish[p].pc = "existing" => publish[p].creator \in SUBSET {Owner}
    /\ publish[p].pc \in {"card", "upsert"} => Rightful(publish[p].creator)

\* Nothing runs beside a quiet takedown, and what its legs did stays done.
TakedownQuiet ==
  quiet =>
    /\ \A p \in Publishes : publish[p].pc \in Ended
    /\ takedown \in {"pause", "done"} => \A r \in index : ~r.active
    /\ takedown = "done" => chain.paused \/ pauseTx \in {"sent", "reverted"}

MarketInv == MarketTyped /\ ClaimsChecked /\ CreatorKept /\ TakedownQuiet

LEMMA MarketStart == MarketInit => MarketInv
<1> SUFFICES ASSUME MarketInit PROVE MarketInv
  OBVIOUS
<1> USE DEF MarketInit, PublishIdle, Placeholder
<1>1. MarketTyped
  BY DEF MarketTyped, PublishPositions, PublishRecords, Chains, Creators, Claims
<1>2. ClaimsChecked /\ CreatorKept /\ TakedownQuiet
  BY DEF ClaimsChecked, CreatorKept, TakedownQuiet
<1> QED BY <1>1, <1>2 DEF MarketInv

\* Publish p goes on to the record r, and nothing else is written but, perhaps,
\* what it knows (blind) and the chain.
PublishTo(p, r) ==
  /\ r \in PublishRecords
  /\ publish' = [publish EXCEPT ![p] = r]
  /\ blind \in SUBSET blind' /\ blind' \in SUBSET Claims
  /\ chain' \in Chains
  /\ UNCHANGED <<index, takedown>> /\ quiet' = quiet

\* A step of one publish that leaves the listing alone, and knows what it claims.
LEMMA PublishMoves ==
  ASSUME MarketInv, NEW p \in Publishes, publish[p].pc \notin Ended,
         NEW r, PublishTo(p, r),
         r.pc = "existing" => r.creator \in SUBSET {Owner},
         r.pc \in {"card", "upsert"} => r.creator \subseteq {Owner} \/ r.creator \in blind'
  PROVE  MarketInv'
<1> USE DEF MarketInv, PublishTo
<1>1. \A S : Rightful(S) => Rightful(S)'
  BY DEF Rightful
<1>2. /\ publish'[p] = r
      /\ \A q \in Publishes : q # p => publish'[q] = publish[q]
  BY DEF MarketTyped
<1>3. MarketTyped'
  BY DEF MarketTyped, PublishRecords
<1>4. ClaimsChecked'
  BY <1>1, <1>2 DEF ClaimsChecked, Rightful
<1>5. CreatorKept'
  BY DEF CreatorKept
<1>6. TakedownQuiet'
  BY DEF TakedownQuiet
<1> QED BY <1>3, <1>4, <1>5, <1>6

\* The chain may do what it likes, except unpause.
LEMMA ChainMoves ==
  ASSUME MarketInv,
         chain' \in Chains,
         chain.paused => chain'.paused,
         UNCHANGED <<pauseTx, index, publish, takedown, blind, quiet>>
  PROVE  MarketInv'
<1> USE DEF MarketInv
<1>1. MarketTyped'
  BY DEF MarketTyped
<1>2. ClaimsChecked' /\ CreatorKept' /\ TakedownQuiet'
  BY DEF ClaimsChecked, CreatorKept, TakedownQuiet, Rightful
<1> QED BY <1>1, <1>2

LEMMA GotoMoves ==
  ASSUME MarketInv, NEW p \in Publishes, publish[p].pc \notin Ended,
         NEW to \in PublishPositions, Goto(p, to),
         to # "existing",
         to \in {"card", "upsert"} => Rightful(publish[p].creator),
         chain' \in Chains,
         UNCHANGED <<index, takedown, blind>>, quiet' = quiet
  PROVE  MarketInv'
<1> DEFINE r == [publish[p] EXCEPT !.pc = to]
<1>1. publish[p] \in PublishRecords /\ blind \in SUBSET Claims
  BY DEF MarketInv, MarketTyped
<1>2. r \in PublishRecords /\ r.pc = to /\ r.creator = publish[p].creator
  BY <1>1 DEF PublishRecords
<1>3. publish' = [publish EXCEPT ![p] = r]
  BY DEF Goto
<1> HIDE DEF r
<1>4. PublishTo(p, r)
  BY <1>1, <1>2, <1>3 DEF PublishTo
<1>5. r.pc \in {"card", "upsert"} => r.creator \subseteq {Owner} \/ r.creator \in blind'
  BY <1>2 DEF Rightful
<1> QED BY <1>2, <1>4, <1>5, PublishMoves

\* A publish that ends, and forgets what it has read.
LEMMA EndMoves ==
  ASSUME MarketInv, NEW p \in Publishes, publish[p].pc \notin Ended,
         NEW to \in Ended, End(p, to), chain' \in Chains,
         UNCHANGED <<index, takedown, blind>>, quiet' = quiet
  PROVE  MarketInv'
<1> DEFINE r == [PublishIdle EXCEPT !.pc = to]
<1>1. blind \in SUBSET Claims
  BY DEF MarketInv, MarketTyped
<1>2. r \in PublishRecords /\ r.pc = to /\ to \notin {"existing", "card", "upsert"}
  BY DEF PublishRecords, PublishIdle, Placeholder, Ended, PublishPositions, Creators, Claims
<1>3. publish' = [publish EXCEPT ![p] = r]
  BY DEF End
<1> HIDE DEF r
<1>4. PublishTo(p, r)
  BY <1>1, <1>2, <1>3 DEF PublishTo
<1> QED BY <1>2, <1>4, PublishMoves

LEMMA MarketStep ==
  ASSUME MarketInv, [MarketNext]_marketVars
  PROVE  MarketInv'
<1> USE DEF MarketInv
<1>0. /\ chain \in Chains
      /\ blind \in SUBSET Claims
      /\ \A p \in Publishes : publish[p] \in PublishRecords
  BY DEF MarketTyped, PublishRecords
<1>1. ASSUME NEW p \in Publishes, RecordDecision(p) PROVE MarketInv'
  <2>1. /\ \E to \in {"bond", "enqueue", "blocked"} :
             publish' = [publish EXCEPT ![p].pc = to]
        /\ UNCHANGED <<chain, index, takedown, blind>> /\ quiet' = FALSE
    BY <1>1 DEF RecordDecision, Goto
  <2>2. MarketTyped'
    BY <2>1 DEF MarketTyped, PublishPositions, PublishRecords
  <2>3. ClaimsChecked'
    BY <2>1 DEF ClaimsChecked, MarketTyped, Rightful
  <2>4. CreatorKept' /\ TakedownQuiet'
    BY <2>1 DEF CreatorKept, TakedownQuiet
  <2> QED BY <2>2, <2>3, <2>4
<1>2. ASSUME NEW p \in Publishes, EnqueueReview(p) PROVE MarketInv'
  BY <1>0, <1>2, GotoMoves DEF EnqueueReview, PublishPositions, Ended
<1>3. ASSUME NEW p \in Publishes, CheckBond(p) PROVE MarketInv'
  BY <1>0, <1>3, GotoMoves DEF CheckBond, PublishPositions, Ended
<1>4. ASSUME NEW p \in Publishes, FirstProbe(p) PROVE MarketInv'
  BY <1>0, <1>4, GotoMoves DEF FirstProbe, PublishPositions, Ended
<1>5. ASSUME NEW p \in Publishes, ReadSplit(p) PROVE MarketInv'
  BY <1>0, <1>5, GotoMoves DEF ReadSplit, PublishPositions, Ended
<1>6. ASSUME NEW p \in Publishes, MintAgent(p) PROVE MarketInv'
  <2> DEFINE r == [publish[p] EXCEPT !.pc = "update", !.agent = chain.minted + 1]
  <2>a. chain.minted + 1 \in Nat /\ publish[p] \in PublishRecords /\ "update" \in PublishPositions
    BY <1>0 DEF PublishPositions, Chains
  <2>1. r \in PublishRecords /\ r.pc = "update"
    BY <2>a DEF PublishRecords
  <2>2. chain' \in Chains
    BY <1>0, <1>6 DEF MintAgent, Chains
  <2>3. publish' = [publish EXCEPT ![p] = r] /\ publish[p].pc \notin Ended
    BY <1>6 DEF MintAgent, Ended
  <2> HIDE DEF r
  <2>4. PublishTo(p, r)
    BY <1>0, <1>6, <2>1, <2>2, <2>3 DEF PublishTo, MintAgent
  <2> QED BY <2>1, <2>3, <2>4, PublishMoves
<1>7. ASSUME NEW p \in Publishes, UpdateRegistry(p) PROVE MarketInv'
  <2>1. chain' \in Chains
    BY <1>0, <1>7 DEF UpdateRegistry, PublishRecords, Chains
  <2> QED BY <1>7, <2>1, GotoMoves DEF UpdateRegistry, PublishPositions, Ended
<1>8. ASSUME NEW p \in Publishes, Finalize(p) PROVE MarketInv'
  <2>1. CASE Goto(p, "owner")
    BY <1>0, <1>8, <2>1, GotoMoves DEF Finalize, PublishPositions, Ended
  <2>2. CASE End(p, "unverified")
    BY <1>0, <1>8, <2>2, EndMoves DEF Finalize, Ended
  <2> QED BY <1>8, <2>1, <2>2 DEF Finalize
<1>9. ASSUME NEW p \in Publishes, ResolveOwner(p) PROVE MarketInv'
  <2>1. PICK claims \in SUBSET {Owner} :
          publish' = [publish EXCEPT ![p].pc = "existing", ![p].creator = claims]
    BY <1>9 DEF ResolveOwner
  <2> DEFINE r == [publish[p] EXCEPT !.pc = "existing", !.creator = claims]
  <2>2. claims \in Creators
    BY DEF Creators, Claims
  <2>3. r \in PublishRecords /\ r.pc = "existing" /\ r.creator = claims
    BY <1>0, <2>2 DEF PublishRecords, PublishPositions
  <2>4. publish' = [publish EXCEPT ![p] = r] /\ publish[p].pc \notin Ended
    BY <1>9, <2>1 DEF Ended, ResolveOwner
  <2> HIDE DEF r
  <2>5. PublishTo(p, r)
    BY <1>0, <1>9, <2>3, <2>4 DEF PublishTo, ResolveOwner
  <2> QED BY <2>3, <2>4, <2>5, PublishMoves
<1>10. ASSUME NEW p \in Publishes, ReadExisting(p) PROVE MarketInv'
  <2>1. PICK claim \in Claims, known \in IF index = {} THEN {{}} ELSE {r.creator : r \in index} :
          /\ publish' = [publish EXCEPT ![p].pc = "card",
                                       ![p].creator = BoundCreator(p, known, claim)]
          /\ blind' = IF known = {} THEN blind \cup {claim} ELSE blind
    BY <1>10 DEF ReadExisting
  <2> DEFINE creator == BoundCreator(p, known, claim)
             r == [publish[p] EXCEPT !.pc = "card", !.creator = creator]
  <2>2. /\ publish[p].pc = "existing" /\ publish[p].creator \in SUBSET {Owner}
        /\ known = {} \/ \E s \in index : known = s.creator
    BY <1>10, <2>1 DEF ReadExisting, ClaimsChecked
  <2>3. creator \subseteq {Owner} \/ creator \in blind'
    <3>1. CASE publish[p].creator # {}
      BY <2>2, <3>1 DEF BoundCreator
    <3>2. CASE publish[p].creator = {} /\ known # {}
      BY <2>1, <2>2, <3>2 DEF BoundCreator, CreatorKept
    <3>3. CASE publish[p].creator = {} /\ known = {}
      BY <2>1, <3>3 DEF BoundCreator
    <3> QED BY <3>1, <3>2, <3>3
  <2>4. creator \in Creators
    <3>1. publish[p].creator \in Creators /\ claim \in Creators
      BY <1>0, <2>1 DEF PublishRecords, Creators
    <3>2. known # {} => known \in Creators
      BY <2>2 DEF MarketTyped, Records
    <3> QED BY <3>1, <3>2 DEF BoundCreator
  <2> HIDE DEF creator
  <2>5. r \in PublishRecords /\ r.pc = "card" /\ r.creator = creator
    BY <1>0, <2>4 DEF PublishRecords, PublishPositions
  <2>6. blind \in SUBSET blind' /\ blind' \in SUBSET Claims
    BY <1>0, <2>1
  <2>7. publish[p].pc \notin Ended /\ publish' = [publish EXCEPT ![p] = r]
    BY <2>1, <2>2 DEF Ended, creator
  <2> HIDE DEF r
  <2>8. PublishTo(p, r)
    BY <1>0, <1>10, <2>5, <2>6, <2>7 DEF PublishTo, ReadExisting
  <2>9. r.creator \subseteq {Owner} \/ r.creator \in blind'
    BY <2>3, <2>5
  <2> QED BY <2>5, <2>7, <2>8, <2>9, PublishMoves
<1>11. ASSUME NEW p \in Publishes, PutCard(p) PROVE MarketInv'
  <2>1. Rightful(publish[p].creator)
    BY <1>11 DEF PutCard, ClaimsChecked
  <2> QED BY <1>0, <1>11, <2>1, GotoMoves DEF PutCard, PublishPositions, Ended
<1>12. ASSUME NEW p \in Publishes, Upsert(p) PROVE MarketInv'
  <2> DEFINE s == [creator |-> publish[p].creator, agent |-> publish[p].agent, active |-> TRUE]
  <2>1. /\ publish[p].pc = "upsert" /\ End(p, "listed")
        /\ UNCHANGED <<chain, takedown, blind, quiet>> /\ index' = {s}
    BY <1>12 DEF Upsert
  <2>2. s.creator = publish[p].creator /\ s \in Records
    BY <1>0 DEF PublishRecords, Records
  <2>3. Rightful(publish[p].creator)
    BY <2>1 DEF ClaimsChecked
  <2> HIDE DEF s
  <2>4. /\ publish' \in [Publishes -> PublishRecords] /\ publish'[p].pc = "listed"
        /\ \A q \in Publishes : q # p => publish'[q] = publish[q]
    BY <1>0, <2>1 DEF End, PublishIdle, Placeholder, MarketTyped, PublishRecords,
       PublishPositions, Creators, Claims
  <2>5. MarketTyped' /\ ClaimsChecked'
    BY <2>1, <2>2, <2>4 DEF MarketTyped, ClaimsChecked, Rightful
  <2>6. CreatorKept'
    BY <2>1, <2>2, <2>3 DEF CreatorKept, Rightful
  <2>7. ~quiet
    BY <2>1 DEF TakedownQuiet, Ended
  <2> QED BY <2>1, <2>5, <2>6, <2>7 DEF TakedownQuiet
<1>13. ASSUME NEW p \in Publishes, PublishThrows(p) PROVE MarketInv'
  BY <1>0, <1>13, EndMoves DEF PublishThrows, Ended
<1>14. CASE StopLeg
  <2>1. MarketTyped' /\ ClaimsChecked' /\ CreatorKept'
    BY <1>14 DEF StopLeg, MarketTyped, ClaimsChecked, CreatorKept, Rightful
  <2>2. TakedownQuiet'
    BY <1>14 DEF StopLeg, TakedownQuiet
  <2> QED BY <2>1, <2>2
<1>15. CASE DelistLeg
  <2>0. ASSUME NEW s \in Records
        PROVE  LET r == [s EXCEPT !.active = FALSE]
               IN  r \in Records /\ r.creator = s.creator /\ ~r.active
    BY DEF Records
  <2>a. index \in SUBSET Records
    BY DEF MarketTyped
  <2>1. /\ \A r \in Delisted(index) : \E s \in index : r.creator = s.creator /\ ~r.active
        /\ Delisted(index) \in SUBSET Records
    BY <2>0, <2>a DEF Delisted
  <2>2. MarketTyped' /\ ClaimsChecked'
    BY <1>15, <2>1 DEF DelistLeg, MarketTyped, ClaimsChecked, Rightful
  <2>3. CreatorKept' /\ TakedownQuiet'
    BY <1>15, <2>1 DEF DelistLeg, CreatorKept, TakedownQuiet
  <2> QED BY <2>2, <2>3
<1>16. CASE PauseLeg
  <2>1. MarketTyped' /\ ClaimsChecked' /\ CreatorKept'
    BY <1>16 DEF PauseLeg, MarketTyped, ClaimsChecked, CreatorKept, Rightful
  <2>2. TakedownQuiet'
    BY <1>16 DEF PauseLeg, TakedownQuiet
  <2> QED BY <2>1, <2>2
<1>17. CASE PauseMined
  <2>1. /\ chain' \in Chains
        /\ (pauseTx' = "mined" /\ chain'.paused) \/ (pauseTx' = "reverted" /\ chain' = chain)
    BY <1>0, <1>17 DEF PauseMined, Chains
  <2>2. UNCHANGED <<index, publish, takedown, blind, quiet>>
    BY <1>17 DEF PauseMined
  <2>3. MarketTyped' /\ ClaimsChecked' /\ CreatorKept'
    BY <2>1, <2>2 DEF MarketTyped, ClaimsChecked, CreatorKept, Rightful
  <2>4. TakedownQuiet'
    BY <2>1, <2>2 DEF TakedownQuiet
  <2> QED BY <2>3, <2>4
<1>18. CASE RegisterResource
  <2>1. chain' \in Chains /\ chain'.paused = chain.paused
    BY <1>0, <1>18 DEF RegisterResource, Chains
  <2> QED BY <1>18, <2>1, ChainMoves DEF RegisterResource
<1>19. CASE UNCHANGED marketVars
  BY <1>0, <1>19, ChainMoves DEF marketVars
<1> QED BY <1>1, <1>2, <1>3, <1>4, <1>5, <1>6, <1>7, <1>8, <1>9, <1>10, <1>11, <1>12,
           <1>13, <1>14, <1>15, <1>16, <1>17, <1>18, <1>19 DEF MarketNext

\* The inductive invariant of the listing.
LEMMA MarketInvariant == MarketSpec => []MarketInv
<1>1. MarketInv /\ [MarketNext]_marketVars => MarketInv'
  BY MarketStep
<1> QED BY MarketStart, <1>1, PTL DEF MarketSpec

\* Whoever is listed is the owner on chain, or claimed the resource in a publish
\* that found no creator in the index, however many publishes and takedowns interleave
\* (boundCreator of publishResource).
THEOREM CreatorIsKept == MarketSpec => []CreatorKept
<1>1. MarketInv => CreatorKept
  BY DEF MarketInv
<1> QED BY MarketInvariant, <1>1, PTL

\* A takedown that reports success, after whatever retries, and beside which and
\* after which nothing was published, leaves the resource delisted, and paused
\* unless the pause it broadcast is not mined or reverted (takedown).
THEOREM TakedownIsComplete == MarketSpec => []TakedownComplete
<1>1. MarketInv => TakedownComplete
  BY DEF MarketInv, TakedownQuiet, TakedownComplete
<1> QED BY MarketInvariant, <1>1, PTL

-----------------------------------------------------------------------------
(***************************************************************************)
(* The data proxy.  A request that was not refused has been counted, one   *)
(* by one, and the last of them found the counter within the budget.  What *)
(* a request may connect to was acceptable at its second look.             *)
(***************************************************************************)
PastQuota == {"resolving", "reading", "rechecking", "pinning", "forwarded",
              "unpinned", "receiving", "relayed", "failed"}
Within == {r \in Requests : egress[r] \in PastQuota}

WithinBudget ==
  /\ Cardinality(Within) <= usage.calls
  /\ Cardinality(Within) <= CallBudget

\* Only what is past the quota connects, and only to what was vetted.
ConnectsInOrder ==
  \A r \in Requests :
    /\ connected[r] # {} => egress[r] \in {"forwarded", "unpinned", "receiving",
                                            "relayed", "failed"}
    /\ vetted[r] \cap Blocked = {}

ProxyInv ==
  DataProxyTypeOK /\ WithinBudget /\ ConnectsInOrder /\ ConnectsToChecked

LEMMA ProxyStart == DataProxyInit => ProxyInv
<1> SUFFICES ASSUME DataProxyInit PROVE ProxyInv
  OBVIOUS
<1>1. Within = {}
  BY DEF DataProxyInit, Within, PastQuota
<1>2. WithinBudget
  BY <1>1, FS_EmptySet, DataProxyAssumption DEF WithinBudget, DataProxyInit
<1> QED
  BY <1>2 DEF ProxyInv, DataProxyInit, DataProxyTypeOK, ConnectsInOrder, ConnectsToChecked

\* A step that lets no further request past the quota keeps the count.
LEMMA CountKept ==
  ASSUME ProxyInv, Within' \subseteq Within, usage'.calls \in Nat, usage'.calls >= usage.calls
  PROVE  WithinBudget'
<1>1. IsFiniteSet(Within)
  BY FS_Subset, DataProxyAssumption DEF Within
<1>2. /\ Cardinality(Within') <= Cardinality(Within)
      /\ Cardinality(Within') \in Nat /\ Cardinality(Within) \in Nat
  BY <1>1, FS_Subset, FS_CardinalityType
<1> QED BY <1>2, DataProxyAssumption DEF ProxyInv, WithinBudget, DataProxyTypeOK

\* The request that passes is one more, and so is the call it is counted as.
LEMMA OneMorePast ==
  ASSUME ProxyInv, NEW r \in Requests, EgressMoves(r, "counting", "resolving"),
         Increment(1, 1), ~OverQuota
  PROVE  WithinBudget'
<1>1. IsFiniteSet(Within) /\ r \notin Within /\ Within' = Within \cup {r}
  BY FS_Subset, DataProxyAssumption
  DEF Within, PastQuota, EgressMoves, ProxyInv, DataProxyTypeOK
<1>2. Cardinality(Within') = Cardinality(Within) + 1 /\ Cardinality(Within) \in Nat
  BY <1>1, FS_AddElement, FS_CardinalityType
<1>3. usage'.calls = usage.calls + 1 /\ usage'.calls <= CallBudget
  BY DataProxyAssumption DEF Increment, OverQuota, ProxyInv, DataProxyTypeOK
<1> QED BY <1>2, <1>3, DataProxyAssumption DEF ProxyInv, WithinBudget, DataProxyTypeOK

LEMMA ProxyStep ==
  ASSUME ProxyInv, [DataProxyNext]_proxyVars
  PROVE  ProxyInv'
<1> USE DataProxyAssumption
<1>1. DataProxyTypeOK'
  BY DEF ProxyInv, DataProxyTypeOK, DataProxyNext, proxyVars, VerifyToken, CountCall,
         Resolve, ReadBody, Recheck, Forward, HeadersArrive, ForwardFails, MeterAndRelay,
         DnsChanges, EgressMoves, Increment, PinTo
<1>2. ConnectsInOrder' /\ ConnectsToChecked'
  BY DEF ProxyInv, DataProxyTypeOK, DataProxyNext, proxyVars, VerifyToken, CountCall,
         Resolve, ReadBody, Recheck, Forward, HeadersArrive, ForwardFails, MeterAndRelay,
         DnsChanges, EgressMoves, PinTo, NameIsSafe, ConnectsInOrder, ConnectsToChecked
<1>3. WithinBudget'
  <2>1. ASSUME NEW r \in Requests, CountCall(r) PROVE WithinBudget'
    <3>1. CASE EgressMoves(r, "counting", "resolving")
      <4>1. egress'[r] = "resolving"
        BY <3>1 DEF EgressMoves, ProxyInv, DataProxyTypeOK
      <4>2. Increment(1, 1) /\ ~OverQuota
        BY <2>1, <4>1 DEF CountCall, EgressMoves, ProxyInv, DataProxyTypeOK
      <4> QED BY <3>1, <4>2, OneMorePast
    <3>2. CASE EgressMoves(r, "counting", "refused")
      <4>1. Within' \subseteq Within /\ usage'.calls \in Nat /\ usage'.calls >= usage.calls
        BY <2>1, <3>2 DEF CountCall, EgressMoves, Increment, Within, PastQuota, ProxyInv,
                          DataProxyTypeOK
      <4> QED BY <4>1, CountKept
    <3> QED BY <2>1, <3>1, <3>2 DEF CountCall
  <2>2. CASE /\ [DataProxyNext]_proxyVars
             /\ \A r \in Requests : ~CountCall(r)
    <3>1. Within' \subseteq Within
      BY <2>2 DEF ProxyInv, DataProxyTypeOK, DataProxyNext, proxyVars, VerifyToken,
         Resolve, ReadBody, Recheck, Forward, HeadersArrive, ForwardFails, MeterAndRelay,
         DnsChanges, EgressMoves, Within, PastQuota
    <3>2. usage'.calls \in Nat /\ usage'.calls >= usage.calls
      BY <2>2 DEF ProxyInv, DataProxyTypeOK, DataProxyNext, proxyVars, VerifyToken,
         Resolve, ReadBody, Recheck, Forward, HeadersArrive, ForwardFails, MeterAndRelay,
         DnsChanges, Increment
    <3> QED BY <3>1, <3>2, CountKept
  <2> QED BY <2>1, <2>2
<1> QED BY <1>1, <1>2, <1>3 DEF ProxyInv

\* A request that connected is past the quota.
LEMMA ProxyQuota == ProxyInv => QuotaHolds
<1> SUFFICES ASSUME ProxyInv PROVE QuotaHolds
  OBVIOUS
<1>1. {r \in Requests : connected[r] # {}} \subseteq Within
  BY DEF ProxyInv, ConnectsInOrder, Within, PastQuota
<1>2. IsFiniteSet(Within)
  BY FS_Subset, DataProxyAssumption DEF Within
<1>3. /\ Cardinality({r \in Requests : connected[r] # {}}) <= Cardinality(Within)
      /\ Cardinality(Within) \in Nat
      /\ Cardinality({r \in Requests : connected[r] # {}}) \in Nat
  BY <1>1, <1>2, FS_Subset, FS_CardinalityType
<1> QED BY <1>3, DataProxyAssumption DEF ProxyInv, WithinBudget, QuotaHolds

\* However requests and their increments interleave, a resource makes no more
\* upstream calls than its budget, and a pinned connection goes to no blocked
\* address, whatever DNS answers between the looks (proxy.ts:214-320).
THEOREM ProxyIsBounded == DataProxySpec => [](QuotaHolds /\ ConnectsToChecked)
<1>1. ProxyInv /\ [DataProxyNext]_proxyVars => ProxyInv'
  BY ProxyStep
<1>2. ProxyInv => QuotaHolds /\ ConnectsToChecked
  BY ProxyQuota DEF ProxyInv
<1> QED BY ProxyStart, <1>1, <1>2, PTL DEF DataProxySpec

-----------------------------------------------------------------------------
(***************************************************************************)
(* The splitter.  A flush pays out what it finds, so the sum of balances   *)
(* is what came in; its floor loses the creator less than a unit.          *)
(***************************************************************************)
PaidSum == SumOver(balance.paid, Accounts)

SplitterInv ==
  /\ balance \in [held : Nat, paid : [Accounts -> Nat]]
  /\ creatorBps \in Splits /\ treasury \in Accounts
  /\ received \in 0 .. MaxReceived
  /\ flushed \in [count : Nat, share : Nat]
  /\ balance.held + PaidSum = received
  /\ (balance.paid[SplitCreator] + flushed.count) * Denominator >= flushed.share

\* The floor of a share is within it, and short of it by less than one.
LEMMA FloorOfShare ==
  ASSUME NEW amount \in Nat, NEW bps \in Splits
  PROVE  /\ (amount * bps) \div Denominator \in 0 .. amount
         /\ ((amount * bps) \div Denominator + 1) * Denominator >= amount * bps
         /\ amount * bps \in Nat
<1> DEFINE p == amount * bps
           q == p \div Denominator
<1>1. Denominator \in Nat \ {0} /\ bps \in 0 .. Denominator
  BY SplitterAssumption
<1>2. p \in Nat /\ p <= amount * Denominator
  BY <1>1, SMT
<1>3. q \in Nat /\ q * Denominator <= p /\ p < (q + 1) * Denominator
  <2> HIDE DEF p
  <2> QED BY <1>1, <1>2, SMT
<1>4. q <= amount
  <2> HIDE DEF p, q
  <2>1. q * Denominator <= amount * Denominator
    BY <1>1, <1>2, <1>3, SMT
  <2> QED BY <1>1, <1>3, <2>1, SMT
<1>5. (q + 1) * Denominator >= p
  <2> HIDE DEF p, q
  <2> QED BY <1>1, <1>2, <1>3, SMT
<1>6. q \in 0 .. amount
  <2> HIDE DEF p, q
  <2> QED BY <1>3, <1>4
<1> QED BY <1>2, <1>5, <1>6

LEMMA SplitterStart == SplitterInit => SplitterInv
<1> SUFFICES ASSUME SplitterInit PROVE SplitterInv
  OBVIOUS
<1>1. PaidSum = 0
  BY SumZero, SplitterAssumption DEF PaidSum, SplitterInit
<1>2. balance.paid[SplitCreator] = 0 /\ flushed.count = 0 /\ flushed.share = 0
  BY SplitterAssumption DEF SplitterInit
<1>3. (0 + 0) * Denominator >= 0
  BY SplitterAssumption
<1> QED BY <1>1, <1>2, <1>3, SplitterAssumption DEF SplitterInv, SplitterInit

LEMMA DistributeKeeps ==
  ASSUME SplitterInv, Distribute
  PROVE  SplitterInv'
<1> DEFINE held == balance.held
           toCreator == (held * creatorBps) \div Denominator
           rest == held - toCreator
           mid == [balance.paid EXCEPT ![SplitCreator] = @ + toCreator]
           paid == balance.paid
           after == balance'.paid
<1>1. /\ held \in Nat /\ paid \in [Accounts -> Nat]
      /\ creatorBps \in Splits /\ treasury \in Accounts /\ SplitCreator \in Accounts
      /\ flushed \in [count : Nat, share : Nat]
      /\ IsFiniteSet(Accounts)
  BY SplitterAssumption DEF SplitterInv
<1>2. /\ toCreator \in 0 .. held
      /\ (toCreator + 1) * Denominator >= held * creatorBps
      /\ held * creatorBps \in Nat
  BY <1>1, FloorOfShare
<1>3. /\ balance' = [held |-> 0, paid |->
           [a \in Accounts |-> paid[a] + ((IF a = SplitCreator THEN toCreator ELSE 0)
                                           + (IF a = treasury THEN rest ELSE 0))]]
      /\ flushed' = [count |-> flushed.count + 1,
                     share |-> flushed.share + held * creatorBps]
      /\ UNCHANGED <<creatorBps, treasury, received>>
  BY DEF Distribute
<1> DEFINE share == held * creatorBps
<1> HIDE DEF toCreator, held, paid, share
<1>4. after = [a \in Accounts |-> paid[a] + ((IF a = SplitCreator THEN toCreator ELSE 0)
                                           + (IF a = treasury THEN rest ELSE 0))]
      /\ balance'.held = 0
  BY <1>3
<1> DEFINE middle == [paid EXCEPT ![SplitCreator] = @ + toCreator]
<1>5. /\ middle \in [Accounts -> Nat] /\ middle[SplitCreator] = paid[SplitCreator] + toCreator
      /\ \A a \in Accounts : a # SplitCreator => middle[a] = paid[a]
  BY <1>1, <1>2
<1>6. /\ after \in [Accounts -> Nat] /\ after[treasury] = middle[treasury] + rest
      /\ \A a \in Accounts : a # treasury => after[a] = middle[a]
      /\ after[SplitCreator] >= paid[SplitCreator] + toCreator
  BY <1>1, <1>2, <1>4, <1>5
<1> HIDE DEF middle, after
<1>7. SumOver(middle, Accounts) = SumOver(paid, Accounts) + toCreator
  <2>1. middle[SplitCreator] - paid[SplitCreator] = toCreator
    BY <1>1, <1>2, <1>5
  <2> QED BY <1>1, <1>5, <2>1, SumShift
<1>8. SumOver(after, Accounts) = SumOver(middle, Accounts) + rest
  <2>1. after[treasury] - middle[treasury] = rest
    BY <1>1, <1>2, <1>5, <1>6
  <2> QED BY <1>1, <1>5, <1>6, <2>1, SumShift
<1>9. SumOver(paid, Accounts) \in Int
  BY <1>1, SumInt
<1>10. held + SumOver(paid, Accounts) = received
  BY DEF held, paid, PaidSum, SplitterInv
<1>11. SumOver(after, Accounts) = received
  BY <1>1, <1>2, <1>7, <1>8, <1>9, <1>10
<1>12. (after[SplitCreator] + (flushed.count + 1)) * Denominator >= flushed.share + share
  <2> DEFINE x == paid[SplitCreator] + flushed.count
             y == after[SplitCreator] + (flushed.count + 1)
             d == Denominator
             s == flushed.share
             t == toCreator + 1
  <2>1. x * d >= s
    BY DEF SplitterInv, paid
  <2>2. x \in Nat /\ y \in Nat /\ t \in Nat /\ d \in Nat /\ y >= x + t /\ s \in Nat
    BY <1>1, <1>2, <1>6, SplitterAssumption
  <2>3. t * d >= share /\ share \in Nat
    BY <1>2 DEF share
  <2> HIDE DEF x, y, d, s, t
  <2>4. (x + t) * d = x * d + t * d /\ y * d >= (x + t) * d
    BY <2>2, SMT
  <2>5. x * d \in Nat /\ t * d \in Nat /\ y * d \in Nat
    BY <2>2, SMT
  <2>6. y * d >= s + share
    BY <2>1, <2>2, <2>3, <2>4, <2>5, SMT
  <2> QED BY <2>6 DEF y, d, s
<1>13. PaidSum' = SumOver(after, Accounts)
  BY DEF PaidSum, after
<1>14. flushed'.count = flushed.count + 1 /\ flushed'.share = flushed.share + share
       /\ flushed' \in [count : Nat, share : Nat]
  BY <1>1, <1>2, <1>3 DEF share
<1>15. balance' \in [held : Nat, paid : [Accounts -> Nat]] /\ balance'.paid = after
  BY <1>3, <1>4, <1>6 DEF after
<1>16. received \in 0 .. MaxReceived
  BY DEF SplitterInv
<1> QED BY <1>1, <1>3, <1>4, <1>11, <1>12, <1>13, <1>14, <1>15, <1>16 DEF SplitterInv

LEMMA SplitterStep ==
  ASSUME SplitterInv, [SplitterNext]_splitterVars
  PROVE  SplitterInv'
<1>1. CASE Receive
  <2>1. PICK v \in Values : /\ received + v <= MaxReceived
                            /\ received' = received + v
                            /\ balance' = [balance EXCEPT !.held = @ + v]
    BY <1>1 DEF Receive
  <2>2. /\ balance' \in [held : Nat, paid : [Accounts -> Nat]]
        /\ balance'.paid = balance.paid /\ balance'.held = balance.held + v
        /\ received' \in 0 .. MaxReceived /\ v \in Nat
    BY <2>1, SplitterAssumption DEF SplitterInv
  <2>3. PaidSum' = PaidSum /\ PaidSum \in Int
    BY <2>2, SumInt, SplitterAssumption DEF PaidSum, SplitterInv
  <2> QED BY <1>1, <2>1, <2>2, <2>3 DEF Receive, SplitterInv
<1>2. CASE SetSplit \/ SetTreasury \/ UNCHANGED splitterVars
  <2>1. PaidSum' = PaidSum
    BY <1>2 DEF PaidSum, SetSplit, SetTreasury, splitterVars
  <2> QED BY <1>2, <2>1 DEF SplitterInv, SetSplit, SetTreasury, splitterVars
<1> QED BY <1>1, <1>2, DistributeKeeps DEF SplitterNext

\* What each account got is part of the sum.
LEMMA SplitterFair == SplitterInv => SplitterTypeOK /\ SplitIsFair
<1> SUFFICES ASSUME SplitterInv PROVE SplitterTypeOK /\ SplitIsFair
  OBVIOUS
<1>1. MapThenSumSet(LAMBDA a : balance.paid[a], Accounts) = PaidSum
  BY DEF PaidSum, SumOver
<1>2. \A a \in Accounts : balance.paid[a] \in 0 .. MaxReceived
  <2> SUFFICES ASSUME NEW a \in Accounts PROVE balance.paid[a] \in 0 .. MaxReceived
    OBVIOUS
  <2>1. SumOver(balance.paid, {a}) = balance.paid[a]
    <3>1. balance.paid[a] \in Nat /\ IsFiniteSet({}) /\ {a} = {} \cup {a}
      BY FS_EmptySet DEF SplitterInv
    <3>2. SumOver(balance.paid, {} \cup {a}) = balance.paid[a] + SumOver(balance.paid, {})
      BY <3>1, SumAdd
    <3> QED BY <3>1, <3>2, SumEmpty
  <2>2. SumOver(balance.paid, {a}) <= PaidSum
    BY SumMonotone, SplitterAssumption DEF PaidSum, SplitterInv
  <2>3. PaidSum \in Int
    BY SumInt, SplitterAssumption DEF PaidSum, SplitterInv
  <2> HIDE DEF PaidSum
  <2> QED BY <2>1, <2>2, <2>3, SplitterAssumption DEF SplitterInv
<1>3. balance.held \in 0 .. MaxReceived
  <2>1. PaidSum \in Nat
    BY SumMonotone, SplitterAssumption DEF PaidSum, SplitterInv
  <2> QED BY <2>1, SplitterAssumption DEF SplitterInv
<1>4. balance \in [held : 0 .. MaxReceived, paid : [Accounts -> 0 .. MaxReceived]]
  BY <1>2, <1>3 DEF SplitterInv
<1> QED BY <1>1, <1>4 DEF SplitterInv, SplitterTypeOK, SplitIsFair

\* For every split and every sequence of payments and flushes, what the contract
\* holds and has paid is what it received, and the creator's shares fall short by
\* less than a unit per flush (PaymentSplitter.sol:74-92).
THEOREM SplitsFairly == SplitterInit /\ [][SplitterNext]_splitterVars => []SplitIsFair
<1>1. SplitterInv /\ [SplitterNext]_splitterVars => SplitterInv'
  BY SplitterStep
<1>2. SplitterInv => SplitIsFair
  BY SplitterFair
<1> QED BY SplitterStart, <1>1, <1>2, PTL

-----------------------------------------------------------------------------
(***************************************************************************)
(* Those who pay for one call.  Who retries what was recorded signs again  *)
(* only with no nonce at hand, that is, in a call of its own; the runner   *)
(* signs on the way from the quote to the answer and never goes back.      *)
(***************************************************************************)
PayerRecords ==
  [pc : {"idle", "asking", "quoted", "sent", "done", "failed"},
   cap : 0 .. MaxCap, to : Recipients, nonce : SUBSET Nonces,
   intents : 0 .. MaxIntents, shown : 0 .. MaxCap]

AuthRecords ==
  [by : Payers, call : 0 .. MaxIntents, cap : 1 .. MaxCap,
   to : Recipients, charged : 0 .. MaxCap]

PayTyped ==
  /\ payer \in [Payers -> PayerRecords]
  /\ DOMAIN auth \subseteq Nonces /\ auth \in [DOMAIN auth -> AuthRecords]

\* An authorization belongs to a call its payer has made, and but for the page's
\* it is the only one of the call.
SignedOnce ==
  \A n \in DOMAIN auth : LET p == auth[n].by IN
    /\ auth[n].call <= payer[p].intents
    /\ KindOf[p] # "page" =>
         \A m \in DOMAIN auth : auth[m].by = p /\ auth[m].call = auth[n].call => m = n
    /\ KindOf[p] = "caller" /\ payer[p].nonce = {} => auth[n].call < payer[p].intents
    /\ KindOf[p] = "runner" => payer[p].pc \in {"sent", "done", "failed"}

PayerInOrder ==
  \A p \in Payers :
    /\ payer[p].nonce \subseteq DOMAIN auth
    /\ p \in Bound => payer[p].to = "asked"
    /\ payer[p].shown > 0 => payer[p].pc = "done"
    /\ payer[p].nonce = {} \/ \E n \in Nonces : payer[p].nonce = {n}

PaidAsShown ==
  \A p \in Payers :
    payer[p].shown > 0 => \A n \in payer[p].nonce : auth[n].charged = payer[p].shown

PaidWhereAsked ==
  \A n \in DOMAIN auth : auth[n].by \in Bound => auth[n].to = "asked"

PayInv == PayTyped /\ SignedOnce /\ PayerInOrder /\ PaidAsShown /\ PaidWhereAsked

LEMMA PayStart == PayPageInit => PayInv
<1> SUFFICES ASSUME PayPageInit PROVE PayInv
  OBVIOUS
<1>1. PayTyped
  BY PayPageAssumption DEF PayPageInit, PayTyped, PayerRecords, AuthRecords, Recipients
<1> QED BY <1>1 DEF PayPageInit, PayInv, SignedOnce, PayerInOrder, PaidAsShown, PaidWhereAsked

\* A step of one payer's that signs nothing.
MovesTo(p, x) ==
  /\ x \in PayerRecords
  /\ payer' = [payer EXCEPT ![p] = x] /\ auth' = auth
  /\ \/ x.nonce = payer[p].nonce /\ x.intents = payer[p].intents
     \/ x.nonce = {} /\ x.intents = payer[p].intents + 1
  /\ p \in Bound => x.to = "asked"
  /\ x.shown > 0 => x.pc = "done" /\ \A n \in x.nonce : auth[n].charged = x.shown
  /\ KindOf[p] = "runner" =>
       x.pc \in {"sent", "done", "failed"} \/ payer[p].pc \notin {"sent", "done", "failed"}

LEMMA PayerMoves ==
  ASSUME PayInv, NEW p \in Payers, NEW x, MovesTo(p, x)
  PROVE  PayInv'
<1> USE DEF PayInv, MovesTo
<1>1. payer \in [Payers -> PayerRecords]
  BY DEF PayTyped
<1>2. /\ payer'[p] = x /\ \A q \in Payers : q # p => payer'[q] = payer[q]
      /\ payer' \in [Payers -> PayerRecords]
  BY <1>1
<1>3. PayTyped'
  BY <1>2 DEF PayTyped
<1>4. \A q \in Payers : payer[q].intents \in Nat /\ payer'[q].intents \in Nat
                        /\ payer'[q].intents >= payer[q].intents
  BY <1>1, <1>2 DEF PayerRecords
<1>5. \A n \in DOMAIN auth : auth[n].by \in Payers /\ auth[n].call \in Nat
  BY DEF PayTyped, AuthRecords
<1>6. SignedOnce'
  BY <1>2, <1>4, <1>5 DEF SignedOnce
<1>7. PayerInOrder' /\ PaidAsShown' /\ PaidWhereAsked'
  BY <1>2 DEF PayerInOrder, PaidAsShown, PaidWhereAsked
<1> QED BY <1>3, <1>6, <1>7

LEMMA PayKeeps ==
  ASSUME PayInv, NEW p \in Payers, Pay(p)
  PROVE  PayInv'
<1> USE DEF PayInv
<1> DEFINE n == CHOOSE m \in Nonces \ DOMAIN auth : TRUE
           a == [by |-> p, call |-> payer[p].intents, cap |-> payer[p].cap,
                 to |-> payer[p].to, charged |-> 0]
           x == [payer[p] EXCEPT !.pc = "sent", !.nonce = {n}]
<1>1. /\ payer[p].pc = "quoted" /\ payer[p].cap > 0
      /\ KindOf[p] = "caller" => payer[p].nonce = {}
      /\ n \in Nonces \ DOMAIN auth
      /\ auth' = [m \in DOMAIN auth \cup {n} |-> IF m \in DOMAIN auth THEN auth[m] ELSE a]
      /\ payer' = [payer EXCEPT ![p] = x]
  BY DEF Pay, PayTyped
<1>2. payer \in [Payers -> PayerRecords]
  BY DEF PayTyped
<1>3. /\ a \in AuthRecords /\ a.by = p /\ a.call = payer[p].intents
      /\ a.charged = 0 /\ a.to = payer[p].to
  <2>1. payer[p] \in PayerRecords /\ payer[p].cap \in 1 .. MaxCap
    BY <1>1, <1>2, PayPageAssumption DEF PayerRecords
  <2> QED BY <2>1, PayPageAssumption DEF PayerRecords, AuthRecords
<1>4. /\ x \in PayerRecords /\ x.nonce = {n} /\ x.pc = "sent" /\ x.to = payer[p].to
      /\ x.intents = payer[p].intents /\ x.shown = payer[p].shown
  BY <1>1, <1>2 DEF PayerRecords
<1> HIDE DEF n, a, x
<1>5. /\ payer'[p] = x /\ \A q \in Payers : q # p => payer'[q] = payer[q]
      /\ payer' \in [Payers -> PayerRecords]
  BY <1>1, <1>2, <1>4
<1>6. /\ DOMAIN auth' = DOMAIN auth \cup {n} /\ n \notin DOMAIN auth /\ auth'[n] = a
      /\ \A m \in DOMAIN auth : auth'[m] = auth[m]
  BY <1>1
<1>7. PayTyped'
  <2>1. \A m \in DOMAIN auth' : auth'[m] \in AuthRecords
    BY <1>3, <1>6 DEF PayTyped
  <2>2. auth' = [m \in DOMAIN auth' |-> auth'[m]]
    BY <1>1
  <2> QED BY <1>1, <1>5, <1>6, <2>1, <2>2 DEF PayTyped
<1>8. \A m \in DOMAIN auth : auth[m].by \in Payers /\ auth[m].call \in Nat
  BY DEF PayTyped, AuthRecords
<1>9. \A q \in Payers : payer[q].intents \in Nat
  BY <1>2 DEF PayerRecords
<1>10. \A m \in DOMAIN auth : auth[m].by = p =>
         KindOf[p] = "page" \/ (KindOf[p] = "caller" /\ auth[m].call < payer[p].intents)
  BY <1>1, PayPageAssumption DEF SignedOnce
<1>11. SignedOnce'
  <2> SUFFICES ASSUME NEW m \in DOMAIN auth'
               PROVE  LET q == auth'[m].by IN
                 /\ auth'[m].call <= payer'[q].intents
                 /\ KindOf[q] # "page" =>
                      \A k \in DOMAIN auth' :
                        auth'[k].by = q /\ auth'[k].call = auth'[m].call => k = m
                 /\ KindOf[q] = "caller" /\ payer'[q].nonce = {} =>
                      auth'[m].call < payer'[q].intents
                 /\ KindOf[q] = "runner" => payer'[q].pc \in {"sent", "done", "failed"}
    BY DEF SignedOnce
  <2>1. CASE m = n
    <3>1. auth'[m].by = p /\ auth'[m].call = payer[p].intents /\ payer'[p] = x
      BY <1>3, <1>5, <1>6, <2>1
    <3>2. ASSUME KindOf[p] # "page", NEW k \in DOMAIN auth', k # m, auth'[k].by = p
          PROVE  auth'[k].call # payer[p].intents
      <4>1. k \in DOMAIN auth /\ auth'[k] = auth[k]
        BY <1>6, <2>1, <3>2
      <4> QED BY <1>8, <1>9, <1>10, <3>2, <4>1
    <3>3. payer[p].intents \in Nat /\ x.nonce # {} /\ x.intents = payer[p].intents
      BY <1>4, <1>9
    <3> QED BY <1>4, <3>1, <3>2, <3>3
  <2>2. CASE m \in DOMAIN auth
    BY <1>3, <1>4, <1>5, <1>6, <1>8, <1>9, <1>10, <2>2 DEF SignedOnce
  <2> QED BY <1>6, <2>1, <2>2
<1>12. PayerInOrder' /\ PaidAsShown' /\ PaidWhereAsked'
  BY <1>1, <1>3, <1>4, <1>5, <1>6 DEF PayerInOrder, PaidAsShown, PaidWhereAsked
<1> QED BY <1>7, <1>11, <1>12

LEMMA ChargeKeeps ==
  ASSUME PayInv, NEW n \in DOMAIN auth, ChargeNonce(n)
  PROVE  PayInv'
<1> USE DEF PayInv
<1>1. PICK amount \in 1 .. auth[n].cap : auth' = [auth EXCEPT ![n].charged = amount]
  BY DEF ChargeNonce
<1>2. auth[n] \in AuthRecords
  BY DEF PayTyped
<1>3. amount \in 0 .. MaxCap
  BY <1>1, <1>2, PayPageAssumption DEF AuthRecords
<1>4. /\ auth' \in [DOMAIN auth -> AuthRecords] /\ DOMAIN auth' = DOMAIN auth
      /\ auth'[n].by = auth[n].by /\ auth'[n].call = auth[n].call /\ auth'[n].to = auth[n].to
      /\ \A m \in DOMAIN auth : m # n => auth'[m] = auth[m]
  BY <1>1, <1>2, <1>3 DEF PayTyped, AuthRecords
<1>5. payer' = payer /\ auth[n].charged = 0
  BY DEF ChargeNonce
<1>6. \A m \in DOMAIN auth : auth'[m].by = auth[m].by /\ auth'[m].call = auth[m].call
                             /\ auth'[m].to = auth[m].to
  BY <1>4
<1>7. PayTyped'
  BY <1>4, <1>5 DEF PayTyped
<1>8. SignedOnce' /\ PayerInOrder' /\ PaidWhereAsked'
  BY <1>4, <1>5, <1>6 DEF SignedOnce, PayerInOrder, PaidWhereAsked
<1>9. PaidAsShown'
  <2> SUFFICES ASSUME NEW p \in Payers, payer[p].shown > 0, NEW m \in payer[p].nonce
               PROVE  auth'[m].charged = payer[p].shown
    BY <1>5 DEF PaidAsShown
  <2>1. auth[m].charged = payer[p].shown /\ m \in DOMAIN auth
    BY DEF PaidAsShown, PayerInOrder
  <2>2. m # n
    BY <1>5, <2>1
  <2> QED BY <1>4, <2>1, <2>2
<1> QED BY <1>7, <1>8, <1>9

LEMMA PayStep ==
  ASSUME PayInv, [PayPageNext]_payVars
  PROVE  PayInv'
<1> USE PayPageAssumption
<1>1. ASSUME NEW p \in Payers,
             Discover(p) \/ Run(p) \/ Quoted(p) \/ Retry(p) \/ Paid(p) \/ NotPaid(p)
      PROVE  PayInv'
  <2> DEFINE r == payer[p]
  <2>1. r \in PayerRecords /\ payer \in [Payers -> PayerRecords]
    BY <1>1 DEF PayInv, PayTyped
  <2>r. r \in PayerRecords
    BY <2>1
  <2>2. r.shown > 0 => r.pc = "done"
    BY <1>1 DEF PayInv, PayerInOrder
  <2>3. p \in Bound => r.to = "asked"
    BY <1>1 DEF PayInv, PayerInOrder
  <2>t. ASSUME NEW pos \in {"failed", "done", "quoted", "sent"}, To(p, pos), UNCHANGED auth,
               r.pc # "done",
               KindOf[p] = "runner" => pos # "quoted" \/ r.pc \notin {"sent", "done", "failed"}
        PROVE  PayInv'
    <3> DEFINE x == [r EXCEPT !.pc = pos]
    <3>1a. x \in PayerRecords
      BY <2>1 DEF PayerRecords
    <3>1. /\ x.intents = r.intents /\ x.nonce = r.nonce
          /\ x.to = r.to /\ x.shown = r.shown /\ x.pc = pos /\ r.intents \in Nat
      BY <2>1 DEF PayerRecords
    <3>2. payer' = [payer EXCEPT ![p] = x]
      BY <2>t, <2>1 DEF To
    <3>3. ~(r.shown > 0)
      BY <2>2, <2>t
    <3> HIDE DEF x
    <3>q. MovesTo(p, x)
      BY <1>1, <2>t, <2>3, <3>1a, <3>1, <3>2, <3>3 DEF MovesTo
    <3> QED BY <1>1, <3>q, PayerMoves
  <2>4. CASE Discover(p)
    <3>1. CASE To(p, "failed") /\ UNCHANGED auth
      BY <2>4, <2>t, <3>1 DEF Discover
    <3>2. ASSUME NEW cap \in 1 .. MaxCap, NEW to \in Recipients,
                 p \in Bound => to = "asked", UNCHANGED auth,
                 payer' = [payer EXCEPT ![p].pc = "asking", ![p].cap = cap, ![p].to = to]
          PROVE  PayInv'
      <4> DEFINE x == [r EXCEPT !.pc = "asking", !.cap = cap, !.to = to]
      <4>1a. x \in PayerRecords
        <5>1. cap \in 0 .. MaxCap /\ to \in Recipients
          BY <3>2
        <5> DEFINE y == [r EXCEPT !.pc = "asking", !.cap = cap]
        <5>2. y \in PayerRecords
          <6> HIDE DEF r
          <6> QED BY <2>r, <5>1 DEF PayerRecords
        <5>3. x = [y EXCEPT !.to = to]
          OBVIOUS
        <5> HIDE DEF r, x, y
        <5> QED BY <5>1, <5>2, <5>3 DEF PayerRecords
      <4>1. /\ x.intents = r.intents /\ x.nonce = r.nonce
            /\ x.to = to /\ x.shown = r.shown /\ x.pc = "asking" /\ r.intents \in Nat
        <5>1. cap \in 0 .. MaxCap /\ to \in Recipients
          BY <3>2
        <5> HIDE DEF r
        <5> QED BY <2>r, <5>1 DEF PayerRecords
      <4>2. payer' = [payer EXCEPT ![p] = x]
        BY <2>1, <3>2
      <4>3. ~(r.shown > 0) /\ r.pc = "idle"
        BY <2>2, <2>4 DEF Discover
      <4> HIDE DEF x
      <4>q. MovesTo(p, x)
        BY <1>1, <3>2, <4>1a, <4>1, <4>2, <4>3 DEF MovesTo
      <4> QED BY <1>1, <4>q, PayerMoves
    <3> QED BY <2>4, <3>1, <3>2 DEF Discover
  <2>5. CASE Run(p)
    <3> DEFINE x == [r EXCEPT !.pc = "asking", !.intents = @ + 1, !.nonce = {}, !.shown = 0]
    <3>1. KindOf[p] # "runner" /\ r.intents < MaxIntents /\ UNCHANGED auth
          /\ payer' = [payer EXCEPT ![p] = x]
      BY <2>1, <2>5 DEF Run
    <3>2a. x \in PayerRecords
      <4>1. r.intents < MaxIntents
        BY <3>1
      <4> DEFINE y == [r EXCEPT !.pc = "asking", !.nonce = {}]
                 z == [y EXCEPT !.intents = @ + 1]
      <4>2. y \in PayerRecords /\ y.intents = r.intents
        <5> HIDE DEF r
        <5> QED BY <2>r DEF PayerRecords
      <4>3. z \in PayerRecords
        <5> HIDE DEF r, y
        <5> QED BY <4>1, <4>2 DEF PayerRecords
      <4>4. x = [z EXCEPT !.shown = 0]
        <5> HIDE DEF r
        <5> QED BY <2>r DEF PayerRecords
      <4> HIDE DEF r, x, y, z
      <4> QED BY <4>3, <4>4 DEF PayerRecords
    <3>2. /\ x.intents = r.intents + 1 /\ x.nonce = {}
          /\ x.to = r.to /\ x.shown = 0 /\ x.pc = "asking" /\ r.intents \in Nat
      <4>1. r.intents < MaxIntents
        BY <3>1
      <4> HIDE DEF r
      <4> QED BY <2>r, <4>1 DEF PayerRecords
    <3> HIDE DEF x
    <3>q. MovesTo(p, x)
      BY <1>1, <2>3, <3>1, <3>2a, <3>2 DEF MovesTo
    <3> QED BY <1>1, <3>q, PayerMoves
  <2>6. CASE Quoted(p)
    <3>1. CASE To(p, IF KindOf[p] = "runner" THEN "failed" ELSE "done") /\ UNCHANGED auth
      BY <2>6, <2>t, <3>1 DEF Quoted
    <3>2. CASE KindOf[p] = "runner" /\ To(p, "quoted") /\ UNCHANGED auth
      BY <2>6, <2>t, <3>2 DEF Quoted
    <3>3. ASSUME KindOf[p] # "runner", NEW cap \in 0 .. MaxCap, UNCHANGED auth,
                 payer' = [payer EXCEPT ![p].pc = "quoted", ![p].cap = cap]
          PROVE  PayInv'
      <4> DEFINE x == [r EXCEPT !.pc = "quoted", !.cap = cap]
      <4>1a. x \in PayerRecords
        <5>1. cap \in 0 .. MaxCap
          BY <3>3
        <5> HIDE DEF r
        <5> QED BY <2>r, <5>1 DEF PayerRecords
      <4>1. /\ x.intents = r.intents /\ x.nonce = r.nonce
            /\ x.to = r.to /\ x.shown = r.shown /\ x.pc = "quoted" /\ r.intents \in Nat
        <5>1. cap \in 0 .. MaxCap
          BY <3>3
        <5> HIDE DEF r
        <5> QED BY <2>r, <5>1 DEF PayerRecords
      <4>2. payer' = [payer EXCEPT ![p] = x]
        BY <2>1, <3>3
      <4>3. ~(r.shown > 0)
        BY <2>2, <2>6 DEF Quoted
      <4> HIDE DEF x
      <4>q. MovesTo(p, x)
        BY <1>1, <2>3, <3>3, <4>1a, <4>1, <4>2, <4>3 DEF MovesTo
      <4> QED BY <1>1, <4>q, PayerMoves
    <3> QED BY <2>6, <3>1, <3>2, <3>3 DEF Quoted
  <2>7. CASE Retry(p)
    BY <2>7, <2>t DEF Retry
  <2>8. CASE Paid(p)
    <3>1. PICK n \in r.nonce : /\ auth[n].charged > 0
                               /\ \E shown \in {0, auth[n].charged} : payer' =
                                    [payer EXCEPT ![p].pc = "done", ![p].shown = shown]
      BY <2>8 DEF Paid
    <3>2. PICK shown \in {0, auth[n].charged} :
            payer' = [payer EXCEPT ![p].pc = "done", ![p].shown = shown]
      BY <3>1
    <3>3. n \in DOMAIN auth /\ r.nonce = {n} /\ UNCHANGED auth
      BY <1>1, <2>8, <3>1 DEF Paid, PayInv, PayerInOrder
    <3>4. shown \in 0 .. MaxCap
      BY <3>2, <3>3 DEF PayInv, PayTyped, AuthRecords
    <3> DEFINE x == [r EXCEPT !.pc = "done", !.shown = shown]
    <3>5a. x \in PayerRecords
      <4> HIDE DEF r
      <4> QED BY <2>r, <3>4 DEF PayerRecords
    <3>5. /\ x.intents = r.intents /\ x.nonce = r.nonce
          /\ x.to = r.to /\ x.shown = shown /\ x.pc = "done" /\ r.intents \in Nat
      <4> HIDE DEF r
      <4> QED BY <2>r, <3>4 DEF PayerRecords
    <3>6. payer' = [payer EXCEPT ![p] = x]
      BY <2>1, <3>2
    <3> HIDE DEF x
    <3>7. shown > 0 => \A m \in x.nonce : auth[m].charged = x.shown
      BY <3>2, <3>3, <3>5
    <3>q. MovesTo(p, x)
      BY <1>1, <2>3, <3>3, <3>5a, <3>5, <3>6, <3>7 DEF MovesTo
    <3> QED BY <1>1, <3>q, PayerMoves
  <2>9. CASE NotPaid(p)
    BY <2>9, <2>t DEF NotPaid
  <2> QED BY <1>1, <2>4, <2>5, <2>6, <2>7, <2>8, <2>9
<1>2. CASE UNCHANGED payVars
  BY <1>2 DEF PayInv, PayTyped, SignedOnce, PayerInOrder, PaidAsShown, PaidWhereAsked,
              payVars
<1> QED BY <1>1, <1>2, PayKeeps, ChargeKeeps DEF PayPageNext

LEMMA PayersPayOnce == PayInv => PayPageTypeOK /\ PaysOnceWhereAsked
<1> SUFFICES ASSUME PayInv PROVE PayPageTypeOK /\ PaysOnceWhereAsked
  OBVIOUS
<1>1. PayPageTypeOK
  BY DEF PayInv, PayTyped, PayPageTypeOK, PayerRecords, AuthRecords
<1>2. ASSUME NEW p \in Payers, KindOf[p] # "page", NEW call \in 0 .. MaxIntents
      PROVE  Cardinality(ChargesOf(p, call)) <= 1
  <2>1. CASE ChargesOf(p, call) = {}
    BY <2>1, FS_EmptySet
  <2>2. CASE ChargesOf(p, call) # {}
    <3>1. PICK n \in ChargesOf(p, call) : TRUE
      BY <2>2
    <3>2. ChargesOf(p, call) = {n}
      BY <1>2, <3>1 DEF ChargesOf, PayInv, SignedOnce
    <3>3. Cardinality({n}) = 1
      BY FS_Singleton
    <3> QED BY <3>2, <3>3
  <2> QED BY <2>1, <2>2
<1>3. PaysOnceWhereAsked
  BY <1>2 DEF PaysOnceWhereAsked, PayInv, PaidAsShown, PaidWhereAsked
<1> QED BY <1>1, <1>3

\* A caller that retries what it recorded, and the runner, pay at most once for a
\* call; a runner bound to the resource it was told pays nobody else; and the amount
\* shown is the one charged, whatever quotes and answers come (usePayPerCall.ts:261-286,
\* test-endpoint.ts:183-267 and :598-669).
THEOREM PaysOnce == PayPageSpec => []PaysOnceWhereAsked
<1>1. PayInv /\ [PayPageNext]_payVars => PayInv'
  BY PayStep
<1>2. PayInv => PaysOnceWhereAsked
  BY PayersPayOnce
<1> QED BY PayStart, <1>1, <1>2, PTL DEF PayPageSpec

-----------------------------------------------------------------------------
(***************************************************************************)
(* Admission.  A key in a live window has been admitted count times since  *)
(* its start; before that, at most a limit's worth of times in the window  *)
(* before, and everything older lies a length before the start.  A key     *)
(* with no live window has at most a limit's worth within a length.        *)
(***************************************************************************)
Spaces(A, limit, length) ==
  \A i \in 1 .. Len(A) : i > 2 * limit => A[i] - A[i - 2 * limit] >= length

Elapsed(A, limit, length, t) ==
  \A i \in 1 .. Len(A) : i + limit <= Len(A) => A[i] + length <= t

Windowed(A, limit, length, start, count) ==
  /\ count <= Len(A)
  /\ \A i \in 1 .. Len(A) :
       /\ i + count <= Len(A) => A[i] <= start
       /\ i + count + limit <= Len(A) => A[i] + length <= start

LEMMA AppendedTo ==
  ASSUME NEW A \in Seq(Nat), NEW t \in Nat
  PROVE  /\ Append(A, t) \in Seq(Nat) /\ Len(Append(A, t)) = Len(A) + 1 /\ Len(A) \in Nat
         /\ \A i \in 1 .. Len(A) : A[i] \in Nat /\ Append(A, t)[i] = A[i]
         /\ Append(A, t)[Len(A) + 1] = t
  OBVIOUS

\* One more in the window of the key.
LEMMA CountsOn ==
  ASSUME NEW A \in Seq(Nat), NEW limit \in Nat \ {0}, NEW length \in Nat, NEW t \in Nat,
         NEW start \in Nat, NEW count \in Nat, count < limit, start <= t,
         Windowed(A, limit, length, start, count), Spaces(A, limit, length)
  PROVE  /\ Windowed(Append(A, t), limit, length, start, count + 1)
         /\ Spaces(Append(A, t), limit, length)
<1> DEFINE B == Append(A, t)
           n == Len(A)
<1>1. /\ n \in Nat /\ Len(B) = n + 1 /\ B[n + 1] = t
      /\ \A i \in 1 .. n : A[i] \in Nat /\ B[i] = A[i]
  BY AppendedTo
<1> HIDE DEF B, n
<1>2. Windowed(B, limit, length, start, count + 1)
  <2>1. /\ count + 1 <= n + 1
        /\ \A i \in 1 .. n : /\ i + count <= n => A[i] <= start
                             /\ i + count + limit <= n => A[i] + length <= start
    BY <1>1 DEF Windowed, n
  <2>2. ASSUME NEW i \in 1 .. Len(B)
        PROVE  /\ i + (count + 1) <= Len(B) => B[i] <= start
               /\ i + (count + 1) + limit <= Len(B) => B[i] + length <= start
    BY <1>1, <2>1, SMTT(30)
  <2> QED BY <1>1, <2>1, <2>2 DEF Windowed
<1>3. ASSUME NEW i \in 1 .. Len(B), i > 2 * limit PROVE B[i] - B[i - 2 * limit] >= length
  <2> DEFINE j == i - 2 * limit
  <2>1. j \in 1 .. n
    BY <1>1, <1>3
  <2>2. CASE i \in 1 .. n
    BY <1>1, <1>3, <2>1, <2>2 DEF Spaces, n
  <2>3. CASE i = n + 1
    <3>1. j + count + limit <= n
      BY <1>1, <2>3
    <3>2. A[j] + length <= start
      BY <1>1, <2>1, <3>1 DEF Windowed, n
    <3> QED BY <1>1, <2>1, <2>3, <3>2
  <2> QED BY <1>1, <2>2, <2>3
<1> QED BY <1>2, <1>3 DEF Spaces, B

\* The first of a new window.
LEMMA CountsAnew ==
  ASSUME NEW A \in Seq(Nat), NEW limit \in Nat \ {0}, NEW length \in Nat, NEW t \in Nat,
         \A i \in 1 .. Len(A) : A[i] <= t,
         Elapsed(A, limit, length, t), Spaces(A, limit, length)
  PROVE  /\ Windowed(Append(A, t), limit, length, t, 1)
         /\ Spaces(Append(A, t), limit, length)
<1> DEFINE B == Append(A, t)
           n == Len(A)
<1>1. /\ n \in Nat /\ Len(B) = n + 1 /\ B[n + 1] = t
      /\ \A i \in 1 .. n : A[i] \in Nat /\ B[i] = A[i]
  BY AppendedTo
<1> HIDE DEF B, n
<1>2. Windowed(B, limit, length, t, 1)
  BY <1>1, SMTT(30) DEF Windowed, Elapsed, n
<1>3. ASSUME NEW i \in 1 .. Len(B), i > 2 * limit PROVE B[i] - B[i - 2 * limit] >= length
  <2> DEFINE j == i - 2 * limit
  <2>1. j \in 1 .. n
    BY <1>1, <1>3
  <2>2. CASE i \in 1 .. n
    BY <1>1, <1>3, <2>1, <2>2 DEF Spaces, n
  <2>3. CASE i = n + 1
    <3>1. j + limit <= n
      BY <1>1, <2>3
    <3>2. A[j] + length <= t
      BY <1>1, <2>1, <3>1 DEF Elapsed, n
    <3> QED BY <1>1, <2>1, <2>3, <3>2
  <2> QED BY <1>1, <2>2, <2>3
<1> QED BY <1>2, <1>3 DEF Spaces, B

CountersTyped(w) ==
  /\ DOMAIN counters[w] \subseteq KeysOf(w)
  /\ IsFiniteSet(DOMAIN counters[w]) /\ Cardinality(DOMAIN counters[w]) <= MaxKeys
  /\ \A k \in DOMAIN counters[w] :
       counters[w][k].start \in 0 .. time /\ counters[w][k].count \in 1 .. LimitOf[w]

AdmittedTyped(w) ==
  \A k \in KeysOf(w) : /\ admitted[w][k] \in Seq(Nat)
                       /\ \A i \in 1 .. Len(admitted[w][k]) : admitted[w][k][i] <= time

KeyCounted(w, k) ==
  /\ Spaces(admitted[w][k], LimitOf[w], LengthOf[w])
  /\ IF k \in Live(w)
     THEN Windowed(admitted[w][k], LimitOf[w], LengthOf[w],
                   counters[w][k].start, counters[w][k].count)
     ELSE Elapsed(admitted[w][k], LimitOf[w], LengthOf[w], time)

WindowsInv ==
  /\ time \in 0 .. MaxNow
  /\ \A w \in Windows :
       /\ CountersTyped(w) /\ AdmittedTyped(w)
       /\ admitted[w] = [k \in KeysOf(w) |-> admitted[w][k]]
       /\ \A k \in KeysOf(w) \ evicted[w] : KeyCounted(w, k)

LEMMA WindowsStart == AdmissionInit => WindowsInv
<1> SUFFICES ASSUME AdmissionInit PROVE WindowsInv
  OBVIOUS
<1>1. time \in 0 .. MaxNow
  BY AdmissionAssumption DEF AdmissionInit
<1>2. ASSUME NEW w \in Windows
      PROVE  /\ CountersTyped(w) /\ AdmittedTyped(w)
             /\ admitted[w] = [k \in KeysOf(w) |-> admitted[w][k]]
             /\ \A k \in KeysOf(w) \ evicted[w] : KeyCounted(w, k)
  <2>1. counters[w] = <<>> /\ admitted[w] = [k \in KeysOf(w) |-> <<>>]
    BY DEF AdmissionInit
  <2>2. DOMAIN counters[w] = {}
    BY <2>1
  <2>3. CountersTyped(w)
    BY <2>2, FS_EmptySet, AdmissionAssumption DEF CountersTyped
  <2>4. \A k \in KeysOf(w) : admitted[w][k] \in Seq(Nat) /\ Len(admitted[w][k]) = 0
    BY <2>1
  <2>5. AdmittedTyped(w)
    BY <2>4 DEF AdmittedTyped
  <2>6. \A k \in KeysOf(w) : KeyCounted(w, k)
    BY <2>2, <2>4 DEF KeyCounted, Spaces, Elapsed, Live
  <2> QED BY <2>1, <2>3, <2>5, <2>6
<1> QED BY <1>1, <1>2 DEF WindowsInv

\* What Admit does to a window it commits to.
Commits(w, k, lost) ==
  /\ Peek(w, k) /\ lost \in Evictions(w, k)
  /\ counters'[w] = Counted(w, k, lost)
  /\ evicted'[w] = evicted[w] \cup lost
  /\ admitted'[w] = [admitted[w] EXCEPT ![k] = Append(@, time)]
  /\ time' = time

LEMMA CommitKeeps ==
  ASSUME WindowsInv, NEW w \in Windows, NEW k \in KeysOf(w), NEW lost, Commits(w, k, lost)
  PROVE  /\ CountersTyped(w)' /\ AdmittedTyped(w)'
         /\ admitted'[w] = [q \in KeysOf(w) |-> admitted'[w][q]]
         /\ \A q \in KeysOf(w) \ evicted'[w] : KeyCounted(w, q)'
<1> DEFINE E == counters[w]
           F == counters'[w]
           A == admitted[w][k]
<1>1. /\ CountersTyped(w) /\ AdmittedTyped(w) /\ time \in Nat
      /\ admitted[w] = [q \in KeysOf(w) |-> admitted[w][q]]
      /\ LimitOf[w] \in Nat \ {0} /\ LengthOf[w] \in Nat \ {0} /\ MaxKeys \in Nat \ {0}
      /\ time' = time
  BY AdmissionAssumption DEF WindowsInv, Commits
<1>2. Live(w) \subseteq DOMAIN E /\ Live(w) \subseteq KeysOf(w)
      /\ IsFiniteSet(Live(w)) /\ Cardinality(Live(w)) <= MaxKeys /\ Cardinality(Live(w)) \in Nat
  <2>1. Live(w) \subseteq DOMAIN E
    BY DEF Live
  <2>2. IsFiniteSet(Live(w)) /\ Cardinality(Live(w)) <= Cardinality(DOMAIN E)
        /\ Cardinality(Live(w)) \in Nat /\ Cardinality(DOMAIN E) \in Nat
    BY <1>1, <2>1, FS_Subset, FS_CardinalityType DEF CountersTyped
  <2> QED BY <1>1, <2>1, <2>2 DEF CountersTyped
<1>3. /\ DOMAIN F = (Live(w) \ lost) \cup {k}
      /\ \A q \in Live(w) \ lost : q # k => F[q] = E[q]
      /\ F[k] = [start |-> IF k \in Live(w) THEN E[k].start ELSE time,
                 count |-> IF k \in Live(w) THEN E[k].count + 1 ELSE 1]
  BY DEF Commits, Counted
<1>4. \/ lost = {} /\ (k \in Live(w) \/ Cardinality(Live(w)) < MaxKeys)
      \/ \E o \in Live(w) : lost = {o} /\ k \notin Live(w)
  BY DEF Commits, Evictions
<1>5. /\ IsFiniteSet(DOMAIN F) /\ Cardinality(DOMAIN F) <= MaxKeys
      /\ DOMAIN F \subseteq KeysOf(w)
  <2>1. CASE k \in Live(w)
    <3>1. DOMAIN F = Live(w)
      BY <1>3, <1>4, <2>1
    <3> QED BY <1>2, <3>1
  <2>2. CASE k \notin Live(w) /\ lost = {}
    <3>1. DOMAIN F = Live(w) \cup {k}
      BY <1>3, <2>2
    <3>2. IsFiniteSet(DOMAIN F) /\ Cardinality(DOMAIN F) = Cardinality(Live(w)) + 1
      BY <1>2, <2>2, <3>1, FS_AddElement
    <3> QED BY <1>1, <1>2, <1>4, <2>2, <3>1, <3>2
  <2>3. CASE k \notin Live(w) /\ lost # {}
    <3>1. PICK o \in Live(w) : lost = {o}
      BY <1>4, <2>3
    <3>2. IsFiniteSet(Live(w) \ {o}) /\ Cardinality(Live(w) \ {o}) = Cardinality(Live(w)) - 1
      BY <1>2, FS_RemoveElement
    <3>3. DOMAIN F = (Live(w) \ {o}) \cup {k}
      BY <1>3, <3>1
    <3>4. IsFiniteSet(DOMAIN F) /\ Cardinality(DOMAIN F) = Cardinality(Live(w) \ {o}) + 1
      BY <2>3, <3>2, <3>3, FS_AddElement
    <3> QED BY <1>1, <1>2, <3>2, <3>3, <3>4
  <2> QED BY <2>1, <2>2, <2>3
<1>6. \A q \in Live(w) : E[q].start \in 0 .. time /\ E[q].count \in 1 .. LimitOf[w]
                         /\ ~Expired(w, E[q])
  BY <1>1 DEF CountersTyped, Live
<1>7. F[k].start \in 0 .. time /\ F[k].count \in 1 .. LimitOf[w]
  <2>1. CASE k \in Live(w)
    <3>1. E[k].count < LimitOf[w]
      BY <2>1 DEF Commits, Peek
    <3> QED BY <1>1, <1>3, <1>6, <2>1, <3>1
  <2>2. CASE k \notin Live(w)
    BY <1>1, <1>3, <2>2
  <2> QED BY <2>1, <2>2
<1>8. CountersTyped(w)'
  <2>1. \A q \in DOMAIN F : F[q].start \in 0 .. time /\ F[q].count \in 1 .. LimitOf[w]
    BY <1>3, <1>6, <1>7
  <2> QED BY <1>1, <1>5, <2>1 DEF CountersTyped, KeysOf
<1>9. /\ admitted'[w] = [q \in KeysOf(w) |-> admitted'[w][q]]
      /\ admitted'[w][k] = Append(A, time)
      /\ \A q \in KeysOf(w) : q # k => admitted'[w][q] = admitted[w][q]
  BY <1>1 DEF Commits
<1>10. AdmittedTyped(w)'
  <2>1. A \in Seq(Nat) /\ \A i \in 1 .. Len(A) : A[i] <= time
    BY <1>1 DEF AdmittedTyped
  <2> HIDE DEF A
  <2>2. /\ Append(A, time) \in Seq(Nat)
        /\ \A i \in 1 .. Len(Append(A, time)) : Append(A, time)[i] <= time
    BY <1>1, <2>1, AppendedTo
  <2> QED BY <1>1, <1>9, <2>2 DEF AdmittedTyped, KeysOf
<1>11. ASSUME NEW q \in KeysOf(w) \ evicted'[w] PROVE KeyCounted(w, q)'
  <2>1. q \notin evicted[w] /\ q \notin lost
    BY <1>11 DEF Commits
  <2>2. KeyCounted(w, q)
    BY <2>1 DEF WindowsInv
  <2>3. CASE q # k
    <3>1. admitted'[w][q] = admitted[w][q]
      BY <1>9, <2>3
    <3>2. q \in Live(w) => q \in Live(w)' /\ F[q] = E[q]
      BY <1>1, <1>3, <1>6, <2>1, <2>3 DEF Live, Expired
    <3>3. q \notin Live(w) => q \notin Live(w)'
      BY <1>3, <2>3 DEF Live
    <3> QED BY <1>1, <2>2, <3>1, <3>2, <3>3 DEF KeyCounted
  <2>4. CASE q = k
    <3>1. A \in Seq(Nat) /\ \A i \in 1 .. Len(A) : A[i] <= time
      BY <1>1 DEF AdmittedTyped
    <3>2. Spaces(A, LimitOf[w], LengthOf[w])
      BY <2>2, <2>4 DEF KeyCounted
    <3>3. CASE k \in Live(w)
      <4> DEFINE start == E[k].start
                 count == E[k].count
      <4>1. /\ start \in Nat /\ count \in Nat /\ count < LimitOf[w] /\ start <= time
            /\ time - start < LengthOf[w]
        BY <1>1, <1>6, <3>3 DEF Commits, Peek, Expired
      <4>2. Windowed(A, LimitOf[w], LengthOf[w], start, count)
        BY <2>2, <2>4, <3>3 DEF KeyCounted
      <4>3. F[k].start = start /\ F[k].count = count + 1
        BY <1>3, <3>3
      <4> HIDE DEF A, start, count, E
      <4>4. /\ Windowed(Append(A, time), LimitOf[w], LengthOf[w], start, count + 1)
            /\ Spaces(Append(A, time), LimitOf[w], LengthOf[w])
        BY <1>1, <3>1, <3>2, <4>1, <4>2, CountsOn
      <4>5. k \in Live(w)'
        BY <1>1, <1>3, <4>1, <4>3 DEF Live, Expired
      <4> QED BY <1>9, <2>4, <4>3, <4>4, <4>5 DEF KeyCounted
    <3>4. CASE k \notin Live(w)
      <4>1. Elapsed(A, LimitOf[w], LengthOf[w], time)
        BY <2>2, <2>4, <3>4 DEF KeyCounted
      <4>2. F[k].start = time /\ F[k].count = 1
        BY <1>3, <3>4
      <4> HIDE DEF A, E
      <4>3. /\ Windowed(Append(A, time), LimitOf[w], LengthOf[w], time, 1)
            /\ Spaces(Append(A, time), LimitOf[w], LengthOf[w])
        BY <1>1, <3>1, <3>2, <4>1, CountsAnew
      <4>4. k \in Live(w)'
        BY <1>1, <1>3, <4>2 DEF Live, Expired
      <4> QED BY <1>9, <2>4, <4>2, <4>3, <4>4 DEF KeyCounted
    <3> QED BY <3>3, <3>4
  <2> QED BY <2>3, <2>4
<1> QED BY <1>8, <1>9, <1>10, <1>11

LEMMA AdmissionKeeps ==
  ASSUME WindowsInv, NEW ws \in SUBSET Windows, NEW v \in Visitors, Admit(ws, v), time' = time
  PROVE  WindowsInv'
<1>1. PICK lost \in [ws -> SUBSET UNION {KeysOf(w) : w \in ws}] :
        /\ \A w \in ws : lost[w] \in Evictions(w, KeyOf[w][v])
        /\ counters' = [w \in Windows |-> IF w \in ws THEN Counted(w, KeyOf[w][v], lost[w])
                                                        ELSE counters[w]]
        /\ evicted' = [w \in Windows |-> evicted[w] \cup (IF w \in ws THEN lost[w] ELSE {})]
  BY DEF Admit
<1>2. ASSUME NEW w \in Windows
      PROVE  /\ CountersTyped(w)' /\ AdmittedTyped(w)'
             /\ admitted'[w] = [k \in KeysOf(w) |-> admitted'[w][k]]
             /\ \A k \in KeysOf(w) \ evicted'[w] : KeyCounted(w, k)'
  <2>1. CASE w \in ws
    <3>1. KeyOf[w][v] \in KeysOf(w)
      BY DEF KeysOf
    <3>2. Commits(w, KeyOf[w][v], lost[w])
      BY <1>1, <2>1 DEF Admit, Commits
    <3> QED BY <3>1, <3>2, CommitKeeps
  <2>2. CASE w \notin ws
    <3>1. counters'[w] = counters[w] /\ evicted'[w] = evicted[w] /\ admitted'[w] = admitted[w]
      BY <1>1, <2>2 DEF Admit
    <3>2. /\ CountersTyped(w) /\ AdmittedTyped(w)
          /\ admitted[w] = [k \in KeysOf(w) |-> admitted[w][k]]
          /\ \A k \in KeysOf(w) \ evicted[w] : KeyCounted(w, k)
      BY DEF WindowsInv
    <3>3. Live(w)' = Live(w)
      BY <3>1 DEF Live, Expired
    <3>4. CountersTyped(w)' /\ AdmittedTyped(w)'
      BY <3>1, <3>2 DEF CountersTyped, AdmittedTyped, KeysOf
    <3>5. \A k \in KeysOf(w) \ evicted'[w] : KeyCounted(w, k)'
      BY <3>1, <3>2, <3>3 DEF KeyCounted
    <3> QED BY <3>1, <3>2, <3>4, <3>5
  <2> QED BY <2>1, <2>2
<1> QED BY <1>2 DEF WindowsInv, KeysOf

\* Time passes: a window that ends leaves its own admissions within a length.
LEMMA PassKeeps ==
  ASSUME WindowsInv, Pass
  PROVE  WindowsInv'
<1>1. /\ time \in Nat /\ time' = time + 1 /\ time' \in 0 .. MaxNow
      /\ counters' = counters /\ evicted' = evicted /\ admitted' = admitted
  BY AdmissionAssumption DEF WindowsInv, Pass
<1>2. ASSUME NEW w \in Windows
      PROVE  /\ CountersTyped(w)' /\ AdmittedTyped(w)'
             /\ \A k \in KeysOf(w) \ evicted[w] : KeyCounted(w, k)'
  <2>1. /\ CountersTyped(w) /\ AdmittedTyped(w) /\ LimitOf[w] \in Nat /\ LengthOf[w] \in Nat
    BY AdmissionAssumption DEF WindowsInv
  <2>2. CountersTyped(w)'
    <3>1. \A k \in DOMAIN counters[w] : counters[w][k].start \in 0 .. (time + 1)
      BY <1>1, <2>1 DEF CountersTyped
    <3> QED BY <1>1, <2>1, <3>1 DEF CountersTyped
  <2>3. AdmittedTyped(w)'
    <3>1. ASSUME NEW k \in KeysOf(w), NEW i \in 1 .. Len(admitted[w][k])
          PROVE  admitted[w][k][i] <= time + 1
      <4>1. admitted[w][k] \in Seq(Nat) /\ admitted[w][k][i] <= time
        BY <2>1 DEF AdmittedTyped
      <4>2. admitted[w][k][i] \in Nat
        BY <4>1
      <4> QED BY <1>1, <4>1, <4>2
    <3> QED BY <1>1, <2>1, <3>1 DEF AdmittedTyped
  <2>4. ASSUME NEW k \in KeysOf(w) \ evicted[w] PROVE KeyCounted(w, k)'
    <3> DEFINE A == admitted[w][k]
               e == counters[w][k]
    <3>1. KeyCounted(w, k) /\ A \in Seq(Nat)
      BY <2>1 DEF WindowsInv, AdmittedTyped
    <3>2. Len(A) \in Nat /\ \A i \in 1 .. Len(A) : A[i] \in Nat
      BY <3>1
    <3>3. k \in DOMAIN counters[w] => e.start \in Nat /\ e.start <= time /\ e.count \in Nat
                                      /\ e.count <= LimitOf[w]
      BY <1>1, <2>1 DEF CountersTyped
    <3>4. k \in Live(w)' => k \in Live(w)
      BY <1>1, <2>1, <3>3 DEF Live, Expired
    <3>5. ASSUME k \notin Live(w)' PROVE Elapsed(A, LimitOf[w], LengthOf[w], time + 1)
      <4>1. CASE k \in Live(w)
        <5>1. Windowed(A, LimitOf[w], LengthOf[w], e.start, e.count)
          BY <3>1, <4>1 DEF KeyCounted
        <5>2. e.start + LengthOf[w] <= time + 1 /\ k \in DOMAIN counters[w]
          BY <1>1, <2>1, <3>3, <3>5, <4>1 DEF Live, Expired
        <5>3. \A i \in 1 .. Len(A) : i + e.count <= Len(A) => A[i] <= e.start
          BY <5>1 DEF Windowed
        <5> HIDE DEF A, e
        <5>4. ASSUME NEW i \in 1 .. Len(A), i + LimitOf[w] <= Len(A)
              PROVE  A[i] + LengthOf[w] <= time + 1
          <6>1. A[i] <= e.start
            <7>1. i \in Nat /\ Len(A) \in Nat /\ LimitOf[w] \in Nat /\ e.count \in Nat
                  /\ e.count <= LimitOf[w]
              BY <2>1, <3>2, <3>3, <5>2
            <7>2. i + e.count <= Len(A)
              BY <5>4, <7>1
            <7> QED BY <5>3, <7>2
          <6> QED BY <1>1, <2>1, <3>2, <3>3, <5>2, <6>1
        <5> QED BY <5>4 DEF Elapsed
      <4>2. CASE k \notin Live(w)
        <5>1. Elapsed(A, LimitOf[w], LengthOf[w], time)
          BY <3>1, <4>2 DEF KeyCounted
        <5> HIDE DEF A, e
        <5> QED BY <1>1, <2>1, <3>2, <5>1 DEF Elapsed
      <4> QED BY <4>1, <4>2
    <3> QED BY <1>1, <3>1, <3>4, <3>5 DEF KeyCounted
  <2> QED BY <2>2, <2>3, <2>4
<1> QED BY <1>1, <1>2 DEF WindowsInv, KeysOf

(***************************************************************************)
(* The memo.  It holds reads that began at a version no older than what    *)
(* readers are promised, for the promise moves only when it is cleared.    *)
(***************************************************************************)
MemoTyped ==
  /\ listing \in [version : Nat, creates : Nat, creating : Nat, publishing : Nat,
                  promised : Nat]
  /\ listing.promised <= listing.version /\ listing.publishing <= listing.version
  /\ reads \in Seq([at : Nat, from : Nat, state : {"pending", "ok", "failed"}, value : Nat])
  /\ visitor \in [Visitors -> [read : Nat, promised : Nat]]
  /\ DOMAIN memo \subseteq Criteria
  /\ IsFiniteSet(DOMAIN memo) /\ Cardinality(DOMAIN memo) <= MaxMemo
  /\ \A c \in DOMAIN memo : memo[c].read \in 1 .. Len(reads) /\ memo[c].place \in Nat

MemoKnows ==
  /\ \A c \in DOMAIN memo : reads[memo[c].read].from >= listing.promised
  /\ \A v \in Visitors : LET r == visitor[v].read IN
       r # 0 => r \in 1 .. Len(reads) /\ reads[r].from >= visitor[v].promised
  /\ \A r \in 1 .. Len(reads) : reads[r].state = "ok" => reads[r].value >= reads[r].from

MemoInv == MemoTyped /\ MemoKnows

LEMMA MemoStart == AdmissionInit => MemoInv
<1> SUFFICES ASSUME AdmissionInit PROVE MemoInv
  OBVIOUS
<1>1. DOMAIN memo = {} /\ Len(reads) = 0
  BY DEF AdmissionInit
<1>2. IsFiniteSet(DOMAIN memo) /\ Cardinality(DOMAIN memo) <= MaxMemo
  BY <1>1, FS_EmptySet, AdmissionAssumption
<1>3. MemoTyped
  BY <1>1, <1>2 DEF AdmissionInit, MemoTyped
<1> QED BY <1>1, <1>3 DEF AdmissionInit, MemoInv, MemoKnows

\* A nonempty finite set of entries has a first one.
LEMMA SomePlaceFirst ==
  ASSUME MemoInv, NEW kept \in SUBSET DOMAIN memo, kept # {}
  PROVE  \E c \in kept : \A d \in kept : memo[c].place <= memo[d].place
<1> DEFINE T == {memo[c].place : c \in kept}
           Smaller == OpToRel(<, Nat)
<1>1. T \in SUBSET Nat /\ T # {}
  <2>1. \A c \in kept : memo[c].place \in Nat
    BY DEF MemoInv, MemoTyped
  <2> QED BY <2>1
<1>2. \A i, j \in Nat : i < j => <<i, j>> \in Smaller
  BY DEF OpToRel
<1>3. IsWellFoundedOn(Smaller, Nat)
  BY NatLessThanWellFounded
<1> HIDE DEF T, Smaller
<1>4. PICK m \in T : \A n \in T : <<n, m>> \notin Smaller
  BY <1>1, <1>3, WFMin
<1>5. ASSUME NEW n \in T PROVE m <= n
  <2>1. n \in Nat /\ m \in Nat /\ <<n, m>> \notin Smaller
    BY <1>1, <1>4
  <2>2. ~(n < m)
    BY <1>2, <2>1
  <2> QED BY <2>1, <2>2
<1> QED BY <1>5 DEF T

LEMMA RoomIsMade ==
  ASSUME MemoInv
  PROVE  /\ Room \subseteq DOMAIN memo /\ IsFiniteSet(Room)
         /\ Cardinality(Room) \in Nat /\ Cardinality(Room) < MaxMemo
<1> DEFINE size == Cardinality(DOMAIN memo)
           kept == {c \in DOMAIN memo : Fresh(c)}
           first == {c \in kept : \A d \in kept : memo[c].place <= memo[d].place}
<1>1. /\ IsFiniteSet(DOMAIN memo) /\ size \in Nat /\ size <= MaxMemo
      /\ MaxMemo \in Nat \ {0}
  BY FS_CardinalityType, AdmissionAssumption DEF MemoInv, MemoTyped
<1>2. kept \subseteq DOMAIN memo /\ IsFiniteSet(kept)
      /\ Cardinality(kept) \in Nat /\ Cardinality(kept) <= size
  <2>1. kept \subseteq DOMAIN memo
    OBVIOUS
  <2> HIDE DEF kept
  <2> QED BY <1>1, <2>1, FS_Subset, FS_CardinalityType
<1>3. Room = CASE size < MaxMemo -> DOMAIN memo
               [] size >= MaxMemo /\ Cardinality(kept) < MaxMemo -> kept
               [] OTHER -> kept \ first
  BY DEF Room
<1>4. CASE size < MaxMemo
  <2> HIDE DEF kept, first, size
  <2>1. Room = DOMAIN memo
    BY <1>1, <1>3, <1>4
  <2>2. Room \subseteq DOMAIN memo /\ IsFiniteSet(Room)
    BY <1>1, <2>1
  <2>3. Cardinality(Room) = size
    BY <2>1 DEF size
  <2> QED BY <1>1, <1>4, <2>2, <2>3
<1>5. CASE size >= MaxMemo /\ Cardinality(kept) < MaxMemo
  <2> HIDE DEF kept, first, size
  <2>1. Room = kept
    BY <1>1, <1>3, <1>5
  <2> QED BY <1>2, <1>5, <2>1
<1>6. CASE size >= MaxMemo /\ Cardinality(kept) >= MaxMemo
  <2>1. kept # {}
    <3> HIDE DEF kept, first, size
    <3>1. Cardinality(kept) # 0
      BY <1>1, <1>2, <1>6
    <3> QED BY <3>1, FS_EmptySet
  <2>2. PICK c \in kept : \A d \in kept : memo[c].place <= memo[d].place
    BY <1>2, <2>1, SomePlaceFirst
  <2>3. c \in first /\ first \subseteq kept
    BY <2>2
  <2> HIDE DEF kept, first, size
  <2>4. Room = kept \ first
    BY <1>1, <1>2, <1>3, <1>6
  <2>5. IsFiniteSet(kept \ {c}) /\ Cardinality(kept \ {c}) = Cardinality(kept) - 1
    BY <1>2, <2>2, FS_RemoveElement
  <2>6. kept \ first \subseteq kept \ {c}
    BY <2>3
  <2>7. IsFiniteSet(kept \ first) /\ Cardinality(kept \ first) <= Cardinality(kept \ {c})
        /\ Cardinality(kept \ first) \in Nat
    BY <2>5, <2>6, FS_Subset, FS_CardinalityType
  <2> QED BY <1>1, <1>2, <2>4, <2>5, <2>7
<1> QED BY <1>1, <1>2, <1>4, <1>5, <1>6

\* A step that at most forgets, with the reads as they were.
LEMMA ForgettingKeeps ==
  ASSUME MemoInv, NEW lost, Forgets(lost)
  PROVE  /\ DOMAIN memo' \subseteq DOMAIN memo
         /\ IsFiniteSet(DOMAIN memo') /\ Cardinality(DOMAIN memo') <= MaxMemo
         /\ \A c \in DOMAIN memo' : c \notin lost /\ memo'[c] = memo[c]
<1>1. /\ DOMAIN memo' = DOMAIN memo \ lost
      /\ \A c \in DOMAIN memo' : c \notin lost /\ memo'[c] = memo[c]
  BY DEF Forgets
<1>2. /\ IsFiniteSet(DOMAIN memo) /\ Cardinality(DOMAIN memo) <= MaxMemo
      /\ MaxMemo \in Nat
  BY AdmissionAssumption DEF MemoInv, MemoTyped
<1>3. /\ IsFiniteSet(DOMAIN memo \ lost)
      /\ Cardinality(DOMAIN memo \ lost) <= Cardinality(DOMAIN memo)
      /\ Cardinality(DOMAIN memo \ lost) \in Nat /\ Cardinality(DOMAIN memo) \in Nat
  BY <1>2, FS_Subset, FS_CardinalityType
<1> QED BY <1>1, <1>2, <1>3

LEMMA BrowseKeeps ==
  ASSUME MemoInv, time \in Nat, NEW v \in Visitors, Browse(v)
  PROVE  MemoInv'
<1>1. PICK c \in Criteria :
       IF c \in DOMAIN memo /\ Fresh(c)
       THEN /\ visitor' = [visitor EXCEPT ![v] =
                 [read |-> memo[c].read, promised |-> listing.promised]]
            /\ UNCHANGED <<memo, reads>>
       ELSE /\ Len(reads) < MaxPages
            /\ reads' = Append(reads, [at |-> time, from |-> listing.version,
                                       state |-> "pending", value |-> 0])
            /\ memo' = Remember(Room, c, Len(reads) + 1)
            /\ visitor' = [visitor EXCEPT ![v] =
                 [read |-> Len(reads) + 1, promised |-> listing.promised]]
  BY DEF Browse
<1>2. UNCHANGED <<time, listing>>
  BY DEF Browse
<1>3. CASE c \in DOMAIN memo /\ Fresh(c)
  <2> DEFINE x == [read |-> memo[c].read, promised |-> listing.promised]
  <2>1. visitor' = [visitor EXCEPT ![v] = x] /\ UNCHANGED <<memo, reads>>
    BY <1>1, <1>3
  <2>2. x \in [read : Nat, promised : Nat] /\ x.read = memo[c].read
        /\ x.promised = listing.promised /\ x.read \in 1 .. Len(reads)
    BY <1>3 DEF MemoInv, MemoTyped
  <2>3. reads[x.read].from >= x.promised
    BY <1>3, <2>2 DEF MemoInv, MemoKnows
  <2> HIDE DEF x
  <2>4. MemoTyped'
    BY <1>2, <2>1, <2>2 DEF MemoInv, MemoTyped
  <2>5. \A u \in Visitors : visitor'[u] = IF u = v THEN x ELSE visitor[u]
    BY <2>1 DEF MemoInv, MemoTyped
  <2> QED BY <1>2, <2>1, <2>2, <2>3, <2>4, <2>5 DEF MemoInv, MemoKnows
<1>4. CASE ~(c \in DOMAIN memo /\ Fresh(c))
  <2> DEFINE x == [read |-> Len(reads) + 1, promised |-> listing.promised]
             new == [at |-> time, from |-> listing.version, state |-> "pending", value |-> 0]
             n == Len(reads) + 1
             N == DOMAIN memo'
  <2>1. /\ visitor' = [visitor EXCEPT ![v] = x] /\ reads' = Append(reads, new)
        /\ memo' = Remember(Room, c, n)
    BY <1>1, <1>4
  <2>2. /\ reads \in Seq([at : Nat, from : Nat, state : {"pending", "ok", "failed"}, value : Nat])
        /\ listing.version \in Nat /\ listing.promised \in Nat
        /\ listing.promised <= listing.version
    BY DEF MemoInv, MemoTyped
  <2>3. new \in [at : Nat, from : Nat, state : {"pending", "ok", "failed"}, value : Nat]
        /\ new.from = listing.version /\ new.state = "pending"
    BY <2>2
  <2>4. x \in [read : Nat, promised : Nat] /\ x.read = n /\ x.promised = listing.promised
    BY <2>2
  <2> HIDE DEF x, new
  <2>5. /\ reads' \in Seq([at : Nat, from : Nat, state : {"pending", "ok", "failed"}, value : Nat])
        /\ Len(reads') = n /\ reads'[n] = new /\ n \in Nat /\ n >= 1
        /\ \A i \in 1 .. Len(reads) : reads'[i] = reads[i] /\ i \in 1 .. n
    BY <2>1, <2>2, <2>3
  <2>6. /\ N = Room \cup {c} /\ \A d \in Room : d # c => memo'[d] = memo[d]
        /\ memo'[c].read = n
        /\ memo'[c].place = IF c \in Room THEN memo[c].place ELSE n
    BY <2>1 DEF Remember
  <2>7. IsFiniteSet(N) /\ Cardinality(N) <= MaxMemo /\ N \subseteq Criteria
    <3>1. IsFiniteSet(Room) /\ Cardinality(Room) \in Nat /\ Cardinality(Room) < MaxMemo
          /\ Room \subseteq Criteria
      BY RoomIsMade DEF MemoInv, MemoTyped
    <3>2. CASE c \in Room
      <4>1. N = Room
        BY <2>6, <3>2
      <4> QED BY <3>1, <4>1, AdmissionAssumption
    <3>3. CASE c \notin Room
      <4>1. IsFiniteSet(N) /\ Cardinality(N) = Cardinality(Room) + 1
        BY <2>6, <3>1, <3>3, FS_AddElement
      <4> QED BY <2>6, <3>1, <4>1, AdmissionAssumption
    <3> QED BY <3>2, <3>3
  <2>8. \A d \in N : /\ memo'[d].read \in 1 .. n /\ memo'[d].place \in Nat
                     /\ reads'[memo'[d].read].from >= listing.promised
    <3>1. ASSUME NEW d \in N, d # c
          PROVE  /\ memo'[d].read \in 1 .. n /\ memo'[d].place \in Nat
                 /\ reads'[memo'[d].read].from >= listing.promised
      <4>1. d \in DOMAIN memo /\ memo'[d] = memo[d]
        BY <2>6, <3>1, RoomIsMade
      <4>2. memo[d].read \in 1 .. Len(reads) /\ memo[d].place \in Nat
            /\ reads[memo[d].read].from >= listing.promised
        BY <4>1 DEF MemoInv, MemoTyped, MemoKnows
      <4> QED BY <2>5, <4>1, <4>2
    <3>2. memo'[c].place \in Nat
      <4>1. c \in Room => memo[c].place \in Nat
        BY RoomIsMade DEF MemoInv, MemoTyped
      <4> QED BY <2>5, <2>6, <4>1
    <3>3. memo'[c].read \in 1 .. n /\ reads'[memo'[c].read].from >= listing.promised
      BY <2>2, <2>3, <2>5, <2>6
    <3> QED BY <3>1, <3>2, <3>3
  <2>9. MemoTyped'
    <3>1. visitor' \in [Visitors -> [read : Nat, promised : Nat]]
      BY <2>1, <2>4 DEF MemoInv, MemoTyped
    <3>2. \A d \in N : memo'[d].read \in 1 .. Len(reads') /\ memo'[d].place \in Nat
      BY <2>5, <2>8
    <3> QED BY <1>2, <2>5, <2>7, <3>1, <3>2 DEF MemoInv, MemoTyped
  <2>10. MemoKnows'
    <3>1. \A d \in N : reads'[memo'[d].read].from >= listing'.promised
      BY <1>2, <2>8
    <3>2. ASSUME NEW u \in Visitors, visitor'[u].read # 0
          PROVE  /\ visitor'[u].read \in 1 .. Len(reads')
                 /\ reads'[visitor'[u].read].from >= visitor'[u].promised
      <4>1. CASE u = v
        <5>1. visitor'[u] = x
          BY <2>1, <4>1 DEF MemoInv, MemoTyped
        <5> QED BY <2>2, <2>3, <2>4, <2>5, <5>1
      <4>2. CASE u # v
        <5>1. visitor'[u] = visitor[u]
          BY <2>1, <4>2 DEF MemoInv, MemoTyped
        <5>2. /\ visitor[u].read \in 1 .. Len(reads)
              /\ reads[visitor[u].read].from >= visitor[u].promised
          BY <3>2, <5>1 DEF MemoInv, MemoKnows
        <5> QED BY <2>5, <5>1, <5>2
      <4> QED BY <4>1, <4>2
    <3>3. ASSUME NEW r \in 1 .. Len(reads'), reads'[r].state = "ok"
          PROVE  reads'[r].value >= reads'[r].from
      <4>1. r # n
        BY <2>3, <2>5, <3>3
      <4>2. r \in 1 .. Len(reads)
        BY <2>2, <2>5, <3>3, <4>1
      <4> QED BY <2>5, <3>3, <4>2 DEF MemoInv, MemoKnows
    <3> QED BY <3>1, <3>2, <3>3 DEF MemoKnows
  <2> QED BY <2>9, <2>10 DEF MemoInv
<1> QED BY <1>3, <1>4

\* A read ends.
LEMMA ReadEnds ==
  ASSUME MemoInv, NEW r \in DOMAIN reads, ListingRead(r) \/ ListFails(r)
  PROVE  MemoInv'
<1> DEFINE ReadRecords == [at : Nat, from : Nat, state : {"pending", "ok", "failed"}, value : Nat]
<1>1. reads \in Seq(ReadRecords) /\ r \in 1 .. Len(reads) /\ reads[r] \in ReadRecords
      /\ Len(reads) \in Nat
  <2>1. reads \in Seq(ReadRecords)
    BY DEF MemoInv, MemoTyped
  <2> HIDE DEF ReadRecords
  <2> QED BY <2>1
<1>2. \E x \in ReadRecords :
        /\ reads' = [reads EXCEPT ![r] = x] /\ x.from = reads[r].from
        /\ x.state = "ok" => x.value >= x.from
  <2>1. CASE ListingRead(r)
    <3>1. PICK version \in reads[r].from .. listing.version :
            reads' = [reads EXCEPT ![r].state = "ok", ![r].value = version]
      BY <2>1 DEF ListingRead
    <3>2. version \in Nat /\ version >= reads[r].from
      BY <1>1 DEF MemoInv, MemoTyped
    <3> DEFINE x == [reads[r] EXCEPT !.state = "ok", !.value = version]
    <3>3. x \in ReadRecords /\ x.from = reads[r].from /\ x.value = version
      BY <1>1, <3>2
    <3>4. reads' = [reads EXCEPT ![r] = x]
      BY <1>1, <3>1
    <3> HIDE DEF x
    <3> QED BY <3>2, <3>3, <3>4
  <2>2. CASE ListFails(r)
    <3> DEFINE x == [reads[r] EXCEPT !.state = "failed"]
    <3>1. x \in ReadRecords /\ x.from = reads[r].from /\ x.state = "failed"
      BY <1>1
    <3>2. reads' = [reads EXCEPT ![r] = x]
      BY <1>1, <2>2 DEF ListFails
    <3> HIDE DEF x
    <3> QED BY <3>1, <3>2
  <2> QED BY <2>1, <2>2
<1>3. PICK x \in ReadRecords :
        /\ reads' = [reads EXCEPT ![r] = x] /\ x.from = reads[r].from
        /\ x.state = "ok" => x.value >= x.from
  BY <1>2
<1>4. /\ reads' \in Seq(ReadRecords) /\ Len(reads') = Len(reads) /\ reads'[r] = x
      /\ \A i \in 1 .. Len(reads) : i # r => reads'[i] = reads[i]
  BY <1>1, <1>3
<1>5. \A i \in 1 .. Len(reads) : reads'[i].from = reads[i].from
  BY <1>3, <1>4
<1>6. /\ DOMAIN memo' \subseteq DOMAIN memo
      /\ IsFiniteSet(DOMAIN memo') /\ Cardinality(DOMAIN memo') <= MaxMemo
      /\ \A c \in DOMAIN memo' : memo'[c] = memo[c]
  <2>1. CASE ListingRead(r)
    BY <2>1 DEF ListingRead, MemoInv, MemoTyped
  <2>2. CASE ListFails(r)
    BY <2>2, ForgettingKeeps DEF ListFails
  <2> QED BY <2>1, <2>2
<1>7. listing' = listing /\ visitor' = visitor
  BY DEF ListingRead, ListFails
<1>8. MemoTyped'
  BY <1>4, <1>6, <1>7 DEF MemoInv, MemoTyped
<1>9. \A i \in 1 .. Len(reads') : reads'[i].state = "ok" => reads'[i].value >= reads'[i].from
  BY <1>3, <1>4 DEF MemoInv, MemoKnows
<1>10. MemoKnows'
  <2>1. \A c \in DOMAIN memo' : reads'[memo'[c].read].from >= listing'.promised
    BY <1>5, <1>6, <1>7 DEF MemoInv, MemoTyped, MemoKnows
  <2>2. \A v \in Visitors : visitor'[v].read # 0 =>
          /\ visitor'[v].read \in 1 .. Len(reads')
          /\ reads'[visitor'[v].read].from >= visitor'[v].promised
    BY <1>4, <1>5, <1>7 DEF MemoInv, MemoKnows
  <2> QED BY <1>9, <2>1, <2>2 DEF MemoKnows
<1> QED BY <1>8, <1>10 DEF MemoInv

\* The listing moves; the promise only with the memo cleared.
LEMMA ListingMoves ==
  ASSUME MemoInv, Publish \/ Invalidate \/ BuildFails \/ (\E v \in Visitors : Create(v))
  PROVE  MemoInv'
<1> DEFINE Listings == [version : Nat, creates : Nat, creating : Nat, publishing : Nat,
                        promised : Nat]
<1>1. /\ listing \in Listings /\ listing.promised <= listing.version
      /\ listing.publishing <= listing.version
  BY DEF MemoInv, MemoTyped
<1>2. /\ listing' \in Listings /\ listing'.promised <= listing'.version
      /\ listing'.publishing <= listing'.version
      /\ listing'.promised = listing.promised \/ Forgets(DOMAIN memo)
      /\ memo' = memo \/ Forgets(DOMAIN memo)
      /\ reads' = reads /\ visitor' = visitor
  <2>1. CASE Publish
    <3>1. /\ listing.creating > 0 /\ UNCHANGED <<memo, reads, visitor>>
          /\ listing' = [listing EXCEPT !.version = @ + 1, !.creating = @ - 1,
                                        !.publishing = @ + 1]
      BY <2>1 DEF Publish
    <3> DEFINE y == [listing EXCEPT !.version = @ + 1, !.creating = @ - 1]
    <3>2. /\ y.promised = listing.promised /\ y.version = listing.version + 1
          /\ y.publishing = listing.publishing
      BY <1>1
    <3>3. y \in Listings
      <4>1. listing.creating \in Nat /\ listing.version \in Nat
        BY <1>1
      <4>2. listing.creating - 1 \in Nat /\ listing.version + 1 \in Nat
        BY <3>1, <4>1
      <4> QED BY <1>1, <4>2
    <3>4. listing' = [y EXCEPT !.publishing = @ + 1]
      BY <3>1
    <3> HIDE DEF y
    <3>5. /\ listing' \in Listings /\ listing'.promised = y.promised
          /\ listing'.version = y.version /\ listing'.publishing = y.publishing + 1
      BY <3>3, <3>4
    <3> QED BY <1>1, <3>1, <3>2, <3>5
  <2>2. CASE Invalidate
    <3> DEFINE p == listing.version - (listing.publishing - 1)
    <3>1. /\ listing.publishing > 0 /\ Forgets(DOMAIN memo) /\ UNCHANGED <<reads, visitor>>
          /\ listing' = [listing EXCEPT !.publishing = @ - 1, !.promised = p]
      BY <2>2 DEF Invalidate
    <3>2. p \in Nat /\ p <= listing.version /\ listing.publishing - 1 \in Nat
      BY <1>1, <3>1
    <3>3. /\ listing' \in Listings /\ listing'.promised = p
          /\ listing'.version = listing.version /\ listing'.publishing = listing.publishing - 1
      BY <1>1, <3>1, <3>2
    <3> QED BY <1>1, <3>1, <3>2, <3>3
  <2>3. CASE BuildFails
    <3>1. /\ listing.creating > 0 /\ Forgets(DOMAIN memo) /\ UNCHANGED <<reads, visitor>>
          /\ listing' = [listing EXCEPT !.creating = @ - 1]
      BY <2>3 DEF BuildFails
    <3>2. listing.creating - 1 \in Nat
      BY <1>1, <3>1
    <3> QED BY <1>1, <3>1, <3>2
  <2>4. ASSUME NEW v \in Visitors, Create(v)
        PROVE  /\ listing' \in Listings /\ listing'.promised = listing.promised
               /\ listing'.version = listing.version
               /\ listing'.publishing = listing.publishing
               /\ UNCHANGED <<memo, reads, visitor>>
    <3>1. /\ UNCHANGED <<memo, reads, visitor>>
          /\ listing' = [listing EXCEPT !.creates = @ + 1, !.creating = @ + 1]
      BY <2>4 DEF Create
    <3>2. listing.creates + 1 \in Nat /\ listing.creating + 1 \in Nat
      BY <1>1
    <3> QED BY <1>1, <3>1, <3>2
  <2> QED BY <1>1, <2>1, <2>2, <2>3, <2>4
<1>3. /\ DOMAIN memo' \subseteq DOMAIN memo
      /\ IsFiniteSet(DOMAIN memo') /\ Cardinality(DOMAIN memo') <= MaxMemo
      /\ \A c \in DOMAIN memo' : memo'[c] = memo[c] /\ listing'.promised = listing.promised
  <2>1. CASE Forgets(DOMAIN memo)
    BY <2>1, ForgettingKeeps
  <2>2. CASE ~Forgets(DOMAIN memo)
    BY <1>2, <2>2 DEF MemoInv, MemoTyped
  <2> QED BY <2>1, <2>2
<1>4. MemoTyped'
  BY <1>2, <1>3 DEF MemoInv, MemoTyped
<1>5. MemoKnows'
  BY <1>2, <1>3 DEF MemoInv, MemoKnows
<1> QED BY <1>4, <1>5 DEF MemoInv

AdmissionInv == WindowsInv /\ MemoInv

LEMMA AdmissionStep ==
  ASSUME AdmissionInv, [AdmissionNext]_admissionVars
  PROVE  AdmissionInv'
<1>1. WindowsInv /\ MemoInv /\ time \in Nat
  BY AdmissionAssumption DEF AdmissionInv, WindowsInv
<1>2. ASSUME UNCHANGED <<time, counters, evicted, admitted>> PROVE WindowsInv'
  <2>1. \A w \in Windows : Live(w)' = Live(w)
    BY <1>2 DEF Live, Expired
  <2> QED BY <1>1, <1>2, <2>1
          DEF WindowsInv, CountersTyped, AdmittedTyped, KeyCounted, KeysOf
<1>3. ASSUME UNCHANGED <<listing, memo, reads, visitor>> PROVE MemoInv'
  BY <1>1, <1>3 DEF MemoInv, MemoTyped, MemoKnows
<1>4. ASSUME NEW v \in Visitors, Browse(v) PROVE AdmissionInv'
  <2>1. Admit(BrowseWindows, v) /\ time' = time
    BY <1>4 DEF Browse
  <2> QED BY <1>1, <1>4, <2>1, AdmissionKeeps, BrowseKeeps, AdmissionAssumption
          DEF AdmissionInv
<1>5. ASSUME NEW v \in Visitors, Create(v) PROVE AdmissionInv'
  <2>1. Admit(Windows \ BrowseWindows, v) /\ time' = time
    BY <1>5 DEF Create
  <2>2. Windows \ BrowseWindows \in SUBSET Windows
    OBVIOUS
  <2> QED BY <1>1, <1>5, <2>1, <2>2, AdmissionKeeps, ListingMoves DEF AdmissionInv
<1>6. ASSUME NEW v \in Visitors, Shown(v) PROVE AdmissionInv'
  <2>1. /\ visitor' = [visitor EXCEPT ![v].read = 0]
        /\ UNCHANGED <<time, counters, evicted, admitted, listing, memo, reads>>
    BY <1>6 DEF Shown
  <2> DEFINE x == [visitor[v] EXCEPT !.read = 0]
  <2>2. x \in [read : Nat, promised : Nat] /\ x.read = 0
    BY <1>1 DEF MemoInv, MemoTyped
  <2>3. visitor' = [visitor EXCEPT ![v] = x]
    BY <1>1, <2>1 DEF MemoInv, MemoTyped
  <2> HIDE DEF x
  <2>4. MemoTyped'
    BY <1>1, <2>1, <2>2, <2>3 DEF MemoInv, MemoTyped
  <2>5. \A u \in Visitors : visitor'[u] = IF u = v THEN x ELSE visitor[u]
    BY <1>1, <2>3 DEF MemoInv, MemoTyped
  <2>6. MemoKnows'
    BY <1>1, <2>1, <2>2, <2>5 DEF MemoInv, MemoKnows
  <2> QED BY <1>2, <2>1, <2>4, <2>6 DEF AdmissionInv, MemoInv
<1>7. ASSUME NEW r \in DOMAIN reads, ListingRead(r) \/ ListFails(r) PROVE AdmissionInv'
  <2>1. UNCHANGED <<time, counters, evicted, admitted>>
    BY <1>7 DEF ListingRead, ListFails
  <2> QED BY <1>1, <1>2, <1>7, <2>1, ReadEnds DEF AdmissionInv
<1>8. ASSUME Publish \/ Invalidate \/ BuildFails PROVE AdmissionInv'
  <2>1. UNCHANGED <<time, counters, evicted, admitted>>
    BY <1>8 DEF Publish, Invalidate, BuildFails
  <2> QED BY <1>1, <1>2, <1>8, <2>1, ListingMoves DEF AdmissionInv
<1>9. ASSUME Pass PROVE AdmissionInv'
  <2>1. UNCHANGED <<listing, memo, reads, visitor>>
    BY <1>9 DEF Pass
  <2> QED BY <1>1, <1>3, <1>9, <2>1, PassKeeps DEF AdmissionInv
<1>10. ASSUME UNCHANGED admissionVars PROVE AdmissionInv'
  BY <1>2, <1>3, <1>10 DEF AdmissionInv, admissionVars
<1> QED BY <1>4, <1>5, <1>6, <1>7, <1>8, <1>9, <1>10 DEF AdmissionNext

LEMMA AdmissionHolds ==
  ASSUME AdmissionInv PROVE AdmissionTypeOK /\ AdmissionCeiling /\ ListedIsSeen
<1>1. AdmissionTypeOK
  <2>1. ASSUME NEW w \in Windows
        PROVE  /\ DOMAIN counters[w] \subseteq KeysOf(w) /\ Cardinality(DOMAIN counters[w]) <= MaxKeys
               /\ \A k \in DOMAIN counters[w] :
                    counters[w][k].start \in 0 .. time /\ counters[w][k].count \in 1 .. LimitOf[w]
    BY DEF AdmissionInv, WindowsInv, CountersTyped
  <2>2. ASSUME NEW v \in Visitors PROVE visitor[v].read \in 0 .. Len(reads)
    <3>1. visitor[v].read \in Nat /\ Len(reads) \in Nat
      BY DEF AdmissionInv, MemoInv, MemoTyped
    <3> QED BY <3>1 DEF AdmissionInv, MemoInv, MemoKnows
  <2> QED BY <2>1, <2>2 DEF AdmissionTypeOK, AdmissionInv, WindowsInv, MemoInv, MemoTyped
<1>2. AdmissionCeiling
  <2> SUFFICES ASSUME NEW w \in Windows, NEW k \in KeysOf(w) \ evicted[w],
                      NEW i \in DOMAIN admitted[w][k], i > 2 * LimitOf[w]
               PROVE  admitted[w][k][i] - admitted[w][k][i - 2 * LimitOf[w]] >= LengthOf[w]
    BY DEF AdmissionCeiling
  <2>1. KeyCounted(w, k) /\ AdmittedTyped(w)
    BY DEF AdmissionInv, WindowsInv
  <2>2. admitted[w][k] \in Seq(Nat)
    BY <2>1 DEF AdmittedTyped
  <2>3. i \in 1 .. Len(admitted[w][k])
    BY <2>2
  <2> QED BY <2>1, <2>3 DEF KeyCounted, Spaces
<1>3. ListedIsSeen
  <2> SUFFICES ASSUME NEW v \in Visitors, visitor[v].read # 0
               PROVE  LET r == visitor[v].read IN
                      /\ r \in 1 .. Len(reads)
                      /\ reads[r].state = "ok" => reads[r].value >= visitor[v].promised
    BY DEF ListedIsSeen
  <2> DEFINE r == visitor[v].read
  <2>1. r \in 1 .. Len(reads) /\ reads[r].from >= visitor[v].promised
        /\ (reads[r].state = "ok" => reads[r].value >= reads[r].from)
    BY DEF AdmissionInv, MemoInv, MemoKnows
  <2> DEFINE R == [at : Nat, from : Nat, state : {"pending", "ok", "failed"}, value : Nat]
  <2>2. reads \in Seq(R) /\ visitor[v].promised \in Nat
    BY DEF AdmissionInv, MemoInv, MemoTyped
  <2> HIDE DEF r, R
  <2>3. reads[r] \in R
    BY <2>1, <2>2
  <2>4. reads[r].from \in Nat /\ reads[r].value \in Nat
    BY <2>3 DEF R
  <2>5. reads[r].state = "ok" => reads[r].value >= visitor[v].promised
    BY <2>1, <2>2, <2>4
  <2> QED BY <2>1, <2>5 DEF r
<1> QED BY <1>1, <1>2, <1>3

\* Whatever requests come, in any number of windows and of keys: a key that was not
\* evicted is admitted at most twice its limit in any span of a window's length,
\* and a published listing shows on the next page asked for, though pages join reads
\* that others began (fixed-window.server.ts:64-72, browse.server.ts:144-153).
THEOREM AdmissionIsBounded ==
  AdmissionInit /\ [][AdmissionNext]_admissionVars => [](AdmissionCeiling /\ ListedIsSeen)
<1>1. AdmissionInit => AdmissionInv
  BY WindowsStart, MemoStart DEF AdmissionInv
<1>2. AdmissionInv /\ [AdmissionNext]_admissionVars => AdmissionInv'
  BY AdmissionStep
<1>3. AdmissionInv => AdmissionCeiling /\ ListedIsSeen
  BY AdmissionHolds
<1> QED BY <1>1, <1>2, <1>3, PTL

-----------------------------------------------------------------------------
(***************************************************************************)
(* The wallet forms and the SDK.  A flow that waits is the one its hook    *)
(* watches, and its hash is the transaction it signed last; a read that    *)
(* may still show is of the account and saw what is reported done; a claim *)
(* follows a request that was due; and of the calls of the SDK one at a    *)
(* time has a shortfall or a deposit that is not mined.                    *)
(***************************************************************************)
OpNames == {"approve", "deposit", "withdraw", "request", "claim"}
TxRecords == [from : Wallets, op : OpNames, amount : Nat,
              state : {"sent", "ok", "reverted"}]
Purses == [usdc : Nat, allowance : Nat, escrow : Nat]
Bonds == [posted : BOOLEAN, ends : Nat]

StepsLeft == {<<>>, <<"approve", "deposit">>, <<"deposit">>, <<"withdraw">>, <<"request">>,
              <<"claim">>}
FlowSteps(f) == IF f = "deposit" THEN {<<"approve", "deposit">>, <<"deposit">>} ELSE {<<f>>}
FlowRecords == [status : {"idle", "busy", "done", "error"}, pc : {"none", "sign", "mine"},
                ops : StepsLeft, amount : Nat, hash : Nat, lost : BOOLEAN]
WatchRecords == [hash : Nat, pending : Nat]

ViewValues == Nat \cup Bonds
Looks == [value : ViewValues, seen : SUBSET Nat]
ViewRecords == [raw : SUBSET ViewValues, who : Wallets, seen : SUBSET Nat, loading : BOOLEAN]
Lookups == [view : Views, who : Wallets, epoch : Nat, first : Looks]

ChainTyped ==
  /\ surface \in {"wallet", "panel", "sdk"} /\ account \in Wallets
  /\ hour \in 1 .. MaxHour /\ panelHour \in Nat /\ panelHour <= hour
  /\ purse \in [Wallets -> Purses] /\ bond \in Bonds
  /\ sent \in Seq(TxRecords)

FlowTyped ==
  /\ flow \in [Forms -> FlowRecords] /\ watch \in [Forms -> WatchRecords]
  /\ modal \in [Forms -> SUBSET Nat]

FlowFits(f, fl, w, m, txs) ==
  /\ fl.hash \in 0 .. Len(txs)
  /\ fl.pc # "none" => fl.ops \in FlowSteps(f) /\ fl.status = "busy"
  /\ fl.pc = "sign" /\ fl.hash # 0 => txs[fl.hash].op # f
  /\ fl.pc = "mine" =>
       /\ fl.hash # 0 /\ w.hash = fl.hash /\ w.pending = fl.hash
       /\ txs[fl.hash].op = Head(fl.ops) /\ txs[fl.hash].amount = fl.amount
  /\ w.pending # 0 => fl.pc = "mine"
  /\ fl.status = "done" =>
       /\ fl.hash # 0 /\ txs[fl.hash].state = "ok"
       /\ txs[fl.hash].op = f /\ txs[fl.hash].amount = fl.amount
  /\ fl.status = "error" /\ ~fl.lost /\ fl.hash # 0 /\ txs[fl.hash].op = f =>
       txs[fl.hash].state = "reverted"
  /\ m # {} => fl.pc = "none" /\ f \in {"withdraw", "claim"}

FlowOK(f) == FlowFits(f, flow[f], watch[f], modal[f], sent)

FlowInv == FlowTyped /\ \A f \in Forms : FlowOK(f)

\* A look that may still be shown.
Saw(v, who, seen) ==
  /\ v = "escrow" => who = account
  /\ \A f \in Forms : flow[f].status = "done" => flow[f].hash \in seen

ViewInv ==
  /\ view \in [Views -> ViewRecords] /\ underway \subseteq Lookups /\ epoch \in Nat
  /\ \A r \in underway : r.epoch <= epoch
  /\ \A v \in Views : ~view[v].loading /\ view[v].raw # {} => Saw(v, view[v].who, view[v].seen)
  /\ \A r \in underway : r.epoch = epoch => Saw(r.view, r.who, r.first.seen)

\* What the panel relies on, while nobody else touches the bond.
Accepted(op) == \E i \in DOMAIN sent : sent[i].op = op /\ sent[i].state = "ok"
AskedTwice ==
  \E i, j \in DOMAIN sent : i # j /\ sent[i].op = "request" /\ sent[j].op = "request"
Due == \/ AskedTwice \/ Accepted("claim")
       \/ Accepted("request") /\ bond.posted /\ bond.ends # 0 /\ hour >= bond.ends
Glimpsed(b) == b.ends # 0 =>
  Accepted("request") /\ (AskedTwice \/ Accepted("claim") \/ bond.ends = b.ends)

PanelOK ==
  /\ bond.posted \/ Accepted("claim")
  /\ bond.ends # 0 => Accepted("request")
  /\ \A b \in view["bond"].raw : Glimpsed(b)
  /\ \A r \in underway : Glimpsed(r.first.value)
  /\ (\E i \in DOMAIN sent : sent[i].op = "claim") => Due
  /\ flow["claim"].pc = "sign" \/ modal["claim"] # {} => Due
  /\ \A i \in DOMAIN sent : sent[i].op = "claim" /\ sent[i].state = "reverted" =>
       \/ sent[i].from # BondOwner \/ AskedTwice
       \/ \E j \in DOMAIN sent : j # i /\ sent[j].op = "claim"

PanelInv == surface = "panel" /\ spent.elsewhere = 0 => PanelOK

\* What the calls of the SDK rely on, while none begins beside another.
FundingAt(c) == funding[c].pc \in {"short", "approve", "deposit"}
Unmined(i) == sent[i].state = "sent"
FundsOK ==
  /\ purse[account].escrow <= NeededCap
  /\ \A i \in DOMAIN sent : sent[i].from = account /\ sent[i].op \in {"approve", "deposit"}
  /\ \A c, d \in Fundings : FundingAt(c) /\ FundingAt(d) => c = d
  /\ \A c \in Fundings : FundingAt(c) =>
       /\ purse[account].escrow + funding[c].short <= NeededCap
       /\ \A i \in DOMAIN sent : Unmined(i) => sent[i].op = "approve"
  /\ \A i \in DOMAIN sent : Unmined(i) /\ sent[i].op = "deposit" =>
       /\ purse[account].escrow + sent[i].amount <= NeededCap
       /\ \A j \in DOMAIN sent : Unmined(j) /\ sent[j].op = "deposit" => j = i

FundsInv ==
  /\ funding \in [Fundings -> [pc : {"idle", "short", "approve", "deposit", "done", "threw"},
                               short : Nat]]
  /\ spent \in [flows : Nat, switches : Nat, elsewhere : Nat, overlapped : BOOLEAN]
  /\ surface # "sdk" => \A c \in Fundings : funding[c].pc = "idle"
  /\ surface = "sdk" /\ ~spent.overlapped => FundsOK

WalletInv == ChainTyped /\ FlowInv /\ ViewInv /\ PanelInv /\ FundsInv

-----------------------------------------------------------------------------
LEMMA FormsAre ==
  ASSUME ChainTyped
  PROVE  /\ surface = "wallet" => Forms = {"deposit", "withdraw"} /\ Views = {"escrow"}
         /\ surface = "panel" => Forms = {"request", "claim"} /\ Views = {"bond"}
         /\ surface = "sdk" => Forms = {} /\ Views = {}
         /\ Forms \subseteq OpNames \ {"approve"}
BY DEF ChainTyped, Forms, Views, OpNames

LEMMA StepsAre ==
  ASSUME NEW f \in OpNames \ {"approve"}
  PROVE  /\ Steps(f) \in FlowSteps(f) /\ Steps(f)[Len(Steps(f))] = f
         /\ FlowSteps(f) \subseteq StepsLeft
         /\ \A ops \in FlowSteps(f) :
              /\ Head(ops) \in OpNames /\ Len(ops) >= 1
              /\ Len(ops) > 1 => Head(ops) # f /\ Tail(ops) \in FlowSteps(f)
              /\ ~(Len(ops) > 1) => Head(ops) = f
              /\ f # "deposit" => Head(ops) = f /\ ~(Len(ops) > 1)
<1>1. Steps("deposit") = <<"approve", "deposit">> /\ (f # "deposit" => Steps(f) = <<f>>)
  BY DEF Steps
<1>2. FlowSteps("deposit") = {<<"approve", "deposit">>, <<"deposit">>}
      /\ (f # "deposit" => FlowSteps(f) = {<<f>>})
  BY DEF FlowSteps
<1>3. /\ Len(<<"approve", "deposit">>) = 2 /\ Head(<<"approve", "deposit">>) = "approve"
      /\ Tail(<<"approve", "deposit">>) = <<"deposit">>
      /\ <<"approve", "deposit">>[2] = "deposit"
      /\ Len(<<"deposit">>) = 1 /\ Head(<<"deposit">>) = "deposit"
      /\ Len(<<f>>) = 1 /\ Head(<<f>>) = f /\ <<f>>[1] = f
  OBVIOUS
<1>4. "approve" \in OpNames /\ "deposit" \in OpNames /\ "approve" # "deposit"
      /\ <<"approve", "deposit">> \in StepsLeft /\ <<"deposit">> \in StepsLeft
      /\ (f # "deposit" => <<f>> \in StepsLeft)
  BY DEF OpNames, StepsLeft
<1>5. CASE f = "deposit"
  <2>1. /\ Steps(f) \in FlowSteps(f) /\ Steps(f)[Len(Steps(f))] = f
        /\ FlowSteps(f) \subseteq StepsLeft
    BY <1>1, <1>2, <1>3, <1>4, <1>5
  <2>2. ASSUME NEW ops \in FlowSteps(f)
        PROVE  /\ Head(ops) \in OpNames /\ Len(ops) >= 1
               /\ Len(ops) > 1 => Head(ops) # f /\ Tail(ops) \in FlowSteps(f)
               /\ ~(Len(ops) > 1) => Head(ops) = f
    <3>1. CASE ops = <<"approve", "deposit">>
      BY <1>2, <1>3, <1>4, <1>5, <3>1
    <3>2. CASE ops = <<"deposit">>
      BY <1>3, <1>4, <1>5, <3>2
    <3> QED BY <1>2, <1>5, <2>2, <3>1, <3>2
  <2> QED BY <1>5, <2>1, <2>2
<1>6. CASE f # "deposit"
  BY <1>1, <1>2, <1>3, <1>4, <1>6
<1> QED BY <1>5, <1>6

LEMMA SentTyped ==
  ASSUME ChainTyped
  PROVE  /\ sent \in Seq(TxRecords) /\ Len(sent) \in Nat /\ DOMAIN sent = 1 .. Len(sent)
         /\ \A i \in DOMAIN sent :
              /\ sent[i] \in TxRecords /\ sent[i].from \in Wallets /\ sent[i].op \in OpNames
              /\ sent[i].amount \in Nat /\ sent[i].state \in {"sent", "ok", "reverted"}
         /\ Settled \subseteq Nat
<1>1. sent \in Seq(TxRecords)
  BY DEF ChainTyped
<1>2. Len(sent) \in Nat /\ DOMAIN sent = 1 .. Len(sent)
      /\ \A i \in DOMAIN sent : sent[i] \in TxRecords
  BY <1>1
<1> QED BY <1>1, <1>2 DEF TxRecords, Settled

\* Transactions stay as they were broadcast, and as they were mined.
SentGrows ==
  /\ sent' \in Seq(TxRecords) /\ Len(sent') \in Nat /\ Len(sent') >= Len(sent)
  /\ DOMAIN sent' = 1 .. Len(sent')
  /\ \A i \in DOMAIN sent :
       /\ i \in DOMAIN sent'
       /\ sent'[i].from = sent[i].from /\ sent'[i].op = sent[i].op
       /\ sent'[i].amount = sent[i].amount
       /\ sent[i].state # "sent" => sent'[i].state = sent[i].state

LEMMA SentStays ==
  ASSUME ChainTyped, sent' = sent
  PROVE  SentGrows
BY SentTyped DEF SentGrows

LEMMA SentMined ==
  ASSUME ChainTyped, NEW i \in DOMAIN sent, NEW st \in {"ok", "reverted"},
         sent[i].state = "sent", sent' = [sent EXCEPT ![i].state = st]
  PROVE  /\ SentGrows /\ DOMAIN sent' = DOMAIN sent /\ sent'[i].state = st
         /\ \A j \in DOMAIN sent : j # i => sent'[j] = sent[j]
<1> DEFINE x == [sent[i] EXCEPT !.state = st]
<1>1. /\ sent \in Seq(TxRecords) /\ Len(sent) \in Nat /\ DOMAIN sent = 1 .. Len(sent)
      /\ sent[i] \in TxRecords
  BY SentTyped
<1>2. x \in TxRecords
  BY <1>1 DEF TxRecords
<1>3. /\ x.from = sent[i].from /\ x.op = sent[i].op /\ x.amount = sent[i].amount
      /\ x.state = st
  BY <1>1 DEF TxRecords
<1>4. sent' = [sent EXCEPT ![i] = x]
  BY <1>1
<1> HIDE DEF x
<1>5. /\ sent' \in Seq(TxRecords) /\ Len(sent') = Len(sent) /\ sent'[i] = x
      /\ DOMAIN sent' = DOMAIN sent
      /\ \A j \in DOMAIN sent : j # i => sent'[j] = sent[j]
  BY <1>1, <1>2, <1>4
<1> QED BY <1>1, <1>3, <1>5 DEF SentGrows

LEMMA SentAppended ==
  ASSUME ChainTyped, NEW op \in OpNames, NEW amount \in Nat, Broadcast(op, amount)
  PROVE  /\ SentGrows /\ Len(sent') = Len(sent) + 1 /\ DOMAIN sent' = 1 .. (Len(sent) + 1)
         /\ sent'[Len(sent) + 1] =
              [from |-> account, op |-> op, amount |-> amount, state |-> "sent"]
         /\ \A j \in DOMAIN sent : sent'[j] = sent[j] /\ j # Len(sent) + 1
<1> DEFINE x == [from |-> account, op |-> op, amount |-> amount, state |-> "sent"]
<1>1. sent \in Seq(TxRecords) /\ Len(sent) \in Nat /\ DOMAIN sent = 1 .. Len(sent)
  BY SentTyped
<1>2. x \in TxRecords /\ sent' = Append(sent, x)
  BY DEF Broadcast, TxRecords, ChainTyped
<1> HIDE DEF x
<1>3. /\ sent' \in Seq(TxRecords) /\ Len(sent') = Len(sent) + 1
      /\ DOMAIN sent' = 1 .. (Len(sent) + 1) /\ sent'[Len(sent) + 1] = x
      /\ \A j \in DOMAIN sent : sent'[j] = sent[j] /\ j # Len(sent) + 1 /\ j \in DOMAIN sent'
  BY <1>1, <1>2
<1> QED BY <1>1, <1>3 DEF SentGrows, x

LEMMA WalletStart == WalletInit => WalletInv
<1> SUFFICES ASSUME WalletInit PROVE WalletInv
  OBVIOUS
<1>1. ChainTyped
  <2>1. sent \in Seq(TxRecords) /\ bond \in Bonds /\ purse \in [Wallets -> Purses]
    BY WalletAssumption DEF WalletInit, Bonds, Purses
  <2>2. hour = 1 /\ panelHour = 1 /\ 1 \in 1 .. MaxHour
    BY WalletAssumption DEF WalletInit
  <2> QED BY <2>1, <2>2, WalletAssumption DEF WalletInit, ChainTyped
<1>2. Len(sent) = 0 /\ DOMAIN sent = {} /\ Settled = {}
  BY DEF WalletInit, Settled
<1>3. NoFlow \in FlowRecords /\ NoFlow.pc = "none" /\ NoFlow.hash = 0 /\ NoFlow.status = "idle"
  BY DEF NoFlow, FlowRecords, StepsLeft
<1>4. flow = [f \in Forms |-> NoFlow] /\ modal = [f \in Forms |-> {}]
      /\ watch = [f \in Forms |-> [hash |-> 0, pending |-> 0]]
  BY DEF WalletInit
<1> HIDE DEF NoFlow
<1>5. FlowInv
  <2>1. FlowTyped
    BY <1>2, <1>3, <1>4 DEF FlowTyped, WatchRecords
  <2>2. ASSUME NEW f \in Forms PROVE FlowOK(f)
    BY <1>2, <1>3, <1>4 DEF FlowOK, FlowFits
  <2> QED BY <2>1, <2>2 DEF FlowInv
<1>6. ViewInv
  <2>1. \A v \in Views : ReadOf(v, account, 0) \in Lookups
        /\ ReadOf(v, account, 0).epoch = 0 /\ ReadOf(v, account, 0).who = account
    <3>1. \A v \in Views : Taken(v, account) \in Looks
      <4>1. purse[account].escrow \in Nat /\ bond \in Bonds
        BY <1>1 DEF ChainTyped, Purses
      <4> QED BY <1>2, <4>1 DEF Taken, Looks, ViewValues, BondNow, EscrowNow
    <3> QED BY <1>1, <3>1 DEF ReadOf, Lookups, ChainTyped
  <2>2. underway = {ReadOf(v, account, 0) : v \in Views} /\ epoch = 0
        /\ view = [v \in Views |-> Unread(account)]
    BY DEF WalletInit
  <2>3. Unread(account) \in ViewRecords /\ Unread(account).loading
    BY <1>1 DEF Unread, ViewRecords, ChainTyped
  <2>4. \A f \in Forms : flow[f].status # "done"
    BY <1>3, <1>4
  <2> HIDE DEF ReadOf, Unread
  <2> QED BY <2>1, <2>2, <2>3, <2>4 DEF ViewInv, Saw
<1>7. PanelInv
  <2> SUFFICES ASSUME surface = "panel" PROVE PanelOK
    BY DEF PanelInv
  <2>1. "claim" \in Forms /\ Views = {"bond"}
    BY <1>1, FormsAre
  <2>2. flow["claim"].pc = "none" /\ modal["claim"] = {}
    BY <1>3, <1>4, <2>1
  <2>3. view["bond"].raw = {} /\ \A r \in underway : r.first.value = bond
    <3>1. view = [v \in Views |-> Unread(account)]
          /\ underway = {ReadOf(v, account, 0) : v \in Views}
      BY DEF WalletInit
    <3>2. Unread(account).raw = {} /\ ReadOf("bond", account, 0).first.value = bond
      BY DEF Unread, ReadOf, Taken, BondNow
    <3> QED BY <2>1, <3>1, <3>2
  <2>4. bond.posted /\ bond.ends = 0
    BY DEF WalletInit
  <2> QED BY <1>2, <2>2, <2>3, <2>4 DEF PanelOK, Glimpsed
<1>8. FundsInv
  <2>1. purse[account].escrow = 1 /\ 1 <= NeededCap
    BY WalletAssumption DEF WalletInit
  <2>2. \A c \in Fundings : funding[c].pc = "idle"
    BY DEF WalletInit
  <2>3. FundsOK
    BY <1>2, <2>1, <2>2 DEF FundsOK, FundingAt
  <2> QED BY <2>3 DEF WalletInit, FundsInv
<1> QED BY <1>1, <1>5, <1>6, <1>7, <1>8 DEF WalletInv

-----------------------------------------------------------------------------
\* What was true of a flow and of a transaction stays so as transactions are mined
\* and broadcast.
LEMMA FitsStay ==
  ASSUME ChainTyped, SentGrows, NEW f, NEW fl, NEW w, NEW m, fl.hash \in Nat,
         FlowFits(f, fl, w, m, sent)
  PROVE  FlowFits(f, fl, w, m, sent')
<1>1. fl.hash \in 0 .. Len(sent) /\ fl.hash \in 0 .. Len(sent')
  BY SentTyped DEF FlowFits, SentGrows
<1>2. fl.hash # 0 => /\ sent'[fl.hash].op = sent[fl.hash].op
                     /\ sent'[fl.hash].amount = sent[fl.hash].amount
                     /\ sent[fl.hash].state # "sent" => sent'[fl.hash].state = sent[fl.hash].state
  BY <1>1, SentTyped DEF SentGrows
<1> QED BY <1>1, <1>2 DEF FlowFits

LEMMA FlowsRest ==
  ASSUME ChainTyped, FlowInv, SentGrows, UNCHANGED <<surface, flow, watch, modal>>
  PROVE  FlowInv'
<1>1. Forms' = Forms
  BY DEF Forms
<1>2. FlowTyped'
  BY <1>1 DEF FlowInv, FlowTyped
<1>3. ASSUME NEW f \in Forms PROVE FlowOK(f)'
  <2>1. flow[f].hash \in Nat /\ FlowOK(f)
    BY DEF FlowInv, FlowTyped, FlowRecords
  <2>2. FlowFits(f, flow[f], watch[f], modal[f], sent')
    BY <2>1, FitsStay DEF FlowOK
  <2> QED BY <2>2 DEF FlowOK
<1> QED BY <1>1, <1>2, <1>3 DEF FlowInv

LEMMA FlowMoves ==
  ASSUME ChainTyped, FlowInv, SentGrows, UNCHANGED surface, NEW f \in Forms,
         NEW fl \in FlowRecords, NEW w \in WatchRecords, NEW m \in SUBSET Nat,
         flow' = [flow EXCEPT ![f] = fl], watch' = [watch EXCEPT ![f] = w],
         modal' = [modal EXCEPT ![f] = m], FlowFits(f, fl, w, m, sent')
  PROVE  FlowInv'
<1>1. Forms' = Forms
  BY DEF Forms
<1>2. flow \in [Forms -> FlowRecords] /\ watch \in [Forms -> WatchRecords]
      /\ modal \in [Forms -> SUBSET Nat]
  BY DEF FlowInv, FlowTyped
<1>3. FlowTyped'
  BY <1>1, <1>2 DEF FlowTyped
<1>4. ASSUME NEW g \in Forms PROVE FlowOK(g)'
  <2>1. CASE g = f
    <3>1. flow'[g] = fl /\ watch'[g] = w /\ modal'[g] = m
      BY <1>2, <2>1
    <3> QED BY <2>1, <3>1 DEF FlowOK
  <2>2. CASE g # f
    <3>1. flow'[g] = flow[g] /\ watch'[g] = watch[g] /\ modal'[g] = modal[g]
      BY <1>2, <2>2
    <3>2. flow[g].hash \in Nat /\ FlowOK(g)
      BY <1>2 DEF FlowInv, FlowRecords
    <3>3. FlowFits(g, flow[g], watch[g], modal[g], sent')
      BY <3>2, FitsStay DEF FlowOK
    <3> QED BY <3>1, <3>3 DEF FlowOK
  <2> QED BY <2>1, <2>2
<1> QED BY <1>1, <1>3, <1>4 DEF FlowInv

LEMMA ViewsRest ==
  ASSUME ViewInv, UNCHANGED <<surface, account, view, underway, epoch>>,
         \A f \in Forms : flow'[f].status = "done" =>
           flow[f].status = "done" /\ flow'[f].hash = flow[f].hash
  PROVE  ViewInv'
<1>1. Forms' = Forms /\ Views' = Views
  BY DEF Forms, Views
<1>2. \A v, who, seen : Saw(v, who, seen) => Saw(v, who, seen)'
  BY <1>1 DEF Saw
<1>3. /\ view' = view /\ underway' = underway /\ epoch' = epoch /\ Lookups' = Lookups
  BY <1>1 DEF Lookups
<1>4. /\ \A v \in Views : ~view[v].loading /\ view[v].raw # {} => Saw(v, view[v].who, view[v].seen)'
      /\ \A r \in underway : r.epoch = epoch => Saw(r.view, r.who, r.first.seen)'
  BY <1>2 DEF ViewInv
<1> QED BY <1>1, <1>3, <1>4 DEF ViewInv

\* A new key: every view loads, and only the reads that start may show.
LEMMA RekeyKeeps ==
  ASSUME ChainTyped, ViewInv, FlowInv', sent' = sent, UNCHANGED surface,
         NEW a \in Wallets, account' = a, Rekey(a)
  PROVE  ViewInv'
<1> DEFINE New == {ReadOf(v, a, epoch + 1) : v \in Views}
<1>1. Forms' = Forms /\ Views' = Views /\ Lookups' = Lookups
  BY DEF Forms, Views, Lookups
<1>2. /\ view \in [Views -> ViewRecords] /\ underway \subseteq Lookups /\ epoch \in Nat
      /\ \A r \in underway : r.epoch \in Nat /\ r.epoch <= epoch
  BY DEF ViewInv, Lookups
<1>3. /\ epoch' = epoch + 1 /\ underway' = underway \cup New
      /\ view' = [v \in Views |-> [view[v] EXCEPT !.loading = TRUE]]
  BY DEF Rekey
<1>4. ASSUME NEW v \in Views
      PROVE  [view[v] EXCEPT !.loading = TRUE] \in ViewRecords
             /\ [view[v] EXCEPT !.loading = TRUE].loading
  BY <1>2 DEF ViewRecords
<1>5. view' \in [Views -> ViewRecords] /\ \A v \in Views : view'[v].loading
  BY <1>3, <1>4
<1>6. \A v \in Views : Taken(v, a) \in Looks /\ Taken(v, a).seen = Settled
  <2>1. purse[a].escrow \in Nat /\ bond \in Bonds
    BY DEF ChainTyped, Purses
  <2> QED BY <2>1, SentTyped DEF Taken, Looks, ViewValues, BondNow, EscrowNow
<1>7. ASSUME NEW r \in New
      PROVE  r \in Lookups /\ r.epoch = epoch + 1 /\ r.who = a /\ r.first.seen = Settled
  <2>1. PICK v \in Views : r = ReadOf(v, a, epoch + 1)
    BY <1>7
  <2> QED BY <2>1, <1>2, <1>6 DEF ReadOf, Lookups
<1>8. \A f \in Forms : flow'[f].status = "done" => flow'[f].hash \in Settled
  <2>1. \A f \in Forms : FlowOK(f)'
    BY <1>1 DEF FlowInv
  <2>2. ASSUME NEW f \in Forms, flow'[f].status = "done" PROVE flow'[f].hash \in Settled
    <3>1. flow'[f].hash \in 0 .. Len(sent) /\ flow'[f].hash # 0 /\ sent[flow'[f].hash].state = "ok"
      BY <2>1, <2>2 DEF FlowOK, FlowFits
    <3> QED BY <3>1, SentTyped DEF Settled
  <2> QED BY <2>2
<1>9. \A v, seen : seen = Settled => Saw(v, a, seen)'
  BY <1>1, <1>8 DEF Saw
<1> HIDE DEF New
<1>10. \A r \in underway' : r \in Lookups /\ r.epoch <= epoch'
         /\ (r.epoch = epoch' => Saw(r.view, r.who, r.first.seen)')
  <2>1. ASSUME NEW r \in underway PROVE r \in Lookups /\ r.epoch <= epoch + 1 /\ r.epoch # epoch + 1
    BY <1>2
  <2>2. ASSUME NEW r \in New
        PROVE r \in Lookups /\ r.epoch <= epoch + 1 /\ Saw(r.view, r.who, r.first.seen)'
    BY <1>2, <1>7, <1>9
  <2> QED BY <1>3, <2>1, <2>2
<1> QED BY <1>1, <1>2, <1>3, <1>5, <1>10 DEF ViewInv

\* What a read shows was taken when it began or when it landed.
LEMMA LandsKeeps ==
  ASSUME ChainTyped, FlowInv, ViewInv, NEW r \in underway, Lands(r),
         UNCHANGED <<surface, account, flow, epoch>>
  PROVE  ViewInv'
<1>1. Forms' = Forms /\ Views' = Views /\ Lookups' = Lookups
  BY DEF Forms, Views, Lookups
<1>2. \A v, who, seen : Saw(v, who, seen) => Saw(v, who, seen)'
  BY <1>1 DEF Saw
<1>3. /\ view \in [Views -> ViewRecords] /\ underway \subseteq Lookups /\ epoch \in Nat
      /\ \A q \in underway : q.epoch <= epoch /\ (q.epoch = epoch => Saw(q.view, q.who, q.first.seen))
      /\ \A v \in Views : ~view[v].loading /\ view[v].raw # {} => Saw(v, view[v].who, view[v].seen)
  BY DEF ViewInv
<1>4. r.view \in Views /\ r.who \in Wallets /\ r.first \in Looks
  BY <1>3 DEF Lookups
<1>5. underway' = underway \ {r} /\ epoch' = epoch
  BY DEF Lands
<1>6. ASSUME NEW x \in ViewRecords, view' = [view EXCEPT ![r.view] = x],
             ~x.loading /\ x.raw # {} => Saw(r.view, x.who, x.seen)
      PROVE  ViewInv'
  <2>1. view' \in [Views -> ViewRecords]
    BY <1>3, <1>6
  <2>2. ASSUME NEW v \in Views, ~view'[v].loading, view'[v].raw # {}
        PROVE  Saw(v, view[v].who, view[v].seen)'
    <3>1. CASE v = r.view
      <4>1. view'[v] = x
        BY <1>3, <1>6, <3>1
      <4> QED BY <1>1, <1>6, <2>2, <3>1, <4>1 DEF Saw
    <3>2. CASE v # r.view
      <4>1. view'[v] = view[v]
        BY <1>3, <1>6, <3>2
      <4>2. Saw(v, view[v].who, view[v].seen)
        BY <1>3, <2>2, <4>1
      <4> QED BY <1>1, <4>1, <4>2 DEF Saw
    <3> QED BY <3>1, <3>2
  <2>3. \A v \in Views : ~view'[v].loading /\ view'[v].raw # {} => Saw(v, view[v].who, view[v].seen)'
    BY <2>2
  <2>4. \A q \in underway : q.epoch = epoch => Saw(q.view, q.who, q.first.seen)'
    BY <1>2, <1>3
  <2> QED BY <1>1, <1>3, <1>5, <2>1, <2>3, <2>4 DEF ViewInv
<1>7. CASE r.epoch # epoch
  <2>1. view' = view
    BY <1>7 DEF Lands
  <2>2. \A v \in Views : ~view'[v].loading /\ view'[v].raw # {} => Saw(v, view[v].who, view[v].seen)'
    BY <1>1, <1>3, <2>1 DEF Saw
  <2>3. \A q \in underway : q.epoch = epoch => Saw(q.view, q.who, q.first.seen)'
    BY <1>2, <1>3
  <2> QED BY <1>1, <1>3, <1>5, <2>1, <2>2, <2>3 DEF ViewInv
<1>8. ASSUME r.epoch = epoch, Shows(r) PROVE ViewInv'
  <2>1. PICK g \in {r.first, Taken(r.view, r.who)} :
          view' = [view EXCEPT ![r.view] = [raw |-> {g.value}, who |-> r.who, seen |-> g.seen,
                                            loading |-> FALSE]]
    BY <1>8 DEF Shows
  <2>2. Taken(r.view, r.who) \in Looks /\ Taken(r.view, r.who).seen = Settled
    <3>1. purse[r.who].escrow \in Nat /\ bond \in Bonds
      BY <1>4 DEF ChainTyped, Purses
    <3> QED BY <3>1, SentTyped DEF Taken, Looks, ViewValues, BondNow, EscrowNow
  <2>3. g \in Looks
    BY <1>4, <2>1, <2>2
  <2>4. Saw(r.view, r.who, r.first.seen)
    BY <1>3, <1>8
  <2>5. \A f \in Forms : flow[f].status = "done" => flow[f].hash \in Settled
    <3>1. ASSUME NEW f \in Forms, flow[f].status = "done" PROVE flow[f].hash \in Settled
      <4>1. flow[f].hash \in 0 .. Len(sent) /\ flow[f].hash # 0 /\ sent[flow[f].hash].state = "ok"
        BY <3>1 DEF FlowInv, FlowOK, FlowFits
      <4> QED BY <4>1, SentTyped DEF Settled
    <3> QED BY <3>1
  <2>6. Saw(r.view, r.who, g.seen)
    <3>1. CASE g = r.first
      BY <2>4, <3>1
    <3>2. CASE g = Taken(r.view, r.who)
      BY <2>2, <2>4, <2>5, <3>2 DEF Saw
    <3> QED BY <2>1, <3>1, <3>2
  <2> DEFINE x == [raw |-> {g.value}, who |-> r.who, seen |-> g.seen, loading |-> FALSE]
  <2>7. x \in ViewRecords /\ x.who = r.who /\ x.seen = g.seen
    BY <1>4, <2>3 DEF Looks, ViewRecords
  <2> QED BY <1>6, <2>1, <2>6, <2>7
<1>9. ASSUME view' = [view EXCEPT ![r.view] = [Unread(r.who) EXCEPT !.loading = FALSE]]
      PROVE  ViewInv'
  <2> DEFINE x == [Unread(r.who) EXCEPT !.loading = FALSE]
  <2>1. x \in ViewRecords /\ x.raw = {}
    BY <1>4 DEF Unread, ViewRecords
  <2> QED BY <1>6, <1>9, <2>1
<1> QED BY <1>7, <1>8, <1>9 DEF Lands

-----------------------------------------------------------------------------
\* What was due or glimpsed of the bond stays so while nobody else touches it.
LEMMA AcceptedStays ==
  ASSUME ChainTyped, SentGrows
  PROVE  /\ \A op : Accepted(op) => Accepted(op)'
         /\ AskedTwice => AskedTwice'
<1>1. ASSUME NEW i \in DOMAIN sent
      PROVE  /\ i \in DOMAIN sent' /\ sent'[i].op = sent[i].op
             /\ sent[i].state = "ok" => sent'[i].state = "ok"
  BY SentTyped DEF SentGrows
<1>2. ASSUME NEW op, Accepted(op) PROVE Accepted(op)'
  BY <1>1, <1>2 DEF Accepted
<1>3. AskedTwice => AskedTwice'
  <2> SUFFICES ASSUME AskedTwice PROVE AskedTwice'
    OBVIOUS
  <2>1. PICK i, j \in DOMAIN sent : i # j /\ sent[i].op = "request" /\ sent[j].op = "request"
    BY DEF AskedTwice
  <2>2. i \in DOMAIN sent' /\ j \in DOMAIN sent'
        /\ sent'[i].op = "request" /\ sent'[j].op = "request"
    BY <1>1, <2>1
  <2> QED BY <2>1, <2>2 DEF AskedTwice
<1> QED BY <1>2, <1>3

LEMMA PanelStays ==
  ASSUME ChainTyped, SentGrows, bond' = bond, hour' \in Nat, hour' >= hour
  PROVE  (Due => Due') /\ \A b : Glimpsed(b) => Glimpsed(b)'
<1>1. /\ \A op : Accepted(op) => Accepted(op)'
      /\ AskedTwice => AskedTwice'
  BY AcceptedStays
<1>2. Due => Due'
  <2>1. hour \in Nat /\ (bond.posted /\ bond.ends # 0 => bond.ends \in Nat)
    BY DEF ChainTyped, Bonds
  <2> QED BY <1>1, <2>1 DEF Due
<1>3. ASSUME NEW b, Glimpsed(b) PROVE Glimpsed(b)'
  BY <1>1, <1>3 DEF Glimpsed
<1> QED BY <1>2, <1>3

LEMMA PanelRest ==
  ASSUME ChainTyped, PanelOK, SentGrows, bond' = bond, hour' \in Nat, hour' >= hour,
         \A b \in view'["bond"].raw : Glimpsed(b),
         \A r \in underway' : Glimpsed(r.first.value),
         \A i \in DOMAIN sent' : i \notin DOMAIN sent => sent'[i].state = "sent",
         \A i \in DOMAIN sent' : i \notin DOMAIN sent /\ sent'[i].op = "claim" => Due,
         \A i \in DOMAIN sent : sent'[i] = sent[i],
         flow'["claim"].pc = "sign" \/ modal'["claim"] # {} => Due
  PROVE  PanelOK'
<1>1. /\ \A op : Accepted(op) => Accepted(op)'
      /\ AskedTwice => AskedTwice'
  BY AcceptedStays
<1>2. (Due => Due') /\ \A b : Glimpsed(b) => Glimpsed(b)'
  BY PanelStays
<1>3. /\ bond'.posted \/ Accepted("claim")'
      /\ bond'.ends # 0 => Accepted("request")'
  BY <1>1 DEF PanelOK
<1>4. /\ \A b \in view'["bond"].raw : Glimpsed(b)'
      /\ \A r \in underway' : Glimpsed(r.first.value)'
  BY <1>2
<1>5. /\ (\E i \in DOMAIN sent' : sent'[i].op = "claim") => Due'
      /\ flow'["claim"].pc = "sign" \/ modal'["claim"] # {} => Due'
  BY <1>2 DEF PanelOK
<1>6. ASSUME NEW i \in DOMAIN sent', sent'[i].op = "claim", sent'[i].state = "reverted"
      PROVE  \/ sent'[i].from # BondOwner \/ AskedTwice'
             \/ \E j \in DOMAIN sent' : j # i /\ sent'[j].op = "claim"
  <2>1. i \in DOMAIN sent /\ sent'[i] = sent[i]
    BY <1>6
  <2>2. DOMAIN sent \subseteq DOMAIN sent' /\ \A j \in DOMAIN sent : sent'[j] = sent[j]
    BY DEF SentGrows
  <2> QED BY <1>1, <1>6, <2>1, <2>2 DEF PanelOK
<1> QED BY <1>3, <1>4, <1>5, <1>6 DEF PanelOK

-----------------------------------------------------------------------------
Undisturbed == surface = "panel" /\ spent.elsewhere = 0
SpentRecords == [flows : Nat, switches : Nat, elsewhere : Nat, overlapped : BOOLEAN]

LEMMA PanelIs ==
  ASSUME ChainTyped, surface = "panel"
  PROVE  Forms = {"request", "claim"} /\ Views = {"bond"}
BY FormsAre

\* A step of one form.
LEMMA FormMoves ==
  ASSUME WalletInv, NEW f \in Forms,
         NEW fl \in FlowRecords, NEW w \in WatchRecords, NEW m \in SUBSET Nat,
         flow' = [flow EXCEPT ![f] = fl], watch' = [watch EXCEPT ![f] = w],
         modal' = [modal EXCEPT ![f] = m], FlowFits(f, fl, w, m, sent'),
         SentGrows, \A i \in DOMAIN sent : sent'[i] = sent[i],
         \A i \in DOMAIN sent' : i \notin DOMAIN sent => sent'[i].state = "sent",
         Undisturbed => \A i \in DOMAIN sent' :
                          i \notin DOMAIN sent /\ sent'[i].op = "claim" => Due,
         Undisturbed /\ f = "claim" /\ (fl.pc = "sign" \/ m # {}) => Due,
         UNCHANGED <<surface, account, purse, bond, hour, funding>>,
         panelHour' \in {panelHour, hour}, spent' \in SpentRecords,
         spent'.elsewhere = spent.elsewhere,
         Undisturbed => /\ \A b \in view'["bond"].raw : Glimpsed(b)
                        /\ \A r \in underway' : Glimpsed(r.first.value)
  PROVE  ChainTyped' /\ FlowInv' /\ PanelInv' /\ FundsInv'
<1>1. ChainTyped /\ FlowInv /\ PanelInv /\ FundsInv
  BY DEF WalletInv
<1>2. ChainTyped'
  <2>1. hour \in Nat
    BY <1>1 DEF ChainTyped
  <2>2. panelHour' \in Nat /\ panelHour' <= hour
    BY <1>1, <2>1 DEF ChainTyped
  <2> QED BY <1>1, <2>2 DEF ChainTyped, SentGrows
<1>3. FlowInv'
  BY <1>1, FlowMoves
<1>4. PanelInv'
  <2> SUFFICES ASSUME surface' = "panel", spent'.elsewhere = 0 PROVE PanelOK'
    BY DEF PanelInv
  <2>1. Undisturbed /\ PanelOK
    BY <1>1 DEF Undisturbed, PanelInv
  <2>2. flow'["claim"].pc = "sign" \/ modal'["claim"] # {} => Due
    <3>1. "claim" \in Forms /\ flow \in [Forms -> FlowRecords] /\ modal \in [Forms -> SUBSET Nat]
      BY <1>1, <2>1, PanelIs DEF Undisturbed, FlowInv, FlowTyped
    <3>2. CASE f = "claim"
      <4>1. flow'["claim"] = fl /\ modal'["claim"] = m
        BY <3>1, <3>2
      <4> QED BY <2>1, <3>2, <4>1
    <3>3. CASE f # "claim"
      <4>1. flow'["claim"] = flow["claim"] /\ modal'["claim"] = modal["claim"]
        BY <3>1, <3>3
      <4> QED BY <2>1, <4>1 DEF PanelOK
    <3> QED BY <3>2, <3>3
  <2>3. hour' \in Nat /\ hour' >= hour
    BY <1>1 DEF ChainTyped
  <2> QED BY <1>1, <2>1, <2>2, <2>3, PanelRest
<1>5. FundsInv'
  <2>1. surface # "sdk"
    BY <1>1, FormsAre
  <2> QED BY <1>1, <2>1 DEF FundsInv, SpentRecords
<1> QED BY <1>2, <1>3, <1>4, <1>5

\* A step of one form that broadcasts nothing and starts no reads.
LEMMA FormTurns ==
  ASSUME WalletInv, NEW f \in Forms,
         NEW fl \in FlowRecords, NEW w \in WatchRecords, NEW m \in SUBSET Nat,
         flow' = [flow EXCEPT ![f] = fl], watch' = [watch EXCEPT ![f] = w],
         modal' = [modal EXCEPT ![f] = m], FlowFits(f, fl, w, m, sent),
         fl.status = "done" => flow[f].status = "done" /\ fl.hash = flow[f].hash,
         Undisturbed /\ f = "claim" /\ (fl.pc = "sign" \/ m # {}) => Due,
         UNCHANGED <<surface, account, purse, bond, hour, sent, view, underway, epoch,
                     panelHour, funding>>,
         spent' \in SpentRecords, spent'.elsewhere = spent.elsewhere
  PROVE  WalletInv'
<1>1. ChainTyped /\ FlowInv /\ ViewInv /\ PanelInv
  BY DEF WalletInv
<1>2. SentGrows /\ sent' = sent
  BY <1>1, SentStays
<1>3. Undisturbed => /\ \A b \in view'["bond"].raw : Glimpsed(b)
                     /\ \A r \in underway' : Glimpsed(r.first.value)
  BY <1>1 DEF Undisturbed, PanelInv, PanelOK
<1>4. FlowFits(f, fl, w, m, sent')
  BY <1>2
<1>5. ChainTyped' /\ FlowInv' /\ PanelInv' /\ FundsInv'
  BY <1>2, <1>3, <1>4, FormMoves
<1>6. \A g \in Forms : flow'[g].status = "done" =>
        flow[g].status = "done" /\ flow'[g].hash = flow[g].hash
  <2>1. flow \in [Forms -> FlowRecords]
    BY <1>1 DEF FlowInv, FlowTyped
  <2>2. ASSUME NEW g \in Forms, flow'[g].status = "done"
        PROVE  flow[g].status = "done" /\ flow'[g].hash = flow[g].hash
    <3>1. CASE g = f
      BY <2>1, <2>2, <3>1
    <3>2. CASE g # f
      BY <2>1, <2>2, <3>2
    <3> QED BY <3>1, <3>2
  <2> QED BY <2>2
<1>7. ViewInv'
  BY <1>1, <1>6, ViewsRest
<1> QED BY <1>5, <1>7 DEF WalletInv

LEMMA FlowAt ==
  ASSUME FlowInv, NEW f \in Forms
  PROVE  /\ flow \in [Forms -> FlowRecords] /\ flow[f] \in FlowRecords
         /\ watch \in [Forms -> WatchRecords] /\ watch[f] \in WatchRecords
         /\ modal \in [Forms -> SUBSET Nat] /\ modal[f] \subseteq Nat
         /\ flow = [flow EXCEPT ![f] = flow[f]] /\ watch = [watch EXCEPT ![f] = watch[f]]
         /\ modal = [modal EXCEPT ![f] = modal[f]]
         /\ FlowFits(f, flow[f], watch[f], modal[f], sent)
<1>1. /\ flow \in [Forms -> FlowRecords] /\ watch \in [Forms -> WatchRecords]
      /\ modal \in [Forms -> SUBSET Nat] /\ FlowOK(f)
  BY DEF FlowInv, FlowTyped
<1> QED BY <1>1 DEF FlowOK

LEMMA StartsKeep ==
  ASSUME WalletInv, NEW f \in Forms, NEW amount \in Nat, Starts(f, amount),
         (modal[f] = {} /\ modal' = modal) \/ modal' = [modal EXCEPT ![f] = {}],
         flow[f].pc = "none", Undisturbed /\ f = "claim" => Due,
         UNCHANGED <<surface, account, purse, bond, hour, sent, watch, view, underway,
                     epoch, panelHour, funding>>
  PROVE  WalletInv'
<1>1. ChainTyped /\ FlowInv /\ FundsInv
  BY DEF WalletInv
<1> DEFINE fl == [NoFlow EXCEPT !.status = "busy", !.pc = "sign", !.ops = Steps(f),
                                !.amount = amount]
<1>2. Steps(f) \in FlowSteps(f) /\ FlowSteps(f) \subseteq StepsLeft
  BY <1>1, FormsAre, StepsAre
<1>3. /\ fl \in FlowRecords /\ fl.status = "busy" /\ fl.pc = "sign" /\ fl.ops = Steps(f)
      /\ fl.hash = 0
  BY <1>2 DEF NoFlow, FlowRecords, StepsLeft
<1>4. flow' = [flow EXCEPT ![f] = fl]
  BY DEF Starts
<1> HIDE DEF fl
<1>5. /\ watch' = [watch EXCEPT ![f] = watch[f]] /\ watch[f] \in WatchRecords
      /\ modal' = [modal EXCEPT ![f] = {}]
      /\ FlowFits(f, flow[f], watch[f], modal[f], sent)
  BY <1>1, FlowAt
<1>6. FlowFits(f, fl, watch[f], {}, sent)
  <2>1. Len(sent) \in Nat
    BY <1>1, SentTyped
  <2> QED BY <1>2, <1>3, <1>5, <2>1 DEF FlowFits
<1>7. spent' \in SpentRecords /\ spent'.elsewhere = spent.elsewhere
  BY <1>1 DEF Starts, FundsInv, SpentRecords
<1>8. {} \in SUBSET Nat
  OBVIOUS
<1> QED BY <1>3, <1>4, <1>5, <1>6, <1>7, <1>8, FormTurns

\* A form that may be used has no flow at work.
LEMMA FreeIsIdle ==
  ASSUME FlowInv, NEW f \in Forms, Free(f)
  PROVE  flow[f].pc = "none"
<1>1. flow[f] \in FlowRecords /\ FlowFits(f, flow[f], watch[f], modal[f], sent)
  BY FlowAt
<1>2. ~Busy(f)
  BY DEF Free
<1> QED BY <1>1, <1>2 DEF Busy, FlowFits, FlowRecords

LEMMA DepositKeeps ==
  ASSUME WalletInv, NEW amount \in Sums, SubmitDeposit(amount) PROVE WalletInv'
<1>1. ChainTyped /\ FlowInv /\ amount \in Nat
  BY WalletAssumption DEF WalletInv
<1>2. "deposit" \in Forms /\ flow["deposit"].pc = "none"
  BY <1>1, FreeIsIdle DEF SubmitDeposit
<1>3. modal["deposit"] = {} /\ modal' = modal
  BY <1>1, <1>2, FlowAt DEF FlowFits, SubmitDeposit
<1>4. /\ Starts("deposit", amount)
      /\ UNCHANGED <<surface, account, purse, bond, hour, sent, watch, view, underway,
                     epoch, panelHour, funding>>
  BY DEF SubmitDeposit, chainVars
<1> QED BY <1>1, <1>2, <1>3, <1>4, StartsKeep

LEMMA RequestKeeps == ASSUME WalletInv, RequestWithdrawal PROVE WalletInv'
<1>1. ChainTyped /\ FlowInv
  BY DEF WalletInv
<1>2. "request" \in Forms /\ flow["request"].pc = "none"
  BY <1>1, FreeIsIdle DEF RequestWithdrawal
<1>3. modal["request"] = {} /\ modal' = modal
  BY <1>1, <1>2, FlowAt DEF FlowFits, RequestWithdrawal
<1>4. /\ Starts("request", 0)
      /\ UNCHANGED <<surface, account, purse, bond, hour, sent, watch, view, underway,
                     epoch, panelHour, funding>>
  BY DEF RequestWithdrawal, chainVars
<1> QED BY <1>2, <1>3, <1>4, StartsKeep

LEMMA ConfirmKeeps == ASSUME WalletInv, NEW f \in Forms, Confirm(f) PROVE WalletInv'
<1>1. ChainTyped /\ FlowInv /\ PanelInv
  BY DEF WalletInv
<1>2. PICK amount \in modal[f] : Starts(f, amount)
  BY DEF Confirm
<1>3. amount \in Nat /\ flow[f].pc = "none"
  BY <1>1, <1>2, FlowAt DEF FlowFits
<1>4. Undisturbed /\ f = "claim" => Due
  BY <1>1, <1>2 DEF Undisturbed, PanelInv, PanelOK
<1>5. /\ modal' = [modal EXCEPT ![f] = {}]
      /\ UNCHANGED <<surface, account, purse, bond, hour, sent, watch, view, underway,
                     epoch, panelHour, funding>>
  BY DEF Confirm, chainVars
<1> QED BY <1>2, <1>3, <1>4, <1>5, StartsKeep

LEMMA CancelKeeps == ASSUME WalletInv, NEW f \in Forms, Cancel(f) PROVE WalletInv'
<1>1. ChainTyped /\ FlowInv /\ PanelInv /\ FundsInv
  BY DEF WalletInv
<1>2. /\ flow[f] \in FlowRecords /\ watch[f] \in WatchRecords
      /\ flow = [flow EXCEPT ![f] = flow[f]] /\ watch = [watch EXCEPT ![f] = watch[f]]
      /\ FlowFits(f, flow[f], watch[f], modal[f], sent)
  BY <1>1, FlowAt
<1>3. FlowFits(f, flow[f], watch[f], {}, sent)
  BY <1>2 DEF FlowFits
<1>4. Undisturbed /\ f = "claim" /\ (flow[f].pc = "sign" \/ {} # {}) => Due
  BY <1>1 DEF Undisturbed, PanelInv, PanelOK
<1>5. /\ modal' = [modal EXCEPT ![f] = {}] /\ flow' = flow /\ watch' = watch /\ spent' = spent
      /\ UNCHANGED <<surface, account, purse, bond, hour, sent, view, underway,
                     epoch, panelHour, funding>>
  BY DEF Cancel, chainVars
<1>6. spent' \in SpentRecords /\ spent'.elsewhere = spent.elsewhere
  BY <1>1, <1>5 DEF FundsInv, SpentRecords
<1>7. {} \in SUBSET Nat
  OBVIOUS
<1> HIDE DEF FlowRecords, WatchRecords
<1> QED BY <1>2, <1>3, <1>4, <1>5, <1>6, <1>7, FormTurns

LEMMA OpensKeep ==
  ASSUME WalletInv, NEW f \in Forms \cap {"withdraw", "claim"}, NEW amount \in Nat,
         Opens(f, amount), Undisturbed /\ f = "claim" => Due,
         UNCHANGED <<surface, account, purse, bond, hour, sent, view, underway, epoch,
                     panelHour, funding, spent>>
  PROVE  WalletInv'
<1>1. ChainTyped /\ FlowInv /\ FundsInv
  BY DEF WalletInv
<1> DEFINE fl == [flow[f] EXCEPT !.status = "idle"]
           w == [watch[f] EXCEPT !.hash = 0]
<1>2. /\ flow \in [Forms -> FlowRecords] /\ flow[f] \in FlowRecords
      /\ watch \in [Forms -> WatchRecords] /\ watch[f] \in WatchRecords
      /\ FlowFits(f, flow[f], watch[f], modal[f], sent) /\ flow[f].pc = "none"
  BY <1>1, FlowAt, FreeIsIdle DEF Opens
<1>3. fl \in FlowRecords /\ fl.status = "idle" /\ fl.pc = "none" /\ fl.hash = flow[f].hash
  BY <1>2 DEF FlowRecords
<1>4. w \in WatchRecords /\ w.pending = watch[f].pending
  BY <1>2 DEF WatchRecords
<1>5. flow' = [flow EXCEPT ![f] = fl] /\ watch' = [watch EXCEPT ![f] = w]
      /\ modal' = [modal EXCEPT ![f] = {amount}]
  BY DEF Opens
<1> HIDE DEF fl, w
<1>6. FlowFits(f, fl, w, {amount}, sent)
  BY <1>2, <1>3, <1>4 DEF FlowFits
<1>7. spent' \in SpentRecords /\ spent'.elsewhere = spent.elsewhere
  BY <1>1 DEF FundsInv, SpentRecords
<1>8. {amount} \in SUBSET Nat
  OBVIOUS
<1> HIDE DEF FlowRecords, WatchRecords
<1> QED BY <1>3, <1>4, <1>5, <1>6, <1>7, <1>8, FormTurns

LEMMA OpenWithdrawKeeps ==
  ASSUME WalletInv, NEW amount \in Sums, OpenWithdraw(amount) PROVE WalletInv'
<1>1. amount \in Nat
  BY WalletAssumption
<1>2. "withdraw" \in Forms \cap {"withdraw", "claim"}
  BY DEF OpenWithdraw
<1>3. /\ Opens("withdraw", amount)
      /\ UNCHANGED <<surface, account, purse, bond, hour, sent, view, underway, epoch,
                     panelHour, funding, spent>>
  BY DEF OpenWithdraw, chainVars
<1> QED BY <1>1, <1>2, <1>3, OpensKeep

\* The panel offers a claim only when its read and its clock say that it is due,
\* and by then it is.
LEMMA OfferedIsDue ==
  ASSUME WalletInv, Undisturbed, BondState = "withdrawable" PROVE Due
<1>1. ChainTyped /\ ViewInv /\ PanelOK
  BY DEF WalletInv, Undisturbed, PanelInv
<1>2. PICK b \in view["bond"].raw : b.posted /\ b.ends # 0 /\ ~(panelHour < b.ends)
  <2>1. view["bond"].raw # {}
    BY DEF BondState
  <2>2. PICK x \in view["bond"].raw : x = CHOOSE y \in view["bond"].raw : TRUE
    BY <2>1
  <2>3. x.posted /\ x.ends # 0 /\ ~(panelHour < x.ends)
    BY <2>1, <2>2 DEF BondState
  <2> QED BY <2>3
<1>3. Accepted("request") /\ (AskedTwice \/ Accepted("claim") \/ bond.ends = b.ends)
  BY <1>1, <1>2 DEF PanelOK, Glimpsed
<1>4. bond.posted \/ Accepted("claim")
  BY <1>1 DEF PanelOK
<1>5. panelHour <= hour /\ panelHour \in Nat /\ hour \in Nat /\ (bond.posted => bond.ends \in Nat)
  BY <1>1 DEF ChainTyped, Bonds
<1> QED BY <1>2, <1>3, <1>4, <1>5 DEF Due

LEMMA OpenClaimKeeps == ASSUME WalletInv, OpenClaim PROVE WalletInv'
<1>1. "claim" \in Forms \cap {"withdraw", "claim"}
  BY DEF OpenClaim
<1>2. Undisturbed => Due
  BY OfferedIsDue DEF OpenClaim
<1>3. /\ Opens("claim", 0)
      /\ UNCHANGED <<surface, account, purse, bond, hour, sent, view, underway, epoch,
                     panelHour, funding, spent>>
  BY DEF OpenClaim, chainVars
<1> QED BY <1>1, <1>2, <1>3, OpensKeep

-----------------------------------------------------------------------------
LEMMA SignKeeps == ASSUME WalletInv, NEW f \in Forms, SignNext(f) PROVE WalletInv'
<1>1. ChainTyped /\ FlowInv /\ ViewInv /\ PanelInv /\ FundsInv
  BY DEF WalletInv
<1> DEFINE n == Len(sent) + 1
           y == [flow[f] EXCEPT !.pc = "mine"]
           fl == [y EXCEPT !.hash = n]
           w == [hash |-> n, pending |-> n]
<1>2. /\ flow \in [Forms -> FlowRecords] /\ flow[f] \in FlowRecords
      /\ modal = [modal EXCEPT ![f] = modal[f]] /\ modal[f] \in SUBSET Nat
      /\ FlowFits(f, flow[f], watch[f], modal[f], sent) /\ flow[f].pc = "sign"
  BY <1>1, FlowAt DEF SignNext
<1>3. n \in Nat /\ n # 0
  BY <1>1, SentTyped
<1>4. y \in FlowRecords /\ y.pc = "mine" /\ y.status = flow[f].status
      /\ y.ops = flow[f].ops /\ y.amount = flow[f].amount
  BY <1>2 DEF FlowRecords
<1> HIDE DEF y
<1>5. fl \in FlowRecords /\ fl.pc = "mine" /\ fl.status = y.status /\ fl.hash = n
      /\ fl.ops = y.ops /\ fl.amount = y.amount
  BY <1>3, <1>4 DEF FlowRecords
<1>6. flow' = [flow EXCEPT ![f] = fl]
  BY <1>2 DEF SignNext, FlowRecords, y
<1> HIDE DEF n, fl
<1>7. w \in WatchRecords /\ w.hash = n /\ w.pending = n
  BY <1>3 DEF WatchRecords
<1>8. watch' = [watch EXCEPT ![f] = w] /\ modal' = [modal EXCEPT ![f] = modal[f]]
  BY <1>2 DEF SignNext, n
<1> HIDE DEF w
<1> DEFINE op == Head(flow[f].ops)
<1>9. op \in OpNames /\ flow[f].amount \in Nat /\ flow[f].ops \in FlowSteps(f)
      /\ flow[f].status = "busy"
  BY <1>1, <1>2, FormsAre, StepsAre DEF FlowFits, FlowRecords
<1>10. Broadcast(op, flow[f].amount)
  BY DEF SignNext
<1> HIDE DEF op
<1>11. /\ SentGrows /\ Len(sent') = n /\ DOMAIN sent' = 1 .. n
       /\ sent'[n] = [from |-> account, op |-> op, amount |-> flow[f].amount, state |-> "sent"]
       /\ \A j \in DOMAIN sent : sent'[j] = sent[j]
       /\ DOMAIN sent = 1 .. (n - 1)
  BY <1>1, <1>9, <1>10, SentAppended, SentTyped DEF n
<1>12. FlowFits(f, fl, w, modal[f], sent')
  <2>1. fl.hash \in 0 .. Len(sent')
    BY <1>3, <1>5, <1>11
  <2>2. modal[f] = {}
    BY <1>2 DEF FlowFits
  <2>3. sent'[n].op = op /\ sent'[n].amount = flow[f].amount
    BY <1>11
  <2> QED BY <1>3, <1>4, <1>5, <1>7, <1>9, <2>1, <2>2, <2>3 DEF FlowFits, op
<1>13. \A i \in DOMAIN sent' : i \notin DOMAIN sent => i = n
  BY <1>3, <1>11
<1>14. sent'[n].state = "sent" /\ sent'[n].op = op
  BY <1>11
<1>15. op = "claim" => f = "claim"
  BY <1>1, <1>9, FormsAre, StepsAre DEF FlowSteps, op
<1>16. Undisturbed => PanelOK
  BY <1>1 DEF Undisturbed, PanelInv
<1>17. Undisturbed /\ f = "claim" => Due
  BY <1>2, <1>16 DEF PanelOK
<1>18. Undisturbed => \A i \in DOMAIN sent' :
                         i \notin DOMAIN sent /\ sent'[i].op = "claim" => Due
  BY <1>13, <1>14, <1>15, <1>17
<1>19. /\ UNCHANGED <<surface, account, purse, bond, hour, view, underway, epoch,
                      panelHour, funding, spent>>
  BY DEF SignNext, chainVars
<1>20. Undisturbed => /\ \A b \in view'["bond"].raw : Glimpsed(b)
                      /\ \A r \in underway' : Glimpsed(r.first.value)
  BY <1>16, <1>19 DEF PanelOK
<1>21. spent' \in SpentRecords /\ spent'.elsewhere = spent.elsewhere
  BY <1>1, <1>19 DEF FundsInv, SpentRecords
<1>22. ChainTyped' /\ FlowInv' /\ PanelInv' /\ FundsInv'
  <2>1. \A i \in DOMAIN sent' : i \notin DOMAIN sent => sent'[i].state = "sent"
    BY <1>13, <1>14
  <2> HIDE DEF FlowRecords, WatchRecords, SpentRecords
  <2> QED BY <1>2, <1>5, <1>6, <1>7, <1>8, <1>11, <1>12, <1>17, <1>18, <1>19, <1>20, <1>21, <2>1, FormMoves
<1>23. ViewInv'
  <2>1. \A g \in Forms : flow'[g].status = "done" =>
          flow[g].status = "done" /\ flow'[g].hash = flow[g].hash
    <3>1. ASSUME NEW g \in Forms, flow'[g].status = "done"
          PROVE  flow[g].status = "done" /\ flow'[g].hash = flow[g].hash
      <4>1. CASE g = f
        BY <1>2, <1>4, <1>5, <1>6, <1>9, <3>1, <4>1
      <4>2. CASE g # f
        BY <1>2, <1>6, <3>1, <4>2
      <4> QED BY <4>1, <4>2
    <3> QED BY <3>1
  <2> QED BY <1>1, <1>19, <2>1, ViewsRest
<1> QED BY <1>22, <1>23 DEF WalletInv

\* A flow that fails: what it signed last, if it was its last step, was reverted or
\* its receipt lost.
LEMMA FailsKeep ==
  ASSUME WalletInv, NEW f \in Forms, NEW lost \in BOOLEAN, Fails(f, lost),
         NEW w \in WatchRecords, watch' = [watch EXCEPT ![f] = w], w.pending = 0,
         ~lost /\ flow[f].hash # 0 /\ sent[flow[f].hash].op = f
           => sent[flow[f].hash].state = "reverted"
  PROVE  WalletInv'
<1>1. ChainTyped /\ FlowInv /\ PanelInv /\ FundsInv
  BY DEF WalletInv
<1> DEFINE x == [flow[f] EXCEPT !.status = "error"]
           y == [x EXCEPT !.pc = "none"]
           fl == [y EXCEPT !.lost = lost]
<1>2. /\ flow \in [Forms -> FlowRecords] /\ flow[f] \in FlowRecords
      /\ modal = [modal EXCEPT ![f] = modal[f]] /\ modal[f] \in SUBSET Nat
      /\ FlowFits(f, flow[f], watch[f], modal[f], sent)
  BY <1>1, FlowAt
<1>3. x \in FlowRecords /\ x.status = "error" /\ x.hash = flow[f].hash
  BY <1>2 DEF FlowRecords
<1>4. flow' = [flow EXCEPT ![f] = fl]
  BY <1>2 DEF Fails, FlowRecords
<1> HIDE DEF x
<1>5. y \in FlowRecords /\ y.status = "error" /\ y.hash = flow[f].hash /\ y.pc = "none"
  BY <1>3 DEF FlowRecords
<1> HIDE DEF y
<1>6. fl \in FlowRecords /\ fl.status = "error" /\ fl.hash = flow[f].hash /\ fl.pc = "none"
      /\ fl.lost = lost
  BY <1>5 DEF FlowRecords
<1> HIDE DEF fl
<1>7. FlowFits(f, fl, w, modal[f], sent)
  BY <1>2, <1>6 DEF FlowFits
<1>8. /\ UNCHANGED <<surface, account, purse, bond, hour, sent, view, underway, epoch,
                     panelHour, funding>>
      /\ spent' = spent /\ modal' = [modal EXCEPT ![f] = modal[f]]
  BY <1>2 DEF Fails, chainVars
<1>9. spent' \in SpentRecords /\ spent'.elsewhere = spent.elsewhere
  BY <1>1, <1>8 DEF FundsInv, SpentRecords
<1>10. Undisturbed /\ f = "claim" /\ (fl.pc = "sign" \/ modal[f] # {}) => Due
  BY <1>1, <1>6 DEF Undisturbed, PanelInv, PanelOK
<1> HIDE DEF FlowRecords, WatchRecords, SpentRecords
<1> QED BY <1>2, <1>4, <1>6, <1>7, <1>8, <1>9, <1>10, FormTurns

\* The promise that is settled is that of the transaction the flow signed last.
LEMMA WatchesLast ==
  ASSUME WalletInv, NEW f \in Forms, Watches(f)
  PROVE  /\ flow[f].pc = "mine" /\ flow[f].hash # 0 /\ watch[f].hash = flow[f].hash
         /\ flow[f].hash \in DOMAIN sent /\ flow[f].ops \in FlowSteps(f)
         /\ sent[flow[f].hash].op = Head(flow[f].ops)
         /\ sent[flow[f].hash].amount = flow[f].amount
         /\ flow[f].status = "busy" /\ modal[f] = {}
<1>1. ChainTyped /\ FlowInv
  BY DEF WalletInv
<1>2. FlowFits(f, flow[f], watch[f], modal[f], sent)
  BY <1>1, FlowAt
<1>3. flow[f].pc = "mine" /\ flow[f].hash # 0 /\ flow[f].hash \in 0 .. Len(sent)
  BY <1>2 DEF FlowFits, Watches
<1>4. flow[f].hash \in DOMAIN sent
  BY <1>1, <1>3, SentTyped
<1> QED BY <1>2, <1>3, <1>4 DEF FlowFits

LEMMA AnsweredIs ==
  ASSUME WalletInv, NEW f \in Forms, Answered(f)
  PROVE  \E w \in WatchRecords : watch' = [watch EXCEPT ![f] = w] /\ w.pending = 0
<1> DEFINE w == [watch[f] EXCEPT !.pending = 0]
<1>1. watch[f] \in WatchRecords
  BY FlowAt DEF WalletInv
<1>2. w \in WatchRecords /\ w.pending = 0 /\ watch' = [watch EXCEPT ![f] = w]
  BY <1>1 DEF WatchRecords, Answered
<1> QED BY <1>2

LEMMA RefuseKeeps == ASSUME WalletInv, NEW f \in Forms, Refuse(f) PROVE WalletInv'
<1>1. /\ watch[f] \in WatchRecords /\ watch = [watch EXCEPT ![f] = watch[f]]
      /\ FlowFits(f, flow[f], watch[f], modal[f], sent) /\ flow[f].pc = "sign"
  BY FlowAt DEF WalletInv, Refuse
<1>2. watch[f].pending = 0 /\ ~(flow[f].hash # 0 /\ sent[flow[f].hash].op = f)
  BY <1>1 DEF FlowFits
<1>3. Fails(f, FALSE) /\ watch' = [watch EXCEPT ![f] = watch[f]]
  BY <1>1 DEF Refuse
<1> HIDE DEF WatchRecords
<1> QED BY <1>1, <1>2, <1>3, FailsKeep

LEMMA RejectsKeep == ASSUME WalletInv, NEW f \in Forms, ReceiptRejects(f) PROVE WalletInv'
<1>1. PICK w \in WatchRecords : watch' = [watch EXCEPT ![f] = w] /\ w.pending = 0
  BY AnsweredIs DEF ReceiptRejects
<1>2. watch[f].hash = flow[f].hash /\ sent[flow[f].hash].state = "reverted"
  BY WatchesLast DEF ReceiptRejects
<1>3. Fails(f, FALSE)
  BY DEF ReceiptRejects
<1> HIDE DEF WatchRecords
<1> QED BY <1>1, <1>2, <1>3, FailsKeep

LEMMA LostKeeps == ASSUME WalletInv, NEW f \in Forms, ReceiptLost(f) PROVE WalletInv'
<1>1. PICK w \in WatchRecords : watch' = [watch EXCEPT ![f] = w] /\ w.pending = 0
  BY AnsweredIs DEF ReceiptLost
<1>2. Fails(f, TRUE)
  BY DEF ReceiptLost
<1> HIDE DEF WatchRecords
<1> QED BY <1>1, <1>2, FailsKeep

LEMMA ConfirmedKeeps == ASSUME WalletInv, NEW f \in Forms, Confirmed(f) PROVE WalletInv'
<1>1. ChainTyped /\ FlowInv /\ ViewInv /\ PanelInv /\ FundsInv
  BY DEF WalletInv
<1>2. PICK w \in WatchRecords : watch' = [watch EXCEPT ![f] = w] /\ w.pending = 0
  BY AnsweredIs DEF Confirmed
<1>3. /\ flow[f].pc = "mine" /\ flow[f].hash # 0 /\ watch[f].hash = flow[f].hash
      /\ flow[f].hash \in DOMAIN sent /\ flow[f].ops \in FlowSteps(f)
      /\ sent[flow[f].hash].op = Head(flow[f].ops)
      /\ sent[flow[f].hash].amount = flow[f].amount
      /\ flow[f].status = "busy" /\ modal[f] = {}
      /\ sent[flow[f].hash].state = "ok"
  BY WatchesLast DEF Confirmed, ReceiptOk
<1>4. /\ flow \in [Forms -> FlowRecords] /\ flow[f] \in FlowRecords
      /\ modal = [modal EXCEPT ![f] = modal[f]] /\ modal[f] \in SUBSET Nat
      /\ flow[f].hash \in 0 .. Len(sent)
  BY <1>1, FlowAt DEF FlowFits
<1>5. f \in OpNames \ {"approve"} /\ FlowSteps(f) \subseteq StepsLeft
      /\ (Len(flow[f].ops) > 1 => Head(flow[f].ops) # f /\ Tail(flow[f].ops) \in FlowSteps(f))
      /\ (~(Len(flow[f].ops) > 1) => Head(flow[f].ops) = f)
      /\ (f # "deposit" => ~(Len(flow[f].ops) > 1))
  BY <1>1, <1>3, FormsAre, StepsAre
<1>6. UNCHANGED <<surface, account, purse, bond, hour, sent, funding, spent>>
      /\ modal' = [modal EXCEPT ![f] = modal[f]]
  BY <1>4 DEF Confirmed, chainVars
<1>7. spent' \in SpentRecords /\ spent'.elsewhere = spent.elsewhere
  BY <1>1, <1>6 DEF FundsInv, SpentRecords
<1>8. CASE Len(flow[f].ops) > 1
  <2> DEFINE y == [flow[f] EXCEPT !.pc = "sign"]
             fl == [y EXCEPT !.ops = Tail(flow[f].ops)]
  <2>1. Tail(flow[f].ops) \in StepsLeft
    BY <1>5, <1>8
  <2>2. flow' = [flow EXCEPT ![f] = fl]
    BY <1>4, <1>8 DEF Confirmed, FlowRecords
  <2>3. y \in FlowRecords /\ y.pc = "sign" /\ y.status = "busy" /\ y.hash = flow[f].hash
    BY <1>3, <1>4 DEF FlowRecords
  <2> HIDE DEF y
  <2>4. fl \in FlowRecords /\ fl.pc = "sign" /\ fl.status = "busy" /\ fl.hash = flow[f].hash
        /\ fl.ops = Tail(flow[f].ops)
    BY <2>1, <2>3 DEF FlowRecords
  <2> HIDE DEF fl
  <2>5. FlowFits(f, fl, w, modal[f], sent)
    BY <1>2, <1>3, <1>4, <1>5, <1>8, <2>4 DEF FlowFits
  <2>6. f # "claim"
    BY <1>5, <1>8
  <2>7. UNCHANGED <<view, underway, epoch, panelHour>>
    BY <1>8 DEF Confirmed
  <2> HIDE DEF FlowRecords, WatchRecords, SpentRecords
  <2> QED BY <1>2, <1>4, <1>6, <1>7, <2>2, <2>4, <2>5, <2>6, <2>7, FormTurns
<1>9. CASE ~(Len(flow[f].ops) > 1)
  <2> DEFINE y == [flow[f] EXCEPT !.pc = "none"]
             fl == [y EXCEPT !.status = "done"]
  <2>1. flow' = [flow EXCEPT ![f] = fl]
    BY <1>4, <1>9 DEF Confirmed, FlowRecords
  <2>2. y \in FlowRecords /\ y.pc = "none" /\ y.hash = flow[f].hash /\ y.amount = flow[f].amount
    BY <1>4 DEF FlowRecords
  <2> HIDE DEF y
  <2>3. fl \in FlowRecords /\ fl.pc = "none" /\ fl.status = "done" /\ fl.hash = flow[f].hash
        /\ fl.amount = flow[f].amount
    BY <2>2 DEF FlowRecords
  <2> HIDE DEF fl
  <2>4. FlowFits(f, fl, w, modal[f], sent)
    BY <1>2, <1>3, <1>4, <1>5, <1>9, <2>3 DEF FlowFits
  <2>5. Rekey(account) /\ panelHour' = hour
    BY <1>9 DEF Confirmed
  <2>6. SentGrows /\ sent' = sent /\ FlowFits(f, fl, w, modal[f], sent')
    BY <1>1, <1>6, <2>4, SentStays
  <2>7. ASSUME Undisturbed
        PROVE  /\ \A b \in view'["bond"].raw : Glimpsed(b)
               /\ \A r \in underway' : Glimpsed(r.first.value)
    <3>1. PanelOK /\ Views = {"bond"}
      BY <1>1, <2>7, PanelIs DEF Undisturbed, PanelInv
    <3>2. view["bond"] \in ViewRecords
      BY <1>1, <3>1 DEF ViewInv
    <3>3. view'["bond"].raw = view["bond"].raw
      BY <2>5, <3>1, <3>2 DEF Rekey, ViewRecords
    <3>4. underway' = underway \cup {ReadOf("bond", account, epoch + 1)}
      BY <2>5, <3>1 DEF Rekey
    <3>5. ReadOf("bond", account, epoch + 1).first.value = bond
      BY DEF ReadOf, Taken, BondNow
    <3>6. Glimpsed(bond)
      BY <3>1 DEF PanelOK, Glimpsed
    <3> HIDE DEF ReadOf
    <3> QED BY <3>1, <3>3, <3>4, <3>5, <3>6 DEF PanelOK
  <2>8. Undisturbed /\ f = "claim" /\ (fl.pc = "sign" \/ modal[f] # {}) => Due
    BY <1>3, <2>3
  <2>9. ChainTyped' /\ FlowInv' /\ PanelInv' /\ FundsInv'
    <3> HIDE DEF FlowRecords, WatchRecords, SpentRecords
    <3> QED BY <1>2, <1>4, <1>6, <1>7, <2>1, <2>3, <2>5, <2>6, <2>7, <2>8, FormMoves
  <2>10. account \in Wallets
    BY <1>1 DEF ChainTyped
  <2>11. ViewInv'
    BY <1>1, <1>6, <2>5, <2>9, <2>10, RekeyKeeps
  <2> QED BY <2>9, <2>11 DEF WalletInv
<1> QED BY <1>8, <1>9

-----------------------------------------------------------------------------
\* What an accepted transaction does to the purses and to the bond.
LEMMA ExecutesIs ==
  ASSUME ChainTyped, NEW move \in TxRecords, Accepts(move), Executes(move)
  PROVE  /\ purse' \in [Wallets -> Purses] /\ bond' \in Bonds
         /\ move.op = "approve" => \A a \in Wallets : purse'[a].escrow = purse[a].escrow
         /\ move.op = "deposit" => purse'[move.from].escrow = purse[move.from].escrow + move.amount
         /\ move.op = "request" => bond'.posted = bond.posted
         /\ move.op = "claim" => ~bond'.posted /\ bond'.ends = 0
         /\ move.op \notin {"request", "claim"} => bond' = bond
<1> DEFINE a == move.from
           x == purse'[a]
<1>1. /\ purse \in [Wallets -> Purses] /\ bond \in Bonds /\ hour \in Nat
      /\ a \in Wallets /\ move.amount \in Nat /\ move.op \in OpNames
  BY DEF ChainTyped, TxRecords
<1>2. purse[a] \in Purses /\ purse[a].usdc \in Nat /\ purse[a].allowance \in Nat
      /\ purse[a].escrow \in Nat
  BY <1>1 DEF Purses
<1>3. \A c \in Wallets : c # a => purse'[c] = purse[c]
  BY <1>1 DEF Executes
<1>4. CASE move.op = "approve"
  <2>1. purse' = [purse EXCEPT ![a] = [purse[a] EXCEPT !.allowance = move.amount]]
    BY <1>4 DEF Executes
  <2>2. [purse[a] EXCEPT !.allowance = move.amount] \in Purses
        /\ [purse[a] EXCEPT !.allowance = move.amount].escrow = purse[a].escrow
    BY <1>1, <1>2 DEF Purses
  <2>3. bond' = bond
    BY <1>4 DEF Executes
  <2> HIDE DEF a
  <2> QED BY <1>1, <1>4, <2>1, <2>2, <2>3
<1>5. CASE move.op = "deposit"
  <2> DEFINE y == [usdc |-> purse[a].usdc - move.amount,
                   allowance |-> purse[a].allowance - move.amount,
                   escrow |-> purse[a].escrow + move.amount]
  <2>1. purse' = [purse EXCEPT ![a] = y]
    BY <1>5 DEF Executes
  <2>2. y \in Purses /\ y.escrow = purse[a].escrow + move.amount
    BY <1>1, <1>2, <1>5 DEF Purses, Accepts
  <2>3. bond' = bond
    BY <1>5 DEF Executes
  <2> HIDE DEF y
  <2>4. purse' \in [Wallets -> Purses] /\ purse'[a] = y
    BY <1>1, <2>1, <2>2
  <2> QED BY <1>1, <1>5, <2>2, <2>3, <2>4
<1>6. CASE move.op = "withdraw"
  <2> DEFINE y == [usdc |-> purse[a].usdc + move.amount, allowance |-> purse[a].allowance,
                   escrow |-> purse[a].escrow - move.amount]
  <2>1. purse' = [purse EXCEPT ![a] = y]
    BY <1>6 DEF Executes
  <2>2. y \in Purses
    BY <1>1, <1>2, <1>6 DEF Purses, Accepts
  <2>3. bond' = bond
    BY <1>6 DEF Executes
  <2> HIDE DEF y
  <2> QED BY <1>1, <1>6, <2>1, <2>2, <2>3
<1>7. CASE move.op = "request"
  <2>1. purse' = [purse EXCEPT ![a] = purse[a]] /\ bond' = [bond EXCEPT !.ends = hour + 1]
    BY <1>7 DEF Executes
  <2>2. [bond EXCEPT !.ends = hour + 1] \in Bonds
        /\ [bond EXCEPT !.ends = hour + 1].posted = bond.posted
    BY <1>1 DEF Bonds
  <2> QED BY <1>1, <1>2, <1>7, <2>1, <2>2
<1>8. CASE move.op = "claim"
  <2>1. purse' = [purse EXCEPT ![a] = purse[a]] /\ bond' = [posted |-> FALSE, ends |-> 0]
    BY <1>8 DEF Executes
  <2> QED BY <1>1, <1>2, <1>8, <2>1 DEF Bonds
<1> QED BY <1>1, <1>4, <1>5, <1>6, <1>7, <1>8 DEF OpNames

\* A claim that is due and mined first is accepted.
LEMMA DueIsAccepted ==
  ASSUME Due, NEW move, move.op = "claim", move.from = BondOwner, bond.posted \/ Accepted("claim")
  PROVE  AskedTwice \/ Accepted("claim") \/ Accepts(move)
BY DEF Due, Accepts

LEMMA MinePanel ==
  ASSUME WalletInv, Undisturbed, NEW i \in DOMAIN sent, MineNext(i)
  PROVE  PanelOK'
<1>1. ChainTyped /\ PanelOK
  BY DEF WalletInv, Undisturbed, PanelInv
<1>2. /\ sent \in Seq(TxRecords) /\ Len(sent) \in Nat /\ DOMAIN sent = 1 .. Len(sent)
      /\ sent[i] \in TxRecords /\ sent[i].op \in OpNames /\ sent[i].state = "sent"
  BY <1>1, SentTyped DEF MineNext
<1>3. PICK st \in {"ok", "reverted"} :
        /\ sent' = [sent EXCEPT ![i].state = st]
        /\ st = "ok" => Accepts(sent[i]) /\ Executes(sent[i])
        /\ st = "reverted" => ~Accepts(sent[i]) /\ bond' = bond
  BY DEF MineNext
<1>4. /\ SentGrows /\ DOMAIN sent' = DOMAIN sent /\ sent'[i].state = st
      /\ \A j \in DOMAIN sent : j # i => sent'[j] = sent[j]
  BY <1>1, <1>2, <1>3, SentMined
<1>5. /\ \A op : Accepted(op) => Accepted(op)'
      /\ AskedTwice => AskedTwice'
  BY <1>1, <1>4, AcceptedStays
<1>6. \A j \in DOMAIN sent : sent'[j].op = sent[j].op /\ sent'[j].from = sent[j].from
  BY <1>4 DEF SentGrows
<1>7. st = "ok" => \A op : sent[i].op = op => Accepted(op)'
  <2> SUFFICES ASSUME st = "ok", NEW op, sent[i].op = op PROVE Accepted(op)'
    OBVIOUS
  <2>1. i \in DOMAIN sent' /\ sent'[i].op = op /\ sent'[i].state = "ok"
    BY <1>4, <1>6
  <2> QED BY <2>1 DEF Accepted
\* A second accepted request is a second request.
<1>8. st = "ok" /\ sent[i].op = "request" /\ Accepted("request") => AskedTwice'
  <2> SUFFICES ASSUME st = "ok", sent[i].op = "request", Accepted("request") PROVE AskedTwice'
    OBVIOUS
  <2>1. PICK j \in DOMAIN sent : sent[j].op = "request" /\ sent[j].state = "ok"
    BY DEF Accepted
  <2>2. j # i /\ j \in DOMAIN sent' /\ i \in DOMAIN sent'
        /\ sent'[j].op = "request" /\ sent'[i].op = "request"
    BY <1>2, <1>4, <1>6, <2>1
  <2> QED BY <2>2 DEF AskedTwice
<1>9. st = "ok" => /\ sent[i].op = "request" => bond'.posted = bond.posted
                   /\ sent[i].op = "claim" => ~bond'.posted /\ bond'.ends = 0
                   /\ sent[i].op \notin {"request", "claim"} => bond' = bond
  BY <1>1, <1>2, <1>3, ExecutesIs
<1>10. bond'.posted \/ Accepted("claim")'
  BY <1>1, <1>3, <1>5, <1>7, <1>9 DEF PanelOK
<1>11. bond'.ends # 0 => Accepted("request")'
  BY <1>1, <1>3, <1>5, <1>7, <1>9 DEF PanelOK
<1>12. hour' = hour /\ view' = view /\ underway' = underway /\ flow' = flow /\ modal' = modal
  BY DEF MineNext, pageVars
<1>13. Due => Due'
  <2> SUFFICES ASSUME Due PROVE Due'
    OBVIOUS
  <2>1. CASE AskedTwice \/ Accepted("claim")
    BY <1>5, <2>1 DEF Due
  <2>2. CASE /\ Accepted("request") /\ bond.posted /\ bond.ends # 0 /\ hour >= bond.ends
    <3>1. CASE st = "ok" /\ sent[i].op = "request"
      BY <1>8, <2>2, <3>1 DEF Due
    <3>2. CASE st = "ok" /\ sent[i].op = "claim"
      BY <1>7, <3>2 DEF Due
    <3>3. CASE bond' = bond
      BY <1>5, <1>12, <2>2, <3>3 DEF Due
    <3> QED BY <1>3, <1>9, <3>1, <3>2, <3>3
  <2> QED BY <2>1, <2>2 DEF Due
<1>14. ASSUME NEW b, Glimpsed(b) PROVE Glimpsed(b)'
  <2>1. CASE st = "ok" /\ sent[i].op = "request"
    BY <1>5, <1>8, <1>14, <2>1 DEF Glimpsed
  <2>2. CASE st = "ok" /\ sent[i].op = "claim"
    BY <1>5, <1>7, <1>14, <2>2 DEF Glimpsed
  <2>3. CASE bond' = bond
    BY <1>5, <1>14, <2>3 DEF Glimpsed
  <2> QED BY <1>3, <1>9, <2>1, <2>2, <2>3
<1>15. /\ \A b \in view'["bond"].raw : Glimpsed(b)'
       /\ \A r \in underway' : Glimpsed(r.first.value)'
  BY <1>1, <1>12, <1>14 DEF PanelOK
<1>16. /\ (\E j \in DOMAIN sent' : sent'[j].op = "claim") => Due'
       /\ flow'["claim"].pc = "sign" \/ modal'["claim"] # {} => Due'
  BY <1>1, <1>4, <1>6, <1>12, <1>13 DEF PanelOK
<1>17. ASSUME NEW j \in DOMAIN sent', sent'[j].op = "claim", sent'[j].state = "reverted"
       PROVE  \/ sent'[j].from # BondOwner \/ AskedTwice'
              \/ \E k \in DOMAIN sent' : k # j /\ sent'[k].op = "claim"
  <2>1. j \in DOMAIN sent /\ sent[j].op = "claim"
    BY <1>4, <1>6, <1>17
  <2>2. CASE j # i
    <3>1. sent[j].state = "reverted"
      BY <1>4, <1>17, <2>1, <2>2
    <3> QED BY <1>1, <1>4, <1>5, <1>6, <2>1, <3>1 DEF PanelOK
  <2>3. CASE j = i
    <3>1. st = "reverted" /\ ~Accepts(sent[i])
      BY <1>3, <1>4, <1>17, <2>3
    <3>2. Due /\ (bond.posted \/ Accepted("claim"))
      BY <1>1, <2>1 DEF PanelOK
    <3>3. sent[i].from # BondOwner \/ AskedTwice \/ Accepted("claim")
      BY <2>1, <2>3, <3>1, <3>2, DueIsAccepted
    <3>4. ASSUME Accepted("claim")
          PROVE  \E k \in DOMAIN sent' : k # j /\ sent'[k].op = "claim"
      <4>1. PICK k \in DOMAIN sent : sent[k].op = "claim" /\ sent[k].state = "ok"
        BY <3>4 DEF Accepted
      <4>2. k # j /\ k \in DOMAIN sent' /\ sent'[k].op = "claim"
        BY <1>2, <1>4, <1>6, <2>3, <4>1
      <4> QED BY <4>2
    <3>5. sent'[i].from = sent[i].from
      BY <1>6
    <3> QED BY <1>5, <2>3, <3>3, <3>4, <3>5
  <2> QED BY <2>2, <2>3
<1> QED BY <1>10, <1>11, <1>15, <1>16, <1>17 DEF PanelOK

\* A deposit that is mined was covered by the cap, and no call is about to add to it.
LEMMA MineFunds ==
  ASSUME WalletInv, surface = "sdk", ~spent.overlapped, NEW i \in DOMAIN sent, MineNext(i)
  PROVE  FundsOK'
<1>1. ChainTyped /\ FundsOK
  BY DEF WalletInv, FundsInv
<1>2. /\ sent \in Seq(TxRecords) /\ sent[i] \in TxRecords /\ sent[i].state = "sent"
      /\ account \in Wallets /\ purse[account].escrow \in Nat /\ sent[i].amount \in Nat
  BY <1>1, SentTyped DEF MineNext, ChainTyped, Purses
<1>3. PICK st \in {"ok", "reverted"} :
        /\ sent' = [sent EXCEPT ![i].state = st]
        /\ st = "ok" => Accepts(sent[i]) /\ Executes(sent[i])
        /\ st = "reverted" => purse' = purse
  BY DEF MineNext
<1>4. /\ SentGrows /\ DOMAIN sent' = DOMAIN sent /\ sent'[i].state = st
      /\ \A j \in DOMAIN sent : j # i => sent'[j] = sent[j]
  BY <1>1, <1>2, <1>3, SentMined
<1>5. \A j \in DOMAIN sent : /\ sent'[j].op = sent[j].op /\ sent'[j].from = sent[j].from
                             /\ sent'[j].amount = sent[j].amount
  BY <1>4 DEF SentGrows
<1>6. sent[i].from = account /\ sent[i].op \in {"approve", "deposit"}
  BY <1>1 DEF FundsOK
<1>7. account' = account /\ funding' = funding
  BY DEF MineNext
<1>8. \A c : FundingAt(c) <=> FundingAt(c)'
  BY <1>7 DEF FundingAt
<1>9. \A j \in DOMAIN sent' : Unmined(j)' => Unmined(j) /\ j # i /\ j \in DOMAIN sent
  <2>1. ASSUME NEW j \in DOMAIN sent', sent'[j].state = "sent"
        PROVE  sent[j].state = "sent" /\ j # i /\ j \in DOMAIN sent
    BY <1>3, <1>4, <2>1
  <2> QED BY <2>1 DEF Unmined
<1>10. CASE purse'[account].escrow = purse[account].escrow
  <2>1. purse'[account].escrow <= NeededCap
    BY <1>1, <1>10 DEF FundsOK
  <2>2. \A j \in DOMAIN sent' : sent'[j].from = account /\ sent'[j].op \in {"approve", "deposit"}
    BY <1>1, <1>4, <1>5 DEF FundsOK
  <2>3. \A c \in Fundings : FundingAt(c)' =>
          /\ purse'[account].escrow + funding[c].short <= NeededCap
          /\ \A j \in DOMAIN sent' : Unmined(j)' => sent'[j].op = "approve"
    BY <1>1, <1>5, <1>8, <1>9, <1>10 DEF FundsOK
  <2>4. \A j \in DOMAIN sent' : Unmined(j)' /\ sent'[j].op = "deposit" =>
          /\ purse'[account].escrow + sent'[j].amount <= NeededCap
          /\ \A k \in DOMAIN sent' : Unmined(k)' /\ sent'[k].op = "deposit" => k = j
    BY <1>1, <1>5, <1>9, <1>10 DEF FundsOK
  <2>5. \A c, d \in Fundings : FundingAt(c)' /\ FundingAt(d)' => c = d
    BY <1>1, <1>8 DEF FundsOK
  <2> QED BY <1>7, <2>1, <2>2, <2>3, <2>4, <2>5 DEF FundsOK
<1>11. CASE st = "ok" /\ sent[i].op = "deposit"
  <2>1. Unmined(i)
    BY <1>2 DEF Unmined
  <2>2. /\ purse[account].escrow + sent[i].amount <= NeededCap
        /\ \A k \in DOMAIN sent : Unmined(k) /\ sent[k].op = "deposit" => k = i
        /\ \A c \in Fundings : ~FundingAt(c)
    BY <1>1, <1>11, <2>1 DEF FundsOK
  <2>3. purse'[account].escrow = purse[account].escrow + sent[i].amount
    BY <1>1, <1>2, <1>3, <1>6, <1>11, ExecutesIs
  <2>4. \A j \in DOMAIN sent' : sent'[j].from = account /\ sent'[j].op \in {"approve", "deposit"}
    BY <1>1, <1>4, <1>5 DEF FundsOK
  <2>5. \A j \in DOMAIN sent' : ~(Unmined(j)' /\ sent'[j].op = "deposit")
    BY <1>5, <1>9, <2>2
  <2>6. \A c \in Fundings : ~FundingAt(c)'
    BY <1>8, <2>2
  <2> QED BY <1>7, <2>2, <2>3, <2>4, <2>5, <2>6 DEF FundsOK
<1>12. ASSUME ~(st = "ok" /\ sent[i].op = "deposit")
       PROVE  purse'[account].escrow = purse[account].escrow
  <2>1. CASE st = "reverted"
    BY <1>3, <2>1
  <2>2. CASE st = "ok" /\ sent[i].op = "approve"
    BY <1>1, <1>2, <1>3, <2>2, ExecutesIs
  <2> QED BY <1>3, <1>6, <1>12, <2>1, <2>2
<1> QED BY <1>10, <1>11, <1>12

LEMMA MiningKeeps == ASSUME WalletInv, NEW i \in DOMAIN sent, MineNext(i) PROVE WalletInv'
<1>1. ChainTyped /\ FlowInv /\ ViewInv /\ FundsInv
  BY DEF WalletInv
<1>2. sent[i] \in TxRecords /\ sent[i].state = "sent"
  BY <1>1, SentTyped DEF MineNext
<1>3. PICK st \in {"ok", "reverted"} :
        /\ sent' = [sent EXCEPT ![i].state = st]
        /\ st = "ok" => Accepts(sent[i]) /\ Executes(sent[i])
        /\ st = "reverted" => purse' = purse /\ bond' = bond
  BY DEF MineNext
<1>4. SentGrows
  BY <1>1, <1>2, <1>3, SentMined
<1>5. UNCHANGED <<surface, account, hour, flow, watch, modal, view, underway, epoch,
                  panelHour, funding, spent>>
  BY DEF MineNext, pageVars
<1>6. ChainTyped'
  <2>1. purse' \in [Wallets -> Purses] /\ bond' \in Bonds
    BY <1>1, <1>2, <1>3, ExecutesIs DEF ChainTyped
  <2> QED BY <1>1, <1>4, <1>5, <2>1 DEF ChainTyped, SentGrows
<1>7. FlowInv'
  BY <1>1, <1>4, <1>5, FlowsRest
<1>8. ViewInv'
  BY <1>1, <1>5, ViewsRest
<1>9. PanelInv'
  BY <1>5, MinePanel DEF PanelInv, Undisturbed
<1>10. FundsInv'
  BY <1>1, <1>5, MineFunds DEF FundsInv
<1> QED BY <1>6, <1>7, <1>8, <1>9, <1>10 DEF WalletInv

\* A step of the surface, the chain apart from its transactions, or the SDK.
LEMMA AsideKeeps ==
  ASSUME WalletInv, ChainTyped', ViewInv', FundsInv',
         UNCHANGED <<surface, flow, watch, modal>>, sent' = sent,
         surface = "panel" /\ spent'.elsewhere = 0 =>
           /\ spent.elsewhere = 0 /\ bond' = bond /\ hour' >= hour
           /\ \A b \in view'["bond"].raw : Glimpsed(b)
           /\ \A r \in underway' : Glimpsed(r.first.value)
  PROVE  WalletInv'
<1>1. ChainTyped /\ FlowInv /\ PanelInv
  BY DEF WalletInv
<1>2. SentGrows
  BY <1>1, SentStays
<1>3. FlowInv'
  BY <1>1, <1>2, FlowsRest
<1>4. PanelInv'
  <2> SUFFICES ASSUME surface = "panel", spent'.elsewhere = 0 PROVE PanelOK'
    BY DEF PanelInv
  <2>1. PanelOK /\ hour' \in Nat
    BY <1>1 DEF PanelInv, ChainTyped
  <2>2. flow'["claim"].pc = "sign" \/ modal'["claim"] # {} => Due
    BY <2>1 DEF PanelOK
  <2> QED BY <1>1, <1>2, <2>1, <2>2, PanelRest
<1> QED BY <1>3, <1>4 DEF WalletInv

LEMMA GlimpsesAre ==
  ASSUME WalletInv, surface = "panel", spent.elsewhere = 0
  PROVE  /\ \A b \in view["bond"].raw : Glimpsed(b)
         /\ \A r \in underway : Glimpsed(r.first.value)
         /\ Glimpsed(bond)
BY DEF WalletInv, PanelInv, PanelOK, Glimpsed

LEMMA ElsewhereKeeps == ASSUME WalletInv, Elsewhere PROVE WalletInv'
<1>1. ChainTyped /\ ViewInv /\ FundsInv
  BY DEF WalletInv
<1>2. UNCHANGED <<surface, account, hour, sent, flow, watch, modal, view, underway, epoch,
                  panelHour, funding>>
  BY DEF Elsewhere, pageVars
<1>3. spent \in SpentRecords /\ spent' = [spent EXCEPT !.elsewhere = @ + 1]
  BY <1>1 DEF FundsInv, SpentRecords, Elsewhere
<1>4. spent' \in SpentRecords /\ spent'.elsewhere # 0 /\ spent'.overlapped = spent.overlapped
  BY <1>3 DEF SpentRecords
<1>5. /\ purse' \in [Wallets -> Purses]
      /\ \A a \in Wallets : purse'[a].escrow <= purse[a].escrow
  <2>1. \A a \in Wallets : purse[a] \in Purses /\ purse[a].escrow \in Nat
    BY <1>1 DEF ChainTyped, Purses
  <2>2. CASE purse' = purse
    BY <1>1, <2>1, <2>2 DEF ChainTyped
  <2>3. ASSUME NEW a \in Wallets, purse[a].escrow > 0, purse' = [purse EXCEPT ![a].escrow = @ - 1]
        PROVE  /\ purse' \in [Wallets -> Purses]
               /\ \A c \in Wallets : purse'[c].escrow <= purse[c].escrow
    <3> DEFINE y == [purse[a] EXCEPT !.escrow = @ - 1]
    <3>1. y \in Purses /\ y.escrow = purse[a].escrow - 1
      BY <2>1, <2>3 DEF Purses
    <3>2. purse' = [purse EXCEPT ![a] = y]
      BY <2>3
    <3> HIDE DEF y
    <3> QED BY <1>1, <2>1, <3>1, <3>2 DEF ChainTyped
  <2> QED BY <2>2, <2>3 DEF Elsewhere
<1>6. bond' \in Bonds
  <2>1. bond \in Bonds
    BY <1>1 DEF ChainTyped
  <2>2. bond' \in {bond, [bond EXCEPT !.posted = FALSE], [posted |-> TRUE, ends |-> 0]}
    BY DEF Elsewhere
  <2>3. [bond EXCEPT !.posted = FALSE] \in Bonds /\ [posted |-> TRUE, ends |-> 0] \in Bonds
    BY <2>1 DEF Bonds
  <2> QED BY <2>1, <2>2, <2>3
<1>7. ChainTyped'
  BY <1>1, <1>2, <1>5, <1>6 DEF ChainTyped
<1>8. ViewInv'
  BY <1>1, <1>2, ViewsRest
<1>9. FundsInv'
  <2> SUFFICES ASSUME surface = "sdk", ~spent.overlapped PROVE FundsOK'
    BY <1>1, <1>2, <1>4 DEF FundsInv, SpentRecords
  <2>1. FundsOK /\ account \in Wallets /\ NeededCap \in Nat
    BY <1>1, WalletAssumption DEF FundsInv, ChainTyped
  <2>2. purse'[account].escrow \in Nat /\ purse[account].escrow \in Nat
        /\ purse'[account].escrow <= purse[account].escrow
    BY <1>1, <1>5, <2>1 DEF ChainTyped, Purses
  <2>3. \A c \in Fundings : FundingAt(c)' => FundingAt(c)
    BY <1>2 DEF FundingAt
  <2>4. \A j \in DOMAIN sent : Unmined(j)' => Unmined(j)
    BY <1>2 DEF Unmined
  <2>5. \A c \in Fundings : FundingAt(c)' => purse'[account].escrow + funding[c].short <= NeededCap
    <3>1. \A c \in Fundings : funding[c].short \in Nat
      BY <1>1 DEF FundsInv
    <3> QED BY <2>1, <2>2, <2>3, <3>1 DEF FundsOK
  <2>6. \A j \in DOMAIN sent : Unmined(j)' /\ sent[j].op = "deposit" =>
          purse'[account].escrow + sent[j].amount <= NeededCap
    <3>1. \A j \in DOMAIN sent : sent[j].amount \in Nat
      BY <1>1, SentTyped
    <3> QED BY <2>1, <2>2, <2>4, <3>1 DEF FundsOK
  <2> QED BY <1>2, <2>1, <2>2, <2>3, <2>4, <2>5, <2>6 DEF FundsOK
<1> QED BY <1>2, <1>4, <1>7, <1>8, <1>9, AsideKeeps

LEMMA BlockTimeKeeps == ASSUME WalletInv, BlockTime PROVE WalletInv'
<1>1. ChainTyped /\ ViewInv /\ FundsInv
  BY DEF WalletInv
<1>2. UNCHANGED <<surface, account, purse, bond, sent, flow, watch, modal, view, underway,
                  epoch, panelHour, funding, spent>> /\ surface = "panel"
  BY DEF BlockTime, pageVars
<1>3. hour' = hour + 1 /\ hour < MaxHour /\ MaxHour \in Nat /\ hour \in 1 .. MaxHour
  BY <1>1, WalletAssumption DEF BlockTime, ChainTyped
<1>4. ChainTyped'
  BY <1>1, <1>2, <1>3 DEF ChainTyped
<1>5. ViewInv'
  BY <1>1, <1>2, ViewsRest
<1>6. FundsInv'
  BY <1>1, <1>2 DEF FundsInv
<1>7. hour' >= hour
  BY <1>3
<1> QED BY <1>2, <1>4, <1>5, <1>6, <1>7, GlimpsesAre, AsideKeeps

LEMMA SwitchKeeps ==
  ASSUME WalletInv, NEW a \in Wallets, surface # "sdk", SwitchAccount(a) PROVE WalletInv'
<1>1. ChainTyped /\ FlowInv /\ ViewInv /\ FundsInv
  BY DEF WalletInv
<1>2. UNCHANGED <<surface, purse, bond, hour, sent, flow, watch, modal, panelHour, funding>>
      /\ account' = a
  BY DEF SwitchAccount, chainVars
<1>3. spent' \in SpentRecords /\ spent'.elsewhere = spent.elsewhere
  BY <1>1 DEF FundsInv, SpentRecords, SwitchAccount
<1>4. ChainTyped'
  BY <1>1, <1>2 DEF ChainTyped
<1>5. FundsInv'
  BY <1>1, <1>2, <1>3 DEF FundsInv, SpentRecords
<1>6. SentGrows
  BY <1>1, <1>2, SentStays
<1>7. FlowInv'
  BY <1>1, <1>2, <1>6, FlowsRest
<1>8. CASE surface = "panel"
  <2>1. UNCHANGED <<view, underway, epoch>>
    BY <1>8 DEF SwitchAccount
  <2>2. Views = {"bond"} /\ Views' = Views /\ Forms' = Forms /\ Lookups' = Lookups
    BY <1>1, <1>2, <1>8, PanelIs DEF Views, Forms, Lookups
  <2>3. ASSUME NEW v \in Views, NEW who, NEW seen, Saw(v, who, seen) PROVE Saw(v, who, seen)'
    BY <1>2, <2>2, <2>3 DEF Saw
  <2>4. \A v \in Views : ~view[v].loading /\ view[v].raw # {} =>
          \A f \in Forms : flow[f].status = "done" => flow[f].hash \in view[v].seen
    BY <1>1 DEF ViewInv, Saw
  <2>5. \A v \in Views : ~view'[v].loading /\ view'[v].raw # {} =>
          Saw(v, view[v].who, view[v].seen)'
    BY <1>2, <2>1, <2>2, <2>4 DEF Saw
  <2>6. \A r \in underway : r.epoch = epoch => Saw(r.view, r.who, r.first.seen)'
    <3>1. \A r \in underway : r.view \in Views
      BY <1>1 DEF ViewInv, Lookups
    <3> QED BY <1>1, <2>3, <3>1 DEF ViewInv
  <2>7. ViewInv'
    <3>1. /\ view' \in [Views -> ViewRecords] /\ underway' \subseteq Lookups /\ epoch' \in Nat
          /\ \A r \in underway' : r.epoch <= epoch'
      BY <1>1, <2>1 DEF ViewInv
    <3> QED BY <2>1, <2>2, <2>5, <2>6, <3>1 DEF ViewInv
  <2>8. hour' >= hour
    BY <1>1, <1>2 DEF ChainTyped
  <2> QED BY <1>2, <1>3, <1>4, <1>5, <1>8, <2>1, <2>7, <2>8, GlimpsesAre, AsideKeeps
<1>9. CASE surface # "panel"
  <2>1. Rekey(a)
    BY <1>9 DEF SwitchAccount
  <2>2. ViewInv'
    BY <1>1, <1>2, <1>7, <2>1, RekeyKeeps
  <2> QED BY <1>2, <1>4, <1>5, <1>9, <2>2, AsideKeeps
<1> QED BY <1>8, <1>9

LEMMA ViewMovesKeep == ASSUME WalletInv, ViewMoves PROVE WalletInv'
<1>1. ChainTyped /\ FlowInv /\ ViewInv /\ FundsInv
  BY DEF WalletInv
<1>2. UNCHANGED <<surface, account, purse, bond, hour, sent, flow, watch, modal, epoch,
                  panelHour, funding, spent>>
  BY DEF ViewMoves, chainVars
<1>3. PICK r \in underway : Lands(r)
  BY DEF ViewMoves, EarningsShown, BondShown
<1>4. ViewInv'
  BY <1>1, <1>2, <1>3, LandsKeeps
<1>5. ChainTyped' /\ FundsInv'
  <2>1. ChainTyped'
    BY <1>1, <1>2 DEF ChainTyped
  <2>2. FundsOK => FundsOK'
    BY <1>2 DEF FundsOK, FundingAt, Unmined
  <2>3. FundsInv'
    BY <1>1, <1>2, <2>2 DEF FundsInv
  <2> QED BY <2>1, <2>3
<1>6. ASSUME surface = "panel", spent.elsewhere = 0
      PROVE  /\ \A b \in view'["bond"].raw : Glimpsed(b)
             /\ \A q \in underway' : Glimpsed(q.first.value)
  <2>1. /\ \A b \in view["bond"].raw : Glimpsed(b)
        /\ \A q \in underway : Glimpsed(q.first.value)
        /\ Glimpsed(bond)
    BY <1>6, GlimpsesAre
  <2>2. Views = {"bond"} /\ view \in [Views -> ViewRecords] /\ r.view = "bond"
    BY <1>1, <1>6, PanelIs DEF ViewInv, Lookups
  <2>3. underway' \subseteq underway
    BY <1>3 DEF Lands
  <2>4. CASE view' = view
    BY <2>1, <2>3, <2>4
  <2>5. CASE view' # view /\ Shows(r)
    <3>1. PICK g \in {r.first, Taken(r.view, r.who)} :
            view' = [view EXCEPT ![r.view] = [raw |-> {g.value}, who |-> r.who, seen |-> g.seen,
                                              loading |-> FALSE]]
      BY <2>5 DEF Shows
    <3>2. Taken(r.view, r.who).value = bond
      BY <2>2 DEF Taken, BondNow
    <3>3. Glimpsed(g.value)
      BY <2>1, <3>1, <3>2
    <3>4. view'["bond"].raw = {g.value}
      BY <2>2, <3>1
    <3> QED BY <2>1, <2>3, <3>3, <3>4
  <2>6. CASE view' = [view EXCEPT ![r.view] = [Unread(r.who) EXCEPT !.loading = FALSE]]
    <3>1. view'["bond"].raw = {}
      BY <2>2, <2>6 DEF Unread
    <3> QED BY <2>1, <2>3, <3>1
  <2> QED BY <1>3, <2>4, <2>5, <2>6 DEF Lands
<1>7. hour' >= hour
  BY <1>1, <1>2 DEF ChainTyped
<1> QED BY <1>2, <1>4, <1>5, <1>6, <1>7, AsideKeeps

-----------------------------------------------------------------------------
LEMMA SdkKeeps ==
  ASSUME WalletInv, surface = "sdk", SentGrows,
         UNCHANGED <<surface, account, purse, bond, hour, flow, watch, modal, view, underway,
                     epoch, panelHour>>,
         FundsInv'
  PROVE  WalletInv'
<1>1. ChainTyped /\ FlowInv /\ ViewInv
  BY DEF WalletInv
<1>2. ChainTyped'
  BY <1>1 DEF ChainTyped, SentGrows
<1>3. FlowInv'
  BY <1>1, FlowsRest
<1>4. ViewInv'
  BY <1>1, ViewsRest
<1>5. PanelInv'
  BY DEF PanelInv
<1> QED BY <1>2, <1>3, <1>4, <1>5 DEF WalletInv

FundingRecords == [pc : {"idle", "short", "approve", "deposit", "done", "threw"}, short : Nat]

LEMMA FundsAre ==
  ASSUME WalletInv, NEW c \in Fundings, NEW to, NEW short, Funds(c, to, short),
         [pc |-> to, short |-> short] \in FundingRecords
  PROVE  /\ funding' \in [Fundings -> FundingRecords]
         /\ funding'[c].pc = to /\ funding'[c].short = short
         /\ \A d \in Fundings : d # c => funding'[d] = funding[d]
<1>1. funding \in [Fundings -> FundingRecords]
  BY DEF WalletInv, FundsInv, FundingRecords
<1> HIDE DEF FundingRecords
<1> QED BY <1>1 DEF Funds

\* A call that begins with nothing under way reads all that was deposited.
LEMMA ReadBalanceKeeps ==
  ASSUME WalletInv, NEW c \in Fundings, ReadBalance(c) PROVE WalletInv'
<1>1. ChainTyped /\ FundsInv
  BY DEF WalletInv
<1> DEFINE e == purse[account].escrow
<1>2. e \in Nat /\ NeededCap \in Nat
  BY <1>1, WalletAssumption DEF ChainTyped, Purses
<1>3. /\ UNCHANGED <<surface, account, purse, bond, hour, sent, flow, watch, modal, view,
                     underway, epoch, panelHour>>
      /\ surface = "sdk"
  <2>1. UNCHANGED <<surface, account, chainVars, sent, pageVars>> /\ surface = "sdk"
    BY DEF ReadBalance
  <2> QED BY <2>1 DEF chainVars, pageVars
<1>4. SentGrows /\ sent' = sent
  BY <1>1, <1>3, SentStays
<1>5. spent' \in SpentRecords
      /\ (~spent'.overlapped => ~spent.overlapped /\ ~Working /\ Settled = DOMAIN sent)
  <2>1. spent \in SpentRecords
    BY <1>1 DEF FundsInv, SpentRecords
  <2>2. spent' = [spent EXCEPT !.overlapped = spent.overlapped \/ Working \/ Settled # DOMAIN sent]
    BY DEF ReadBalance
  <2>3. (spent.overlapped \/ Working \/ Settled # DOMAIN sent) \in BOOLEAN
    OBVIOUS
  <2> QED BY <2>1, <2>2, <2>3 DEF SpentRecords
<1>6. /\ funding' \in [Fundings -> FundingRecords]
      /\ \A d \in Fundings : d # c => funding'[d] = funding[d]
      /\ funding'[c].pc = "done" \/ (funding'[c].short = NeededCap - e /\ e <= NeededCap)
  <2>1. CASE e >= NeededCap
    <3>1. Funds(c, "done", 0)
      BY <2>1 DEF ReadBalance
    <3>2. [pc |-> "done", short |-> 0] \in FundingRecords
      BY DEF FundingRecords
    <3> QED BY <3>1, <3>2, FundsAre
  <2>2. CASE ~(e >= NeededCap)
    <3>1. Funds(c, "short", NeededCap - e)
      BY <2>2 DEF ReadBalance
    <3>2. [pc |-> "short", short |-> NeededCap - e] \in FundingRecords
      BY <1>2, <2>2 DEF FundingRecords
    <3> HIDE DEF e
    <3> QED BY <1>2, <2>2, <3>1, <3>2, FundsAre
  <2> QED BY <2>1, <2>2
<1> HIDE DEF e
<1>7. ASSUME ~spent'.overlapped PROVE FundsOK'
  <2>1. FundsOK /\ ~Working /\ Settled = DOMAIN sent
    BY <1>1, <1>3, <1>5, <1>7 DEF FundsInv
  <2>2. \A d \in Fundings : ~FundingAt(d)
    BY <2>1 DEF Working, FundingAt
  <2>3. \A i \in DOMAIN sent : ~(sent[i].state = "sent")
    BY <2>1 DEF Settled
  <2>4. \A i \in DOMAIN sent' : ~Unmined(i)'
    BY <1>4, <2>3 DEF Unmined
  <2>5. \A d \in Fundings : FundingAt(d)' => d = c
    BY <1>6, <2>2 DEF FundingAt
  <2>6. FundingAt(c)' => purse'[account'].escrow + funding'[c].short <= NeededCap
    <3>1. FundingAt(c)' => funding'[c].pc # "done"
      BY DEF FundingAt
    <3> QED BY <1>2, <1>3, <1>6, <3>1 DEF e
  <2>7. purse'[account'].escrow <= NeededCap
    BY <1>3, <2>1 DEF FundsOK
  <2>8. \A i \in DOMAIN sent' : sent'[i].from = account' /\ sent'[i].op \in {"approve", "deposit"}
    BY <1>3, <2>1 DEF FundsOK
  <2>9. \A d \in Fundings : FundingAt(d)' => purse'[account'].escrow + funding'[d].short <= NeededCap
    BY <2>5, <2>6
  <2> QED BY <2>4, <2>5, <2>7, <2>8, <2>9 DEF FundsOK
<1>8. FundsInv'
  BY <1>3, <1>5, <1>6, <1>7 DEF FundsInv, FundingRecords, SpentRecords
<1> QED BY <1>3, <1>4, <1>8, SdkKeeps

LEMMA ReadAllowanceKeeps ==
  ASSUME WalletInv, NEW c \in Fundings, ReadAllowance(c), surface = "sdk" PROVE WalletInv'
<1>1. ChainTyped /\ FundsInv
  BY DEF WalletInv
<1>2. UNCHANGED <<surface, account, purse, bond, hour, sent, flow, watch, modal, view,
                  underway, epoch, panelHour, spent>>
  BY DEF ReadAllowance, chainVars, pageVars
<1>3. SentGrows
  BY <1>1, <1>2, SentStays
<1>4. PICK to \in {"approve", "deposit"} : Funds(c, to, funding[c].short)
  BY DEF ReadAllowance
<1>5. [pc |-> to, short |-> funding[c].short] \in FundingRecords
  BY <1>1 DEF FundsInv, FundingRecords
<1>6. /\ funding' \in [Fundings -> FundingRecords]
      /\ funding'[c].pc = to /\ funding'[c].short = funding[c].short
      /\ \A d \in Fundings : d # c => funding'[d] = funding[d]
  BY <1>4, <1>5, FundsAre
<1>7. \A d \in Fundings : FundingAt(d)' <=> FundingAt(d)
  <2>1. FundingAt(c) /\ FundingAt(c)'
    BY <1>4, <1>6 DEF FundingAt, ReadAllowance
  <2>2. \A d \in Fundings : d # c => (FundingAt(d)' <=> FundingAt(d))
    BY <1>6 DEF FundingAt
  <2> QED BY <2>1, <2>2
<1>8. \A d \in Fundings : funding'[d].short = funding[d].short
  BY <1>6
<1>9. FundsOK => FundsOK'
  <2>1. \A i \in DOMAIN sent : Unmined(i)' <=> Unmined(i)
    BY <1>2 DEF Unmined
  <2> QED BY <1>2, <1>7, <1>8, <2>1 DEF FundsOK
<1>10. FundsInv'
  BY <1>1, <1>2, <1>6, <1>9 DEF FundsInv, FundingRecords
<1> QED BY <1>2, <1>3, <1>10, SdkKeeps

\* What a call deposits is the shortfall it read, with no other deposit on its way.
LEMMA SubmitFundingKeeps ==
  ASSUME WalletInv, NEW c \in Fundings, SubmitFunding(c), surface = "sdk" PROVE WalletInv'
<1>1. ChainTyped /\ FundsInv
  BY DEF WalletInv
<1>2. UNCHANGED <<surface, account, purse, bond, hour, flow, watch, modal, view,
                  underway, epoch, panelHour, spent>>
  BY DEF SubmitFunding, chainVars, pageVars
<1>3. funding[c] \in FundingRecords /\ funding[c].short \in Nat
      /\ funding[c].pc \in {"approve", "deposit"} /\ FundingAt(c)
  BY <1>1 DEF FundsInv, FundingRecords, SubmitFunding, FundingAt
<1>4. CASE Funds(c, "threw", 0) /\ sent' = sent
  <2>1. [pc |-> "threw", short |-> 0] \in FundingRecords
    BY DEF FundingRecords
  <2>2. /\ funding' \in [Fundings -> FundingRecords] /\ funding'[c].pc = "threw"
        /\ \A d \in Fundings : d # c => funding'[d] = funding[d]
    BY <1>4, <2>1, FundsAre
  <2>3. \A d \in Fundings : FundingAt(d)' => FundingAt(d) /\ funding'[d].short = funding[d].short
    BY <2>2 DEF FundingAt
  <2>4. \A i \in DOMAIN sent : Unmined(i)' <=> Unmined(i)
    BY <1>4 DEF Unmined
  <2>5. FundsOK => FundsOK'
    BY <1>2, <1>4, <2>3, <2>4 DEF FundsOK
  <2>6. FundsInv'
    BY <1>1, <1>2, <2>2, <2>5 DEF FundsInv, FundingRecords
  <2>7. SentGrows
    BY <1>1, <1>4, SentStays
  <2> QED BY <1>2, <2>6, <2>7, SdkKeeps
<1>5. CASE ~(Funds(c, "threw", 0) /\ sent' = sent)
  <2> DEFINE op == funding[c].pc
             n == Len(sent) + 1
             to == IF op = "approve" THEN "deposit" ELSE "done"
  <2>1. Broadcast(op, funding[c].short) /\ Funds(c, to, funding[c].short)
    BY <1>5 DEF SubmitFunding
  <2>2. [pc |-> to, short |-> funding[c].short] \in FundingRecords
    BY <1>3 DEF FundingRecords
  <2>3. /\ funding' \in [Fundings -> FundingRecords] /\ funding'[c].pc = to
        /\ funding'[c].short = funding[c].short
        /\ \A d \in Fundings : d # c => funding'[d] = funding[d]
    <3> HIDE DEF to
    <3> QED BY <2>1, <2>2, FundsAre
  <2>4. op \in OpNames
    BY <1>3 DEF OpNames
  <2>5. /\ SentGrows /\ DOMAIN sent' = 1 .. n /\ DOMAIN sent = 1 .. (n - 1) /\ n \in Nat \ {0}
        /\ sent'[n] = [from |-> account, op |-> op, amount |-> funding[c].short, state |-> "sent"]
        /\ \A j \in DOMAIN sent : sent'[j] = sent[j] /\ j # n
    <3>1. Len(sent) \in Nat /\ DOMAIN sent = 1 .. Len(sent)
      BY <1>1, SentTyped
    <3> HIDE DEF op
    <3>2. /\ SentGrows /\ DOMAIN sent' = 1 .. n
          /\ sent'[n] = [from |-> account, op |-> op, amount |-> funding[c].short, state |-> "sent"]
          /\ \A j \in DOMAIN sent : sent'[j] = sent[j] /\ j # n
      BY <1>1, <1>3, <2>1, <2>4, SentAppended
    <3> QED BY <3>1, <3>2
  <2> HIDE DEF n
  <2>6. /\ sent'[n].from = account /\ sent'[n].op = op /\ sent'[n].amount = funding[c].short
        /\ \A j \in DOMAIN sent' : j # n => j \in DOMAIN sent
    BY <2>5
  <2>7. ASSUME FundsOK PROVE FundsOK'
    <3>1. \A j \in DOMAIN sent : Unmined(j)' <=> Unmined(j)
      BY <2>5 DEF Unmined
    <3>2. /\ purse[account].escrow + funding[c].short <= NeededCap
          /\ \A j \in DOMAIN sent : Unmined(j) => sent[j].op = "approve"
          /\ \A d \in Fundings : FundingAt(d) => d = c
      BY <1>3, <2>7 DEF FundsOK
    <3>3. \A d \in Fundings : FundingAt(d)' => d = c /\ op = "approve"
      <4>1. \A d \in Fundings : d # c => (FundingAt(d)' => FundingAt(d))
        BY <2>3 DEF FundingAt
      <4>2. FundingAt(c)' => to # "done"
        BY <2>3 DEF FundingAt
      <4>3. op = "approve" \/ to = "done"
        OBVIOUS
      <4> QED BY <3>2, <4>1, <4>2, <4>3
    <3>4. \A j \in DOMAIN sent' : sent'[j].from = account' /\ sent'[j].op \in {"approve", "deposit"}
      BY <1>2, <1>3, <2>5, <2>6, <2>7 DEF FundsOK
    <3>5. \A j \in DOMAIN sent' : Unmined(j)' /\ sent'[j].op = "deposit" => j = n
      BY <2>5, <2>6, <3>1, <3>2
    <3>6. \A d \in Fundings : FundingAt(d)' =>
            /\ purse'[account'].escrow + funding'[d].short <= NeededCap
            /\ \A j \in DOMAIN sent' : Unmined(j)' => sent'[j].op = "approve"
      BY <1>2, <2>3, <2>5, <2>6, <3>1, <3>2, <3>3
    <3>7. purse'[account'].escrow <= NeededCap
      BY <1>2, <2>7 DEF FundsOK
    <3> HIDE DEF op, to
    <3> QED BY <1>2, <2>6, <3>2, <3>3, <3>4, <3>5, <3>6, <3>7 DEF FundsOK
  <2>8. FundsInv'
    BY <1>1, <1>2, <2>3, <2>7 DEF FundsInv, FundingRecords
  <2> QED BY <1>2, <2>5, <2>8, SdkKeeps
<1> QED BY <1>4, <1>5

LEMMA WalletStep == WalletInv /\ [WalletNext]_walletVars => WalletInv'
<1> SUFFICES ASSUME WalletInv, [WalletNext]_walletVars PROVE WalletInv'
  OBVIOUS
<1>1. CASE UNCHANGED walletVars
  <2>1. UNCHANGED <<surface, account, purse, bond, hour, sent, flow, watch, modal, view,
                    underway, epoch, panelHour, funding, spent>>
    BY <1>1 DEF walletVars
  <2>2. ChainTyped /\ ViewInv /\ FundsInv
    BY DEF WalletInv
  <2>3. ChainTyped' /\ hour' >= hour
    BY <2>1, <2>2 DEF ChainTyped
  <2>4. ViewInv'
    BY <2>1, <2>2, ViewsRest
  <2>5. FundsOK => FundsOK'
    BY <2>1 DEF FundsOK, FundingAt, Unmined
  <2>6. FundsInv'
    BY <2>1, <2>2, <2>5 DEF FundsInv
  <2> QED BY <2>1, <2>3, <2>4, <2>6, GlimpsesAre, AsideKeeps
<1>2. CASE \E i \in DOMAIN sent : MineNext(i)
  BY <1>2, MiningKeeps
<1>3. CASE Elsewhere \/ BlockTime
  BY <1>3, ElsewhereKeeps, BlockTimeKeeps
<1>4. CASE \E a \in Wallets : surface # "sdk" /\ SwitchAccount(a)
  BY <1>4, SwitchKeeps
<1>5. CASE ViewMoves
  BY <1>5, ViewMovesKeep
<1>6. CASE \E amount \in Sums : SubmitDeposit(amount) \/ OpenWithdraw(amount)
  BY <1>6, DepositKeeps, OpenWithdrawKeeps
<1>7. CASE RequestWithdrawal \/ OpenClaim
  BY <1>7, RequestKeeps, OpenClaimKeeps
<1>8. CASE \E f \in Forms : \/ Cancel(f) \/ Confirm(f) \/ SignNext(f) \/ Refuse(f)
                           \/ ReceiptRejects(f) \/ ReceiptLost(f) \/ Confirmed(f)
  BY <1>8, CancelKeeps, ConfirmKeeps, SignKeeps, RefuseKeeps, RejectsKeep, LostKeeps,
     ConfirmedKeeps
<1>9. CASE \E c \in Fundings : ReadBalance(c) \/ ReadAllowance(c) \/ SubmitFunding(c)
  <2>1. PICK c \in Fundings : ReadBalance(c) \/ ReadAllowance(c) \/ SubmitFunding(c)
    BY <1>9
  <2>2. ReadAllowance(c) \/ SubmitFunding(c) => surface = "sdk"
    BY DEF WalletInv, FundsInv, ReadAllowance, SubmitFunding
  <2> QED BY <2>1, <2>2, ReadBalanceKeeps, ReadAllowanceKeeps, SubmitFundingKeeps
<1> QED BY <1>1, <1>2, <1>3, <1>4, <1>5, <1>6, <1>7, <1>8, <1>9 DEF WalletNext

LEMMA WalletTyped == WalletInv => WalletTypeOK
<1> SUFFICES ASSUME WalletInv PROVE WalletTypeOK
  OBVIOUS
<1>1. ChainTyped /\ FlowInv /\ ViewInv
  BY DEF WalletInv
<1>2. ASSUME NEW f \in Forms
      PROVE  /\ flow[f].status \in {"idle", "busy", "done", "error"}
             /\ flow[f].pc \in {"none", "sign", "mine"}
             /\ flow[f].hash \in 0 .. Len(sent) /\ watch[f].pending \in 0 .. Len(sent)
  <2>1. flow[f] \in FlowRecords /\ FlowFits(f, flow[f], watch[f], modal[f], sent)
        /\ Len(sent) \in Nat
    BY <1>1, FlowAt, SentTyped
  <2> QED BY <2>1 DEF FlowFits, FlowRecords
<1>3. \A r \in underway : r.view \in Views /\ r.who \in Wallets /\ r.epoch <= epoch
  BY <1>1 DEF ViewInv, Lookups
<1> QED BY <1>1, <1>2, <1>3 DEF WalletTypeOK, ChainTyped, Purses

LEMMA WalletHolds == WalletInv => WalletOK
<1> SUFFICES ASSUME WalletInv PROVE WalletOK
  OBVIOUS
<1>1. ChainTyped /\ FlowInv /\ ViewInv /\ PanelInv /\ FundsInv
  BY DEF WalletInv
<1>2. ShownIsCurrent
  BY <1>1 DEF ViewInv, Saw, ShownIsCurrent
<1>3. \A f \in Forms : FlowFits(f, flow[f], watch[f], modal[f], sent)
  BY <1>1, FlowAt
<1>4. NobodyWaitsInVain
  BY <1>3 DEF NobodyWaitsInVain, FlowFits
<1>5. ReportsTruth
  <2>1. \A f \in Forms : Steps(f)[Len(Steps(f))] = f
    BY <1>1, FormsAre, StepsAre
  <2> QED BY <1>3, <2>1 DEF ReportsTruth, FlowFits
<1>6. ClaimsAreDue
  <2> SUFFICES ASSUME surface = "panel", spent.elsewhere = 0, NEW i \in DOMAIN sent,
                      sent[i].op = "claim", sent[i].state = "reverted"
               PROVE  \/ sent[i].from # BondOwner
                      \/ \E j \in DOMAIN sent : j # i /\ sent[j].op = "claim"
                      \/ \E j, k \in DOMAIN sent : j # k /\ {sent[j].op, sent[k].op} = {"request"}
    BY DEF ClaimsAreDue
  <2>1. \/ sent[i].from # BondOwner \/ AskedTwice
        \/ \E j \in DOMAIN sent : j # i /\ sent[j].op = "claim"
    BY <1>1 DEF PanelInv, PanelOK
  <2>2. AskedTwice => \E j, k \in DOMAIN sent : j # k /\ {sent[j].op, sent[k].op} = {"request"}
    BY DEF AskedTwice
  <2> QED BY <2>1, <2>2
<1>7. FundedOnce
  BY <1>1 DEF FundsInv, FundsOK, FundedOnce
<1> QED BY <1>2, <1>4, <1>5, <1>6, <1>7 DEF WalletOK

\* Whatever accounts are switched, receipts lost and calls begun, by any number of
\* them: a view that is not loading shows the connected account after what is reported
\* done, no flow waits for a receipt that nobody watches, reports are true, the panel
\* claims no bond before it is due, and calls begun one after another deposit a
\* shortfall once (useDeposit.ts:92-120, BondReclaimPanel.tsx:70-86, deposit.ts:98-180).
THEOREM WalletIsTrue == WalletSpec => []WalletOK
<1>1. WalletInv /\ [WalletNext]_walletVars => WalletInv'
  BY WalletStep
<1>2. WalletInv => WalletOK
  BY WalletHolds
<1> QED BY WalletStart, <1>1, <1>2, PTL DEF WalletSpec

-----------------------------------------------------------------------------
(***************************************************************************)
(* What the invariants above leave out of the types of the components.     *)
(***************************************************************************)
\* The clock, the window and the answers of batching.
BatchAside ==
  /\ clock \in Nat /\ windowStart \in 0..clock \cup {None}
  /\ arrived \in [Debits -> 0..clock] /\ total \in [Debits -> Nat]
  /\ results \subseteq Seqs
  /\ answer \in [Debits -> {"none", "receipt", "accrued", "error"}]

LEMMA BatchAsideStart == BatchInit => BatchAside
BY BatchAssumption DEF BatchInit, BatchAside, None

LEMMA BatchAsideStep ==
  ASSUME BatchInv, BatchAside, [BatchNext]_batchVars
  PROVE  BatchAside'
<1> DEFINE A == {"none", "receipt", "accrued", "error"}
<1>1. /\ clock \in Nat /\ windowStart \in 0..clock \cup {None} /\ None' = None
      /\ arrived \in [Debits -> 0..clock] /\ total \in [Debits -> Nat]
      /\ results \subseteq Seqs /\ answer \in [Debits -> A]
      /\ seq \in [Debits -> Seqs] /\ ledger \in [Seqs -> Batch] /\ batchSeq \in Seqs
  BY DEF BatchAside, BatchInv, BatchTyped, None
<1> HIDE DEF A
<1>2. {"none", "receipt", "accrued", "error"} = A
  BY DEF A
<1>3. BatchAside' <=> /\ clock' \in Nat /\ windowStart' \in 0..clock' \cup {None}
                      /\ arrived' \in [Debits -> 0..clock'] /\ total' \in [Debits -> Nat]
                      /\ results' \subseteq Seqs /\ answer' \in [Debits -> A]
  BY <1>1, <1>2 DEF BatchAside
<1>4. ASSUME NEW c \in Debits, NEW what \in A, Answers(c, what)
      PROVE  answer' \in [Debits -> A]
  BY <1>1, <1>4 DEF Answers
<1>5. ASSUME NEW c \in Debits, Accrue(c) PROVE BatchAside'
  <2>1. ledger[batchSeq].calls \cup {c} \in SUBSET Debits
    BY <1>1 DEF Batch
  <2>2. Sum(ledger[batchSeq].calls \cup {c}) \in Nat
    BY <2>1, SumOfDebits
  <2> DEFINE n == Sum(ledger[batchSeq].calls \cup {c})
  <2>3. total' = [total EXCEPT ![c] = n]
    BY <1>5 DEF Accrue
  <2> HIDE DEF n
  <2>4. n \in Nat
    BY <2>2 DEF n
  <2>5. total' \in [Debits -> Nat]
    BY <1>1, <2>3, <2>4
  <2>6. arrived' \in [Debits -> 0..clock] /\ windowStart' \in 0..clock \cup {None}
        /\ clock' = clock /\ results' = results /\ answer' = answer
    BY <1>1, <1>5 DEF Accrue
  <2> QED BY <1>1, <1>3, <2>5, <2>6
<1>6. ASSUME NEW c \in Debits,
             CheckTrigger(c) \/ CheckCache(c) \/ OpenNext(c) \/ Throws(c)
      PROVE  BatchAside'
  <2>1. clock' = clock /\ results' = results /\ windowStart' \in {windowStart, None}
        /\ arrived' \in {arrived, [arrived EXCEPT ![c] = 0]}
        /\ total' \in {total, [total EXCEPT ![c] = 0]}
    BY <1>6 DEF CheckTrigger, CheckCache, OpenNext, Throws, memoryVars, debitVars
  <2>2. answer' = answer \/ \E what \in A : Answers(c, what)
    BY <1>6 DEF CheckTrigger, CheckCache, OpenNext, Throws, A
  <2>3. answer' \in [Debits -> A]
    BY <1>1, <1>4, <2>2
  <2> QED BY <1>1, <1>3, <2>1, <2>3
<1>7. ASSUME NEW c \in Debits,
             \/ ReadPending(c) \/ Submit(c) \/ WaitForReceipt(c) \/ Persist(c)
             \/ MarkFlushed(c) \/ Mine(c)
      PROVE  BatchAside'
  <2>1. clock' = clock /\ arrived' = arrived /\ total' = total /\ windowStart' = windowStart
        /\ answer' = answer /\ results' \in {results, results \cup {seq[c]}}
    BY <1>7 DEF ReadPending, Submit, WaitForReceipt, Persist, MarkFlushed, Mine, memoryVars,
       debitVars
  <2> QED BY <1>1, <1>3, <2>1
<1>8. CASE Restart
  <2>1. clock' = clock /\ arrived' = arrived /\ total' = total /\ windowStart' = None
        /\ results' = results
    BY <1>8 DEF Restart, debitVars
  <2>2. answer' \in [Debits -> A]
    BY <1>1, <1>8 DEF Restart, A
  <2> QED BY <1>1, <1>3, <2>1, <2>2
<1>9. CASE ClockTicks
  <2>1. clock' = clock + 1 /\ arrived' = arrived /\ total' = total
        /\ windowStart' = windowStart /\ results' = results /\ answer' = answer
    BY <1>9 DEF ClockTicks, memoryVars, debitVars
  <2> QED BY <1>1, <1>3, <2>1
<1>10. CASE UNCHANGED batchVars
  BY <1>10 DEF batchVars, memoryVars, debitVars, BatchAside
<1> QED BY <1>5, <1>6, <1>7, <1>8, <1>9, <1>10 DEF BatchNext

\* The marks of the refunds, and the pool they are paid from.
RefundAside ==
  /\ marks \subseteq {<<WindowOf[r], Payer[p]>> : r \in Runs, p \in Payments}
  /\ refundPool \in 0..InitialPool /\ retries \in 0..MaxRetries

LEMMA RefundAsideStart == RefundInit => RefundAside
BY RefundAssumption DEF RefundInit, RefundAside

LEMMA RefundAsideStep ==
  ASSUME RefundInv, RefundAside, [RefundNext]_refundVars
  PROVE  RefundAside'
<1> DEFINE M == {<<WindowOf[r], Payer[p]>> : r \in Runs, p \in Payments}
<1>1. /\ marks \subseteq M /\ refundPool \in 0..InitialPool /\ retries \in 0..MaxRetries
      /\ InitialPool \in Nat /\ MaxRetries \in Nat
  BY RefundAssumption DEF RefundAside
<1>2. ASSUME NEW r \in Runs, MarkRefunded(r) PROVE RefundAside'
  <2>1. refundRun[r].sent \subseteq Payments
    BY DEF RefundInv, RefundTyped, RunRecords
  <2>2. marks' = marks \cup {<<WindowOf[r], Payer[p]>> : p \in refundRun[r].sent}
        /\ refundPool' = refundPool /\ retries' = retries
    BY <1>2 DEF MarkRefunded
  <2>3. marks' \subseteq M
    BY <1>1, <2>1, <2>2
  <2> QED BY <1>1, <2>2, <2>3 DEF RefundAside
<1>3. ASSUME marks' = marks, refundPool' = refundPool,
             retries' \in {retries, retries + 1}, retries' = retries + 1 => retries < MaxRetries
      PROVE  RefundAside'
  BY <1>1, <1>3 DEF RefundAside
<1>4. ASSUME NEW r \in Runs,
             RefundStarts(r) \/ BoundByPool(r) \/ RefundThrows(r) \/ RefundRetried(r)
      PROVE  RefundAside'
  BY <1>1, <1>3, <1>4 DEF RefundStarts, BoundByPool, RefundThrows, RefundRetried
<1>5. ASSUME NEW r \in Runs, NEW p \in Payments, CheckBuyer(r, p) \/ WriteRefund(r, p)
      PROVE  RefundAside'
  BY <1>1, <1>3, <1>5 DEF CheckBuyer, WriteRefund
<1>6. ASSUME NEW p \in Payments, RefundMined(p) PROVE RefundAside'
  <2>1. marks' = marks /\ retries' = retries
        /\ \/ refundPool' = refundPool
           \/ refundPool > 0 /\ refundPool' = refundPool - 1
    BY <1>6 DEF RefundMined
  <2> QED BY <1>1, <2>1 DEF RefundAside
<1>7. CASE UNCHANGED refundVars
  BY <1>1, <1>3, <1>7 DEF refundVars
<1> QED BY <1>2, <1>4, <1>5, <1>6, <1>7 DEF RefundNext

LEMMA RefundTypes == RefundInv /\ RefundAside => RefundTypeOK
<1> SUFFICES ASSUME RefundInv, RefundAside PROVE RefundTypeOK
  OBVIOUS
<1>1. ASSUME NEW r \in Runs
      PROVE  /\ refundRun[r].pc \in {"idle", "checking", "bounding", "writing",
                                     "marking", "done", "failed"}
             /\ refundRun[r].check \cup refundRun[r].pending \subseteq Affected[WindowOf[r]]
             /\ refundRun[r].sent \subseteq refundRun[r].pending
  <2>1. refundRun[r] \in RunRecords
    BY DEF RefundInv, RefundTyped
  <2>2. /\ refundRun[r].check \cup refundRun[r].pending \subseteq Affected[WindowOf[r]]
        /\ refundRun[r].sent \subseteq refundRun[r].pending
    BY DEF RefundInv, RunsShaped
  <2> QED BY <2>1, <2>2 DEF RunRecords
<1>2. /\ mempool \in [Payments -> Nat] /\ repaid \in [Payments -> Nat]
      /\ reverted \in BOOLEAN /\ careless \in BOOLEAN
  BY DEF RefundInv, RefundTyped
<1> QED BY <1>1, <1>2 DEF RefundAside, RefundTypeOK

LEMMA BatchTypes == BatchInv /\ BatchAside => BatchTypeOK
BY DEF BatchInv, BatchTyped, BatchAside, BatchTypeOK

\* The routes, the listings and the count of passes.
RecoveryAside ==
  /\ routes \in SUBSET Gated /\ listed \in SUBSET Gated /\ unstarted \in SUBSET Gated
  /\ built \in BOOLEAN /\ passes \in 0..MaxPasses

LEMMA RecoveryAsideStart == RecoveryInit => RecoveryAside
<1> SUFFICES ASSUME RecoveryInit PROVE RecoveryAside
  OBVIOUS
<1>1. routes = {} /\ listed = {} /\ unstarted = {} /\ built = FALSE /\ passes = 0
  BY DEF RecoveryInit
<1>2. built \in BOOLEAN
  BY <1>1, Zenon
<1>3. passes \in 0..MaxPasses
  BY <1>1, RecoveryAssumption
<1> QED BY <1>1, <1>2, <1>3 DEF RecoveryAside

LEMMA RecoveryAsideStep ==
  ASSUME RecoveryInv, RecoveryAside, [RecoveryNext]_recoveryVars
  PROVE  RecoveryAside'
<1> USE RecoveryAssumption DEF RecoveryAside
<1>1. CASE PassStarts \/ NextGate \/ ProcessStops
  <2>1. routes' = routes /\ listed' = listed
    BY <1>1 DEF PassStarts, NextGate, ProcessStops
  <2>2. unstarted' \in SUBSET Gated
    <3>1. pass.at \in SUBSET Gated
      BY DEF RecoveryInv, PassTyped
    <3>2. unstarted' \in {unstarted, unstarted \cup pass.at}
      BY <1>1 DEF PassStarts, NextGate, ProcessStops
    <3> QED BY <3>1, <3>2
  <2>3. built' \in BOOLEAN /\ passes' \in 0..MaxPasses
    <3>1. built' \in BOOLEAN
      <4>1. built' = built \/ built' = FALSE
        BY <1>1 DEF PassStarts, NextGate, ProcessStops
      <4> QED BY <4>1, Zenon
    <3>2. \/ passes' = passes
          \/ passes < MaxPasses /\ passes' = passes + 1
      BY <1>1 DEF PassStarts, NextGate, ProcessStops
    <3>3. passes' \in 0..MaxPasses
      BY <3>2
    <3> QED BY <3>1, <3>3
  <2> QED BY <2>1, <2>2, <2>3
<1>2. ASSUME NEW s \in Gated,
             \/ InspectGate(s) \/ RestartHandler(s) \/ BuildImage(s) \/ RemoveGate(s)
             \/ RecreateGate(s) \/ RewriteRoute(s) \/ AwaitCard(s) \/ RecoverPublish(s)
             \/ RecoveryThrows(s)
      PROVE  RecoveryAside'
  BY <1>2 DEF InspectGate, RestartHandler, BuildImage, RemoveGate, RecreateGate,
              RewriteRoute, AwaitCard, RecoverPublish, RecoveryThrows
<1>3. CASE UNCHANGED recoveryVars
  BY <1>3 DEF recoveryVars
<1> QED BY <1>1, <1>2, <1>3 DEF RecoveryNext

LEMMA RecoveryTypes == RecoveryInv /\ RecoveryAside => RecoveryTypeOK
<1> SUFFICES ASSUME RecoveryInv, RecoveryAside PROVE RecoveryTypeOK
  OBVIOUS
<1>1. Cardinality(pass.at) <= 1
  <2>1. CASE pass.at = {}
    BY <2>1, FS_EmptySet
  <2>2. ASSUME NEW s, pass.at = {s} PROVE Cardinality(pass.at) <= 1
    <3>1. Cardinality({s}) = 1
      BY FS_Singleton
    <3> QED BY <2>2, <3>1
  <2> QED BY <2>1, <2>2 DEF RecoveryInv, PassTyped
<1> QED BY <1>1 DEF RecoveryInv, PassTyped, HostTyped, RecoveryAside, RecoveryTypeOK

\* The seller settles no more than was signed.
WithinSigned == \A c \in BuyerCalls : debited[c] <= signed[c]

LEMMA WithinSignedStart == BudgetInit => WithinSigned
BY BasisTyped DEF BudgetInit, WithinSigned

LEMMA WithinSignedStep ==
  ASSUME BudgetInv, WithinSigned, [BudgetNext]_budgetVars
  PROVE  WithinSigned'
<1>1. CASE UNCHANGED <<signed, debited>>
  BY <1>1 DEF WithinSigned
<1>2. ASSUME NEW c \in BuyerCalls, SellerSettles(c) PROVE WithinSigned'
  <2>1. PICK amount \in 1..signed[c] : debited' = [debited EXCEPT ![c] = amount]
    BY <1>2 DEF SellerSettles
  <2> QED BY <1>2, <2>1 DEF SellerSettles, WithinSigned, BudgetInv, BudgetTyped
<1>3. ASSUME NEW c \in BuyerCalls, SignAndPost(c) PROVE WithinSigned'
  <2>1. debited[c] = 0 /\ debited' = debited
    BY <1>3 DEF SignAndPost, BudgetInv, DebitedOnce
  <2>2. PICK cardCap \in Served \ {0} : signed' = [signed EXCEPT ![c] = SignedCap(cardCap)]
    BY <1>3 DEF SignAndPost
  <2> QED BY <2>1, <2>2, BasisTyped DEF WithinSigned, BudgetInv, BudgetTyped
<1> QED
  BY <1>1, <1>2, <1>3 DEF BudgetNext, DayChanges, Reserve, PaidAnswer, OtherAnswer,
     PayThrows, AuthorizationExpires, budgetVars

\* What the guard holds and has committed is a sum of amounts, so never below zero.
LEMMA TotalsAreNat ==
  ASSUME BudgetInv, NEW totals \in {committed, pending}
  PROVE  totals \in [tool : [BuyerTools -> Nat], day : [1..Days -> Nat]]
<1>1. totals \in BudgetTotals
  BY DEF BudgetInv, BudgetTyped
<1>2. ASSUME NEW k \in Lines PROVE OnLine(totals, k) >= 0
  <2>1. SumOver(debited, PaidOn(k)) \in Nat
    <3>1. IsFiniteSet(PaidOn(k)) /\ \A c \in PaidOn(k) : debited[c] \in Nat
      BY LinesFinite DEF PaidOn, BudgetInv, BudgetTyped
    <3> QED BY <3>1, SumMonotone
  <2>2. SumOver(Bases, HeldOn(k)) \in Nat
    <3>1. IsFiniteSet(HeldOn(k)) /\ \A c \in HeldOn(k) : Bases[c] \in Nat
      BY LinesFinite, BasisTyped DEF HeldOn
    <3> QED BY <3>1, SumMonotone
  <2> QED BY <2>1, <2>2 DEF BudgetInv, LinesHold
<1>3. ASSUME NEW t \in BuyerTools PROVE totals.tool[t] \in Nat
  <2>1. <<"tool", t>> \in Lines /\ OnLine(totals, <<"tool", t>>) = totals.tool[t]
    BY DEF Lines, OnLine
  <2> QED BY <1>1, <1>2, <2>1 DEF BudgetTotals
<1>4. ASSUME NEW d \in 1..Days PROVE totals.day[d] \in Nat
  <2>1. <<"day", d>> \in Lines /\ OnLine(totals, <<"day", d>>) = totals.day[d]
    BY DEF Lines, OnLine
  <2>2. totals.day[d] \in Int
    BY <1>1 DEF BudgetTotals
  <2>3. totals.day[d] >= 0
    BY <1>2, <2>1
  <2> QED BY <2>2, <2>3
<1> QED BY <1>1, <1>3, <1>4 DEF BudgetTotals

LEMMA BudgetTypes == BudgetInv /\ WithinSigned => BudgetTypeOK
<1> SUFFICES ASSUME BudgetInv, WithinSigned PROVE BudgetTypeOK
  OBVIOUS
<1>1. \A c \in BuyerCalls : debited[c] \in 0..signed[c]
  BY DEF WithinSigned, BudgetInv, BudgetTyped
<1>2. \A totals \in {committed, pending} :
        totals \in [tool : [BuyerTools -> Nat], day : [1..Days -> Nat]]
  BY TotalsAreNat
<1> QED BY <1>1, <1>2 DEF BudgetTypeOK, BudgetInv, BudgetTyped

\* Each identity was minted by a publish of its own, which is past the mint.
Minters ==
  {p \in Publishes : publish[p].pc \notin {"idle", "bond", "enqueue", "probe", "split", "mint"}}

MintsCounted ==
  /\ chain.minted <= Cardinality(Minters)
  /\ chain.agent <= chain.minted
  /\ \A p \in Publishes : publish[p].agent <= chain.minted

\* The card is written before the record, and neither is ever taken away.
CardFirst ==
  /\ index = {} \/ \E r \in index : index = {r}
  /\ card = {} \/ \E a \in card : card = {a}
  /\ index # {} \/ (\E p \in Publishes : publish[p].pc = "upsert") => card # {}

QueuedAreHeld ==
  /\ queue \in SUBSET Publishes
  /\ \A p \in Publishes : publish[p].pc = "held" <=> p \in queue

MarketAside ==
  /\ armed \in BOOLEAN
  /\ takedown \in {"idle", "delist", "pause", "done", "failed"}
  /\ pauseTx \in {"none", "sent", "mined", "reverted"}
  /\ MintsCounted /\ CardFirst /\ QueuedAreHeld

LEMMA MintersFinite ==
  /\ IsFiniteSet(Minters) /\ Cardinality(Minters) \in Nat
  /\ Cardinality(Minters) <= Cardinality(Publishes) /\ Cardinality(Publishes) \in Nat
<1>1. Minters \in SUBSET Publishes /\ IsFiniteSet(Publishes)
  BY MarketAssumption DEF Minters
<1> QED BY <1>1, FS_Subset, FS_CardinalityType

LEMMA MintersGrow ==
  ASSUME NEW more \in SUBSET Publishes, Minters \in SUBSET more
  PROVE  /\ Cardinality(more) \in Nat /\ Cardinality(Minters) <= Cardinality(more)
         /\ more # Minters => Cardinality(Minters) + 1 <= Cardinality(more)
<1>1. IsFiniteSet(more) /\ IsFiniteSet(Minters)
  BY MarketAssumption, FS_Subset, MintersFinite
<1>2. Cardinality(more) \in Nat /\ Cardinality(Minters) \in Nat
  BY <1>1, FS_CardinalityType
<1>3. Cardinality(Minters) <= Cardinality(more)
        /\ (Cardinality(Minters) = Cardinality(more) => Minters = more)
  BY <1>1, FS_Subset
<1> QED BY <1>2, <1>3

LEMMA MarketAsideStart == MarketInit => MarketAside
<1> SUFFICES ASSUME MarketInit PROVE MarketAside
  OBVIOUS
<1>1. /\ armed \in BOOLEAN /\ takedown = "idle" /\ pauseTx = "none" /\ index = {} /\ card = {} /\ queue = {}
      /\ \A p \in Publishes : publish[p].pc = "idle" /\ publish[p].agent = 0
      /\ chain.minted = 0 /\ chain.agent = 0
  BY DEF MarketInit, PublishIdle, Placeholder
<1>2. MintsCounted
  BY <1>1, MintersFinite DEF MintsCounted
<1>3. CardFirst /\ QueuedAreHeld
  BY <1>1 DEF CardFirst, QueuedAreHeld
<1> QED BY <1>1, <1>2, <1>3 DEF MarketAside

\* A publish that only moves on: neither into nor out of the queue, and not to the
\* upsert, which only the card's writing leads to.
LEMMA MovesOn ==
  ASSUME MarketInv, MarketAside, NEW p \in Publishes, NEW to,
         publish'[p].pc = to, publish'[p].agent \in {0, publish[p].agent},
         \A q \in Publishes : q # p => publish'[q] = publish[q],
         to \in {"idle", "bond", "enqueue", "probe", "split", "mint"} => p \notin Minters,
         publish[p].pc # "held", to \notin {"held", "upsert"},
         UNCHANGED <<armed, chain, pauseTx, index, card, queue, takedown>>
  PROVE  MarketAside'
<1> USE DEF MarketAside
<1>1. Minters \in SUBSET Minters' /\ Minters' \in SUBSET Publishes
  BY DEF Minters
<1>2. MintsCounted'
  <2>1. Cardinality(Minters) <= Cardinality(Minters') /\ Cardinality(Minters) \in Nat
        /\ Cardinality(Minters') \in Nat
    BY <1>1, MintersGrow, MintersFinite
  <2>2. chain.minted \in Nat /\ chain.agent \in Nat
    BY DEF MarketInv, MarketTyped, Chains
  <2>3. \A q \in Publishes : publish'[q].agent <= chain.minted
    BY <2>2 DEF MintsCounted
  <2> QED BY <2>1, <2>2, <2>3 DEF MintsCounted
<1>3. CardFirst' /\ QueuedAreHeld'
  BY DEF CardFirst, QueuedAreHeld
<1> QED BY <1>2, <1>3

\* The publishes stay where they are.
LEMMA MarketRests ==
  ASSUME MarketInv, MarketAside, publish' = publish, UNCHANGED <<armed, card, queue>>,
         chain'.minted = chain.minted, chain'.agent = chain.agent,
         takedown' \in {"idle", "delist", "pause", "done", "failed"},
         pauseTx' \in {"none", "sent", "mined", "reverted"},
         index' = index \/ index' = Delisted(index)
  PROVE  MarketAside'
<1> USE DEF MarketAside
<1>1. MintsCounted' /\ QueuedAreHeld'
  BY DEF MintsCounted, QueuedAreHeld, Minters
<1>2. /\ index' = {} \/ \E r \in index' : index' = {r}
      /\ index' # {} => index # {}
  <2>1. CASE index = {}
    BY <2>1 DEF Delisted
  <2>2. ASSUME NEW r \in index, index = {r}
        PROVE  index' # {} /\ \E s \in index' : index' = {s}
    <3>1. Delisted(index) = {[r EXCEPT !.active = FALSE]}
      BY <2>2 DEF Delisted
    <3> QED BY <2>2, <3>1
  <2> QED BY <2>1, <2>2 DEF CardFirst
<1>3. CardFirst'
  BY <1>2 DEF CardFirst
<1> QED BY <1>1, <1>3

LEMMA MarketAsideStep ==
  ASSUME MarketInv, MarketAside, [MarketNext]_marketVars
  PROVE  MarketAside'
<1>0. /\ publish \in [Publishes -> PublishRecords]
      /\ chain \in [registered : BOOLEAN, agent : Nat, paused : BOOLEAN, minted : Nat]
  BY DEF MarketInv, MarketTyped, Chains
<1>g. ASSUME NEW p \in Publishes, NEW to, Goto(p, to)
      PROVE  /\ publish'[p].pc = to /\ publish'[p].agent = publish[p].agent
             /\ \A q \in Publishes : q # p => publish'[q] = publish[q]
  BY <1>0, <1>g DEF Goto, PublishRecords
<1>h. ASSUME NEW p \in Publishes, NEW to, End(p, to)
      PROVE  /\ publish'[p].pc = to /\ publish'[p].agent = 0
             /\ \A q \in Publishes : q # p => publish'[q] = publish[q]
  BY <1>0, <1>h DEF End, PublishIdle, Placeholder
<1>1. ASSUME NEW p \in Publishes,
             \/ RecordDecision(p) \/ CheckBond(p) \/ FirstProbe(p) \/ ReadSplit(p)
             \/ Finalize(p) \/ PublishThrows(p)
      PROVE  MarketAside'
  <2>1. PICK to \in {"bond", "enqueue", "blocked", "probe", "rejected", "split", "finalize",
                     "unverified", "mint", "failed", "owner"} :
          Goto(p, to) \/ (to \in {"unverified", "failed"} /\ End(p, to))
    BY <1>1 DEF RecordDecision, CheckBond, FirstProbe, ReadSplit, Finalize, PublishThrows
  <2>2. UNCHANGED <<armed, chain, pauseTx, index, card, queue, takedown>> /\ publish[p].pc # "held"
    BY <1>1 DEF RecordDecision, CheckBond, FirstProbe, ReadSplit, Finalize, PublishThrows, Ended
  <2>3. to \in {"bond", "enqueue", "probe", "split", "mint"} => p \notin Minters
    BY <1>1, <2>1, <1>g, <1>h DEF RecordDecision, CheckBond, FirstProbe, ReadSplit,
       Finalize, PublishThrows, Minters
  <2>4. /\ publish'[p].pc = to /\ publish'[p].agent \in {0, publish[p].agent}
        /\ \A q \in Publishes : q # p => publish'[q] = publish[q]
    BY <2>1, <1>g, <1>h
  <2> QED BY <2>1, <2>2, <2>3, <2>4, MovesOn
<1>2. ASSUME NEW p \in Publishes, ResolveOwner(p) \/ ReadExisting(p)
      PROVE  MarketAside'
  <2>1. PICK to \in {"existing", "card"} : \E x :
          publish' = [publish EXCEPT ![p].pc = to, ![p].creator = x]
    BY <1>2 DEF ResolveOwner, ReadExisting
  <2>2. /\ publish'[p].pc = to /\ publish'[p].agent = publish[p].agent
        /\ \A q \in Publishes : q # p => publish'[q] = publish[q]
    BY <1>0, <2>1 DEF PublishRecords
  <2>3. UNCHANGED <<armed, chain, pauseTx, index, card, queue, takedown>> /\ publish[p].pc # "held"
    BY <1>2 DEF ResolveOwner, ReadExisting
  <2> QED BY <2>1, <2>2, <2>3, MovesOn
<1>3. ASSUME NEW p \in Publishes, EnqueueReview(p) PROVE MarketAside'
  <2>1. /\ Goto(p, "held") /\ queue' = queue \cup {p} /\ publish[p].pc = "enqueue"
        /\ UNCHANGED <<armed, chain, pauseTx, index, card, takedown>>
    BY <1>3 DEF EnqueueReview
  <2>2. Minters \in SUBSET Minters' /\ Minters' \in SUBSET Publishes
    BY <1>g, <2>1 DEF Minters
  <2>3. MintsCounted'
    <3>1. Cardinality(Minters) <= Cardinality(Minters') /\ Cardinality(Minters) \in Nat
          /\ Cardinality(Minters') \in Nat
      BY <2>2, MintersGrow, MintersFinite
    <3>2. \A q \in Publishes : publish'[q].agent = publish[q].agent
      BY <1>g, <2>1
    <3> QED BY <1>0, <2>1, <3>1, <3>2 DEF MarketAside, MintsCounted
  <2>4. CardFirst' /\ QueuedAreHeld'
    BY <1>g, <2>1 DEF MarketAside, CardFirst, QueuedAreHeld
  <2> QED BY <2>1, <2>3, <2>4 DEF MarketAside
<1>4. ASSUME NEW p \in Publishes, MintAgent(p) PROVE MarketAside'
  <2>1. /\ publish[p].pc = "mint" /\ chain' = [chain EXCEPT !.minted = @ + 1]
        /\ publish' = [publish EXCEPT ![p].pc = "update", ![p].agent = chain.minted + 1]
        /\ UNCHANGED <<armed, pauseTx, index, card, queue, takedown>>
    BY <1>4 DEF MintAgent
  <2>2. /\ publish'[p].pc = "update" /\ publish'[p].agent = chain.minted + 1
        /\ \A q \in Publishes : q # p => publish'[q] = publish[q]
        /\ chain'.minted = chain.minted + 1 /\ chain'.agent = chain.agent
    BY <1>0, <2>1 DEF PublishRecords
  <2>3. Minters \in SUBSET Minters' /\ Minters' \in SUBSET Publishes /\ Minters' # Minters
    BY <2>1, <2>2 DEF Minters
  <2>4. MintsCounted'
    <3>1. Cardinality(Minters) + 1 <= Cardinality(Minters') /\ Cardinality(Minters) \in Nat
          /\ Cardinality(Minters') \in Nat
      BY <2>3, MintersGrow, MintersFinite
    <3>2. chain.minted \in Nat /\ chain.agent \in Nat
          /\ \A q \in Publishes : publish[q].agent \in Nat
      BY <1>0 DEF PublishRecords
    <3> QED BY <2>2, <3>1, <3>2 DEF MarketAside, MintsCounted
  <2>5. CardFirst' /\ QueuedAreHeld'
    BY <2>1, <2>2 DEF MarketAside, CardFirst, QueuedAreHeld
  <2> QED BY <2>1, <2>4, <2>5 DEF MarketAside
<1>5. ASSUME NEW p \in Publishes, UpdateRegistry(p) PROVE MarketAside'
  <2>1. /\ publish[p].pc = "update" /\ Goto(p, "finalize")
        /\ chain' \in {chain, [chain EXCEPT !.agent = publish[p].agent]}
        /\ UNCHANGED <<armed, pauseTx, index, card, queue, takedown>>
    BY <1>5 DEF UpdateRegistry
  <2>2. chain'.minted = chain.minted /\ chain'.agent \in {chain.agent, publish[p].agent}
    BY <1>0, <2>1
  <2>3. Minters' = Minters
    BY <1>g, <2>1 DEF Minters
  <2>4. MintsCounted'
    <3>1. \A q \in Publishes : publish'[q].agent = publish[q].agent
      BY <1>g, <2>1
    <3> QED BY <2>2, <2>3, <3>1 DEF MarketAside, MintsCounted
  <2>5. CardFirst' /\ QueuedAreHeld'
    BY <1>g, <2>1 DEF MarketAside, CardFirst, QueuedAreHeld
  <2> QED BY <2>1, <2>4, <2>5 DEF MarketAside
<1>6. ASSUME NEW p \in Publishes, PutCard(p) \/ Upsert(p) PROVE MarketAside'
  <2>1. PICK to \in {"upsert", "listed"} :
          /\ publish[p].pc \in {"card", "upsert"}
          /\ publish'[p].pc = to /\ publish'[p].agent \in {0, publish[p].agent}
          /\ \A q \in Publishes : q # p => publish'[q] = publish[q]
    BY <1>6, <1>g, <1>h DEF PutCard, Upsert
  <2>2. Minters' = Minters
    BY <2>1 DEF Minters
  <2>3. UNCHANGED <<armed, chain, pauseTx, queue, takedown>>
    BY <1>6 DEF PutCard, Upsert
  <2>4. MintsCounted'
    <3>1. chain.minted \in Nat
      BY <1>0
    <3> QED BY <2>1, <2>2, <2>3, <3>1 DEF MarketAside, MintsCounted
  <2>5. QueuedAreHeld'
    BY <2>1, <2>3 DEF MarketAside, QueuedAreHeld
  <2>6. CardFirst'
    <3>1. CASE PutCard(p)
      BY <3>1 DEF PutCard, MarketAside, CardFirst
    <3>2. CASE Upsert(p)
      <4>1. /\ card' = card /\ card # {} /\ \E a \in card : card = {a}
        BY <3>2 DEF Upsert, MarketAside, CardFirst
      <4>2. \E r \in index' : index' = {r}
        BY <3>2 DEF Upsert
      <4> QED BY <4>1, <4>2 DEF CardFirst
    <3> QED BY <1>6, <3>1, <3>2
  <2> QED BY <2>3, <2>4, <2>5, <2>6 DEF MarketAside
<1>7. CASE StopLeg \/ DelistLeg
  <2>1. /\ publish' = publish /\ UNCHANGED <<armed, card, queue, pauseTx>> /\ chain' = chain
        /\ takedown' \in {"delist", "pause", "failed"}
        /\ index' = index \/ index' = Delisted(index)
    BY <1>7 DEF StopLeg, DelistLeg
  <2> QED BY <2>1, MarketRests DEF MarketAside
<1>8. CASE PauseLeg \/ PauseMined \/ RegisterResource
  <2>1. /\ publish' = publish /\ UNCHANGED <<armed, card, queue, index>>
        /\ takedown' \in {takedown, "done", "failed"}
        /\ pauseTx' \in {pauseTx, "sent", "mined", "reverted"}
    BY <1>8 DEF PauseLeg, PauseMined, RegisterResource
  <2>2. chain'.minted = chain.minted /\ chain'.agent = chain.agent
    BY <1>0, <1>8 DEF PauseLeg, PauseMined, RegisterResource
  <2> QED BY <2>1, <2>2, MarketRests DEF MarketAside
<1>9. CASE UNCHANGED marketVars
  BY <1>9, MarketRests DEF marketVars, MarketAside
<1> QED BY <1>1, <1>2, <1>3, <1>4, <1>5, <1>6, <1>7, <1>8, <1>9 DEF MarketNext

LEMMA MarketTypes == MarketInv /\ MarketAside => MarketTypeOK
<1> SUFFICES ASSUME MarketInv, MarketAside PROVE MarketTypeOK
  OBVIOUS
<1>1. chain \in [registered : BOOLEAN, agent : Nat, paused : BOOLEAN,
                 minted : 0..Cardinality(Publishes)]
  <2>1. chain \in [registered : BOOLEAN, agent : Nat, paused : BOOLEAN, minted : Nat]
    BY DEF MarketInv, MarketTyped, Chains
  <2>2. chain.minted \in 0..Cardinality(Publishes)
    BY <2>1, MintersFinite DEF MarketAside, MintsCounted
  <2> QED BY <2>1, <2>2
<1>2. Cardinality(index) <= 1 /\ Cardinality(card) <= 1
  <2>1. ASSUME NEW S, S = {} \/ \E x \in S : S = {x}
        PROVE  Cardinality(S) <= 1
    <3>1. CASE S = {}
      BY <3>1, FS_EmptySet
    <3>2. ASSUME NEW x \in S, S = {x} PROVE Cardinality(S) <= 1
      <4>1. Cardinality({x}) = 1
        BY FS_Singleton
      <4> QED BY <3>2, <4>1
    <3> QED BY <2>1, <3>1, <3>2
  <2> QED BY <2>1 DEF MarketAside, CardFirst
<1>3. \A p \in Publishes : publish[p].agent \in 0..chain.minted
                           /\ (publish[p].pc = "held" <=> p \in queue)
                           /\ publish[p].creator \in Claims \cup {{Owner}}
  BY DEF MarketInv, MarketTyped, PublishRecords, Creators, MarketAside, MintsCounted,
     QueuedAreHeld
<1>4. /\ armed \in BOOLEAN /\ chain.agent <= chain.minted /\ (index # {} => card # {})
      /\ queue \subseteq Publishes /\ blind \subseteq Claims
      /\ pauseTx \in {"none", "sent", "mined", "reverted"}
      /\ takedown \in {"idle", "delist", "pause", "done", "failed"}
  BY DEF MarketInv, MarketTyped, MarketAside, MintsCounted, CardFirst, QueuedAreHeld
<1> QED BY <1>1, <1>2, <1>3, <1>4 DEF MarketTypeOK

-----------------------------------------------------------------------------
(***************************************************************************)
(* All of them: each component keeps its own invariant, by its own steps   *)
(* and while it rests.                                                     *)
(***************************************************************************)
ServicesInv ==
  /\ component \in {"spend cap", "batching", "refunds", "buyer", "proxy",
                    "scorer", "marketplace", "recovery", "payers", "admission",
                    "splitter", "wallet", "reservations"}
  /\ CapInv
  /\ BatchInv /\ BatchAside
  /\ RefundInv /\ RefundAside
  /\ BudgetInv /\ WithinSigned
  /\ ProxyInv
  /\ ScoringInv
  /\ MarketInv /\ MarketAside
  /\ RecoveryInv /\ RecoveryAside
  /\ PayInv
  /\ AdmissionInv
  /\ SplitterInv
  /\ WalletInv
  /\ ResInv

LEMMA ServicesStart == ServicesInit => ServicesInv
<1> SUFFICES ASSUME ServicesInit PROVE ServicesInv
  OBVIOUS
<1>1. CapInv
  BY CapStart DEF ServicesInit
<1>2. BatchInv /\ BatchAside
  BY BatchStart, BatchAsideStart DEF ServicesInit
<1>3. RefundInv /\ RefundAside
  BY RefundStart, RefundAsideStart DEF ServicesInit
<1>4. BudgetInv /\ WithinSigned
  BY BudgetStart, WithinSignedStart DEF ServicesInit
<1>5. ProxyInv
  BY ProxyStart DEF ServicesInit
<1>6. ScoringInv
  BY ScoringStart DEF ServicesInit
<1>7. MarketInv /\ MarketAside
  BY MarketStart, MarketAsideStart DEF ServicesInit
<1>8. RecoveryInv /\ RecoveryAside
  BY RecoveryStart, RecoveryAsideStart DEF ServicesInit
<1>9. PayInv
  BY PayStart DEF ServicesInit
<1>10. AdmissionInv
  BY WindowsStart, MemoStart DEF AdmissionInv, ServicesInit
<1>11. SplitterInv
  BY SplitterStart DEF ServicesInit
<1>12. WalletInv
  BY WalletStart DEF ServicesInit
<1>13. ResInv
  BY ResStart DEF ServicesInit
<1> QED BY <1>1, <1>2, <1>3, <1>4, <1>5, <1>6, <1>7, <1>8, <1>9, <1>10, <1>11, <1>12, <1>13
       DEF ServicesInit, ServicesInv

\* A step is a step of one component, so of each it is one or none.
LEMMA ServicesStep ==
  ASSUME ~LockLapses, ServicesInv, [ServicesNext]_servicesVars
  PROVE  ServicesInv'
<1>1. CapInv'
  <2>1. [CapNext]_capVars
    BY Zenon DEF ServicesNext, servicesVars
  <2> QED BY <2>1, CapStep DEF ServicesInv
<1>2. (BatchInv /\ BatchAside)'
  <2>1. [BatchNext]_batchVars
    BY Zenon DEF ServicesNext, servicesVars
  <2> QED BY <2>1, BatchStep, BatchAsideStep DEF ServicesInv
<1>3. (RefundInv /\ RefundAside)'
  <2>1. [RefundNext]_refundVars
    BY Zenon DEF ServicesNext, servicesVars
  <2> QED BY <2>1, RefundStep, RefundAsideStep DEF ServicesInv
<1>4. (BudgetInv /\ WithinSigned)'
  <2>1. [BudgetNext]_budgetVars
    BY Zenon DEF ServicesNext, servicesVars
  <2> QED BY <2>1, BudgetStep, WithinSignedStep DEF ServicesInv
<1>5. ProxyInv'
  <2>1. [DataProxyNext]_proxyVars
    BY Zenon DEF ServicesNext, servicesVars
  <2> QED BY <2>1, ProxyStep DEF ServicesInv
<1>6. ScoringInv'
  <2>1. [ScoringNext]_scoringVars
    BY Zenon DEF ServicesNext, servicesVars
  <2> QED BY <2>1, ScoringStep DEF ServicesInv
<1>7. (MarketInv /\ MarketAside)'
  <2>1. [MarketNext]_marketVars
    BY Zenon DEF ServicesNext, servicesVars
  <2> QED BY <2>1, MarketStep, MarketAsideStep DEF ServicesInv
<1>8. (RecoveryInv /\ RecoveryAside)'
  <2>1. [RecoveryNext]_recoveryVars
    BY Zenon DEF ServicesNext, servicesVars
  <2> QED BY <2>1, RecoveryStep, RecoveryAsideStep DEF ServicesInv
<1>9. PayInv'
  <2>1. [PayPageNext]_payVars
    BY Zenon DEF ServicesNext, servicesVars
  <2> QED BY <2>1, PayStep DEF ServicesInv
<1>10. AdmissionInv'
  <2>1. [AdmissionNext]_admissionVars
    BY Zenon DEF ServicesNext, servicesVars
  <2> QED BY <2>1, AdmissionStep DEF ServicesInv
<1>11. SplitterInv'
  <2>1. [SplitterNext]_splitterVars
    BY Zenon DEF ServicesNext, servicesVars
  <2> QED BY <2>1, SplitterStep DEF ServicesInv
<1>12. WalletInv'
  <2>1. [WalletNext]_walletVars
    BY Zenon DEF ServicesNext, servicesVars
  <2> QED BY <2>1, WalletStep DEF ServicesInv
<1>13. ResInv'
  <2>1. [ReservationsNext]_reservationVars
    BY Zenon DEF ServicesNext, servicesVars
  <2> QED BY <2>1, ResStep DEF ServicesInv
<1>14. component' = component
  BY DEF ServicesNext, servicesVars
<1> QED BY <1>1, <1>2, <1>3, <1>4, <1>5, <1>6, <1>7, <1>8, <1>9, <1>10, <1>11, <1>12, <1>13, <1>14 DEF ServicesInv

LEMMA ServicesHold == ServicesInv => ServicesOK
<1> SUFFICES ASSUME ServicesInv PROVE ServicesOK
  OBVIOUS
<1>1. CapTypeOK
  BY DEF CapInv, ServicesInv
<1>2. BatchTypeOK
  BY BatchTypes DEF ServicesInv
<1>3. RefundTypeOK
  BY RefundTypes DEF ServicesInv
<1>4. BudgetTypeOK
  BY BudgetTypes DEF ServicesInv
<1>5. DataProxyTypeOK /\ QuotaHolds /\ ConnectsToChecked
  BY ProxyQuota DEF ProxyInv, ServicesInv
<1>6. ScoringTypeOK
  BY DEF ScoringInv, ServicesInv
<1>7. MarketTypeOK /\ TakedownComplete
  BY MarketTypes DEF MarketInv, TakedownQuiet, TakedownComplete, ServicesInv
<1>8. RecoveryTypeOK
  BY RecoveryTypes DEF ServicesInv
<1>9. PayPageTypeOK /\ PaysOnceWhereAsked
  BY PayersPayOnce DEF ServicesInv
<1>10. AdmissionTypeOK /\ AdmissionCeiling /\ ListedIsSeen
  BY AdmissionHolds DEF ServicesInv
<1>11. SplitterTypeOK /\ SplitIsFair
  BY SplitterFair DEF ServicesInv
<1>12. WalletTypeOK /\ WalletOK
  BY WalletTyped, WalletHolds DEF ServicesInv
<1>13. ReservationsTypeOK /\ GrantedIsCounted /\ SumCovers
  BY ReservationsCounted DEF ServicesInv
<1> QED BY <1>1, <1>2, <1>3, <1>4, <1>5, <1>6, <1>7, <1>8, <1>9, <1>10, <1>11, <1>12, <1>13
       DEF ServicesInv, ServicesOK

\* The components keep their types and what is promised of each, for every value of
\* their constants, while a buyer's lock outlives its holder.
THEOREM AllServicesHold == ~LockLapses /\ ServicesSpec => []ServicesOK
<1> SUFFICES ASSUME ~LockLapses PROVE ServicesSpec => []ServicesOK
  OBVIOUS
<1>1. ServicesInv /\ [ServicesNext]_servicesVars => ServicesInv'
  BY ServicesStep
<1> QED BY ServicesStart, ServicesHold, <1>1, PTL DEF ServicesSpec
=============================================================================
