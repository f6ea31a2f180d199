-------------------------- MODULE ReservationProofs --------------------------
(***************************************************************************)
(* What the reservation of a nonce is for, proved for every set of calls   *)
(* and amounts: one awaited handler run and one answer per nonce, and caps *)
(* that fit in the deposit.  Each theorem names what must not happen for it;    *)
(* every other fault of the model may.                                     *)
(***************************************************************************)
EXTENDS FacilitatorProofs

-----------------------------------------------------------------------------
(***************************************************************************)
(* The per-buyer lock of /verify.                                          *)
(***************************************************************************)
InLock == {"balance", "outstanding", "pending", "onchain", "spent", "reserve"}

\* A call inside the critical section holds its buyer's lock: two of one buyer
\* are never inside at once.
LockHeld == \A c \in Calls : gate[c] \in InLock => buyerLock[Buyer(c)] = c

\* No Redis lock key expires under a holder slower than lockTtlMs.
LocksLast == "lockttl" \notin Faults

\* One gate moves, and takes or leaves only its own buyer's lock.
LEMMA OneGateLock ==
  ASSUME TypeOK, LockHeld, NEW c \in Calls,
         gate'[c] \in InLock => buyerLock'[Buyer(c)] = c,
         \A d \in Calls : d # c => gate'[d] = gate[d],
         \A b \in Accounts : buyerLock'[b] = buyerLock[b] \/ buyerLock[b] \in {NoCall, c}
  PROVE  LockHeld'
<1> SUFFICES ASSUME NEW d \in Calls, gate'[d] \in InLock, d # c
             PROVE  buyerLock'[Buyer(d)] = d
  BY DEF LockHeld, Buyer
<1>1. gate[d] = gate'[d] /\ buyerLock[Buyer(d)] = d /\ Buyer(d) \in Accounts
  BY CallTyped DEF LockHeld
<1> QED BY <1>1, NoneIsNone

LEMMA LockStep ==
  ASSUME LocksLast, TypeOK, LockHeld, [Next]_vars
  PROVE  LockHeld'
<1>1. /\ gate \in [Calls -> GateSteps \cup Answers]
      /\ buyerLock \in [Accounts -> Calls \cup {NoCall}]
      /\ \A c \in Calls : Buyer(c) \in Accounts
  BY CallTyped DEF TypeOK
<1>2. ASSUME NEW c \in Calls,
             \/ Present(c) \/ AcquireLock(c) \/ ReadBalance(c) \/ Reserve(c)
             \/ ReserveThrows(c) \/ VerifyThrows(c)
      PROVE  LockHeld'
  <2>1. \A d \in Calls : d # c => gate'[d] = gate[d]
    BY <1>1, <1>2 DEF Present, AcquireLock, ReadBalance, Reserve, ReserveThrows,
                      VerifyThrows, GateMoves
  <2>2. \A b \in Accounts : buyerLock'[b] = buyerLock[b] \/ buyerLock[b] \in {NoCall, c}
    BY <1>1, <1>2 DEF Present, AcquireLock, ReadBalance, Reserve, ReserveThrows,
                      VerifyThrows, LeaveLock
  <2>3. gate'[c] \in InLock => buyerLock'[Buyer(c)] = c
    BY <1>1, <1>2 DEF Present, AcquireLock, ReadBalance, Reserve, ReserveThrows,
                      VerifyThrows, GateMoves, InLock, LockHeld
  <2> QED BY <2>1, <2>2, <2>3, OneGateLock
<1>3. ASSUME NEW c \in Calls,
             \/ ReadOutstanding(c) \/ CheckPending(c) \/ CheckUsedNonce(c) \/ CheckSpent(c)
      PROVE  LockHeld'
  <2>1. PICK at \in InLock, next \in InLock, holds \in BOOLEAN : VerifyCheck(c, at, holds, next)
    <3>1. {"outstanding", "pending", "onchain", "spent", "reserve"} \subseteq InLock
      BY DEF InLock
    <3> DEFINE fits == seenBalance[c] >= OutstandingReserved(Buyer(c)) + Cap(c)
    <3>2. \A h : /\ VerifyCheck(c, "outstanding", h, "pending")
                      => VerifyCheck(c, "outstanding", h = TRUE, "pending")
                 /\ (h = TRUE) \in BOOLEAN
      BY DEF VerifyCheck
    <3>3. CASE ReadOutstanding(c)
      <4>1. VerifyCheck(c, "outstanding", fits, "pending")
        BY <3>3 DEF ReadOutstanding
      <4> HIDE DEF fits
      <4>2. VerifyCheck(c, "outstanding", fits = TRUE, "pending") /\ (fits = TRUE) \in BOOLEAN
        BY <3>2, <4>1
      <4> QED BY <3>1, <4>2
    <3>4. CASE CheckPending(c) \/ CheckUsedNonce(c) \/ CheckSpent(c)
      BY <3>1, <3>4 DEF CheckPending, CheckUsedNonce, CheckSpent, Pending, NonceFree
    <3> QED BY <1>3, <3>3, <3>4
  <2>2. /\ \A d \in Calls : d # c => gate'[d] = gate[d]
        /\ \A b \in Accounts : buyerLock'[b] = buyerLock[b] \/ buyerLock[b] \in {NoCall, c}
        /\ gate'[c] \in InLock => buyerLock'[Buyer(c)] = c
    BY <1>1, <2>1 DEF VerifyCheck, GateMoves, LeaveLock, InLock, LockHeld
  <2> QED BY <2>2, OneGateLock
<1>4. ASSUME NEW c \in Calls,
             \/ HandlerStep(c) \/ HandlerEnds(c) \/ ReleaseThrows(c)
             \/ Answer(c) \/ Reject(c) \/ ReplyLost(c) \/ GateCrash(c)
      PROVE  LockHeld'
  <2>1. /\ \A d \in Calls : d # c => gate'[d] = gate[d]
        /\ buyerLock' = buyerLock
        /\ gate'[c] \notin InLock \/ gate'[c] = gate[c]
    BY <1>1, <1>4 DEF HandlerStep, RunHandler, HandlerCharges, HandlerFails,
         HandlerTimesOut, HandlerEnds, ReleaseReservation, ReleaseThrows, Answer, Reject,
         ReplyLost, GateCrash, GateMoves, gateOnlyUnchanged, InLock
  <2> QED BY <2>1, OneGateLock DEF LockHeld
<1>5. ASSUME UNCHANGED <<gate, buyerLock>>
      PROVE  LockHeld'
  BY <1>5 DEF LockHeld, Buyer
<1>6. CASE FacilitatorCrash
  <2>1. \A c \in Calls : gate'[c] \notin InLock
    BY <1>1, <1>6 DEF FacilitatorCrash, InLock, VerifySteps
  <2> QED BY <2>1 DEF LockHeld
<1>7. ASSUME NEW c \in Calls, SettleStep(c) \/ SettleThrows(c) \/ MineTx(c)
      PROVE  Answer(c) \/ Reject(c) \/ UNCHANGED <<gate, buyerLock>>
  BY <1>7 DEF SettleStep, SettleEntry, SettleLookup, SettleFromCache, Broadcast,
     RecordSettleTx, WaitForReceipt, Rebuild, Spend, PutResult, RecordRevenue, SettleThrows,
     MineTx, settleOnlyUnchanged, offChainUnchanged, gateVars
<1>8. CASE Environment
  <2>1. CASE \/ \E b \in Accounts : BuyerWithdraws(b) \/ LockExpires(b)
             \/ \E r \in ResourceIds : ResourcePaused(r)
             \/ \E n \in Nonces : ReservationExpires(n) \/ ResultExpires(n)
             \/ ClockTicks
    <3>1. UNCHANGED <<gate, buyerLock>>
      BY <2>1 DEF BuyerWithdraws, LockExpires, ResourcePaused, ReservationExpires,
         ResultExpires, ClockTicks, offChainUnchanged, gateVars, LocksLast
    <3> QED BY <1>5, <3>1
  <2>2. CASE \E c \in Calls : \/ VerifyThrows(c) \/ ReserveThrows(c) \/ ReleaseThrows(c)
                             \/ SettleThrows(c) \/ ReplyLost(c) \/ GateCrash(c)
                             \/ HandlerEnds(c)
    BY <1>2, <1>4, <1>5, <1>7, <2>2
  <2> QED BY <1>6, <1>8, <2>1, <2>2 DEF Environment
<1>9. CASE UNCHANGED vars
  BY <1>5, <1>9 DEF vars, gateVars
<1>10. ASSUME NEW c \in Calls, VerifyStep(c)
       PROVE  LockHeld'
  BY <1>2, <1>3, <1>10 DEF VerifyStep
<1> QED BY <1>4, <1>5, <1>7, <1>8, <1>9, <1>10 DEF Next

-----------------------------------------------------------------------------
(***************************************************************************)
(* One awaited handler run, and one answer, per nonce.                     *)
(***************************************************************************)
\* What must not happen: a gate that gives a settlement up while it goes on, a
\* reservation or lock key that expires, an authorization that runs out after
\* its reservation (each alone lets a second handler start), and one nonce
\* signed by two buyers, whose locks are different ones.
ReservationsLast ==
  /\ {"lost", "ttl"} \cap Faults = {} /\ LocksLast
  /\ \A c \in Calls : AuthOf[c].validBefore > MaxTime
  /\ \A c, d \in Calls : Nonce(c) = Nonce(d) => Buyer(c) = Buyer(d)

\* A settlement that has not marked its nonce spent, and one that has.
Unspent    == {"entry", "lookup", "cache", "broadcast", "record", "wait", "rebuild", "spend"}
Through(c) == settling[c] \in {"put", "revenue", "answer"} \/ gate[c] = "paid"
HoldsIt(c) == reservation[Nonce(c)] = c

\* The reservation is the call's own from /verify until it is released or spent.
Held ==
  \A c \in Calls : gate[c] \in {"reserved", "running", "releasing"} \/ settling[c] \in Unspent
                     => HoldsIt(c)
\* A call about to give its reservation back still has it, or spent its nonce.
GivenUp ==
  \A c \in Calls : settling[c] = "reject" \/ gate[c] = "striking"
                     => HoldsIt(c) \/ Nonce(c) \in spent
\* What the critical section has checked stays true inside it.
Cleared ==
  \A c \in Calls : /\ gate[c] \in {"onchain", "spent", "reserve"} => ~Pending(Nonce(c))
                   /\ gate[c] = "reserve" => Nonce(c) \notin spent
\* The gate waits for its settlement to end before it releases.
Awaited ==
  \A c \in Calls : /\ gate[c] = "striking" => settling[c] \in {"none", "done"}
                   /\ gate[c] = "settling" => settling[c] \notin {"none", "done"}
                   /\ settling[c] # "lookupUnreserved"
SpentFree   == \A n \in Nonces : Pending(n) => n \notin spent
ThroughOnce ==
  /\ \A c \in Calls : Through(c) => Nonce(c) \in spent
  /\ \A c, d \in Calls : Through(c) /\ Through(d) /\ Nonce(c) = Nonce(d) => c = d
Timely == now <= MaxTime

Exclusive == Held /\ GivenUp /\ Cleared /\ Awaited /\ SpentFree /\ ThroughOnce /\ Timely
ExclInv   == PathInv /\ LockHeld /\ Exclusive

\* A nonce is pending as long as some call holds it, and one call does.
LEMMA HeldIsPending ==
  ASSUME NEW c \in Calls
  PROVE  /\ HoldsIt(c) => Pending(Nonce(c))
         /\ \A d \in Calls : HoldsIt(c) /\ HoldsIt(d) /\ Nonce(c) = Nonce(d) => c = d
BY NoneIsNone DEF HoldsIt, Pending

\* The invariant says what it is for.
LEMMA ExclusiveMeans ==
  ASSUME TypeOK, WorkersWaited, Exclusive
  PROVE  ExclusiveReservation /\ OneAnswerPerDebit
<1>1. ASSUME NEW c \in Calls, Engaged(c)
      PROVE  HoldsIt(c) \/ Through(c)
  BY <1>1 DEF Engaged, Exclusive, Held, Awaited, Through, Unspent, TypeOK, SettleSteps
<1>2. ASSUME NEW c \in Calls, NEW d \in Calls, HoldsIt(c), Nonce(c) = Nonce(d)
      PROVE  ~Through(d)
  BY <1>2, CallTyped, HeldIsPending DEF Exclusive, ThroughOnce, SpentFree
<1>3. ExclusiveReservation
  BY <1>1, <1>2, HeldIsPending DEF ExclusiveReservation, WorkersWaited, Exclusive,
                                   ThroughOnce
<1>4. OneAnswerPerDebit
  BY DEF OneAnswerPerDebit, Exclusive, ThroughOnce, Through
<1> QED BY <1>3, <1>4

-----------------------------------------------------------------------------
\* Steps that leave reservations and spent markers alone: one call moves, to a
\* position it has the right to.
LEMMA MoveStep ==
  ASSUME TypeOK, LockHeld, Exclusive, NEW c \in Calls,
         UNCHANGED <<reservation, spent, now>>,
         \A d \in Calls : d # c => gate'[d] = gate[d] /\ settling'[d] = settling[d],
         gate'[c] \in {"reserved", "running", "releasing"} \/ settling'[c] \in Unspent
           => HoldsIt(c),
         settling'[c] = "reject" \/ gate'[c] = "striking"
           => HoldsIt(c) \/ Nonce(c) \in spent,
         gate'[c] \in {"onchain", "spent", "reserve"} => ~Pending(Nonce(c)),
         gate'[c] = "reserve" => Nonce(c) \notin spent,
         gate'[c] = "striking" => settling'[c] \in {"none", "done"},
         gate'[c] = "settling" => settling'[c] \notin {"none", "done"},
         settling'[c] # "lookupUnreserved",
         Through(c)' => Through(c)
  PROVE  Exclusive'
<1>1. \A d \in Calls : Through(d)' => Through(d)
  BY DEF Through
<1>2. Held' /\ GivenUp'
  BY DEF Exclusive, Held, GivenUp, HoldsIt, Nonce
<1>3. Cleared' /\ Awaited'
  BY DEF Exclusive, Cleared, Awaited, Pending, Nonce
<1>4. SpentFree' /\ Timely'
  BY DEF Exclusive, SpentFree, Timely, Pending
<1>5. ThroughOnce'
  <2>1. \A d \in Calls : Nonce(d)' = Nonce(d)
    BY DEF Nonce
  <2> QED BY <1>1, <2>1 DEF Exclusive, ThroughOnce
<1> QED BY <1>2, <1>3, <1>4, <1>5 DEF Exclusive

\* Nothing moves: the chain, the results and the clock do.
LEMMA StandStep ==
  ASSUME Exclusive, UNCHANGED <<gate, settling, reservation, spent>>, now' <= MaxTime
  PROVE  Exclusive'
<1>1. Held' /\ GivenUp' /\ Cleared' /\ Awaited'
  BY DEF Exclusive, Held, GivenUp, Cleared, Awaited, HoldsIt, Pending, Nonce
<1>2. SpentFree' /\ ThroughOnce' /\ Timely'
  BY DEF Exclusive, SpentFree, ThroughOnce, Through, Timely, Pending, Nonce
<1> QED BY <1>1, <1>2 DEF Exclusive

\* The gate's own moves, but for the reservation and its release.
LEMMA GateExclusive ==
  ASSUME ReservationsLast, ExclInv, NEW c \in Calls,
         \/ Present(c) \/ AcquireLock(c) \/ ReadBalance(c)
         \/ ReadOutstanding(c) \/ CheckPending(c) \/ CheckUsedNonce(c) \/ CheckSpent(c)
         \/ RunHandler(c) \/ HandlerCharges(c) \/ HandlerFails(c) \/ HandlerTimesOut(c)
         \/ HandlerEnds(c) \/ VerifyThrows(c) \/ GateCrash(c)
  PROVE  Exclusive'
<1>1. /\ TypeOK /\ LockHeld /\ Exclusive
      /\ gate \in [Calls -> GateSteps \cup Answers]
      /\ settling \in [Calls -> SettleSteps \cup {"none", "done"}]
      /\ settling[c] # "none" => gate[c] \in AfterRun
  BY DEF ExclInv, PathInv, TypeOK, Positions, SettlesAfterRun
<1>2. UNCHANGED <<reservation, spent, now>>
  BY DEF Present, AcquireLock, ReadBalance, ReadOutstanding, CheckPending,
     CheckUsedNonce, CheckSpent, VerifyCheck, RunHandler, HandlerCharges, HandlerFails,
     HandlerTimesOut, HandlerEnds, VerifyThrows, GateCrash, gateOnlyUnchanged, storeVars,
     chainVars
<1>3. CASE Present(c) \/ AcquireLock(c) \/ ReadBalance(c) \/ VerifyThrows(c) \/ GateCrash(c)
  <2>1. /\ settling' = settling
        /\ \A d \in Calls : d # c => gate'[d] = gate[d]
        /\ gate'[c] \in {"locking", "refused", "balance", "outstanding", "failed"}
    BY <1>1, <1>3 DEF Present, AcquireLock, ReadBalance, VerifyThrows, GateCrash,
                      GateMoves, settleVars
  <2> QED BY <1>1, <1>2, <2>1, MoveStep DEF Exclusive, Held, GivenUp, Awaited, Through
<1>4. CASE ReadOutstanding(c) \/ CheckPending(c) \/ CheckUsedNonce(c) \/ CheckSpent(c)
  <2>1. /\ settling' = settling
        /\ \A d \in Calls : d # c => gate'[d] = gate[d]
        /\ \/ gate'[c] \in {"refused", "pending"}
           \/ gate'[c] = "onchain" /\ ~Pending(Nonce(c))
           \/ gate'[c] = "spent" /\ gate[c] = "onchain"
           \/ gate'[c] = "reserve" /\ gate[c] = "spent" /\ Nonce(c) \notin spent
    BY <1>1, <1>4 DEF ReadOutstanding, CheckPending, CheckUsedNonce, CheckSpent,
                      VerifyCheck, GateMoves, settleVars
  <2> QED BY <1>1, <1>2, <2>1, MoveStep DEF Exclusive, Held, GivenUp, Cleared, Awaited, Through
<1>5. CASE RunHandler(c) \/ HandlerCharges(c) \/ HandlerFails(c) \/ HandlerTimesOut(c)
  <2>1. /\ gate[c] \in {"reserved", "running"}
        /\ settling[c] = "none"
        /\ \A d \in Calls : d # c => gate'[d] = gate[d] /\ settling'[d] = settling[d]
        /\ \/ gate'[c] \in {"running", "releasing", "striking"} /\ settling'[c] = "none"
           \/ gate'[c] = "settling" /\ settling'[c] = "entry"
    BY <1>1, <1>5 DEF RunHandler, HandlerCharges, HandlerFails, HandlerTimesOut, GateMoves,
                      settleVars, AfterRun
  <2> QED BY <1>1, <1>2, <2>1, MoveStep DEF Exclusive, Held, Through
<1>6. CASE HandlerEnds(c)
  <2>1. UNCHANGED <<gate, settling>> /\ now' <= MaxTime
    BY <1>1, <1>2, <1>6 DEF HandlerEnds, settleVars, Exclusive, Timely
  <2> QED BY <1>1, <1>2, <2>1, StandStep
<1> QED BY <1>3, <1>4, <1>5, <1>6

\* The settlement's own moves, but for the spent marker.
LEMMA SettleExclusive ==
  ASSUME ReservationsLast, ExclInv, NEW c \in Calls,
         \/ SettleEntry(c) \/ SettleLookup(c) \/ SettleFromCache(c) \/ Broadcast(c)
         \/ RecordSettleTx(c) \/ WaitForReceipt(c) \/ Rebuild(c)
         \/ PutResult(c) \/ RecordRevenue(c) \/ Answer(c) \/ Reject(c) \/ SettleThrows(c)
  PROVE  Exclusive'
<1>1. /\ TypeOK /\ LockHeld /\ Exclusive /\ Stores
      /\ gate \in [Calls -> GateSteps \cup Answers]
      /\ settling \in [Calls -> SettleSteps \cup {"none", "done"}]
      /\ now <= MaxTime /\ Nonce(c) \in Nonces
      /\ settling[c] # "none" => gate[c] \in AfterRun
  BY CallTyped DEF ExclInv, PathInv, TypeOK, Exclusive, Timely, Positions, SettlesAfterRun
<1>2. AuthOf[c].validBefore \in Nat /\ now \in Nat /\ MaxTime \in Nat
  BY CallTyped, AuthTyped, RegistryAssumption
     DEF ExclInv, PathInv, TypeOK, EscrowSystemTypeOK, RegistryTypeOK
<1>3. ~(AuthOf[c].validBefore <= now)
  BY <1>1, <1>2 DEF ReservationsLast
<1>4. settling[c] \in Unspent => HoldsIt(c) /\ Pending(Nonce(c)) /\ Nonce(c) \notin spent
  BY <1>1, HeldIsPending DEF Exclusive, Held, SpentFree
<1>5. Cached(Nonce(c)) => Nonce(c) \in spent
  BY <1>1 DEF Stores, FreshStored, ResultsBacked, Cached
<1>6. /\ UNCHANGED <<reservation, spent, now>>
      /\ \A d \in Calls : d # c => gate'[d] = gate[d] /\ settling'[d] = settling[d]
      /\ \/ /\ settling[c] \in Unspent /\ settling'[c] \in Unspent \cup {"reject"}
            /\ gate'[c] = gate[c]
         \/ /\ settling[c] \in {"put", "revenue"}
            /\ settling'[c] \in {"revenue", "answer", "reject"} /\ gate'[c] = gate[c]
         \/ /\ settling[c] = "answer" /\ settling'[c] = "done"
            /\ gate'[c] = IF gate[c] = "settling" THEN "paid" ELSE gate[c]
         \/ /\ settling[c] = "reject" /\ settling'[c] \in {"reject", "done"}
            /\ gate'[c] = IF gate[c] = "settling" /\ settling'[c] = "done"
                          THEN "striking" ELSE gate[c]
  <2>1. CASE SettleEntry(c)
    BY <1>1, <1>4, <2>1 DEF SettleEntry, SettleMoves, Unspent, settleOnlyUnchanged,
                            gateVars, storeVars, chainVars
  <2>2. CASE SettleLookup(c)
    <3>1. settling[c] # "lookupUnreserved"
      BY <1>1 DEF Exclusive, Awaited
    <3> QED BY <1>1, <1>3, <2>2, <3>1 DEF SettleLookup, SettleMoves, Unspent,
                            settleOnlyUnchanged, gateVars, chainVars
  <2>3. CASE SettleFromCache(c)
    <3>1. settling[c] = "cache" /\ ~Cached(Nonce(c))
      BY <1>4, <1>5, <2>3 DEF SettleFromCache, SettleMoves, Unspent
    <3> QED BY <1>1, <2>3, <3>1 DEF SettleFromCache, SettleMoves, Unspent,
                            settleOnlyUnchanged, gateVars, storeVars, chainVars
  <2>4. CASE Broadcast(c)
    <3>1. /\ settling[c] = "broadcast"
          /\ \E to \in {"record", "rebuild", "reject"} : settling' = [settling EXCEPT ![c] = to]
      BY <2>4 DEF Broadcast, SettleMoves
    <3> QED BY <1>1, <2>4, <3>1 DEF Broadcast, Unspent, settleOnlyUnchanged, gateVars,
                            storeVars, chainVars
  <2>5. CASE RecordSettleTx(c) \/ WaitForReceipt(c)
    BY <1>1, <2>5 DEF RecordSettleTx, WaitForReceipt, SettleMoves, Unspent,
                            settleOnlyUnchanged, gateVars, storeVars, chainVars
  <2>6. CASE Rebuild(c)
    <3>1. /\ settling[c] = "rebuild"
          /\ \E to \in {"spend", "reject"} : settling' = [settling EXCEPT ![c] = to]
      BY <2>6 DEF Rebuild, SettleMoves
    <3> QED BY <1>1, <2>6, <3>1 DEF Rebuild, Unspent, settleOnlyUnchanged, gateVars,
                            storeVars, chainVars
  <2>7. CASE PutResult(c) \/ RecordRevenue(c)
    BY <1>1, <2>7 DEF PutResult, RecordRevenue, SettleMoves, settleOnlyUnchanged, gateVars,
                            chainVars
  <2>8. CASE Answer(c) \/ Reject(c)
    BY <1>1, <2>8 DEF Answer, Reject, SettleMoves, storeVars, chainVars
  <2>9. CASE SettleThrows(c)
    <3>1. PICK step \in SettleSteps \ {"answer", "reject"} :
            settling[c] = step /\ settling' = [settling EXCEPT ![c] = "reject"]
      BY <2>9 DEF SettleThrows, SettleMoves
    <3>2. step \in Unspent \cup {"put", "revenue"}
      BY <1>1, <3>1 DEF SettleSteps, Unspent, Exclusive, Awaited
    <3> QED BY <1>1, <2>9, <3>1, <3>2 DEF SettleThrows, settleOnlyUnchanged,
                            gateVars, storeVars, chainVars
  <2> QED BY <2>1, <2>2, <2>3, <2>4, <2>5, <2>6, <2>7, <2>8, <2>9
<1>7. Through(c)' => Through(c)
  BY <1>6 DEF Through, Unspent
<1>8. settling[c] \in {"put", "revenue"} => Nonce(c) \in spent
  BY <1>1 DEF Exclusive, ThroughOnce, Through
<1>9. gate[c] \in AfterRun
  BY <1>1, <1>6 DEF Unspent
<1> QED BY <1>1, <1>4, <1>6, <1>7, <1>8, <1>9, MoveStep
     DEF Exclusive, GivenUp, Awaited, Unspent, AfterRun

\* The reservation is taken by a nonce nobody holds, given back by its holder
\* or once spent, and turned into the spent marker by its holder.
LEMMA StoreExclusive ==
  ASSUME ReservationsLast, ExclInv, NEW c \in Calls,
         \/ Reserve(c) \/ ReserveThrows(c)
         \/ ReleaseReservation(c) \/ ReleaseThrows(c) \/ Spend(c)
  PROVE  Exclusive'
<1>1. /\ TypeOK /\ LockHeld /\ Exclusive
      /\ gate \in [Calls -> GateSteps \cup Answers]
      /\ settling \in [Calls -> SettleSteps \cup {"none", "done"}]
      /\ reservation \in [Nonces -> Calls \cup {NoCall}]
      /\ \A d \in Calls : Nonce(d) \in Nonces
      /\ \A d \in Calls : settling[d] # "none" => gate[d] \in AfterRun
      /\ NoCall \notin Calls
  BY CallTyped, NoneIsNone DEF ExclInv, PathInv, TypeOK, Positions, SettlesAfterRun
<1> DEFINE n == Nonce(c)
<1>2. Timely' /\ n \in Nonces /\ \A d \in Calls : Nonce(d)' = Nonce(d)
  BY <1>1 DEF Reserve, ReserveThrows, ReleaseReservation, ReleaseThrows, Spend,
              settleOnlyUnchanged, chainVars, Exclusive, Timely, Nonce
<1> HIDE DEF n
<1>3. ASSUME NEW d \in Calls, Nonce(d) = n
      PROVE  /\ Nonce(c) = n
             /\ HoldsIt(d) <=> reservation[n] = d
             /\ HoldsIt(d)' <=> reservation'[n] = d
             /\ Pending(Nonce(d)) <=> reservation[n] # NoCall
  BY <1>2, <1>3 DEF n, HoldsIt, Pending
<1>4. CASE Reserve(c) /\ Pending(n)
  <2>1. /\ gate'[c] = "refused" /\ settling' = settling
        /\ \A d \in Calls : d # c => gate'[d] = gate[d]
        /\ UNCHANGED <<reservation, spent, now>>
    BY <1>1, <1>4 DEF Reserve, GateMoves, settleVars, chainVars, n
  <2> QED BY <1>1, <2>1, MoveStep DEF Exclusive, Held, GivenUp, Awaited, Through
<1>5. CASE (Reserve(c) /\ ~Pending(n)) \/ ReserveThrows(c)
  <2>0. ~Pending(n)
    BY <1>5 DEF ReserveThrows, n
  <2>1. /\ gate[c] = "reserve" /\ settling' = settling /\ spent' = spent
        /\ \E to \in {"reserved", "refused"} : gate' = [gate EXCEPT ![c] = to]
        /\ reservation' = [reservation EXCEPT ![n] = c]
    BY <1>5 DEF Reserve, ReserveThrows, GateMoves, settleVars, n
  <2>2. /\ \A d \in Calls : d # c => gate'[d] = gate[d]
        /\ gate'[c] \in {"reserved", "refused"} /\ reservation'[n] = c
        /\ \A m \in Nonces : m # n => reservation'[m] = reservation[m]
        /\ settling[c] = "none"
        /\ n \notin spent /\ reservation[n] = NoCall
    BY <1>1, <1>2, <2>0, <2>1 DEF Exclusive, Cleared, Pending, n, AfterRun
  <2>3. Held'
    BY <1>1, <1>2, <2>1, <2>2 DEF Exclusive, Held, HoldsIt, n
  <2>4. GivenUp'
    BY <1>1, <1>2, <2>1, <2>2 DEF Exclusive, GivenUp, HoldsIt, n
  <2>5. Cleared'
    <3>1. ASSUME NEW d \in Calls, d # c, Nonce(d) = n, gate[d] \in {"onchain", "spent", "reserve"}
          PROVE  FALSE
      <4>1. Buyer(d) = Buyer(c)
        BY <3>1 DEF ReservationsLast, n
      <4> QED BY <1>1, <2>1, <3>1, <4>1 DEF LockHeld, InLock
    <3> QED BY <1>1, <1>2, <2>1, <2>2, <3>1 DEF Exclusive, Cleared, Pending
  <2>6. Awaited' /\ SpentFree'
    BY <1>1, <2>1, <2>2 DEF Exclusive, Awaited, SpentFree, Pending
  <2>7. ThroughOnce'
    BY <1>1, <1>2, <2>1, <2>2 DEF Exclusive, ThroughOnce, Through
  <2> QED BY <1>2, <2>3, <2>4, <2>5, <2>6, <2>7 DEF Exclusive
<1>6. CASE ReleaseReservation(c) \/ ReleaseThrows(c)
  <2>1. /\ settling' = settling /\ spent' = spent
        /\ \/ gate[c] = "releasing" /\ gate' = [gate EXCEPT ![c] = "free"]
           \/ gate[c] = "striking" /\ gate' = [gate EXCEPT ![c] = "failed"]
        /\ \/ reservation' = reservation
           \/ reservation' = [reservation EXCEPT ![n] = NoCall]
    BY <1>6 DEF ReleaseReservation, ReleaseThrows, Release, DropReservation, GateMoves,
                settleVars, n
  <2>2. /\ \A d \in Calls : d # c => gate'[d] = gate[d]
        /\ gate'[c] \in {"free", "failed"} /\ reservation'[n] \in {NoCall, reservation[n]}
        /\ \A m \in Nonces : m # n => reservation'[m] = reservation[m]
    BY <1>1, <1>2, <2>1
  <2>3. HoldsIt(c) \/ n \in spent
    BY <1>1, <2>1 DEF Exclusive, Held, GivenUp, n
  <2>4. reservation[n] \in {c, NoCall}
    BY <1>1, <1>2, <2>3 DEF Exclusive, SpentFree, Pending, HoldsIt, n
  <2>5. settling[c] \in {"none", "done"}
    BY <1>1, <2>1 DEF Exclusive, Awaited, AfterRun
  <2>6. \A d \in Calls : d # c /\ HoldsIt(d) => HoldsIt(d)'
    BY <1>1, <1>2, <2>2, <2>4 DEF HoldsIt
  <2>7. Held' /\ GivenUp'
    BY <1>1, <1>2, <2>1, <2>2, <2>5, <2>6 DEF Exclusive, Held, GivenUp, Unspent
  <2>8. Cleared' /\ Awaited' /\ SpentFree'
    BY <1>1, <1>2, <2>1, <2>2, <2>5 DEF Exclusive, Cleared, Awaited, SpentFree, Pending
  <2>9. ThroughOnce'
    BY <1>1, <1>2, <2>1, <2>2 DEF Exclusive, ThroughOnce, Through
  <2> QED BY <1>2, <2>7, <2>8, <2>9 DEF Exclusive
<1>7. CASE Spend(c)
  <2>1. /\ gate' = gate /\ spent' = spent \cup {n}
        /\ settling[c] = "spend" /\ settling' = [settling EXCEPT ![c] = "put"]
        /\ reservation' = [reservation EXCEPT ![n] = NoCall]
    BY <1>7 DEF Spend, SettleMoves, MarkNonceSpent, DropReservation, settleOnlyUnchanged,
                gateVars, n
  <2>2. /\ \A d \in Calls : d # c => settling'[d] = settling[d]
        /\ settling'[c] = "put" /\ reservation'[n] = NoCall
        /\ \A m \in Nonces : m # n => reservation'[m] = reservation[m]
        /\ reservation[n] = c /\ n \notin spent /\ gate[c] \in AfterRun
    BY <1>1, <1>2, <2>1, HeldIsPending DEF Exclusive, Held, SpentFree, HoldsIt, Unspent, n
  <2>3. \A d \in Calls : d # c /\ HoldsIt(d) => HoldsIt(d)' /\ Nonce(d) # n
    BY <1>1, <1>2, <2>2 DEF HoldsIt
  <2>4. Held' /\ GivenUp'
    BY <1>1, <1>2, <2>1, <2>2, <2>3 DEF Exclusive, Held, GivenUp, Unspent, AfterRun, n
  <2>5. Cleared' /\ Awaited' /\ SpentFree'
    BY <1>1, <1>2, <2>1, <2>2 DEF Exclusive, Cleared, Awaited, SpentFree, Pending, AfterRun, n
  <2>6. ThroughOnce'
    <3>1. \A d \in Calls : d # c => (Through(d)' <=> Through(d))
      BY <2>1, <2>2 DEF Through
    <3>2. \A d \in Calls : Through(d) => Nonce(d) # n
      BY <1>1, <2>2 DEF Exclusive, ThroughOnce
    <3> QED BY <1>1, <1>2, <2>1, <3>1, <3>2 DEF Exclusive, ThroughOnce, n
  <2> QED BY <1>2, <2>4, <2>5, <2>6 DEF Exclusive
<1> QED BY <1>4, <1>5, <1>6, <1>7

\* The facilitator stops: a gate that waited releases what it still holds.
LEMMA CrashExclusive ==
  ASSUME ReservationsLast, ExclInv, FacilitatorCrash
  PROVE  Exclusive'
<1>1. /\ TypeOK /\ Exclusive
      /\ gate \in [Calls -> GateSteps \cup Answers]
      /\ settling \in [Calls -> SettleSteps \cup {"none", "done"}]
  BY DEF ExclInv, PathInv, TypeOK
<1>2. UNCHANGED <<reservation, spent, now>>
  BY DEF FacilitatorCrash, storeVars, chainVars
<1>3. \A c \in Calls :
        /\ \/ gate'[c] = gate[c] /\ gate[c] \notin VerifySteps \cup {"settling"}
           \/ gate'[c] = "striking" /\ gate[c] = "settling"
           \/ gate'[c] = "failed" /\ gate[c] \in VerifySteps
        /\ \/ settling'[c] = settling[c] /\ settling[c] \in {"none", "done"}
           \/ settling'[c] = "done" /\ settling[c] \in SettleSteps
  <2>1. "settling" \notin VerifySteps
    BY DEF VerifySteps
  <2> QED BY <1>1, <2>1 DEF FacilitatorCrash
<1>4. Held'
  BY <1>1, <1>2, <1>3 DEF Exclusive, Held, HoldsIt, Nonce, Unspent
<1>5. GivenUp'
  BY <1>1, <1>2, <1>3 DEF Exclusive, GivenUp, Awaited, Held, ThroughOnce, Through, Unspent,
                          SettleSteps, HoldsIt, Nonce
<1>6. Cleared'
  BY <1>1, <1>2, <1>3 DEF Exclusive, Cleared, VerifySteps, Pending, Nonce
<1>7. Awaited'
  BY <1>1, <1>3 DEF Exclusive, Awaited
<1>8. SpentFree' /\ Timely'
  BY <1>1, <1>2 DEF Exclusive, SpentFree, Timely, Pending
<1>9. ThroughOnce'
  BY <1>1, <1>2, <1>3 DEF Exclusive, ThroughOnce, Through, Nonce
<1> QED BY <1>4, <1>5, <1>6, <1>7, <1>8, <1>9 DEF Exclusive

\* Every step the hypotheses allow keeps the exclusion.
LEMMA ExclStep ==
  ASSUME ReservationsLast, ExclInv, [Next]_vars
  PROVE  ExclInv'
<1>1. PathInv' /\ LockHeld'
  BY PathStep, LockStep DEF ExclInv, PathInv, ReservationsLast
<1> SUFFICES Exclusive'
  BY <1>1 DEF ExclInv
<1>2. Exclusive /\ now \in Nat /\ now <= MaxTime /\ MaxTime \in Nat
  BY RegistryAssumption
     DEF ExclInv, Exclusive, Timely, PathInv, TypeOK, EscrowSystemTypeOK, RegistryTypeOK
<1>3. ASSUME NEW c \in Calls, VerifyStep(c) \/ HandlerStep(c)
      PROVE  Exclusive'
  BY <1>3, GateExclusive, StoreExclusive DEF VerifyStep, HandlerStep
<1>4. ASSUME NEW c \in Calls, SettleStep(c)
      PROVE  Exclusive'
  BY <1>4, SettleExclusive, StoreExclusive DEF SettleStep
<1>5. ASSUME NEW c \in Calls, MineTx(c)
      PROVE  Exclusive'
  <2>1. UNCHANGED <<gate, settling, reservation, spent>> /\ now' = now
    BY <1>5 DEF MineTx, offChainUnchanged, gateVars, settleVars, storeVars
  <2> QED BY <1>2, <2>1, StandStep
<1>6. CASE Environment
  <2>1. CASE \/ \E b \in Accounts : BuyerWithdraws(b) \/ LockExpires(b)
             \/ \E r \in ResourceIds : ResourcePaused(r)
             \/ \E n \in Nonces : ReservationExpires(n) \/ ResultExpires(n)
             \/ ClockTicks
    <3>1. UNCHANGED <<gate, settling, reservation, spent>>
      BY <2>1 DEF BuyerWithdraws, LockExpires, ResourcePaused, ReservationExpires,
         ResultExpires, ClockTicks, offChainUnchanged, gateVars, settleVars, storeVars,
         ReservationsLast
    <3>2. now' <= MaxTime
      BY <1>2, <2>1 DEF BuyerWithdraws, LockExpires, ResourcePaused, ReservationExpires,
         ResultExpires, ClockTicks, Tick, chainVars
    <3> QED BY <1>2, <3>1, <3>2, StandStep
  <2>2. CASE \E c \in Calls : \/ VerifyThrows(c) \/ ReserveThrows(c) \/ ReleaseThrows(c)
                             \/ SettleThrows(c) \/ ReplyLost(c) \/ GateCrash(c)
                             \/ HandlerEnds(c)
    <3>1. \A c \in Calls : ~ReplyLost(c)
      BY DEF ReplyLost, ReservationsLast
    <3> QED BY <2>2, <3>1, GateExclusive, SettleExclusive, StoreExclusive
  <2>3. CASE FacilitatorCrash
    BY <2>3, CrashExclusive
  <2> QED BY <1>6, <2>1, <2>2, <2>3 DEF Environment
<1>7. CASE UNCHANGED vars
  <2>1. UNCHANGED <<gate, settling, reservation, spent>> /\ now' = now
    BY <1>7 DEF vars, gateVars, settleVars, storeVars, chainVars
  <2> QED BY <1>2, <2>1, StandStep
<1> QED BY <1>3, <1>4, <1>5, <1>6, <1>7 DEF Next

\* No call holds anything at the start.
LEMMA ExclStart ==
  ASSUME Init
  PROVE  ExclInv
<1>1. /\ gate = [c \in Calls |-> "new"] /\ settling = [c \in Calls |-> "none"]
      /\ reservation = [n \in Nonces |-> NoCall] /\ spent = {} /\ now = 0
  BY DEF Init
<1>2. LockHeld
  BY <1>1 DEF LockHeld, InLock
<1>3. Held /\ GivenUp /\ Cleared /\ Awaited
  BY <1>1 DEF Held, GivenUp, Cleared, Awaited, Unspent
<1>4. SpentFree /\ ThroughOnce /\ Timely
  BY <1>1, RegistryAssumption DEF SpentFree, ThroughOnce, Through, Timely
<1> QED BY <1>2, <1>3, <1>4, PathStart DEF ExclInv, Exclusive

\* Crashes of either process, exceptions, timeouts, withdrawals, pauses and lost
\* results included, no two calls of one nonce are in a handler run or settlement
\* their gates wait for; a handler that still runs beside was given up, and no
\* settlement will charge for it.
THEOREM ReservationExcludes == ReservationsLast => (Spec => []ExclusiveReservation)
<1> SUFFICES ASSUME ReservationsLast PROVE Spec => []ExclusiveReservation
  OBVIOUS
<1>1. ExclInv /\ [Next]_vars => ExclInv'
  BY ExclStep
<1>2. Init => ExclInv
  BY ExclStart
<1>3. ExclInv => ExclusiveReservation
  BY ExclusiveMeans DEF ExclInv, PathInv, Positions
<1> QED BY <1>1, <1>2, <1>3, PTL DEF Spec

\* ... and a nonce buys one answer, whatever is replayed or restarted.
THEOREM AnswerBoughtOnce == ReservationsLast => (Spec => []OneAnswerPerDebit)
<1> SUFFICES ASSUME ReservationsLast PROVE Spec => []OneAnswerPerDebit
  OBVIOUS
<1>1. ExclInv /\ [Next]_vars => ExclInv'
  BY ExclStep
<1>2. Init => ExclInv
  BY ExclStart
<1>3. ExclInv => OneAnswerPerDebit
  BY ExclusiveMeans DEF ExclInv, PathInv, Positions
<1> QED BY <1>1, <1>2, <1>3, PTL DEF Spec

-----------------------------------------------------------------------------
(***************************************************************************)
(* Caps that are reserved fit in the deposit.                              *)
(***************************************************************************)
\* The live caps of buyer b under the cap keys res, as the store adds them up, and
\* as a sum over all nonces.
Outstanding(res, b) ==
  LET live   == {n \in Nonces : res[n] # NoCall /\ Buyer(res[n]) = b}
      cap(n) == Cap(res[n])
  IN  MapThenSumSet(cap, live)
CapFor(res, b) ==
  [n \in Nonces |-> IF res[n] # NoCall /\ Buyer(res[n]) = b THEN Cap(res[n]) ELSE 0]
Holders == [Nonces -> Calls \cup {NoCall}]

LEMMA OutstandingIsIt ==
  ASSUME NEW b
  PROVE  /\ OutstandingReserved(b) = Outstanding(indexed, b)
         /\ OutstandingReserved(b)' = Outstanding(indexed', b)
<1>1. OutstandingReserved(b) = Outstanding(indexed, b)
  BY DEF OutstandingReserved, Outstanding, MapThenSumSet, MapThenFoldSet
<1>2. OutstandingReserved(b)' = Outstanding(indexed', b)
  BY DEF OutstandingReserved, Outstanding, MapThenSumSet, MapThenFoldSet, Buyer, Cap
<1> QED BY <1>1, <1>2

LEMMA CapForTyped ==
  ASSUME NEW res \in Holders, NEW b
  PROVE  \A n \in Nonces : CapFor(res, b)[n] \in Nat
BY CallTyped DEF CapFor, Holders

LEMMA OutstandingSum ==
  ASSUME NEW res \in Holders, NEW b
  PROVE  Outstanding(res, b) = SumOver(CapFor(res, b), Nonces)
<1> DEFINE live == {n \in Nonces : res[n] # NoCall /\ Buyer(res[n]) = b}
           F    == CapFor(res, b)
           Sums(h) == h = [T \in SUBSET live |-> IF T = {} THEN 0
                             ELSE Cap(res[Pick(T)]) + h[T \ {Pick(T)}]]
<1>1. IsFiniteSet(Nonces) /\ IsFiniteSet(live)
  BY EscrowAssumption, FS_Subset
<1>2. Outstanding(res, b) = (CHOOSE h : Sums(h))[live]
  BY DEF Outstanding, MapThenSumSet, MapThenFoldSet, Pick
<1>3. \A T \in SUBSET live : T # {} => F[Pick(T)] = Cap(res[Pick(T)])
  BY PickIn DEF CapFor
<1>4. ASSUME NEW h
      PROVE  Sums(h) <=> SumsOf(F, live, h)
  <2> DEFINE with(T) == IF T = {} THEN 0 ELSE Cap(res[Pick(T)]) + h[T \ {Pick(T)}]
             from(T) == IF T = {} THEN 0 ELSE F[Pick(T)] + h[T \ {Pick(T)}]
  <2>1. \A T \in SUBSET live : with(T) = from(T)
    BY <1>3
  <2>2. Sums(h) <=> h = [T \in SUBSET live |-> with(T)]
    OBVIOUS
  <2>3. SumsOf(F, live, h) <=> h = [T \in SUBSET live |-> from(T)]
    BY DEF SumsOf
  <2> HIDE DEF with, from, Sums, F
  <2> QED BY <2>1, <2>2, <2>3
<1> HIDE DEF Sums
<1>5. PICK g : SumsOf(F, live, g) /\ \A h : SumsOf(F, live, h) => h = g
  <2> HIDE DEF F, live
  <2> QED BY <1>1, SumsExist
<1>6. (CHOOSE h : Sums(h)) = g
  BY <1>4, <1>5
<1>7. SumOver(F, live) = g[live]
  BY <1>1, <1>5, SumOverIs
<1>8. SumOver(F, Nonces) = SumOver(F, live)
  <2>1. \A n \in Nonces : F[n] \in Int
    BY CapForTyped
  <2>2. \A n \in Nonces \ live : F[n] = 0
    BY DEF CapFor
  <2>3. live \in SUBSET Nonces
    OBVIOUS
  <2> HIDE DEF F, live
  <2> QED BY <1>1, <2>1, <2>2, <2>3, SumSupport
<1> QED BY <1>2, <1>6, <1>7, <1>8

LEMMA OutstandingNat ==
  ASSUME NEW res \in Holders, NEW b
  PROVE  Outstanding(res, b) \in Nat
<1>1. IsFiniteSet(Nonces)
  BY EscrowAssumption
<1>2. SumOver(CapFor(res, b), Nonces) \in Nat
  BY <1>1, CapForTyped, SumMonotone
<1> QED BY <1>2, OutstandingSum

\* A reservation given back never raises the sum.
LEMMA DropLowers ==
  ASSUME NEW res \in Holders, NEW n \in Nonces, NEW b
  PROVE  Outstanding([res EXCEPT ![n] = NoCall], b) <= Outstanding(res, b)
<1> DEFINE to == [res EXCEPT ![n] = NoCall]
           F  == CapFor(res, b)
           G  == CapFor(to, b)
<1>1. to \in Holders
  BY DEF Holders
<1>2. \A m \in Nonces : F[m] \in Nat /\ G[m] \in Nat
  BY <1>1, CapForTyped
<1>3. G[n] = 0 /\ \A m \in Nonces : m # n => F[m] = G[m]
  BY DEF CapFor, Holders
<1> HIDE DEF F, G
<1>4. IsFiniteSet(Nonces)
  BY EscrowAssumption
<1>5. SumOver(G, Nonces) = SumOver(F, Nonces) + (G[n] - F[n])
  BY <1>2, <1>3, <1>4, SumChange
<1>6. SumOver(F, Nonces) \in Nat
  BY <1>2, <1>4, SumMonotone
<1>7. SumOver(G, Nonces) <= SumOver(F, Nonces)
  BY <1>2, <1>3, <1>5, <1>6
<1> HIDE DEF to
<1> QED BY <1>1, <1>7, OutstandingSum DEF F, G, to

\* A new reservation adds its cap, to its own buyer's sum alone.
LEMMA ReserveAdds ==
  ASSUME NEW res \in Holders, NEW n \in Nonces, res[n] = NoCall, NEW c \in Calls, NEW b
  PROVE  Outstanding([res EXCEPT ![n] = c], b)
           = Outstanding(res, b) + (IF Buyer(c) = b THEN Cap(c) ELSE 0)
<1> DEFINE to == [res EXCEPT ![n] = c]
           F  == CapFor(res, b)
           G  == CapFor(to, b)
           v  == IF Buyer(c) = b THEN Cap(c) ELSE 0
<1>1. to \in Holders
  BY DEF Holders
<1>2. \A m \in Nonces : F[m] \in Nat /\ G[m] \in Nat
  BY <1>1, CapForTyped
<1>3. G[n] = v /\ F[n] = 0 /\ \A m \in Nonces : m # n => F[m] = G[m]
  BY NoneIsNone DEF CapFor, Holders
<1> HIDE DEF F, G, v
<1>4. IsFiniteSet(Nonces)
  BY EscrowAssumption
<1>5. SumOver(G, Nonces) = SumOver(F, Nonces) + (G[n] - F[n])
  BY <1>2, <1>3, <1>4, SumChange
<1>6. SumOver(F, Nonces) \in Nat
  BY <1>2, <1>4, SumMonotone
<1> HIDE DEF to
<1>7. SumOver(G, Nonces) = SumOver(F, Nonces) + v
  BY <1>2, <1>3, <1>5, <1>6
<1> QED BY <1>1, <1>7, OutstandingSum DEF F, G, v, to

-----------------------------------------------------------------------------
\* What must not happen: a lock key that expires under its holder, and a buyer
\* who is also paid by a resource (a share of a debit would raise the balance
\* above what was deposited).
BuyersOnlyPay ==
  /\ LocksLast
  /\ \A c \in Calls, r \in ResourceIds : Buyer(c) \notin {Split[r].creator, Split[r].treasury}

\* The critical section after the balance is read, and after the caps are
\* counted against it.
Looked  == {"outstanding", "pending", "onchain", "spent", "reserve"}
Counted == {"pending", "onchain", "spent", "reserve"}

PayeesKept ==
  \A r \in ResourceIds : /\ resources[r].creator = Split[r].creator
                         /\ resources[r].treasury = Split[r].treasury
Deposited ==
  \A c \in Calls : balanceOf[Buyer(c)] <= Funds[Buyer(c)]
SeenFits ==
  \A c \in Calls : gate[c] \in Looked => seenBalance[c] <= Funds[Buyer(c)]
CountFits ==
  \A c \in Calls : gate[c] \in Counted =>
    seenBalance[c] >= OutstandingReserved(Buyer(c)) + Cap(c)
CapsFit ==
  \A b \in Accounts : OutstandingReserved(b) <= Funds[b]
\* A cap key is stored for the call that holds the nonce, if at all.
IndexedHeld ==
  \A n \in Nonces : indexed[n] \in {NoCall, reservation[n]}

Budget    == PayeesKept /\ Deposited /\ SeenFits /\ CountFits /\ CapsFit
BudgetInv == PathInv /\ LockHeld /\ IndexedHeld /\ Budget

LEMMA IndexStep ==
  ASSUME TypeOK, IndexedHeld, [Next]_vars
  PROVE  IndexedHeld'
<1>1. /\ reservation \in [Nonces -> Calls \cup {NoCall}]
      /\ indexed \in [Nonces -> Calls \cup {NoCall}]
      /\ \A c \in Calls : Nonce(c) \in Nonces
  BY CallTyped DEF TypeOK
<1>2. ASSUME NEW n \in Nonces, DropReservation(n)
      PROVE  IndexedHeld'
  BY <1>1, <1>2 DEF DropReservation, IndexedHeld
<1>3. ASSUME UNCHANGED <<reservation, indexed>>
      PROVE  IndexedHeld'
  BY <1>3 DEF IndexedHeld
<1>4. ASSUME NEW c \in Calls, Reserve(c) \/ ReserveThrows(c)
      PROVE  IndexedHeld'
  <2>1. CASE UNCHANGED <<reservation, indexed>>
    BY <1>3, <2>1
  <2>2. CASE /\ ~Pending(Nonce(c))
             /\ reservation' = [reservation EXCEPT ![Nonce(c)] = c]
             /\ indexed' \in {indexed, [indexed EXCEPT ![Nonce(c)] = c]}
    BY <1>1, <2>2 DEF IndexedHeld, Pending
  <2> QED BY <1>4, <2>1, <2>2 DEF Reserve, ReserveThrows
<1>5. ASSUME NEW c \in Calls, VerifyStep(c) \/ HandlerStep(c)
      PROVE  \/ Reserve(c) \/ DropReservation(Nonce(c))
             \/ UNCHANGED <<reservation, indexed>>
  BY <1>5 DEF VerifyStep, Present, AcquireLock, ReadBalance, ReadOutstanding, CheckPending,
     CheckUsedNonce, CheckSpent, VerifyCheck, HandlerStep, RunHandler, HandlerCharges,
     HandlerFails, HandlerTimesOut, ReleaseReservation, Release, gateOnlyUnchanged, storeVars
<1>6. ASSUME NEW c \in Calls, SettleStep(c) \/ MineTx(c)
      PROVE  DropReservation(Nonce(c)) \/ UNCHANGED <<reservation, indexed>>
  BY <1>6 DEF SettleStep, SettleEntry, SettleLookup, SettleFromCache, Broadcast,
     RecordSettleTx, WaitForReceipt, Rebuild, Spend, PutResult, RecordRevenue, Answer,
     Reject, Release, MarkNonceSpent, MineTx, offChainUnchanged, storeVars
<1>7. CASE Environment
  <2>1. \/ \E c \in Calls : ReserveThrows(c) \/ DropReservation(Nonce(c))
        \/ \E n \in Nonces : DropReservation(n)
        \/ UNCHANGED <<reservation, indexed>>
    BY <1>7 DEF Environment, BuyerWithdraws, LockExpires, ResourcePaused,
       ReservationExpires, ResultExpires, VerifyThrows, ReleaseThrows, Release,
       SettleThrows, ReplyLost, GateCrash, HandlerEnds, gateOnlyUnchanged, ClockTicks,
       FacilitatorCrash, offChainUnchanged, storeVars
  <2> QED BY <1>1, <1>2, <1>3, <1>4, <2>1
<1>8. CASE UNCHANGED vars
  BY <1>3, <1>8 DEF vars, storeVars
<1> QED BY <1>1, <1>2, <1>3, <1>4, <1>5, <1>6, <1>7, <1>8 DEF Next

\* Balances and sums only fall, and a gate that goes on in the critical section
\* has checked what its new position says.
LEMMA BudgetStep ==
  ASSUME TypeOK, TypeOK', Budget, PayeesKept', Deposited',
         \A b \in Accounts : Outstanding(indexed', b) <= Outstanding(indexed, b),
         \A c \in Calls : gate'[c] \in Looked =>
           \/ gate[c] \in Looked /\ seenBalance'[c] = seenBalance[c]
           \/ seenBalance'[c] = balanceOf[Buyer(c)],
         \A c \in Calls : gate'[c] \in Counted =>
           /\ seenBalance'[c] = seenBalance[c]
           /\ \/ gate[c] \in Counted
              \/ seenBalance[c] >= Outstanding(indexed, Buyer(c)) + Cap(c)
  PROVE  Budget'
<1>1. /\ indexed \in Holders /\ indexed' \in Holders
      /\ Funds \in [Accounts -> Nat] \/ \A b \in Accounts : Funds[b] \in Nat
      /\ seenBalance \in [Calls -> Nat]
  BY FacilitatorAssumption DEF TypeOK, Holders, Addresses
<1>2. \A b \in Accounts : /\ Outstanding(indexed, b) \in Nat
                          /\ Outstanding(indexed', b) \in Nat
                          /\ Funds[b] \in Nat
  BY <1>1, OutstandingNat
<1>3. \A c \in Calls : Buyer(c) \in Accounts /\ Cap(c) \in Nat
  BY CallTyped
<1>4. SeenFits'
  BY DEF SeenFits, Budget, Deposited, Buyer
<1>5. \A c \in Calls : gate'[c] \in Counted =>
        seenBalance'[c] >= Outstanding(indexed', Buyer(c)) + Cap(c)
  BY <1>1, <1>2, <1>3, OutstandingIsIt DEF Budget, CountFits
<1>6. CountFits'
  <2>1. \A c \in Calls : Buyer(c)' = Buyer(c) /\ Cap(c)' = Cap(c)
    BY DEF Buyer, Cap
  <2> QED BY <1>5, <2>1, OutstandingIsIt DEF CountFits
<1>7. \A b \in Accounts : Outstanding(indexed', b) <= Funds[b]
  BY <1>2, OutstandingIsIt DEF Budget, CapsFit
<1>8. CapsFit'
  BY <1>7, OutstandingIsIt DEF CapsFit
<1> QED BY <1>4, <1>6, <1>8 DEF Budget

\* The reservation itself: the cap was counted under the lock, and no other
\* call of the buyer reserved since.
LEMMA ReserveFits ==
  ASSUME BudgetInv, TypeOK', NEW c \in Calls, Reserve(c) \/ ReserveThrows(c)
  PROVE  Budget'
<1>1. /\ TypeOK /\ LockHeld /\ IndexedHeld /\ Budget
      /\ gate \in [Calls -> GateSteps \cup Answers]
      /\ seenBalance \in [Calls -> Nat]
      /\ indexed \in Holders
      /\ gate[c] = "reserve" /\ Nonce(c) \in Nonces
      /\ \A b \in Accounts : Funds[b] \in Nat
      /\ \A d \in Calls : Buyer(d) \in Accounts /\ Cap(d) \in Nat
  BY CallTyped, FacilitatorAssumption
     DEF BudgetInv, PathInv, TypeOK, Holders, Reserve, ReserveThrows, GateMoves, Addresses
<1>2. /\ UNCHANGED <<seenBalance, balanceOf, resources>>
      /\ \A d \in Calls : d # c => gate'[d] = gate[d]
      /\ gate'[c] \in {"refused", "reserved"}
  BY <1>1 DEF Reserve, ReserveThrows, GateMoves, chainVars, registryVars, escrowVars
<1>3. PayeesKept' /\ Deposited'
  BY <1>1, <1>2 DEF Budget, PayeesKept, Deposited, Buyer
<1>4. CASE indexed' = indexed
  BY <1>1, <1>2, <1>3, <1>4, OutstandingNat, BudgetStep DEF Looked, Counted
<1>5. CASE Pending(Nonce(c)) = FALSE /\ indexed' = [indexed EXCEPT ![Nonce(c)] = c]
  <2>1. indexed[Nonce(c)] = NoCall
    BY <1>1, <1>5 DEF Pending, IndexedHeld
  <2>2. \A b \in Accounts : Outstanding(indexed', b)
                              = Outstanding(indexed, b) + (IF Buyer(c) = b THEN Cap(c) ELSE 0)
    BY <1>1, <1>5, <2>1, ReserveAdds, ZenonT(40)
  <2>3. \A b \in Accounts : Outstanding(indexed, b) \in Nat
    BY <1>1, OutstandingNat
  <2>4. /\ seenBalance[c] >= Outstanding(indexed, Buyer(c)) + Cap(c)
        /\ seenBalance[c] <= Funds[Buyer(c)]
    BY <1>1, OutstandingIsIt DEF Budget, CountFits, SeenFits, Counted, Looked
  <2>5. \A b \in Accounts : Outstanding(indexed', b) <= Funds[b]
    <3> SUFFICES ASSUME NEW b \in Accounts PROVE Outstanding(indexed', b) <= Funds[b]
      OBVIOUS
    <3>1. Outstanding(indexed, b) <= Funds[b]
      BY <1>1, OutstandingIsIt DEF Budget, CapsFit
    <3> QED BY <1>1, <2>2, <2>3, <2>4, <3>1
  <2>6. CapsFit'
    BY <2>5, OutstandingIsIt DEF CapsFit
  <2>7. SeenFits'
    BY <1>1, <1>2 DEF Budget, SeenFits, Looked, Buyer
  <2>8. \A d \in Calls : gate'[d] \in Counted =>
          seenBalance'[d] >= Outstanding(indexed', Buyer(d)) + Cap(d)
    <3> SUFFICES ASSUME NEW d \in Calls, gate'[d] \in Counted
                 PROVE  seenBalance'[d] >= Outstanding(indexed', Buyer(d)) + Cap(d)
      OBVIOUS
    <3>1. d # c /\ gate[d] \in Counted
      BY <1>2 DEF Counted
    <3>2. Buyer(d) # Buyer(c)
      BY <1>1, <3>1 DEF LockHeld, InLock, Counted
    <3>3. Outstanding(indexed', Buyer(d)) = Outstanding(indexed, Buyer(d))
      BY <1>1, <2>2, <2>3, <3>2
    <3>4. seenBalance[d] >= Outstanding(indexed, Buyer(d)) + Cap(d)
      BY <1>1, <3>1, OutstandingIsIt DEF Budget, CountFits
    <3> QED BY <1>2, <3>3, <3>4
  <2>9. CountFits'
    <3>1. \A d \in Calls : Buyer(d)' = Buyer(d) /\ Cap(d)' = Cap(d)
      BY DEF Buyer, Cap
    <3> QED BY <2>8, <3>1, OutstandingIsIt DEF CountFits
  <2> QED BY <1>3, <2>6, <2>7, <2>9 DEF Budget
<1> QED BY <1>4, <1>5 DEF Reserve, ReserveThrows, Pending

\* The other moves of the gate, the caps counted among them.
LEMMA GateFits ==
  ASSUME BudgetInv, TypeOK', UNCHANGED <<indexed, balanceOf, resources>>,
         NEW c \in Calls, \A d \in Calls : d # c => gate'[d] = gate[d],
         \A d \in Calls : d # c => seenBalance'[d] = seenBalance[d],
         \/ gate'[c] \notin Looked
         \/ gate'[c] = "outstanding" /\ seenBalance'[c] = balanceOf[Buyer(c)]
         \/ /\ gate'[c] \in Counted /\ seenBalance'[c] = seenBalance[c]
            /\ \/ gate[c] \in Counted
               \/ /\ gate[c] = "outstanding"
                  /\ seenBalance[c] >= OutstandingReserved(Buyer(c)) + Cap(c)
         \/ gate'[c] = gate[c] /\ seenBalance'[c] = seenBalance[c]
  PROVE  Budget'
<1>1. /\ TypeOK /\ Budget /\ indexed \in Holders
  BY DEF BudgetInv, PathInv, TypeOK, Holders
<1>2. PayeesKept' /\ Deposited'
  BY <1>1 DEF Budget, PayeesKept, Deposited, Buyer
<1>3. \A b \in Accounts : Outstanding(indexed', b) <= Outstanding(indexed, b)
  BY <1>1, OutstandingNat
<1>4. \A d \in Calls : gate'[d] \in Looked =>
        \/ gate[d] \in Looked /\ seenBalance'[d] = seenBalance[d]
        \/ seenBalance'[d] = balanceOf[Buyer(d)]
  BY DEF Looked, Counted
<1>5. \A d \in Calls : gate'[d] \in Counted =>
        /\ seenBalance'[d] = seenBalance[d]
        /\ \/ gate[d] \in Counted
           \/ seenBalance[d] >= Outstanding(indexed, Buyer(d)) + Cap(d)
  BY OutstandingIsIt DEF Looked, Counted
<1> QED BY <1>1, <1>2, <1>3, <1>4, <1>5, BudgetStep

\* A step with which balances and reservations at most fall, no gate going on
\* in the critical section.
LEMMA FallFits ==
  ASSUME BudgetInv, TypeOK', PayeesKept', Deposited',
         \/ indexed' = indexed
         \/ \E n \in Nonces : indexed' = [indexed EXCEPT ![n] = NoCall],
         \A c \in Calls : gate'[c] \in Looked =>
           gate'[c] = gate[c] /\ seenBalance'[c] = seenBalance[c]
  PROVE  Budget'
<1>1. TypeOK /\ Budget /\ indexed \in Holders /\ Counted \subseteq Looked
  BY DEF BudgetInv, PathInv, TypeOK, Holders, Counted, Looked
<1>2. \A b \in Accounts : Outstanding(indexed', b) <= Outstanding(indexed, b)
  BY <1>1, OutstandingNat, DropLowers
<1> QED BY <1>1, <1>2, BudgetStep

\* A debit takes from its buyer and pays the creator and the treasury only.
LEMMA DebitLowers ==
  ASSUME BudgetInv, NEW c \in Calls, MineTx(c), NEW b \in Accounts,
         \A r \in ResourceIds : b \notin {resources[r].creator, resources[r].treasury}
  PROVE  balanceOf'[b] <= balanceOf[b]
<1>1. /\ balanceOf \in [Addresses -> Nat] /\ b \in Addresses
      /\ DebitAmount(c) \in Nat /\ AuthOf[c].resourceId \in ResourceIds
  BY CallTyped, AuthTyped, DebitTyped
     DEF BudgetInv, PathInv, TypeOK, EscrowSystemTypeOK, EscrowTypeOK, Addresses
<1>2. CASE UNCHANGED escrowVars
  BY <1>1, <1>2 DEF escrowVars
<1>3. CASE Debit(Relayer, AuthOf[c], DebitAmount(c))
  <2> DEFINE r  == resources[AuthOf[c].resourceId]
             x  == DebitAmount(c)
             tc == CreatorShare(x, r.creatorBps)
             b1 == [balanceOf EXCEPT ![AuthOf[c].buyer] = @ - x]
             b2 == [b1 EXCEPT ![r.creator] = @ + tc]
  <2>1. balanceOf' = [b2 EXCEPT ![r.treasury] = @ + (x - tc)]
    BY <1>3 DEF Debit, AfterSplit
  <2>2. b # r.creator /\ b # r.treasury
    BY <1>1
  <2>3. x \in Nat
    BY <1>1
  <2> HIDE DEF r, x, tc
  <2>4. DOMAIN b1 = Addresses /\ DOMAIN b2 = Addresses
    BY <1>1
  <2>5. balanceOf'[b] = b2[b] /\ b2[b] = b1[b]
    BY <1>1, <2>1, <2>2, <2>4
  <2>6. b1[b] <= balanceOf[b]
    BY <1>1, <2>3
  <2> QED BY <2>5, <2>6
<1> QED BY <1>2, <1>3 DEF MineTx

\* What the chain does meanwhile: debits, withdrawals, pauses, time.
LEMMA ChainFits ==
  ASSUME BuyersOnlyPay, BudgetInv, TypeOK',
         \/ \E c \in Calls : MineTx(c)
         \/ \E b \in Accounts : BuyerWithdraws(b)
         \/ \E r \in ResourceIds : ResourcePaused(r)
         \/ ClockTicks
  PROVE  Budget'
<1>1. /\ TypeOK /\ Budget
      /\ resources \in [ResourceIds -> Resource]
      /\ balanceOf \in [Addresses -> Nat] /\ balanceOf' \in [Addresses -> Nat]
      /\ \A c \in Calls : Buyer(c) \in Accounts /\ Funds[Buyer(c)] \in Nat
  BY CallTyped, FacilitatorAssumption
     DEF BudgetInv, PathInv, TypeOK, EscrowSystemTypeOK, EscrowTypeOK, RegistryTypeOK, Addresses
<1>2. UNCHANGED <<gate, seenBalance, indexed>>
  BY DEF MineTx, BuyerWithdraws, ResourcePaused, ClockTicks, offChainUnchanged, gateVars,
         storeVars
<1>3. PayeesKept'
  <2>1. CASE resources' = resources
    BY <1>1, <2>1 DEF Budget, PayeesKept
  <2>2. CASE \E r \in ResourceIds : ResourcePaused(r)
    <3>1. PICK r \in ResourceIds : resources' = [resources EXCEPT ![r].active = FALSE]
      BY <2>2 DEF ResourcePaused, Pause, SetActive
    <3> QED BY <1>1, <3>1 DEF Budget, PayeesKept, Resource
  <2>3. resources' = resources \/ \E r \in ResourceIds : ResourcePaused(r)
    BY DEF MineTx, BuyerWithdraws, ClockTicks, registryVars
  <2> QED BY <2>1, <2>2, <2>3
<1>4. \A c \in Calls : balanceOf'[Buyer(c)] <= balanceOf[Buyer(c)]
  <2> SUFFICES ASSUME NEW c \in Calls PROVE balanceOf'[Buyer(c)] <= balanceOf[Buyer(c)]
    OBVIOUS
  <2>0. balanceOf[Buyer(c)] \in Nat
    BY <1>1 DEF Addresses
  <2>1. CASE balanceOf' = balanceOf
    BY <2>0, <2>1
  <2>2. CASE \E d \in Calls : MineTx(d)
    <3>1. \A r \in ResourceIds : Buyer(c) \notin {resources[r].creator, resources[r].treasury}
      BY <1>1 DEF BuyersOnlyPay, Budget, PayeesKept
    <3> QED BY <1>1, <2>2, <3>1, DebitLowers
  <2>3. CASE \E b \in Accounts : BuyerWithdraws(b)
    <3>1. PICK b \in Accounts : balanceOf' = [balanceOf EXCEPT ![b] = @ - balanceOf[b]]
      BY <2>3 DEF BuyerWithdraws, Withdraw
    <3> QED BY <1>1, <2>0, <3>1
  <2>4. \/ balanceOf' = balanceOf \/ \E d \in Calls : MineTx(d)
        \/ \E b \in Accounts : BuyerWithdraws(b)
    BY DEF ResourcePaused, ClockTicks, escrowVars
  <2> QED BY <2>1, <2>2, <2>3, <2>4
<1>5. \A c \in Calls : balanceOf'[Buyer(c)] \in Nat /\ balanceOf[Buyer(c)] \in Nat
  BY <1>1 DEF Addresses
<1>6. Deposited'
  <2>1. \A c \in Calls : balanceOf'[Buyer(c)] <= Funds[Buyer(c)]
    BY <1>1, <1>4, <1>5 DEF Budget, Deposited
  <2>2. \A c \in Calls : Buyer(c)' = Buyer(c)
    BY DEF Buyer
  <2> QED BY <2>1, <2>2 DEF Deposited
<1> QED BY <1>2, <1>3, <1>6, FallFits

LEMMA BudgetHeld ==
  ASSUME BuyersOnlyPay, BudgetInv, [Next]_vars
  PROVE  BudgetInv'
<1>1. PathInv' /\ LockHeld' /\ IndexedHeld' /\ TypeOK'
  BY PathStep, LockStep, IndexStep DEF BudgetInv, PathInv, BuyersOnlyPay
<1> SUFFICES Budget'
  BY <1>1 DEF BudgetInv
<1>2. /\ gate \in [Calls -> GateSteps \cup Answers]
      /\ seenBalance \in [Calls -> Nat]
      /\ \A c \in Calls : Nonce(c) \in Nonces
      /\ PayeesKept /\ Deposited
  BY CallTyped DEF BudgetInv, PathInv, TypeOK, Budget
<1>3. ASSUME UNCHANGED <<balanceOf, resources>>
      PROVE  PayeesKept' /\ Deposited'
  BY <1>2, <1>3 DEF PayeesKept, Deposited, Buyer
<1>4. ASSUME NEW c \in Calls, VerifyStep(c) \/ VerifyThrows(c), ~Reserve(c)
      PROVE  Budget'
  <2>1. /\ UNCHANGED <<indexed, balanceOf, resources>>
        /\ \A d \in Calls : d # c => gate'[d] = gate[d] /\ seenBalance'[d] = seenBalance[d]
    BY <1>2, <1>4 DEF VerifyStep, VerifyThrows, Present, AcquireLock, ReadBalance,
       ReadOutstanding, CheckPending, CheckUsedNonce, CheckSpent, VerifyCheck, GateMoves,
       storeVars, chainVars, registryVars, escrowVars
  <2>2. \/ gate'[c] \in {"locking", "refused", "balance"}
        \/ gate'[c] = "outstanding" /\ seenBalance'[c] = balanceOf[Buyer(c)]
        \/ /\ gate'[c] = "pending" /\ gate[c] = "outstanding"
           /\ seenBalance'[c] = seenBalance[c]
           /\ seenBalance[c] >= OutstandingReserved(Buyer(c)) + Cap(c)
        \/ /\ gate'[c] \in Counted /\ gate[c] \in Counted
           /\ seenBalance'[c] = seenBalance[c]
    BY <1>2, <1>4 DEF VerifyStep, VerifyThrows, Present, AcquireLock, ReadBalance,
       ReadOutstanding, CheckPending, CheckUsedNonce, CheckSpent, VerifyCheck, GateMoves,
       Counted
  <2>3. gate'[c] \in {"locking", "refused", "balance"} => gate'[c] \notin Looked
    BY DEF Looked
  <2>4. gate'[c] = "pending" => gate'[c] \in Counted
    BY DEF Counted
  <2> QED BY <1>1, <2>1, <2>2, <2>3, <2>4, GateFits
<1>5. ASSUME NEW c \in Calls, HandlerStep(c) \/ HandlerEnds(c) \/ ReleaseThrows(c)
      PROVE  Budget'
  <2>1. /\ UNCHANGED <<balanceOf, resources, seenBalance>>
        /\ indexed' = indexed \/ indexed' = [indexed EXCEPT ![Nonce(c)] = NoCall]
        /\ \A d \in Calls : gate'[d] \in Looked => gate'[d] = gate[d]
    BY <1>2, <1>5 DEF HandlerStep, RunHandler, HandlerCharges, HandlerFails,
       HandlerTimesOut, HandlerEnds, ReleaseReservation, ReleaseThrows, Release,
       DropReservation, gateOnlyUnchanged, GateMoves, Looked, storeVars, chainVars,
       registryVars, escrowVars
  <2> QED BY <1>1, <1>2, <1>3, <2>1, FallFits
<1>6. ASSUME NEW c \in Calls, SettleStep(c) \/ SettleThrows(c) \/ ReplyLost(c) \/ GateCrash(c)
      PROVE  Budget'
  <2>1. UNCHANGED <<balanceOf, resources, seenBalance>>
    BY <1>6 DEF SettleStep, SettleEntry, SettleLookup, SettleFromCache, Broadcast,
       RecordSettleTx, WaitForReceipt, Rebuild, Spend, PutResult, RecordRevenue, Answer,
       Reject, SettleThrows, ReplyLost, GateCrash, settleOnlyUnchanged, gateVars,
       chainVars, registryVars, escrowVars
  <2>2. indexed' = indexed \/ indexed' = [indexed EXCEPT ![Nonce(c)] = NoCall]
    BY <1>6 DEF SettleStep, SettleEntry, SettleLookup, SettleFromCache, Broadcast,
       RecordSettleTx, WaitForReceipt, Rebuild, Spend, PutResult, RecordRevenue, Answer,
       Reject, SettleThrows, ReplyLost, GateCrash, Release, MarkNonceSpent,
       DropReservation, storeVars
  <2>3. \A d \in Calls : gate'[d] \in Looked => gate'[d] = gate[d]
    BY <1>2, <1>6 DEF SettleStep, SettleEntry, SettleLookup, SettleFromCache, Broadcast,
       RecordSettleTx, WaitForReceipt, Rebuild, Spend, PutResult, RecordRevenue, Answer,
       Reject, SettleThrows, ReplyLost, GateCrash, GateMoves, settleOnlyUnchanged,
       gateVars, Looked
  <2> QED BY <1>1, <1>2, <1>3, <2>1, <2>2, <2>3, FallFits
<1>7. CASE \/ \E b \in Accounts : LockExpires(b)
           \/ \E n \in Nonces : ReservationExpires(n) \/ ResultExpires(n)
           \/ FacilitatorCrash \/ UNCHANGED vars
  <2>1. UNCHANGED <<balanceOf, resources, seenBalance>>
    BY <1>7 DEF LockExpires, ReservationExpires, ResultExpires, FacilitatorCrash, vars,
       gateVars, chainVars, registryVars, escrowVars
  <2>2. \/ indexed' = indexed
        \/ \E n \in Nonces : indexed' = [indexed EXCEPT ![n] = NoCall]
    BY <1>7 DEF LockExpires, ReservationExpires, DropReservation, ResultExpires,
       FacilitatorCrash, vars, storeVars
  <2>3. \A d \in Calls : gate'[d] \in Looked => gate'[d] = gate[d]
    <3>1. CASE FacilitatorCrash
      BY <1>2, <3>1 DEF FacilitatorCrash, Looked, VerifySteps
    <3> QED BY <1>7, <3>1 DEF LockExpires, ReservationExpires, ResultExpires, vars, gateVars
  <2> QED BY <1>1, <1>2, <1>3, <2>1, <2>2, <2>3, FallFits
<1>8. CASE \E c \in Calls : Reserve(c) \/ ReserveThrows(c)
  BY <1>1, <1>8, ReserveFits
<1>9. CASE Environment
  BY <1>1, <1>4, <1>5, <1>6, <1>7, <1>8, <1>9, ChainFits DEF Environment
<1> QED BY <1>1, <1>4, <1>5, <1>6, <1>7, <1>8, <1>9, ChainFits DEF Next

\* Nothing is reserved at the start, and the deposits are what they are.
LEMMA BudgetStart ==
  ASSUME Init
  PROVE  BudgetInv
<1>1. /\ gate = [c \in Calls |-> "new"] /\ resources = Split /\ balanceOf = Funds
      /\ indexed = [n \in Nonces |-> NoCall]
  BY DEF Init
<1>2. LockHeld /\ IndexedHeld /\ SeenFits /\ CountFits
  BY <1>1 DEF LockHeld, InLock, IndexedHeld, SeenFits, Looked, CountFits, Counted
<1>3. PayeesKept
  BY <1>1 DEF PayeesKept
<1>4. \A b \in Accounts : Funds[b] \in Nat
  BY FacilitatorAssumption DEF Addresses
<1>5. Deposited
  BY <1>1, <1>4, CallTyped DEF Deposited
<1>6. CapsFit
  <2> SUFFICES ASSUME NEW b \in Accounts PROVE Outstanding(indexed, b) <= Funds[b]
    BY OutstandingIsIt DEF CapsFit
  <2>1. indexed \in Holders /\ IsFiniteSet(Nonces)
    BY <1>1, EscrowAssumption DEF Holders
  <2>2. \A n \in Nonces : CapFor(indexed, b)[n] = 0
    BY <1>1 DEF CapFor
  <2>3. Outstanding(indexed, b) = 0
    BY <2>1, <2>2, OutstandingSum, SumZero
  <2> QED BY <1>4, <2>3
<1> QED BY <1>2, <1>3, <1>5, <1>6, PathStart DEF BudgetInv, Budget

\* The live caps of a buyer never add up to more than the deposit, with calls
\* of any number of nonces verified at the same time, and with crashes,
\* exceptions, replays, lost replies, expiries and withdrawals between them.
THEOREM CapsWithinDeposit == BuyersOnlyPay => (Spec => []ReservedWithinDeposit)
<1> SUFFICES ASSUME BuyersOnlyPay PROVE Spec => []ReservedWithinDeposit
  OBVIOUS
<1>1. BudgetInv /\ [Next]_vars => BudgetInv'
  BY BudgetHeld
<1>2. Init => BudgetInv
  BY BudgetStart
<1>3. BudgetInv => ReservedWithinDeposit
  BY DEF BudgetInv, Budget, CapsFit, ReservedWithinDeposit
<1> QED BY <1>1, <1>2, <1>3, PTL DEF Spec
=============================================================================
