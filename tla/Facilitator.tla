----------------------------- MODULE Facilitator -----------------------------
(***************************************************************************)
(* The paid call, end to end: the resource's payment gate (requirePayment),*)
(* the facilitator's /verify, /release and /settle handlers over their     *)
(* durable stores (pgRedis), and PaymentEscrow on chain.                   *)
(*                                                                         *)
(* Each call is one X-PAYMENT request at the gate.  A handler runs from    *)
(* await to await: every action below is the code between two of them, so  *)
(* handlers of different calls, the chain and the environment interleave   *)
(* wherever the source lets them.  gate is the gate's own position, and    *)
(* its position inside the /verify it waits for; settling is the position  *)
(* of the /settle handler, which outlives a gate that stopped waiting.     *)
(*                                                                         *)
(* A call settles at most once, so its debit transaction is named by it.   *)
(* The payments row is written with the Redis key it follows: the handlers *)
(* never read it.  Faults selects what the environment may do in a run.    *)
(***************************************************************************)
EXTENDS PaymentEscrow, FiniteSetsExt

CONSTANTS Calls,            \* requests at the gate
          NoCall,
          AuthOf,           \* the authorization in a call's X-PAYMENT header
          MountedOn,        \* the resource a call is addressed to
          Computed,         \* amounts metering may compute, before the cap
          Funds,            \* what each account has deposited
          Split,            \* the resources as registered
          RevertNamed,      \* does an RPC error spell out NonceUsed?
          NoResult,
          Faults            \* subset of FaultKinds

FaultKinds == {"crash", "gatecrash", "lost", "throw", "ttl", "resultttl",
               "lockttl", "withdraw", "pause", "clock"}

ASSUME FacilitatorAssumption ==
  /\ NoCall \notin Calls
  /\ AuthOf \in [Calls -> Auths]
  /\ MountedOn \in [Calls -> ResourceIds]
  /\ Computed \subseteq Nat
  /\ Funds \in [Addresses -> Nat] /\ Funds[ZeroAddress] = 0
  /\ Split \in [ResourceIds -> Resource]
  /\ \A r \in ResourceIds :             \* as Register leaves it
       Split[r].exists => ZeroAddress \notin {Split[r].creator, Split[r].treasury}
  /\ RevertNamed \in BOOLEAN
  /\ Faults \subseteq FaultKinds
  /\ NoResult \notin [tx : Calls, amount : Nat]

VARIABLES gate,             \* call -> position of the gate
          working,          \* calls whose handler runs
          settling,         \* call -> position of its /settle handler
          computed,         \* call -> amount the gate asks /settle for
          seenBalance,      \* call -> balanceOf read inside /verify
          receipt,          \* call -> receipt its /settle handler holds
          buyerLock,        \* buyer -> call inside the /verify lock
          txState,          \* call -> its debit transaction
          reservation,      \* nonce -> call whose lock is stored (resv:)
          indexed,          \* nonce -> call whose cap is stored for its buyer
          row,              \* nonce -> payments.status
          spent,            \* spent-nonce markers
          settleTx,         \* nonce -> transaction recorded for it
          results,          \* nonce -> stored result
          fresh,            \* nonces whose stored result is within its TTL
          revenue,          \* nonce -> amount in the revenue ledger
          strikes,          \* calls that recorded a strike
          storeThrew        \* calls whose reserve or release threw midway

gateVars  == <<gate, working, computed, seenBalance, buyerLock>>
settleVars == <<settling, receipt>>
storeVars == <<reservation, indexed, row, spent, settleTx, results, fresh,
               revenue, strikes, storeThrew>>
chainVars == <<registryVars, now, escrowVars>>
vars == <<gateVars, settleVars, storeVars, chainVars, txState>>

Nonce(c) == AuthOf[c].nonce
Buyer(c) == AuthOf[c].buyer
Cap(c)   == AuthOf[c].maxAmount

VerifySteps == {"locking", "balance", "outstanding", "pending", "onchain",
                "spent", "reserve"}
GateSteps == {"new", "reserved", "running", "settling", "releasing", "striking"}
                \cup VerifySteps
Answers   == {"refused", "free", "paid", "failed"}
SettleSteps == {"entry", "lookup", "lookupUnreserved", "cache", "broadcast",
                "record", "wait", "rebuild", "spend", "put", "revenue",
                "answer", "reject"}

Receipt == [tx : Calls, amount : Nat]
NoReceipt == NoResult

Init ==
  /\ resources = Split
  /\ pendingSlashes = [r \in ResourceIds |-> NoPendingSlash]
  /\ now = 0
  /\ balanceOf = Funds
  /\ usedNonce = {}
  /\ admin = Relayer
  /\ usdcOf = [a \in Accounts \cup {Escrow} |->
                 IF a = Escrow THEN FoldFunction(+, 0, Funds) ELSE Supply[a]]
  /\ debited = <<>>
  /\ gate = [c \in Calls |-> "new"]
  /\ settling = [c \in Calls |-> "none"]
  /\ working = {}
  /\ computed = [c \in Calls |-> 0]
  /\ seenBalance = [c \in Calls |-> 0]
  /\ receipt = [c \in Calls |-> NoReceipt]
  /\ buyerLock = [a \in Accounts |-> NoCall]
  /\ txState = [c \in Calls |-> "none"]
  /\ reservation = [n \in Nonces |-> NoCall]
  /\ indexed = [n \in Nonces |-> NoCall]
  /\ row = [n \in Nonces |-> "none"]
  /\ spent = {}
  /\ settleTx = [n \in Nonces |-> NoCall]
  /\ results = [n \in Nonces |-> NoResult]
  /\ fresh = {}
  /\ revenue = [n \in Nonces |-> NoResult]
  /\ strikes = {}
  /\ storeThrew = {}

-----------------------------------------------------------------------------
(***************************************************************************)
(* PgRedisPaymentStore.                                                    *)
(***************************************************************************)
Pending(n) == reservation[n] # NoCall

\* The live caps of one buyer: those of the cap keys, not of the locks.
OutstandingReserved(b) ==
  LET live == {n \in Nonces : indexed[n] # NoCall /\ Buyer(indexed[n]) = b}
      cap(n) == Cap(indexed[n])
  IN  MapThenSumSet(cap, live)

\* One MULTI: the lock and the cap key go together.
DropReservation(n) ==
  /\ reservation' = [reservation EXCEPT ![n] = NoCall]
  /\ indexed' = [indexed EXCEPT ![n] = NoCall]

\* The row's update is in the same step: nothing reads the row.
Release(n) ==
  /\ DropReservation(n)
  /\ row' = [row EXCEPT ![n] = IF @ = "none" THEN @ ELSE "released"]

MarkNonceSpentKeepsLock(n) ==
  /\ spent' = spent \cup {n}
  /\ row' = [row EXCEPT ![n] = IF @ = "none" THEN @ ELSE "settled"]
  /\ UNCHANGED <<reservation, indexed>>

MarkNonceSpent(n) ==
  /\ DropReservation(n)
  /\ spent' = spent \cup {n}
  /\ row' = [row EXCEPT ![n] = IF @ = "none" THEN @ ELSE "settled"]

-----------------------------------------------------------------------------
(***************************************************************************)
(* The gate up to the reservation, and /verify.                            *)
(***************************************************************************)
GateMoves(c, from, to) == gate[c] = from /\ gate' = [gate EXCEPT ![c] = to]

\* The buyer lock is released by the finally of runExclusive, by its holder
\* only: a holder whose key expired deletes nothing.
LeaveLock(c) ==
  buyerLock' = [buyerLock EXCEPT ![Buyer(c)] = IF @ = c THEN NoCall ELSE @]

WellFormed(c) ==
  /\ SignedByBuyer(AuthOf[c])
  /\ AuthOf[c].resourceId = MountedOn[c]
  /\ AuthOf[c].validBefore > now

Present(c) ==
  /\ GateMoves(c, "new", IF WellFormed(c) THEN "locking" ELSE "refused")
  /\ UNCHANGED <<working, computed, seenBalance, buyerLock, settleVars, storeVars,
                 chainVars, txState>>

AcquireLockNotExclusive(c) ==
  /\ GateMoves(c, "locking", "balance")
  /\ buyerLock' = [buyerLock EXCEPT ![Buyer(c)] = c]
  /\ UNCHANGED <<working, computed, seenBalance, settleVars, storeVars, chainVars, txState>>

AcquireLock(c) ==
  /\ GateMoves(c, "locking", "balance")
  /\ buyerLock[Buyer(c)] = NoCall
  /\ buyerLock' = [buyerLock EXCEPT ![Buyer(c)] = c]
  /\ UNCHANGED <<working, computed, seenBalance, settleVars, storeVars, chainVars, txState>>

ReadBalance(c) ==
  /\ GateMoves(c, "balance", "outstanding")
  /\ seenBalance' = [seenBalance EXCEPT ![c] = balanceOf[Buyer(c)]]
  /\ UNCHANGED <<working, computed, buyerLock, settleVars, storeVars, chainVars, txState>>

\* One check of the critical section: go on, or refuse and leave the lock.
VerifyCheck(c, at, holds, next) ==
  /\ IF holds
     THEN GateMoves(c, at, next) /\ UNCHANGED buyerLock
     ELSE GateMoves(c, at, "refused") /\ LeaveLock(c)
  /\ UNCHANGED <<working, computed, seenBalance, settleVars, storeVars, chainVars, txState>>

ReadOutstanding(c) ==
  VerifyCheck(c, "outstanding",
              seenBalance[c] >= OutstandingReserved(Buyer(c)) + Cap(c), "pending")
CheckPending(c)   == VerifyCheck(c, "pending", ~Pending(Nonce(c)), "onchain")
CheckUsedNonce(c) == VerifyCheck(c, "onchain", NonceFree(AuthOf[c]), "spent")
CheckSpent(c)     == VerifyCheck(c, "spent", Nonce(c) \notin spent, "reserve")

\* SET NX: the winner holds the reservation, a loser is told reserve_race.
Reserve(c) ==
  /\ LeaveLock(c)
  /\ IF Pending(Nonce(c))
     THEN GateMoves(c, "reserve", "refused") /\ UNCHANGED <<reservation, indexed, row>>
     ELSE /\ GateMoves(c, "reserve", "reserved")
          /\ reservation' = [reservation EXCEPT ![Nonce(c)] = c]
          /\ indexed' = [indexed EXCEPT ![Nonce(c)] = c]
          /\ row' = [row EXCEPT ![Nonce(c)] = "reserved"]
  /\ UNCHANGED <<working, computed, seenBalance, settleVars, spent, settleTx,
                 results, fresh, revenue, strikes, storeThrew, chainVars, txState>>

\* A store call after the SET NX throws: the lock is stored, the cap key and
\* the row perhaps, /verify is a 500 and nobody will release them.
ReserveThrows(c) ==
  /\ "throw" \in Faults
  /\ ~Pending(Nonce(c))
  /\ GateMoves(c, "reserve", "refused")
  /\ LeaveLock(c)
  /\ reservation' = [reservation EXCEPT ![Nonce(c)] = c]
  /\ \/ UNCHANGED <<indexed, row>>
     \/ /\ indexed' = [indexed EXCEPT ![Nonce(c)] = c]
        /\ row' \in {row, [row EXCEPT ![Nonce(c)] = "reserved"]}
  /\ storeThrew' = storeThrew \cup {c}
  /\ UNCHANGED <<working, computed, seenBalance, settleVars, spent, settleTx,
                 results, fresh, revenue, strikes, chainVars, txState>>

\* The lock's acquire deadline, an RPC read or a store read throws: runExclusive
\* leaves the lock, /verify is a 500 and the gate answers 402.
VerifyThrows(c) ==
  /\ "throw" \in Faults
  /\ \E step \in VerifySteps : GateMoves(c, step, "refused")
  /\ LeaveLock(c)
  /\ UNCHANGED <<working, computed, seenBalance, settleVars, storeVars, chainVars, txState>>

-----------------------------------------------------------------------------
(***************************************************************************)
(* The gate once the reservation is confirmed: run the handler, classify   *)
(* its answer, settle or release.                                          *)
(***************************************************************************)
gateOnlyUnchanged == UNCHANGED <<seenBalance, buyerLock, storeVars, chainVars, txState>>

RunHandler(c) ==
  /\ GateMoves(c, "reserved", "running")
  /\ working' = working \cup {c}
  /\ gateOnlyUnchanged
  /\ UNCHANGED <<computed, settleVars>>

\* A valid answer, or a declared error that has a price: POST /settle.
HandlerCharges(c) ==
  /\ GateMoves(c, "running", "settling")
  /\ working' = working \ {c}
  /\ \E x \in Computed :
       computed' = [computed EXCEPT ![c] = IF x < Cap(c) THEN x ELSE Cap(c)]
  /\ settling' = [settling EXCEPT ![c] = "entry"]
  /\ gateOnlyUnchanged
  /\ UNCHANGED receipt

\* A declared error that is free (releasing); a throw, or an answer that
\* matches neither schema (striking).
HandlerFails(c) ==
  /\ \/ GateMoves(c, "running", "releasing")
     \/ GateMoves(c, "running", "striking")
  /\ working' = working \ {c}
  /\ gateOnlyUnchanged
  /\ UNCHANGED <<computed, settleVars>>

\* withTimeout only stops waiting: the handler runs on behind the gate, ...
HandlerTimesOut(c) ==
  /\ GateMoves(c, "running", "striking")
  /\ gateOnlyUnchanged
  /\ UNCHANGED <<working, computed, settleVars>>

\* ... and nobody reads what it ends with, if it ends.
HandlerEnds(c) ==
  /\ c \in working /\ gate[c] # "running"
  /\ working' = working \ {c}
  /\ gateOnlyUnchanged
  /\ UNCHANGED <<gate, computed, settleVars>>

\* POST /release: unconditional on the state of the nonce.
ReleaseReservation(c) ==
  /\ Release(Nonce(c))
  /\ \/ /\ GateMoves(c, "releasing", "free")
        /\ UNCHANGED strikes
     \/ /\ GateMoves(c, "striking", "failed")
        /\ strikes' = strikes \cup {c}
  /\ UNCHANGED <<working, computed, seenBalance, buyerLock, settleVars, spent,
                 settleTx, results, fresh, revenue, storeThrew, chainVars, txState>>

\* A store call of /release throws: before the MULTI, between it and the row,
\* or when the strike is recorded.  It is a 500, which the gate does not read.
ReleaseThrows(c) ==
  /\ "throw" \in Faults
  /\ \/ UNCHANGED <<reservation, indexed, row>>
     \/ DropReservation(Nonce(c)) /\ UNCHANGED row
     \/ Release(Nonce(c))
  /\ \/ GateMoves(c, "releasing", "free")
     \/ GateMoves(c, "striking", "failed")
  /\ storeThrew' = storeThrew \cup {c}
  /\ UNCHANGED <<working, computed, seenBalance, buyerLock, settleVars, spent,
                 settleTx, results, fresh, revenue, strikes, chainVars, txState>>

-----------------------------------------------------------------------------
(***************************************************************************)
(* /settle, and the settle() it calls.                                     *)
(***************************************************************************)
SettleMoves(c, from, to) ==
  settling[c] = from /\ settling' = [settling EXCEPT ![c] = to]

Cached(n) == n \in fresh
DebitAmount(c) == IF computed[c] < Cap(c) THEN computed[c] ELSE Cap(c)
DebitLands(c) == DebitAllowed(Relayer, AuthOf[c], DebitAmount(c))

settleOnlyUnchanged == UNCHANGED <<gateVars, chainVars>>

\* CR-04 reads isNoncePending first ...
SettleEntry(c) ==
  /\ SettleMoves(c, "entry", IF Pending(Nonce(c)) THEN "lookup"
                                                  ELSE "lookupUnreserved")
  /\ UNCHANGED <<receipt, storeVars, txState>>
  /\ settleOnlyUnchanged

\* ... then the result: no reservation and no result is a 409, an expired
\* authorization without a result releases the reservation and is a 402.
SettleLookup(c) ==
  LET expired == AuthOf[c].validBefore <= now IN
  /\ \/ /\ Cached(Nonce(c)) \/ (settling[c] = "lookup" /\ ~expired)
        /\ \/ SettleMoves(c, "lookup", "cache")
           \/ SettleMoves(c, "lookupUnreserved", "cache")
        /\ UNCHANGED <<reservation, indexed, row>>
     \/ /\ ~Cached(Nonce(c))
        /\ SettleMoves(c, "lookupUnreserved", "reject")
        /\ UNCHANGED <<reservation, indexed, row>>
     \/ /\ ~Cached(Nonce(c)) /\ expired
        /\ SettleMoves(c, "lookup", "reject")
        /\ Release(Nonce(c))
  /\ UNCHANGED <<receipt, spent, settleTx, results, fresh, revenue, strikes,
                 storeThrew, txState>>
  /\ settleOnlyUnchanged

SettleFromCache(c) ==
  /\ IF Cached(Nonce(c))
     THEN /\ SettleMoves(c, "cache", "answer")
          /\ receipt' = [receipt EXCEPT ![c] = results[Nonce(c)]]
     ELSE SettleMoves(c, "cache", "broadcast") /\ UNCHANGED receipt
  /\ UNCHANGED <<storeVars, txState>>
  /\ settleOnlyUnchanged

\* writeContract estimates gas first, so a debit that would revert now throws
\* and nothing is sent.  NonceUsed is the first check a debit of the admin can
\* fail; whether the thrown text names it is the RPC's doing.
Broadcast(c) ==
  /\ \/ /\ DebitLands(c)
        /\ SettleMoves(c, "broadcast", "record")
        /\ txState' = [txState EXCEPT ![c] = "pending"]
     \/ /\ ~DebitLands(c)
        /\ SettleMoves(c, "broadcast",
             IF RevertNamed /\ admin = Relayer /\ ~NonceFree(AuthOf[c])
             THEN "rebuild" ELSE "reject")
        /\ UNCHANGED txState
  /\ UNCHANGED <<receipt, storeVars>>
  /\ settleOnlyUnchanged

RecordSettleTxDropsLock(c) ==
  /\ SettleMoves(c, "record", "wait")
  /\ settleTx' = [settleTx EXCEPT ![Nonce(c)] = IF @ = NoCall THEN c ELSE @]
  /\ DropReservation(Nonce(c))
  /\ UNCHANGED <<receipt, row, spent, results, fresh, revenue, strikes, storeThrew,
                 txState>>
  /\ settleOnlyUnchanged

\* SET NX: the first broadcast for the nonce stays recorded.
RecordSettleTx(c) ==
  /\ SettleMoves(c, "record", "wait")
  /\ settleTx' = [settleTx EXCEPT ![Nonce(c)] = IF @ = NoCall THEN c ELSE @]
  /\ UNCHANGED <<receipt, reservation, indexed, row, spent, results, fresh, revenue,
                 strikes, storeThrew, txState>>
  /\ settleOnlyUnchanged

\* waitForTransactionReceipt resolves with a mined transaction whatever its
\* status, and the status is not read.
MinedNotAwaited(c) == txState[c] # "none"
Mined(c)           == txState[c] \in {"ok", "reverted"}

WaitForReceipt(c) ==
  /\ Mined(c)
  /\ SettleMoves(c, "wait", "spend")
  /\ receipt' = [receipt EXCEPT ![c] = [tx |-> c, amount |-> DebitAmount(c)]]
  /\ UNCHANGED <<storeVars, txState>>
  /\ settleOnlyUnchanged

\* rebuildEscrowReceiptFromEvent: the recorded transaction if it holds the
\* Debited event, an exception if it is not mined yet, else the log scan.
Rebuild(c) ==
  LET stored  == settleTx[Nonce(c)]
      landed  == {d \in Calls : Nonce(d) = Nonce(c) /\ txState[d] = "ok"}
      sources == IF stored \in landed THEN {stored} ELSE landed
  IN
  /\ IF stored # NoCall /\ txState[stored] = "pending"
     THEN SettleMoves(c, "rebuild", "reject") /\ UNCHANGED receipt
     ELSE /\ SettleMoves(c, "rebuild", "spend")
          /\ \E d \in sources :
               receipt' = [receipt EXCEPT ![c] =
                             [tx |-> d, amount |-> DebitAmount(d)]]
  /\ UNCHANGED <<storeVars, txState>>
  /\ settleOnlyUnchanged

Spend(c) ==
  /\ SettleMoves(c, "spend", "put")
  /\ MarkNonceSpent(Nonce(c))
  /\ UNCHANGED <<receipt, settleTx, results, fresh, revenue, strikes, storeThrew,
                 txState>>
  /\ settleOnlyUnchanged

\* ON CONFLICT DO NOTHING: a row already there stays, expired or not.
PutResult(c) ==
  /\ SettleMoves(c, "put", "revenue")
  /\ IF results[Nonce(c)] = NoResult
     THEN /\ results' = [results EXCEPT ![Nonce(c)] = receipt[c]]
          /\ fresh' = fresh \cup {Nonce(c)}
     ELSE UNCHANGED <<results, fresh>>
  /\ UNCHANGED <<receipt, reservation, indexed, row, spent, settleTx, revenue,
                 strikes, storeThrew, txState>>
  /\ settleOnlyUnchanged

\* Idempotent on the nonce, and best effort: an error is swallowed.
RecordRevenue(c) ==
  /\ SettleMoves(c, "revenue", "answer")
  /\ \/ revenue' = [revenue EXCEPT ![Nonce(c)] =
                      IF @ = NoResult THEN receipt[c].amount ELSE @]
     \/ "lost" \in Faults /\ UNCHANGED revenue
  /\ UNCHANGED <<receipt, reservation, indexed, row, spent, settleTx, results, fresh,
                 strikes, storeThrew, txState>>
  /\ settleOnlyUnchanged

\* The response reaches the gate if it still waits for it.
Answer(c) ==
  /\ SettleMoves(c, "answer", "done")
  /\ gate' = IF gate[c] = "settling" THEN [gate EXCEPT ![c] = "paid"] ELSE gate
  /\ UNCHANGED <<working, computed, seenBalance, buyerLock, receipt, storeVars,
                 chainVars, txState>>

RejectServesAnyway(c) ==
  /\ SettleMoves(c, "reject", "done")
  /\ gate' = IF gate[c] = "settling" THEN [gate EXCEPT ![c] = "paid"] ELSE gate
  /\ UNCHANGED <<working, computed, seenBalance, buyerLock, receipt, storeVars,
                 chainVars, txState>>

RejectSwallowed(c) ==
  /\ SettleMoves(c, "reject", "done")
  /\ UNCHANGED <<gateVars, receipt, storeVars, chainVars, txState>>

Reject(c) ==
  /\ SettleMoves(c, "reject", "done")
  /\ gate' = IF gate[c] = "settling" THEN [gate EXCEPT ![c] = "striking"] ELSE gate
  /\ UNCHANGED <<working, computed, seenBalance, buyerLock, receipt, storeVars,
                 chainVars, txState>>

\* Any awaited RPC or store call of /settle throws, the wait for the receipt
\* giving up included: a 500, with everything already done left as it is.  A
\* store call that throws after its write counts as the next step's (the error
\* of the revenue ledger itself is swallowed).
SettleThrows(c) ==
  /\ "throw" \in Faults
  /\ \E step \in SettleSteps \ {"answer", "reject"} :
       SettleMoves(c, step, "reject")
  /\ UNCHANGED <<receipt, storeVars, txState>>
  /\ settleOnlyUnchanged

-----------------------------------------------------------------------------
(***************************************************************************)
(* The chain and the environment.                                          *)
(***************************************************************************)
offChainUnchanged == UNCHANGED <<gateVars, settleVars, storeVars>>

MineTx(c) ==
  /\ txState[c] = "pending"
  /\ \/ /\ Debit(Relayer, AuthOf[c], DebitAmount(c))
        /\ txState' = [txState EXCEPT ![c] = "ok"]
     \/ /\ ~DebitLands(c)
        /\ txState' = [txState EXCEPT ![c] = "reverted"]
        /\ UNCHANGED escrowVars
  /\ UNCHANGED <<registryVars, now>>
  /\ offChainUnchanged

BuyerWithdraws(b) ==
  /\ "withdraw" \in Faults
  /\ Withdraw(b, balanceOf[b])
  /\ UNCHANGED <<registryVars, now, txState>>
  /\ offChainUnchanged

ResourcePaused(r) ==
  /\ "pause" \in Faults
  /\ \E s \in RegistryAdmins : Pause(s, r)
  /\ UNCHANGED <<escrowVars, now, txState>>
  /\ offChainUnchanged

ClockTicks ==
  /\ "clock" \in Faults
  /\ Tick
  /\ UNCHANGED <<registryVars, escrowVars, txState>>
  /\ offChainUnchanged

\* The TTL of a reservation covers the handler run, which the gate bounds by
\* maxTimeoutSeconds; it does not cover the wait for the debit.
ReservationExpires(n) ==
  /\ "ttl" \in Faults
  /\ Pending(n)
  /\ gate[reservation[n]] \notin {"reserved", "running"}
  /\ DropReservation(n)
  /\ UNCHANGED <<gateVars, settleVars, row, spent, settleTx, results, fresh,
                 revenue, strikes, storeThrew, chainVars, txState>>

ResultExpires(n) ==
  /\ "resultttl" \in Faults
  /\ n \in fresh
  /\ fresh' = fresh \ {n}
  /\ UNCHANGED <<gateVars, settleVars, reservation, indexed, row, spent, settleTx,
                 results, revenue, strikes, storeThrew, chainVars, txState>>

\* The Redis lock key of a holder slower than lockTtlMs expires under it.
LockExpires(b) ==
  /\ "lockttl" \in Faults
  /\ buyerLock[b] # NoCall
  /\ buyerLock' = [buyerLock EXCEPT ![b] = NoCall]
  /\ UNCHANGED <<gate, working, computed, seenBalance, settleVars, storeVars, chainVars, txState>>

\* The gate's fetch fails although the facilitator did the work: of /verify,
\* an exception out of the middleware; of /settle, the release path while the
\* handler may still run; of /release, nothing more.
ReplyLost(c) ==
  /\ "lost" \in Faults
  /\ \/ GateMoves(c, "reserved", "failed")
     \/ GateMoves(c, "settling", "striking")
     \/ GateMoves(c, "releasing", "failed")
     \/ GateMoves(c, "striking", "failed")
  /\ UNCHANGED <<working, computed, seenBalance, buyerLock, settleVars, storeVars,
                 chainVars, txState>>

\* The gate's process dies while a call waits (inside /verify it is as if the
\* reply were lost).
GateCrash(c) ==
  /\ "gatecrash" \in Faults
  /\ \E step \in {"reserved", "running", "settling", "releasing", "striking"} :
       GateMoves(c, step, "failed")
  /\ working' = working \ {c}
  /\ UNCHANGED <<computed, seenBalance, buyerLock, settleVars, storeVars,
                 chainVars, txState>>

\* The facilitator stops: the handlers in progress are gone, the gates that
\* wait for one see a failed fetch, stores and mempool stay.
FacilitatorCrash ==
  /\ "crash" \in Faults
  /\ \E c \in Calls : settling[c] \in SettleSteps \/ gate[c] \in VerifySteps
  /\ settling' = [c \in Calls |-> IF settling[c] \in SettleSteps
                                  THEN "done" ELSE settling[c]]
  /\ gate' = [c \in Calls |->
       CASE gate[c] = "settling"    -> "striking"
         [] gate[c] \in VerifySteps -> "failed"
         [] OTHER                   -> gate[c]]
  /\ buyerLock' = [b \in Accounts |-> NoCall]
  /\ UNCHANGED <<working, computed, seenBalance, receipt, storeVars, chainVars, txState>>

-----------------------------------------------------------------------------
VerifyStep(c) ==
  \/ Present(c) \/ AcquireLock(c) \/ ReadBalance(c)
  \/ ReadOutstanding(c) \/ CheckPending(c) \/ CheckUsedNonce(c)
  \/ CheckSpent(c) \/ Reserve(c)

HandlerStep(c) ==
  \/ RunHandler(c) \/ HandlerCharges(c) \/ HandlerFails(c) \/ HandlerTimesOut(c)
  \/ ReleaseReservation(c)

SettleStep(c) ==
  \/ SettleEntry(c) \/ SettleLookup(c) \/ SettleFromCache(c) \/ Broadcast(c)
  \/ RecordSettleTx(c) \/ WaitForReceipt(c) \/ Rebuild(c)
  \/ Spend(c) \/ PutResult(c) \/ RecordRevenue(c) \/ Answer(c) \/ Reject(c)

Environment ==
  \/ \E b \in Accounts : BuyerWithdraws(b) \/ LockExpires(b)
  \/ \E r \in ResourceIds : ResourcePaused(r)
  \/ \E n \in Nonces : ReservationExpires(n) \/ ResultExpires(n)
  \/ \E c \in Calls : \/ VerifyThrows(c) \/ ReserveThrows(c) \/ ReleaseThrows(c)
                     \/ SettleThrows(c) \/ ReplyLost(c) \/ GateCrash(c)
                     \/ HandlerEnds(c)
  \/ ClockTicks
  \/ FacilitatorCrash

Next ==
  \/ \E c \in Calls : VerifyStep(c) \/ HandlerStep(c) \/ SettleStep(c) \/ MineTx(c)
  \/ Environment

\* Handlers and gates run to their next await, and transactions are mined.
\* Nothing the environment does is fair: a handler its gate gave up may never end.
Fairness ==
  \A c \in Calls :
    /\ WF_vars(VerifyStep(c))
    /\ WF_vars(HandlerStep(c))
    /\ WF_vars(SettleStep(c))
    /\ WF_vars(MineTx(c))

Spec == Init /\ [][Next]_vars
FairSpec == Spec /\ Fairness

-----------------------------------------------------------------------------
\* Positions, stores and chain keep their types; balances never go negative.
TypeOK ==
  /\ EscrowSystemTypeOK
  /\ gate \in [Calls -> GateSteps \cup Answers]
  /\ settling \in [Calls -> SettleSteps \cup {"none", "done"}]
  /\ working \subseteq Calls
  /\ computed \in [Calls -> Nat]
  /\ seenBalance \in [Calls -> Nat]
  /\ receipt \in [Calls -> Receipt \cup {NoReceipt}]
  /\ buyerLock \in [Accounts -> Calls \cup {NoCall}]
  /\ txState \in [Calls -> {"none", "pending", "ok", "reverted"}]
  /\ reservation \in [Nonces -> Calls \cup {NoCall}]
  /\ indexed \in [Nonces -> Calls \cup {NoCall}]
  /\ row \in [Nonces -> {"none", "reserved", "released", "settled"}]
  /\ spent \subseteq Nonces
  /\ settleTx \in [Nonces -> Calls \cup {NoCall}]
  /\ results \in [Nonces -> Receipt \cup {NoResult}]
  /\ fresh \subseteq Nonces
  /\ revenue \in [Nonces -> Nat \cup {NoResult}]
  /\ strikes \subseteq Calls
  /\ storeThrew \subseteq Calls

DebitOf(n) == {i \in DOMAIN debited : debited[i].nonce = n}
LoggedFor(n, x) == \E i \in DebitOf(n) : debited[i].amount = x
Reverted(tx) == txState[tx] = "reverted"

\* The gate exposes a receipt only for a debit that is on chain, and it is that
\* debit's receipt: its transaction succeeded, its amount is the one logged.
PaidMeansDebited ==
  \A c \in Calls : gate[c] = "paid" =>
    /\ receipt[c] # NoReceipt
    /\ txState[receipt[c].tx] = "ok"
    /\ LoggedFor(Nonce(c), receipt[c].amount)

\* What remains of it, since settle does not read the status of the mined
\* transaction: the receipt is of the nonce's own logged debit, or of a
\* transaction for the nonce that was mined and reverted.
PaidMeansMined ==
  \A c \in Calls : gate[c] = "paid" =>
    /\ receipt[c] # NoReceipt
    /\ Nonce(receipt[c].tx) = Nonce(c)
    /\ Reverted(receipt[c].tx) \/ LoggedFor(Nonce(c), receipt[c].amount)

\* One nonce buys one answer, whatever is replayed meanwhile.
OneAnswerPerDebit ==
  \A c, d \in Calls :
    gate[c] = "paid" /\ gate[d] = "paid" /\ Nonce(c) = Nonce(d) => c = d

\* Never two calls of one nonce that a gate waits for, in its handler or in its
\* settlement (one that has been turned down is none any more).  A handler the
\* gate gave up at its timeout may still run beside the next one, but it can no
\* longer be charged for.
Engaged(c) ==
  \/ gate[c] \in {"reserved", "running"}
  \/ gate[c] = "settling" /\ settling[c] # "reject"
GaveUp(c) == gate[c] \in {"striking", "failed"} /\ settling[c] = "none"
ExclusiveReservation ==
  /\ \A c, d \in Calls : Engaged(c) /\ Engaged(d) /\ Nonce(c) = Nonce(d) => c = d
  /\ \A c \in working : gate[c] = "running" \/ GaveUp(c)

\* Reservations never exceed what the buyer ever deposited: concurrent verifies
\* of different nonces do not both count on one balance.
ReservedWithinDeposit ==
  \A b \in Accounts : OutstandingReserved(b) <= Funds[b]

\* The store agrees with the chain: a nonce marked spent is consumed on chain
\* unless a transaction for it reverted, and a stored result is that of a nonce
\* marked spent.
SpentMeansMined ==
  /\ \A n \in spent : n \in usedNonce \/ \E c \in Calls : Nonce(c) = n /\ Reverted(c)
  /\ \A n \in Nonces : results[n] # NoResult => n \in spent

\* The whole path keeps the abstract promise: a nonce is charged at most once,
\* as signed, and only after /verify reserved it.
PathPromise == INSTANCE PaymentPromise
  WITH ReservedAtStart <- {}, reserved <- {n \in Nonces : row[n] # "none"},
       charges <- Charges
KeepsPromise == PathPromise!PromiseSpec

\* Every call is answered.
EveryCallAnswered == \A c \in Calls : <>(gate[c] \in Answers)

\* Every reservation is given back by a settlement or a release; only one whose
\* own call saw the store throw, while it reserved or released, is left to the TTL.
ReservationFreed ==
  \A n \in Nonces : Pending(n) ~> (~Pending(n) \/ reservation[n] \in storeThrew)

-----------------------------------------------------------------------------
(***************************************************************************)
(* What comments of the source say of the path and the model refutes; the  *)
(* README gives the counterexamples.  PaidMeansDebited above is another.   *)
(***************************************************************************)
\* Live reservations the chain has not debited yet fit in the balance.
Uncharged(b) ==
  LET open == {n \in Nonces : /\ Pending(n) /\ n \notin usedNonce
                              /\ Buyer(reservation[n]) = b}
      cap(n) == Cap(reservation[n])
  IN  MapThenSumSet(cap, open)
NoOverCommit == \A b \in Accounts : Uncharged(b) <= balanceOf[b]

\* No handler runs on a nonce while the debit of another run of it is in flight.
NoRunDuringDebit ==
  \A c, d \in Calls :
    /\ gate[c] = "settling" /\ txState[c] = "pending"
    /\ Nonce(c) = Nonce(d) /\ c # d
    => gate[d] \notin {"reserved", "running"}

\* No two handlers of one nonce run at a time.
OneHandlerRun == \A c, d \in working : Nonce(c) = Nonce(d) => c = d

\* Every reservation is given back without its TTL.
FreedWithoutTTL == \A n \in Nonces : Pending(n) ~> ~Pending(n)

\* A call that failed and struck the creator was not debited.
StruckMeansUncharged ==
  \A c \in Calls : c \in strikes => DebitOf(Nonce(c)) = {}

\* A settle that finds its nonce consumed rebuilds the receipt, it never fails.
UsedNonceIsRebuilt ==
  [][\A c \in Calls :
       settling[c] = "broadcast" /\ settling'[c] = "reject"
         => NonceFree(AuthOf[c])]_vars
=============================================================================
