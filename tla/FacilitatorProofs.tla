-------------------------- MODULE FacilitatorProofs --------------------------
(***************************************************************************)
(* The promises of the paid call, proved for every set of calls, nonces,   *)
(* accounts, authorizations and amounts: those of PathInv whatever the     *)
(* environment does, those of the reservation where the hypotheses of the  *)
(* theorem say what it must not do.                                        *)
(***************************************************************************)
EXTENDS Facilitator, PaymentEscrowProofs

-----------------------------------------------------------------------------
\* Where a gate is once the handler it ran has been charged for.
AfterRun == {"settling", "striking", "failed", "paid"}

\* A receipt for nonce n is that of a debit of n the chain logged, or names a
\* transaction for n that was mined and reverted.
Backed(n, rec) ==
  /\ rec \in Receipt
  /\ Nonce(rec.tx) = n
  /\ Reverted(rec.tx) \/ LoggedFor(n, rec.amount)

\* The positions a settlement passes before and after its own broadcast, and
\* those at which it holds a receipt.
Unsent    == {"none", "entry", "lookup", "lookupUnreserved", "cache", "broadcast"}
Receipted == {"spend", "put", "revenue", "answer"}

SettlesAfterRun ==
  \A c \in Calls : settling[c] # "none" => gate[c] \in AfterRun
BroadcastOnce ==
  \A c \in Calls : settling[c] \in Unsent => txState[c] = "none"
SignedInVerify ==
  \A c \in Calls : gate[c] \in VerifySteps => AuthOf[c] \in SignedAuths
ReservedFirst ==
  \A c \in Calls : gate[c] \in {"reserved", "running"} \/ settling[c] # "none"
                     => row[Nonce(c)] # "none"
DebitsLogged ==
  \A c \in Calls : txState[c] = "ok" => LoggedFor(Nonce(c), DebitAmount(c))
ReceiptsBacked ==
  \A c \in Calls : receipt[c] # NoReceipt => Backed(Nonce(c), receipt[c])
ReceiptHeld ==
  \A c \in Calls : settling[c] \in Receipted \/ gate[c] = "paid"
                     => receipt[c] # NoReceipt
SpentBeforePut ==
  \A c \in Calls : settling[c] \in {"put", "revenue"} => Nonce(c) \in spent
ResultsBacked ==
  \A n \in Nonces : results[n] # NoResult => n \in spent /\ Backed(n, results[n])
FreshStored ==
  \A n \in fresh : results[n] # NoResult
SpentBacked ==
  \A n \in spent : n \in usedNonce \/ \E c \in Calls : Nonce(c) = n /\ Reverted(c)

WorkersWaited ==
  \A c \in working : gate[c] = "running" \/ GaveUp(c)

\* The inductive invariant of the path, whatever fails.
Positions == /\ SettlesAfterRun /\ BroadcastOnce /\ SignedInVerify /\ ReservedFirst
             /\ WorkersWaited
Receipts  == DebitsLogged /\ ReceiptsBacked /\ ReceiptHeld
Stores    == SpentBeforePut /\ ResultsBacked /\ FreshStored /\ SpentBacked
PathInv   == TypeOK /\ EscrowInv /\ Positions /\ Receipts /\ Stores

-----------------------------------------------------------------------------
\* A call's authorization is well typed.
LEMMA CallTyped ==
  ASSUME NEW c \in Calls
  PROVE  /\ AuthOf[c] \in Auths
         /\ Nonce(c) \in Nonces /\ Buyer(c) \in Accounts /\ Cap(c) \in Nat
BY FacilitatorAssumption, AuthTyped DEF Nonce, Buyer, Cap

\* The amount of a debit is the smaller of what was computed and the cap.
LEMMA DebitTyped ==
  ASSUME TypeOK, NEW c \in Calls
  PROVE  DebitAmount(c) \in Nat
BY CallTyped DEF TypeOK, DebitAmount

\* NoCall and NoResult are none of the values they stand beside.
LEMMA NoneIsNone ==
  /\ NoCall \notin Calls
  /\ NoResult \notin Receipt
BY FacilitatorAssumption DEF Receipt

\* A step that leaves the chain alone leaves the contract's invariant.
LEMMA ChainStays ==
  ASSUME EscrowInv, UNCHANGED chainVars
  PROVE  /\ EscrowInv'
         /\ UNCHANGED <<resources, pendingSlashes, now, balanceOf, usedNonce,
                        admin, usdcOf, debited>>
<1>1. UNCHANGED escrowSystemVars
  BY DEF chainVars, escrowSystemVars
<1> QED BY <1>1, EscrowStep DEF escrowSystemVars, registryVars, escrowVars

\* A backed receipt stays backed while the log and the reverted transactions
\* only grow.
LogGrows ==
  /\ \A n \in Nonces, x \in Nat : LoggedFor(n, x) => LoggedFor(n, x)'
  /\ \A c \in Calls : Reverted(c) => Reverted(c)'
  /\ usedNonce \subseteq usedNonce'

LEMMA StaysBacked ==
  ASSUME LogGrows, NEW n \in Nonces, NEW rec, Backed(n, rec)
  PROVE  Backed(n, rec)'
BY DEF LogGrows, Backed, Receipt, Nonce

\* Without a chain step, only a broadcast changes a transaction, and that one
\* was none before.
LEMMA LogStays ==
  ASSUME TypeOK, UNCHANGED <<usedNonce, debited>>,
         \A c \in Calls : Reverted(c) => txState'[c] = "reverted"
  PROVE  LogGrows
BY DEF LogGrows, LoggedFor, DebitOf, Reverted

-----------------------------------------------------------------------------
\* One gate moves and nothing else but its own registers and the buyer lock.
LEMMA GateStep ==
  ASSUME PathInv, NEW c \in Calls, NEW to \in GateSteps \cup Answers,
         gate' = [gate EXCEPT ![c] = to],
         seenBalance' \in [Calls -> Nat],
         buyerLock' \in [Accounts -> Calls \cup {NoCall}],
         UNCHANGED <<computed, settling, receipt, txState, storeVars, chainVars>>,
         gate[c] \in AfterRun => to \in AfterRun,
         to \in VerifySteps => AuthOf[c] \in SignedAuths,
         to \in {"reserved", "running"} => row[Nonce(c)] # "none",
         to # "paid",
         \A d \in working' : d \in Calls /\ (d \in working \/ d = c),
         c \in working' => to = "running"
           \/ (to \in {"striking", "failed"} /\ settling[c] = "none")
  PROVE  PathInv'
<1>1. /\ TypeOK /\ EscrowInv /\ Positions /\ Receipts /\ Stores
      /\ gate \in [Calls -> GateSteps \cup Answers]
  BY DEF PathInv, TypeOK
<1>2. /\ EscrowInv'
      /\ UNCHANGED <<usedNonce, debited>>
      /\ UNCHANGED <<reservation, indexed, row, spent, settleTx, results, fresh, revenue,
                        strikes, storeThrew>>
  BY <1>1, ChainStays DEF storeVars
<1>3. gate' \in [Calls -> GateSteps \cup Answers]
  BY <1>1
<1>4. TypeOK'
  BY <1>1, <1>2, <1>3 DEF TypeOK, EscrowInv
<1>5. Positions'
  <2>1. WorkersWaited'
    BY <1>1, <1>3 DEF Positions, WorkersWaited, GaveUp
  <2>2. /\ SettlesAfterRun' /\ BroadcastOnce' /\ SignedInVerify' /\ ReservedFirst'
    BY <1>1, <1>2 DEF Positions, SettlesAfterRun, BroadcastOnce, SignedInVerify,
                      ReservedFirst, Nonce
  <2> QED BY <2>1, <2>2 DEF Positions
<1>6. \A n, rec : Backed(n, rec) => Backed(n, rec)'
  BY <1>2 DEF Backed, Reverted, LoggedFor, DebitOf, Nonce, Receipt
<1>7. Receipts'
  <2>1. DebitsLogged'
    BY <1>1, <1>2 DEF Receipts, DebitsLogged, LoggedFor, DebitOf, DebitAmount, Cap, Nonce
  <2>2. ReceiptsBacked'
    BY <1>1, <1>6 DEF Receipts, ReceiptsBacked, NoReceipt, Nonce
  <2>3. ReceiptHeld'
    BY <1>1 DEF Receipts, ReceiptHeld, NoReceipt
  <2> QED BY <2>1, <2>2, <2>3 DEF Receipts
<1>8. Stores'
  <2>1. ResultsBacked'
    BY <1>1, <1>2, <1>6 DEF Stores, ResultsBacked
  <2>2. SpentBeforePut' /\ FreshStored' /\ SpentBacked'
    BY <1>1, <1>2 DEF Stores, SpentBeforePut, FreshStored, SpentBacked, Nonce, Reverted
  <2> QED BY <2>1, <2>2 DEF Stores
<1> QED BY <1>2, <1>4, <1>5, <1>7, <1>8 DEF PathInv

\* The steps of /verify before the reservation, its exceptions included.
LEMMA VerifyPreserves ==
  ASSUME PathInv, NEW c \in Calls,
         \/ Present(c) \/ AcquireLock(c) \/ ReadBalance(c)
         \/ ReadOutstanding(c) \/ CheckPending(c) \/ CheckUsedNonce(c)
         \/ CheckSpent(c) \/ VerifyThrows(c)
  PROVE  PathInv'
<1>1. /\ gate \in [Calls -> GateSteps \cup Answers]
      /\ seenBalance \in [Calls -> Nat]
      /\ buyerLock \in [Accounts -> Calls \cup {NoCall}]
      /\ balanceOf \in [Addresses -> Nat]
      /\ gate[c] \in VerifySteps => AuthOf[c] \in SignedAuths
      /\ working \subseteq Calls
      /\ gate[c] \notin AfterRun \cup {"running"} => c \notin working
  BY DEF PathInv, TypeOK, EscrowSystemTypeOK, EscrowTypeOK, Positions, SignedInVerify,
         WorkersWaited, GaveUp, AfterRun
<1>2. Buyer(c) \in Accounts /\ Buyer(c) \in Addresses
  BY CallTyped DEF Addresses
<1>3. PICK to \in GateSteps \cup Answers :
        /\ gate' = [gate EXCEPT ![c] = to]
        /\ gate[c] \notin AfterRun \cup {"running"}
        /\ to \in VerifySteps \cup {"refused"}
        /\ to \in VerifySteps => AuthOf[c] \in SignedAuths
  <2>1. ASSUME NEW at \in VerifySteps, NEW holds, NEW next \in VerifySteps,
               VerifyCheck(c, at, holds, next)
        PROVE  \E to \in GateSteps \cup Answers :
                 /\ gate' = [gate EXCEPT ![c] = to]
                 /\ gate[c] \notin AfterRun \cup {"running"}
                 /\ to \in VerifySteps \cup {"refused"}
                 /\ to \in VerifySteps => AuthOf[c] \in SignedAuths
    BY <1>1, <2>1 DEF VerifyCheck, GateMoves, AfterRun, VerifySteps, GateSteps, Answers
  <2>2. CASE Present(c)
    <3>1. gate[c] = "new" /\ gate' = [gate EXCEPT ![c] =
                                        IF WellFormed(c) THEN "locking" ELSE "refused"]
      BY <2>2 DEF Present, GateMoves
    <3>2. WellFormed(c) => AuthOf[c] \in SignedAuths
      BY DEF WellFormed, SignedByBuyer
    <3>3. CASE WellFormed(c)
      BY <3>1, <3>2, <3>3 DEF AfterRun, VerifySteps, GateSteps, Answers
    <3>4. CASE ~WellFormed(c)
      BY <3>1, <3>4 DEF AfterRun, VerifySteps, GateSteps, Answers
    <3> QED BY <3>3, <3>4
  <2>3. CASE AcquireLock(c) \/ ReadBalance(c) \/ VerifyThrows(c)
    BY <1>1, <2>3 DEF AcquireLock, ReadBalance, VerifyThrows, GateMoves, AfterRun,
                      VerifySteps, GateSteps, Answers
  <2>4. {"outstanding", "pending", "onchain", "spent", "reserve"} \subseteq VerifySteps
    BY DEF VerifySteps
  <2> QED BY <2>1, <2>2, <2>3, <2>4
       DEF ReadOutstanding, CheckPending, CheckUsedNonce, CheckSpent
<1>4. /\ UNCHANGED <<working, computed, settling, receipt, txState, storeVars, chainVars>>
      /\ seenBalance' \in [Calls -> Nat]
      /\ buyerLock' \in [Accounts -> Calls \cup {NoCall}]
  BY <1>1, <1>2
     DEF Present, AcquireLock, ReadBalance, VerifyThrows, LeaveLock, VerifyCheck,
         ReadOutstanding, CheckPending, CheckUsedNonce, CheckSpent, settleVars
<1>5. to \notin {"reserved", "running", "paid"}
  BY <1>3 DEF VerifySteps
<1> QED BY <1>1, <1>3, <1>4, <1>5, GateStep

\* The gate on its own: it runs the handler, classifies its answer, loses a
\* reply or dies.
LEMMA GatePreserves ==
  ASSUME PathInv, NEW c \in Calls,
         \/ RunHandler(c) \/ HandlerFails(c) \/ HandlerTimesOut(c) \/ HandlerEnds(c)
         \/ ReplyLost(c) \/ GateCrash(c)
  PROVE  PathInv'
<1>1. /\ seenBalance \in [Calls -> Nat]
      /\ buyerLock \in [Accounts -> Calls \cup {NoCall}]
      /\ gate \in [Calls -> GateSteps \cup Answers] /\ working \subseteq Calls
      /\ gate[c] \in {"reserved", "running"} => row[Nonce(c)] # "none"
      /\ c \in working => gate[c] = "running" \/ GaveUp(c)
      /\ gate[c] = "running" => settling[c] = "none"
  BY DEF PathInv, TypeOK, Positions, ReservedFirst, WorkersWaited, SettlesAfterRun,
         AfterRun
<1>2. PICK to \in {"running", "releasing", "striking", "failed"} :
        /\ gate' = [gate EXCEPT ![c] = to]
        /\ gate[c] \in AfterRun => to \in AfterRun
        /\ to = "running" => gate[c] = "reserved"
        /\ \A d \in working' : d \in Calls /\ (d \in working \/ d = c)
        /\ c \in working' => to = "running"
             \/ (to \in {"striking", "failed"} /\ settling[c] = "none")
  <2>1. CASE RunHandler(c) \/ HandlerFails(c) \/ HandlerTimesOut(c)
    BY <1>1, <2>1 DEF RunHandler, HandlerFails, HandlerTimesOut, GateMoves, AfterRun
  <2>2. CASE HandlerEnds(c)
    <3>1. /\ gate[c] \in {"striking", "failed"} /\ gate' = [gate EXCEPT ![c] = gate[c]]
          /\ working' = working \ {c}
      BY <1>1, <2>2 DEF HandlerEnds, GaveUp
    <3> QED BY <1>1, <3>1 DEF AfterRun
  <2>3. CASE ReplyLost(c)
    <3>1. working' = working
      BY <2>3 DEF ReplyLost
    <3> QED BY <1>1, <2>3, <3>1 DEF ReplyLost, GateMoves, AfterRun, GaveUp
  <2>4. CASE GateCrash(c)
    BY <1>1, <2>4 DEF GateCrash, GateMoves, AfterRun
  <2> QED BY <2>1, <2>2, <2>3, <2>4
<1>3. /\ UNCHANGED <<computed, settling, receipt, txState, storeVars, chainVars>>
      /\ UNCHANGED <<seenBalance, buyerLock>>
  BY DEF RunHandler, HandlerFails, HandlerTimesOut, HandlerEnds, ReplyLost, GateCrash,
         gateOnlyUnchanged, settleVars
<1>4. /\ to \in GateSteps \cup Answers /\ to \notin VerifySteps /\ to # "paid"
      /\ to \in {"reserved", "running"} => row[Nonce(c)] # "none"
  BY <1>1, <1>2 DEF GateSteps, Answers, VerifySteps
<1> QED BY <1>1, <1>2, <1>3, <1>4, GateStep

\* The buyer lock's key expires.
LEMMA LockExpiryPreserves ==
  ASSUME PathInv, NEW b \in Accounts, LockExpires(b)
  PROVE  PathInv'
<1>1. UNCHANGED <<gate, working, computed, seenBalance, settling, receipt, txState,
                  storeVars, chainVars>>
  BY DEF LockExpires, settleVars
<1>2. buyerLock' \in [Accounts -> Calls \cup {NoCall}]
  BY DEF LockExpires, PathInv, TypeOK
<1>3. /\ EscrowInv' /\ UNCHANGED <<usedNonce, debited>>
      /\ UNCHANGED <<reservation, indexed, row, spent, settleTx, results, fresh, revenue,
                        strikes, storeThrew>>
  BY <1>1, ChainStays DEF PathInv, storeVars
<1>4. TypeOK'
  BY <1>1, <1>2, <1>3 DEF PathInv, TypeOK, EscrowInv
<1>5. Positions' /\ Receipts' /\ Stores'
  BY <1>1, <1>3
     DEF PathInv, Positions, SettlesAfterRun, BroadcastOnce, SignedInVerify,
         ReservedFirst, WorkersWaited, GaveUp, Receipts, DebitsLogged, ReceiptsBacked, ReceiptHeld, NoReceipt,
         Stores, SpentBeforePut, ResultsBacked, FreshStored, SpentBacked, Backed,
         LoggedFor, DebitOf, DebitAmount, Reverted, Nonce, Cap
<1> QED BY <1>3, <1>4, <1>5 DEF PathInv

-----------------------------------------------------------------------------
\* One settlement moves, holding receipt r afterwards; the chain stands still,
\* but for its own broadcast.
LEMMA SettlementStep ==
  ASSUME PathInv, NEW c \in Calls, NEW to \in SettleSteps \cup {"done"}, NEW r,
         settling[c] \in SettleSteps,
         settling' = [settling EXCEPT ![c] = to],
         UNCHANGED <<gateVars, chainVars>>,
         receipt' = [receipt EXCEPT ![c] = r],
         r = NoReceipt \/ Backed(Nonce(c), r),
         to \in Receipted \/ receipt[c] # NoReceipt => r # NoReceipt,
         \/ UNCHANGED txState /\ (to \in Unsent => settling[c] \in Unsent)
         \/ /\ settling[c] = "broadcast" /\ to \notin Unsent
            /\ txState' = [txState EXCEPT ![c] = "pending"],
         reservation' \in [Nonces -> Calls \cup {NoCall}],
         indexed' \in [Nonces -> Calls \cup {NoCall}],
         row' \in [Nonces -> {"none", "reserved", "released", "settled"}],
         \A n \in Nonces : row[n] # "none" => row'[n] # "none",
         spent' = spent \/ (spent' = spent \cup {Nonce(c)} /\ r # NoReceipt),
         to \in {"put", "revenue"} => Nonce(c) \in spent',
         settleTx' \in [Nonces -> Calls \cup {NoCall}],
         results' = results
           \/ (results' = [results EXCEPT ![Nonce(c)] = r] /\ Nonce(c) \in spent),
         fresh' \subseteq Nonces,
         \A n \in fresh' : n \in fresh \/ results'[n] # NoResult,
         results' # results => r # NoReceipt,
         revenue' \in [Nonces -> Nat \cup {NoResult}],
         UNCHANGED <<strikes, storeThrew>>
  PROVE  PathInv'
<1>1. /\ TypeOK /\ EscrowInv /\ Positions /\ Receipts /\ Stores
      /\ settling \in [Calls -> SettleSteps \cup {"none", "done"}]
      /\ receipt \in [Calls -> Receipt \cup {NoReceipt}]
      /\ results \in [Nonces -> Receipt \cup {NoResult}]
      /\ txState \in [Calls -> {"none", "pending", "ok", "reverted"}]
      /\ spent \subseteq Nonces
      /\ Nonce(c) \in Nonces /\ NoReceipt = NoResult
      /\ settling[c] \notin {"none", "done"}
  BY CallTyped DEF PathInv, TypeOK, SettleSteps, NoReceipt
<1>2. /\ EscrowInv'
      /\ UNCHANGED <<gate, working, computed, seenBalance, buyerLock>>
      /\ UNCHANGED <<usedNonce, debited>>
  BY <1>1, ChainStays DEF gateVars
<1>3. /\ settling' \in [Calls -> SettleSteps \cup {"none", "done"}]
      /\ settling'[c] = to
      /\ \A d \in Calls : d # c => settling'[d] = settling[d]
  BY <1>1
<1>4. /\ txState' \in [Calls -> {"none", "pending", "ok", "reverted"}]
      /\ \A d \in Calls : d # c => txState'[d] = txState[d]
      /\ \A d \in Calls : txState'[d] \in {"ok", "reverted"} <=> txState[d] \in {"ok", "reverted"}
      /\ \A d \in Calls : txState'[d] = "ok" <=> txState[d] = "ok"
      /\ to \in Unsent => txState'[c] = "none"
  <2>1. settling[c] \in Unsent => txState[c] = "none"
    BY <1>1 DEF Positions, BroadcastOnce
  <2> QED BY <1>1, <2>1 DEF Unsent
<1>5. LogGrows
  <2>1. \A d \in Calls : Reverted(d) => txState'[d] = "reverted"
    BY <1>4 DEF Reverted
  <2> QED BY <1>1, <1>2, <2>1, LogStays
<1>6. /\ receipt' \in [Calls -> Receipt \cup {NoReceipt}]
      /\ receipt'[c] = r
      /\ \A d \in Calls : d # c => receipt'[d] = receipt[d]
  BY <1>1 DEF Backed
<1>7. TypeOK'
  <2>1. spent' \subseteq Nonces
    BY <1>1
  <2>2. results' \in [Nonces -> Receipt \cup {NoResult}]
    BY <1>1 DEF Backed
  <2>3. EscrowSystemTypeOK'
    BY <1>2 DEF EscrowInv
  <2>4. /\ gate' \in [Calls -> GateSteps \cup Answers]
        /\ computed' \in [Calls -> Nat]
        /\ seenBalance' \in [Calls -> Nat]
        /\ buyerLock' \in [Accounts -> Calls \cup {NoCall}]
        /\ strikes' \subseteq Calls /\ storeThrew' \subseteq Calls /\ working' \subseteq Calls
    BY <1>1, <1>2 DEF TypeOK
  <2> QED BY <1>3, <1>4, <1>6, <2>1, <2>2, <2>3, <2>4 DEF TypeOK, NoReceipt
<1>8. Positions'
  <2>1. SettlesAfterRun'
    BY <1>1, <1>2, <1>3 DEF Positions, SettlesAfterRun
  <2>2. BroadcastOnce'
    BY <1>1, <1>3, <1>4 DEF Positions, BroadcastOnce
  <2>3. SignedInVerify'
    BY <1>1, <1>2 DEF Positions, SignedInVerify
  <2>4. ReservedFirst'
    BY <1>1, <1>2, <1>3, CallTyped DEF Positions, ReservedFirst, Nonce
  <2>5. WorkersWaited'
    BY <1>1, <1>2, <1>3 DEF Positions, WorkersWaited, GaveUp, TypeOK
  <2> QED BY <2>1, <2>2, <2>3, <2>4, <2>5 DEF Positions
<1>9. Receipts'
  <2>1. DebitsLogged'
    BY <1>1, <1>2, <1>4 DEF Receipts, DebitsLogged, LoggedFor, DebitOf, DebitAmount,
                            Cap, Nonce
  <2>2. ReceiptsBacked'
    <3> SUFFICES ASSUME NEW d \in Calls, NEW rec, rec = receipt'[d], rec # NoResult
                 PROVE  Backed(Nonce(d), rec)'
      BY DEF ReceiptsBacked, Backed, LoggedFor, DebitOf, Reverted, NoReceipt, Nonce
    <3>1. Backed(Nonce(d), rec)
      BY <1>1, <1>6 DEF Receipts, ReceiptsBacked
    <3> QED BY <1>5, <3>1, CallTyped, StaysBacked
  <2>3. ReceiptHeld'
    BY <1>1, <1>2, <1>3, <1>6 DEF Receipts, ReceiptHeld, NoReceipt
  <2> QED BY <2>1, <2>2, <2>3 DEF Receipts
<1>10. Stores'
  <2>1. SpentBeforePut'
    BY <1>1, <1>3 DEF Stores, SpentBeforePut, Nonce
  <2>2. ResultsBacked'
    <3> SUFFICES ASSUME NEW n \in Nonces, NEW rec, rec = results'[n], rec # NoResult
                 PROVE  n \in spent' /\ Backed(n, rec)'
      BY DEF ResultsBacked, Backed, LoggedFor, DebitOf, Reverted, Nonce
    <3>1. n \in spent /\ Backed(n, rec)
      BY <1>1 DEF Stores, ResultsBacked
    <3> QED BY <1>5, <3>1, StaysBacked
  <2>3. FreshStored'
    BY <1>1 DEF Stores, FreshStored
  <2>4. SpentBacked'
    <3> SUFFICES ASSUME NEW n \in spent'
                 PROVE  n \in usedNonce \/ \E d \in Calls : Nonce(d) = n /\ Reverted(d)'
      BY <1>2 DEF SpentBacked, Nonce
    <3>1. CASE n \in spent
      BY <1>1, <1>5, <3>1 DEF Stores, SpentBacked, LogGrows
    <3>2. CASE n = Nonce(c) /\ Backed(n, r)
      <4>1. CASE Reverted(r.tx)
        BY <1>5, <3>2, <4>1 DEF Backed, Receipt, LogGrows
      <4>2. CASE LoggedFor(n, r.amount)
        BY <1>1, <4>2 DEF LoggedFor, DebitOf, EscrowInv, NonceSingleUse
      <4> QED BY <3>2, <4>1, <4>2 DEF Backed
    <3> QED BY <1>1, <3>1, <3>2
  <2> QED BY <2>1, <2>2, <2>3, <2>4 DEF Stores
<1> QED BY <1>2, <1>7, <1>8, <1>9, <1>10 DEF PathInv

\* What /settle does between its entry and its answer, the receipts it waits
\* for or rebuilds included.
LEMMA SettlePreserves ==
  ASSUME PathInv, NEW c \in Calls,
         \/ SettleEntry(c) \/ SettleLookup(c) \/ SettleFromCache(c) \/ Broadcast(c)
         \/ RecordSettleTx(c) \/ WaitForReceipt(c) \/ Rebuild(c) \/ Spend(c)
         \/ PutResult(c) \/ RecordRevenue(c) \/ SettleThrows(c)
  PROVE  PathInv'
<1>1. /\ TypeOK /\ Receipts /\ Stores
      /\ settling \in [Calls -> SettleSteps \cup {"none", "done"}]
      /\ receipt \in [Calls -> Receipt \cup {NoReceipt}]
      /\ reservation \in [Nonces -> Calls \cup {NoCall}]
      /\ indexed \in [Nonces -> Calls \cup {NoCall}]
      /\ row \in [Nonces -> {"none", "reserved", "released", "settled"}]
      /\ spent \subseteq Nonces /\ fresh \subseteq Nonces
      /\ settleTx \in [Nonces -> Calls \cup {NoCall}]
      /\ results \in [Nonces -> Receipt \cup {NoResult}]
      /\ revenue \in [Nonces -> Nat \cup {NoResult}]
      /\ Nonce(c) \in Nonces /\ NoReceipt = NoResult
      /\ \A d \in Calls : receipt[d] = NoReceipt \/ Backed(Nonce(d), receipt[d])
      /\ receipt = [receipt EXCEPT ![c] = receipt[c]]
  BY CallTyped DEF PathInv, TypeOK, NoReceipt, Receipts, ReceiptsBacked
<1>2. CASE SettleEntry(c)
  <2>1. PICK to \in {"lookup", "lookupUnreserved"} :
          settling[c] = "entry" /\ settling' = [settling EXCEPT ![c] = to]
    BY <1>2 DEF SettleEntry, SettleMoves
  <2>2. UNCHANGED <<gateVars, chainVars, receipt, txState, reservation, indexed, row, spent,
                    settleTx, results, fresh, revenue, strikes, storeThrew>>
    BY <1>2 DEF SettleEntry, settleOnlyUnchanged, storeVars
  <2>3. /\ settling[c] \in SettleSteps /\ to \in SettleSteps \cup {"done"}
        /\ to \in Unsent /\ settling[c] \in Unsent
        /\ to \notin Receipted /\ to \notin {"put", "revenue"}
    BY <2>1 DEF SettleSteps, Unsent, Receipted
  <2> QED BY <1>1, <2>1, <2>2, <2>3, SettlementStep
<1>3. CASE SettleLookup(c)
  <2>1. PICK to \in {"cache", "reject"} :
          /\ settling[c] \in {"lookup", "lookupUnreserved"}
          /\ settling' = [settling EXCEPT ![c] = to]
    BY <1>3 DEF SettleLookup, SettleMoves
  <2>2. /\ UNCHANGED <<gateVars, chainVars, receipt, txState, spent,
                       settleTx, results, fresh, revenue, strikes, storeThrew>>
        /\ UNCHANGED <<reservation, indexed, row>> \/ Release(Nonce(c))
    BY <1>3 DEF SettleLookup, settleOnlyUnchanged
  <2>3. /\ reservation' \in [Nonces -> Calls \cup {NoCall}]
        /\ indexed' \in [Nonces -> Calls \cup {NoCall}]
        /\ row' \in [Nonces -> {"none", "reserved", "released", "settled"}]
        /\ \A n \in Nonces : row[n] # "none" => row'[n] # "none"
    BY <1>1, <2>2 DEF Release, DropReservation
  <2>4. /\ settling[c] \in SettleSteps /\ to \in SettleSteps \cup {"done"}
        /\ settling[c] \in Unsent
        /\ to \notin Receipted /\ to \notin {"put", "revenue"}
    BY <2>1 DEF SettleSteps, Unsent, Receipted
  <2> QED BY <1>1, <2>1, <2>2, <2>3, <2>4, SettlementStep
<1>4. CASE SettleFromCache(c)
  <2>1. PICK to \in {"answer", "broadcast"} :
          /\ settling[c] = "cache" /\ settling' = [settling EXCEPT ![c] = to]
          /\ to = "answer" <=> Cached(Nonce(c))
          /\ receipt' = [receipt EXCEPT ![c] =
               IF Cached(Nonce(c)) THEN results[Nonce(c)] ELSE receipt[c]]
    BY <1>1, <1>4 DEF SettleFromCache, SettleMoves
  <2>2. UNCHANGED <<gateVars, chainVars, txState, reservation, indexed, row, spent,
                    settleTx, results, fresh, revenue, strikes, storeThrew>>
    BY <1>4 DEF SettleFromCache, settleOnlyUnchanged, storeVars
  <2>3. Cached(Nonce(c)) => /\ results[Nonce(c)] # NoResult
                            /\ Backed(Nonce(c), results[Nonce(c)])
    BY <1>1 DEF Cached, Stores, FreshStored, ResultsBacked
  <2>4. /\ settling[c] \in SettleSteps /\ to \in SettleSteps \cup {"done"}
        /\ settling[c] \in Unsent
        /\ to \notin {"put", "revenue"}
        /\ to = "broadcast" => to \notin Receipted
    BY <2>1 DEF SettleSteps, Unsent, Receipted
  <2> QED BY <1>1, <2>1, <2>2, <2>3, <2>4, SettlementStep
<1>5. CASE Broadcast(c)
  <2>1. PICK to \in {"record", "rebuild", "reject"} :
          /\ settling[c] = "broadcast" /\ settling' = [settling EXCEPT ![c] = to]
          /\ \/ UNCHANGED txState
             \/ txState' = [txState EXCEPT ![c] = "pending"]
    BY <1>5 DEF Broadcast, SettleMoves
  <2>2. UNCHANGED <<gateVars, chainVars, receipt, reservation, indexed, row, spent,
                    settleTx, results, fresh, revenue, strikes, storeThrew>>
    BY <1>5 DEF Broadcast, settleOnlyUnchanged, storeVars
  <2>3. /\ settling[c] \in SettleSteps /\ to \in SettleSteps \cup {"done"}
        /\ to \notin Unsent /\ to \notin Receipted /\ to \notin {"put", "revenue"}
    BY <2>1 DEF SettleSteps, Unsent, Receipted
  <2> QED BY <1>1, <2>1, <2>2, <2>3, SettlementStep
<1>6. CASE RecordSettleTx(c)
  <2>1. settling[c] = "record" /\ settling' = [settling EXCEPT ![c] = "wait"]
    BY <1>6 DEF RecordSettleTx, SettleMoves
  <2>2. UNCHANGED <<gateVars, chainVars, receipt, txState, reservation, indexed, row, spent,
                    results, fresh, revenue, strikes, storeThrew>>
    BY <1>6 DEF RecordSettleTx, settleOnlyUnchanged
  <2>3. settleTx' \in [Nonces -> Calls \cup {NoCall}]
    BY <1>1, <1>6 DEF RecordSettleTx
  <2>4. /\ settling[c] \in SettleSteps /\ "wait" \in SettleSteps \cup {"done"}
        /\ "wait" \notin Unsent /\ "wait" \notin Receipted /\ "wait" \notin {"put", "revenue"}
    BY <2>1 DEF SettleSteps, Unsent, Receipted
  <2> QED BY <1>1, <2>1, <2>2, <2>3, <2>4, SettlementStep
<1>7. CASE WaitForReceipt(c)
  <2> DEFINE r == [tx |-> c, amount |-> DebitAmount(c)]
  <2>1. settling[c] = "wait" /\ settling' = [settling EXCEPT ![c] = "spend"]
    BY <1>7 DEF WaitForReceipt, SettleMoves
  <2>2. /\ UNCHANGED <<gateVars, chainVars, txState, reservation, indexed, row, spent,
                       settleTx, results, fresh, revenue, strikes, storeThrew>>
        /\ receipt' = [receipt EXCEPT ![c] = r]
    BY <1>7 DEF WaitForReceipt, settleOnlyUnchanged, storeVars
  <2>3. r \in Receipt /\ r # NoReceipt /\ Backed(Nonce(c), r)
    <3>1. r \in Receipt
      BY <1>1, DebitTyped DEF Receipt
    <3>2. Reverted(c) \/ LoggedFor(Nonce(c), DebitAmount(c))
      BY <1>1, <1>7 DEF WaitForReceipt, Mined, Reverted, Receipts, DebitsLogged
    <3> QED BY <1>1, <3>1, <3>2, NoneIsNone DEF Backed
  <2> HIDE DEF r
  <2>4. /\ settling[c] \in SettleSteps /\ "spend" \in SettleSteps \cup {"done"}
        /\ "spend" \notin Unsent /\ "spend" \notin {"put", "revenue"}
    BY <2>1 DEF SettleSteps, Unsent
  <2> QED BY <1>1, <2>1, <2>2, <2>3, <2>4, SettlementStep
<1>8. CASE Rebuild(c)
  <2>1. UNCHANGED <<gateVars, chainVars, txState, reservation, indexed, row, spent,
                    settleTx, results, fresh, revenue, strikes, storeThrew>>
    BY <1>8 DEF Rebuild, settleOnlyUnchanged, storeVars
  <2>2. CASE settling[c] = "rebuild" /\ settling' = [settling EXCEPT ![c] = "reject"]
             /\ UNCHANGED receipt
    <3>1. /\ settling[c] \in SettleSteps /\ "reject" \in SettleSteps \cup {"done"}
          /\ "reject" \notin Unsent /\ "reject" \notin Receipted
          /\ "reject" \notin {"put", "revenue"}
      BY <2>2 DEF SettleSteps, Unsent, Receipted
    <3> QED BY <1>1, <2>1, <2>2, <3>1, SettlementStep
  <2>3. CASE \E d \in Calls :
               /\ settling[c] = "rebuild" /\ settling' = [settling EXCEPT ![c] = "spend"]
               /\ Nonce(d) = Nonce(c) /\ txState[d] = "ok"
               /\ receipt' = [receipt EXCEPT ![c] = [tx |-> d, amount |-> DebitAmount(d)]]
    <3>1. PICK d \in Calls :
               /\ settling[c] = "rebuild" /\ settling' = [settling EXCEPT ![c] = "spend"]
               /\ Nonce(d) = Nonce(c) /\ txState[d] = "ok"
               /\ receipt' = [receipt EXCEPT ![c] = [tx |-> d, amount |-> DebitAmount(d)]]
      BY <2>3
    <3> DEFINE r == [tx |-> d, amount |-> DebitAmount(d)]
    <3>2. r \in Receipt /\ r # NoReceipt /\ Backed(Nonce(c), r)
      <4>1. r \in Receipt
        BY <1>1, DebitTyped DEF Receipt
      <4> QED BY <1>1, <3>1, <4>1, NoneIsNone DEF Backed, Receipts, DebitsLogged
    <3>3. receipt' = [receipt EXCEPT ![c] = r]
      BY <3>1
    <3> HIDE DEF r
    <3>4. /\ settling[c] \in SettleSteps /\ "spend" \in SettleSteps \cup {"done"}
          /\ "spend" \notin Unsent /\ "spend" \notin {"put", "revenue"}
      BY <3>1 DEF SettleSteps, Unsent
    <3> QED BY <1>1, <2>1, <3>1, <3>2, <3>3, <3>4, SettlementStep
  <2> QED BY <1>8, <2>2, <2>3 DEF Rebuild, SettleMoves
<1>9. CASE Spend(c)
  <2>1. settling[c] = "spend" /\ settling' = [settling EXCEPT ![c] = "put"]
    BY <1>9 DEF Spend, SettleMoves
  <2>2. /\ UNCHANGED <<gateVars, chainVars, receipt, txState, settleTx, results, fresh,
                       revenue, strikes, storeThrew>>
        /\ spent' = spent \cup {Nonce(c)}
        /\ reservation' = [reservation EXCEPT ![Nonce(c)] = NoCall]
        /\ indexed' = [indexed EXCEPT ![Nonce(c)] = NoCall]
        /\ row' = [row EXCEPT ![Nonce(c)] = IF @ = "none" THEN @ ELSE "settled"]
    BY <1>9 DEF Spend, settleOnlyUnchanged, MarkNonceSpent, DropReservation
  <2>3. /\ reservation' \in [Nonces -> Calls \cup {NoCall}]
        /\ indexed' \in [Nonces -> Calls \cup {NoCall}]
        /\ row' \in [Nonces -> {"none", "reserved", "released", "settled"}]
        /\ \A n \in Nonces : row[n] # "none" => row'[n] # "none"
        /\ Nonce(c) \in spent'
    BY <1>1, <2>2
  <2>4. receipt[c] # NoReceipt
    BY <1>1, <2>1 DEF Receipts, ReceiptHeld, Receipted
  <2>5. /\ settling[c] \in SettleSteps /\ "put" \in SettleSteps \cup {"done"}
        /\ "put" \notin Unsent
    BY <2>1 DEF SettleSteps, Unsent
  <2> QED BY <1>1, <2>1, <2>2, <2>3, <2>4, <2>5, SettlementStep
<1>10. CASE PutResult(c)
  <2>1. settling[c] = "put" /\ settling' = [settling EXCEPT ![c] = "revenue"]
    BY <1>10 DEF PutResult, SettleMoves
  <2>2. UNCHANGED <<gateVars, chainVars, receipt, txState, reservation, indexed, row, spent,
                    settleTx, revenue, strikes, storeThrew>>
    BY <1>10 DEF PutResult, settleOnlyUnchanged
  <2>3. receipt[c] # NoReceipt /\ Nonce(c) \in spent
    BY <1>1, <2>1 DEF Receipts, ReceiptHeld, Receipted, Stores, SpentBeforePut
  <2>4. /\ results' = results \/ results' = [results EXCEPT ![Nonce(c)] = receipt[c]]
        /\ fresh' \subseteq Nonces
        /\ \A n \in fresh' : n \in fresh \/ results'[n] # NoResult
    BY <1>1, <1>10, <2>3 DEF PutResult
  <2>5. /\ settling[c] \in SettleSteps /\ "revenue" \in SettleSteps \cup {"done"}
        /\ "revenue" \notin Unsent
    BY <2>1 DEF SettleSteps, Unsent
  <2> QED BY <1>1, <2>1, <2>2, <2>3, <2>4, <2>5, SettlementStep
<1>11. CASE RecordRevenue(c)
  <2>1. settling[c] = "revenue" /\ settling' = [settling EXCEPT ![c] = "answer"]
    BY <1>11 DEF RecordRevenue, SettleMoves
  <2>2. UNCHANGED <<gateVars, chainVars, receipt, txState, reservation, indexed, row, spent,
                    settleTx, results, fresh, strikes, storeThrew>>
    BY <1>11 DEF RecordRevenue, settleOnlyUnchanged
  <2>3. receipt[c] # NoReceipt /\ receipt[c].amount \in Nat
    BY <1>1, <2>1 DEF Receipts, ReceiptHeld, Receipted, Receipt
  <2>4. revenue' \in [Nonces -> Nat \cup {NoResult}]
    BY <1>1, <1>11, <2>3 DEF RecordRevenue
  <2>5. /\ settling[c] \in SettleSteps /\ "answer" \in SettleSteps \cup {"done"}
        /\ "answer" \notin Unsent /\ "answer" \notin {"put", "revenue"}
    BY <2>1 DEF SettleSteps, Unsent
  <2> QED BY <1>1, <2>1, <2>2, <2>3, <2>4, <2>5, SettlementStep
<1>12. CASE SettleThrows(c)
  <2>1. settling[c] \in SettleSteps /\ settling' = [settling EXCEPT ![c] = "reject"]
    BY <1>12 DEF SettleThrows, SettleMoves
  <2>2. UNCHANGED <<gateVars, chainVars, receipt, txState, reservation, indexed, row, spent,
                    settleTx, results, fresh, revenue, strikes, storeThrew>>
    BY <1>12 DEF SettleThrows, settleOnlyUnchanged, storeVars
  <2>3. /\ "reject" \in SettleSteps \cup {"done"}
        /\ "reject" \notin Unsent /\ "reject" \notin Receipted
        /\ "reject" \notin {"put", "revenue"}
    BY DEF SettleSteps, Unsent, Receipted
  <2> QED BY <1>1, <2>1, <2>2, <2>3, SettlementStep
<1> QED BY <1>2, <1>3, <1>4, <1>5, <1>6, <1>7, <1>8, <1>9, <1>10, <1>11, <1>12

\* The gate charges for its handler's answer, or its settlement answers it.
LEMMA HandoverPreserves ==
  ASSUME PathInv, NEW c \in Calls,
         HandlerCharges(c) \/ Answer(c) \/ Reject(c)
  PROVE  PathInv'
<1>1. /\ TypeOK /\ EscrowInv /\ Positions /\ Receipts /\ Stores
      /\ gate \in [Calls -> GateSteps \cup Answers]
      /\ settling \in [Calls -> SettleSteps \cup {"none", "done"}]
      /\ computed \in [Calls -> Nat]
      /\ \A d \in Calls : Nonce(d) \in Nonces /\ Cap(d) \in Nat
  BY CallTyped DEF PathInv, TypeOK
<1>2. /\ UNCHANGED <<chainVars, seenBalance, buyerLock, receipt, txState>>
      /\ UNCHANGED <<reservation, indexed, row, spent, settleTx, results, fresh, revenue,
                        strikes, storeThrew>>
      /\ working' \subseteq working
      /\ HandlerCharges(c) => c \notin working'
  BY DEF HandlerCharges, Answer, Reject, gateOnlyUnchanged, storeVars
<1>3. EscrowInv' /\ UNCHANGED <<usedNonce, debited>>
  BY <1>1, <1>2, ChainStays
<1>4. PICK to \in {"settling", "paid", "striking"}, st \in {"entry", "done"} :
        /\ \/ gate' = [gate EXCEPT ![c] = to] /\ gate[c] \in {"running", "settling"}
           \/ gate' = gate /\ gate[c] # "running"
        /\ settling' = [settling EXCEPT ![c] = st]
        /\ st = "entry" <=> to = "settling"
        /\ st = "entry" => gate[c] = "running"
        /\ st = "done" => settling[c] \in {"answer", "reject"}
        /\ to = "paid" => settling[c] = "answer"
        /\ \A d \in Calls : d # c => computed'[d] = computed[d]
        /\ st = "done" => computed' = computed
        /\ computed' \in [Calls -> Nat]
  <2>1. CASE HandlerCharges(c)
    <3>1. /\ gate[c] = "running" /\ gate' = [gate EXCEPT ![c] = "settling"]
          /\ settling' = [settling EXCEPT ![c] = "entry"]
          /\ \E x \in Computed :
               computed' = [computed EXCEPT ![c] = IF x < Cap(c) THEN x ELSE Cap(c)]
      BY <2>1 DEF HandlerCharges, GateMoves
    <3>2. /\ computed' \in [Calls -> Nat]
          /\ \A d \in Calls : d # c => computed'[d] = computed[d]
      BY <1>1, <3>1, FacilitatorAssumption
    <3> QED BY <3>1, <3>2
  <2>2. CASE Answer(c)
    <3>1. /\ settling[c] = "answer" /\ settling' = [settling EXCEPT ![c] = "done"]
          /\ computed' = computed
          /\ \/ gate' = [gate EXCEPT ![c] = "paid"] /\ gate[c] = "settling"
             \/ gate' = gate
      BY <2>2 DEF Answer, SettleMoves
    <3>2. gate[c] # "running"
      BY <1>1, <3>1 DEF Positions, SettlesAfterRun, AfterRun
    <3> QED BY <1>1, <3>1, <3>2
  <2>3. CASE Reject(c)
    <3>1. /\ settling[c] = "reject" /\ settling' = [settling EXCEPT ![c] = "done"]
          /\ computed' = computed
          /\ \/ gate' = [gate EXCEPT ![c] = "striking"] /\ gate[c] = "settling"
             \/ gate' = gate
      BY <2>3 DEF Reject, SettleMoves
    <3>2. gate[c] # "running"
      BY <1>1, <3>1 DEF Positions, SettlesAfterRun, AfterRun
    <3> QED BY <1>1, <3>1, <3>2
  <2> QED BY <2>1, <2>2, <2>3
<1>5. /\ gate' \in [Calls -> GateSteps \cup Answers]
      /\ settling' \in [Calls -> SettleSteps \cup {"none", "done"}]
      /\ settling'[c] = st
      /\ \A d \in Calls : d # c => gate'[d] = gate[d] /\ settling'[d] = settling[d]
      /\ gate'[c] \in {gate[c], to}
  BY <1>1, <1>4 DEF GateSteps, Answers, SettleSteps
<1>6. st = "entry" => txState[c] = "none" /\ gate[c] = "running"
  <2>1. gate[c] = "running" => settling[c] = "none"
    BY <1>1 DEF Positions, SettlesAfterRun, AfterRun
  <2> QED BY <1>1, <1>4, <2>1 DEF Positions, BroadcastOnce, Unsent
<1>7. c \notin working' /\ working' \subseteq Calls
  <2>1. Answer(c) \/ Reject(c) => settling[c] # "none" /\ gate[c] # "running"
    BY <1>1 DEF Answer, Reject, SettleMoves, Positions, SettlesAfterRun, AfterRun
  <2> QED BY <1>1, <1>2, <2>1 DEF Positions, WorkersWaited, GaveUp, TypeOK
<1>12. TypeOK'
  BY <1>1, <1>2, <1>3, <1>4, <1>5, <1>7 DEF TypeOK, EscrowInv
<1>8. Positions'
  <2>1. SettlesAfterRun'
    BY <1>1, <1>4, <1>5 DEF Positions, SettlesAfterRun, AfterRun
  <2>2. BroadcastOnce'
    BY <1>1, <1>2, <1>4, <1>5, <1>6 DEF Positions, BroadcastOnce, Unsent
  <2>3. SignedInVerify'
    BY <1>1, <1>4, <1>5 DEF Positions, SignedInVerify, VerifySteps
  <2>4. ReservedFirst'
    BY <1>1, <1>2, <1>4, <1>5 DEF Positions, ReservedFirst, Nonce
  <2>5. WorkersWaited'
    BY <1>1, <1>2, <1>5, <1>7 DEF Positions, WorkersWaited, GaveUp
  <2> QED BY <2>1, <2>2, <2>3, <2>4, <2>5 DEF Positions
<1>9. \A n, rec : Backed(n, rec) => Backed(n, rec)'
  BY <1>2, <1>3 DEF Backed, Reverted, LoggedFor, DebitOf, Nonce, Receipt
<1>10. Receipts'
  <2>1. DebitsLogged'
    <3> SUFFICES ASSUME NEW d \in Calls, txState[d] = "ok"
                 PROVE  LoggedFor(Nonce(d), DebitAmount(d))'
      BY <1>2 DEF DebitsLogged
    <3>1. computed'[d] = computed[d]
      BY <1>4, <1>6
    <3>2. LoggedFor(Nonce(d), DebitAmount(d))
      BY <1>1 DEF Receipts, DebitsLogged
    <3> QED BY <1>3, <3>1, <3>2 DEF LoggedFor, DebitOf, DebitAmount, Nonce, Cap
  <2>2. ReceiptsBacked'
    BY <1>1, <1>2, <1>9 DEF Receipts, ReceiptsBacked, NoReceipt, Nonce
  <2>3. ReceiptHeld'
    BY <1>1, <1>2, <1>4, <1>5 DEF Receipts, ReceiptHeld, Receipted, NoReceipt
  <2> QED BY <2>1, <2>2, <2>3 DEF Receipts
<1>11. Stores'
  <2>1. ResultsBacked'
    BY <1>1, <1>2, <1>9 DEF Stores, ResultsBacked
  <2>2. SpentBeforePut'
    BY <1>1, <1>2, <1>4, <1>5 DEF Stores, SpentBeforePut, Nonce
  <2>3. FreshStored' /\ SpentBacked'
    BY <1>1, <1>2, <1>3 DEF Stores, FreshStored, SpentBacked, Nonce, Reverted
  <2> QED BY <2>1, <2>2, <2>3 DEF Stores
<1> QED BY <1>3, <1>12, <1>8, <1>10, <1>11 DEF PathInv

\* The reservation itself: the gate reserves or releases, or a key expires.
LEMMA StorePreserves ==
  ASSUME PathInv,
         \/ \E c \in Calls : \/ Reserve(c) \/ ReserveThrows(c)
                            \/ ReleaseReservation(c) \/ ReleaseThrows(c)
         \/ \E n \in Nonces : ReservationExpires(n) \/ ResultExpires(n)
  PROVE  PathInv'
<1>1. /\ TypeOK /\ EscrowInv /\ Positions /\ Receipts /\ Stores
      /\ gate \in [Calls -> GateSteps \cup Answers]
      /\ reservation \in [Nonces -> Calls \cup {NoCall}]
      /\ indexed \in [Nonces -> Calls \cup {NoCall}]
      /\ row \in [Nonces -> {"none", "reserved", "released", "settled"}]
      /\ buyerLock \in [Accounts -> Calls \cup {NoCall}]
      /\ fresh \subseteq Nonces /\ strikes \subseteq Calls
      /\ storeThrew \subseteq Calls /\ working \subseteq Calls
      /\ \A d \in Calls : Nonce(d) \in Nonces /\ Buyer(d) \in Accounts
  BY CallTyped DEF PathInv, TypeOK
<1>2. /\ UNCHANGED <<chainVars, working, seenBalance, computed, settling, receipt, txState>>
      /\ UNCHANGED <<spent, settleTx, results, revenue>>
  BY DEF Reserve, ReserveThrows, ReleaseReservation, ReleaseThrows, ReservationExpires,
         ResultExpires, gateVars, settleVars
<1>3. EscrowInv' /\ UNCHANGED <<usedNonce, debited>>
  BY <1>1, <1>2, ChainStays
<1>4. \E c \in Calls :
        /\ \A d \in Calls : d # c => gate'[d] = gate[d]
        /\ \/ gate'[c] = gate[c]
           \/ gate'[c] \in {"free", "failed"} /\ (gate[c] \in AfterRun => gate'[c] = "failed")
              /\ (gate'[c] = "free" => gate[c] = "releasing")
           \/ gate'[c] = "refused" /\ gate[c] = "reserve"
           \/ gate'[c] = "reserved" /\ gate[c] = "reserve" /\ row'[Nonce(c)] # "none"
        /\ gate' \in [Calls -> GateSteps \cup Answers]
  <2>1. ASSUME NEW c \in Calls, Reserve(c)
        PROVE  <1>4
    <3>1. CASE Pending(Nonce(c))
      BY <1>1, <2>1, <3>1 DEF Reserve, GateMoves, GateSteps, Answers
    <3>2. CASE ~Pending(Nonce(c))
      BY <1>1, <2>1, <3>2 DEF Reserve, GateMoves, GateSteps, Answers
    <3> QED BY <3>1, <3>2
  <2>2. ASSUME NEW c \in Calls, ReleaseReservation(c) \/ ReleaseThrows(c) \/ ReserveThrows(c)
        PROVE  <1>4
    BY <1>1, <2>2 DEF ReleaseReservation, ReleaseThrows, ReserveThrows, GateMoves,
                      GateSteps, Answers, AfterRun
  <2>3. ASSUME NEW n \in Nonces, ReservationExpires(n) \/ ResultExpires(n)
        PROVE  <1>4
    <3>1. gate' = gate
      BY <2>3 DEF ReservationExpires, ResultExpires, gateVars
    <3>2. CASE Calls # {}
      BY <1>1, <3>1, <3>2
    <3>3. CASE Calls = {}
      <4>1. ReservationExpires(n) => FALSE
        BY <1>1, <3>3 DEF ReservationExpires, Pending
      <4>2. ResultExpires(n) => n \in fresh /\ results[n] \in Receipt
        BY <1>1 DEF ResultExpires, Stores, FreshStored, TypeOK
      <4> QED BY <2>3, <3>3, <4>1, <4>2 DEF Receipt
    <3> QED BY <3>2, <3>3
  <2> QED BY <2>1, <2>2, <2>3
<1>5. /\ reservation' \in [Nonces -> Calls \cup {NoCall}]
      /\ indexed' \in [Nonces -> Calls \cup {NoCall}]
      /\ row' \in [Nonces -> {"none", "reserved", "released", "settled"}]
      /\ \A n \in Nonces : row[n] # "none" => row'[n] # "none"
  <2>1. ASSUME NEW c \in Calls, Reserve(c) \/ ReserveThrows(c)
        PROVE  <1>5
    BY <1>1, <2>1 DEF Reserve, ReserveThrows
  <2>2. ASSUME NEW c \in Calls, ReleaseReservation(c) \/ ReleaseThrows(c)
        PROVE  <1>5
    BY <1>1, <2>2 DEF ReleaseReservation, ReleaseThrows, Release, DropReservation
  <2>3. ASSUME NEW n \in Nonces, ReservationExpires(n) \/ ResultExpires(n)
        PROVE  <1>5
    BY <1>1, <2>3 DEF ReservationExpires, ResultExpires, DropReservation
  <2> QED BY <2>1, <2>2, <2>3
<1>6. /\ buyerLock' \in [Accounts -> Calls \cup {NoCall}]
      /\ fresh' \subseteq fresh /\ strikes' \subseteq Calls /\ storeThrew' \subseteq Calls
  BY <1>1 DEF Reserve, ReserveThrows, LeaveLock, ReleaseReservation, ReleaseThrows,
              ReservationExpires, ResultExpires, gateVars
<1>7. TypeOK'
  BY <1>1, <1>2, <1>3, <1>4, <1>5, <1>6 DEF TypeOK, EscrowInv
<1>8. Positions'
  <2>1. SettlesAfterRun'
    BY <1>1, <1>2, <1>4 DEF Positions, SettlesAfterRun, AfterRun
  <2>2. BroadcastOnce'
    BY <1>1, <1>2 DEF Positions, BroadcastOnce
  <2>3. SignedInVerify'
    BY <1>1, <1>4 DEF Positions, SignedInVerify, VerifySteps
  <2>4. ReservedFirst'
    BY <1>1, <1>2, <1>4, <1>5 DEF Positions, ReservedFirst, Nonce
  <2>5. WorkersWaited'
    <3>1. working' = working /\ settling' = settling
      BY <1>2
    <3>2. SUFFICES ASSUME NEW d \in working
                   PROVE  gate'[d] = "running" \/ GaveUp(d)'
      BY <3>1 DEF WorkersWaited
    <3>3. /\ d \in Calls /\ (gate[d] = "running" \/ GaveUp(d))
          /\ gate[d] = "running" => settling[d] = "none"
      BY <1>1, <3>2 DEF Positions, WorkersWaited, SettlesAfterRun, AfterRun
    <3>4. gate'[d] = gate[d] \/ gate'[d] = "failed"
      BY <1>4, <3>3 DEF GaveUp
    <3> QED BY <3>1, <3>3, <3>4 DEF GaveUp
  <2> QED BY <2>1, <2>2, <2>3, <2>4, <2>5 DEF Positions
<1>9. \A n, rec : Backed(n, rec) => Backed(n, rec)'
  BY <1>2, <1>3 DEF Backed, Reverted, LoggedFor, DebitOf, Nonce, Receipt
<1>10. Receipts'
  <2>1. DebitsLogged'
    BY <1>1, <1>2, <1>3 DEF Receipts, DebitsLogged, LoggedFor, DebitOf, DebitAmount, Cap,
                            Nonce
  <2>2. ReceiptsBacked'
    BY <1>1, <1>2, <1>9 DEF Receipts, ReceiptsBacked, NoReceipt, Nonce
  <2>3. ReceiptHeld'
    BY <1>1, <1>2, <1>4 DEF Receipts, ReceiptHeld, NoReceipt
  <2> QED BY <2>1, <2>2, <2>3 DEF Receipts
<1>11. Stores'
  <2>1. ResultsBacked'
    BY <1>1, <1>2, <1>9 DEF Stores, ResultsBacked
  <2>2. SpentBeforePut' /\ FreshStored' /\ SpentBacked'
    BY <1>1, <1>2, <1>3, <1>6 DEF Stores, SpentBeforePut, FreshStored, SpentBacked,
                                  Nonce, Reverted
  <2> QED BY <2>1, <2>2 DEF Stores
<1> QED BY <1>3, <1>7, <1>8, <1>10, <1>11 DEF PathInv

\* The facilitator stops: what remains is what the stores and the chain hold.
LEMMA CrashPreserves ==
  ASSUME PathInv, FacilitatorCrash
  PROVE  PathInv'
<1>1. /\ TypeOK /\ EscrowInv /\ Positions /\ Receipts /\ Stores
      /\ gate \in [Calls -> GateSteps \cup Answers]
      /\ settling \in [Calls -> SettleSteps \cup {"none", "done"}]
  BY DEF PathInv, TypeOK
<1>2. /\ UNCHANGED <<chainVars, working, computed, seenBalance, receipt, txState>>
      /\ UNCHANGED <<reservation, indexed, row, spent, settleTx, results, fresh, revenue,
                        strikes, storeThrew>>
      /\ buyerLock' = [b \in Accounts |-> NoCall]
  BY DEF FacilitatorCrash, storeVars
<1>3. EscrowInv' /\ UNCHANGED <<usedNonce, debited>>
  BY <1>1, <1>2, ChainStays
<1>4. /\ gate' \in [Calls -> GateSteps \cup Answers]
      /\ \A c \in Calls :
           \/ gate'[c] = gate[c] /\ gate[c] \notin VerifySteps
           \/ gate'[c] = "striking" /\ gate[c] = "settling"
           \/ gate'[c] = "failed" /\ gate[c] \in VerifySteps
  <2>1. \A c \in Calls :
          LET g == CASE gate[c] = "settling"    -> "striking"
                     [] gate[c] \in VerifySteps -> "failed"
                     [] OTHER                   -> gate[c]
          IN  /\ g \in GateSteps \cup Answers
              /\ \/ g = gate[c] /\ gate[c] \notin VerifySteps
                 \/ g = "striking" /\ gate[c] = "settling"
                 \/ g = "failed" /\ gate[c] \in VerifySteps
    BY <1>1 DEF GateSteps, Answers
  <2> QED BY <2>1 DEF FacilitatorCrash
<1>5. /\ settling' \in [Calls -> SettleSteps \cup {"none", "done"}]
      /\ \A c \in Calls :
           \/ settling'[c] = settling[c] /\ settling[c] \notin SettleSteps
           \/ settling'[c] = "done" /\ settling[c] \in SettleSteps
  BY <1>1 DEF FacilitatorCrash
<1>6. TypeOK'
  BY <1>1, <1>2, <1>3, <1>4, <1>5 DEF TypeOK, EscrowInv
<1>7. Positions'
  <2>1. SettlesAfterRun'
    BY <1>1, <1>4, <1>5 DEF Positions, SettlesAfterRun, AfterRun, SettleSteps
  <2>2. BroadcastOnce'
    BY <1>1, <1>2, <1>5 DEF Positions, BroadcastOnce, Unsent
  <2>3. SignedInVerify'
    BY <1>1, <1>4 DEF Positions, SignedInVerify, VerifySteps
  <2>4. ReservedFirst'
    BY <1>1, <1>2, <1>4, <1>5 DEF Positions, ReservedFirst, Nonce, SettleSteps
  <2>5. WorkersWaited'
    <3>1. SUFFICES ASSUME NEW d \in working
                   PROVE  gate'[d] = "running" \/ GaveUp(d)'
      BY <1>2 DEF WorkersWaited
    <3>2. d \in Calls /\ (gate[d] = "running" \/ GaveUp(d))
      BY <1>1, <3>1 DEF TypeOK, Positions, WorkersWaited
    <3>3. gate'[d] = gate[d]
      BY <1>4, <3>2 DEF GaveUp, VerifySteps
    <3>4. settling[d] = "none" => settling'[d] = "none"
      BY <1>5, <3>2 DEF SettleSteps
    <3> QED BY <3>2, <3>3, <3>4 DEF GaveUp
  <2> QED BY <2>1, <2>2, <2>3, <2>4, <2>5 DEF Positions
<1>8. \A n, rec : Backed(n, rec) => Backed(n, rec)'
  BY <1>2, <1>3 DEF Backed, Reverted, LoggedFor, DebitOf, Nonce, Receipt
<1>9. Receipts'
  <2>1. DebitsLogged'
    BY <1>1, <1>2, <1>3 DEF Receipts, DebitsLogged, LoggedFor, DebitOf, DebitAmount, Cap,
                            Nonce
  <2>2. ReceiptsBacked'
    BY <1>1, <1>2, <1>8 DEF Receipts, ReceiptsBacked, NoReceipt, Nonce
  <2>3. ReceiptHeld'
    BY <1>1, <1>2, <1>4, <1>5 DEF Receipts, ReceiptHeld, NoReceipt, Receipted
  <2> QED BY <2>1, <2>2, <2>3 DEF Receipts
<1>10. Stores'
  <2>1. ResultsBacked'
    BY <1>1, <1>2, <1>8 DEF Stores, ResultsBacked
  <2>2. SpentBeforePut' /\ FreshStored' /\ SpentBacked'
    BY <1>1, <1>2, <1>3, <1>5 DEF Stores, SpentBeforePut, FreshStored, SpentBacked,
                                  Nonce, Reverted
  <2> QED BY <2>1, <2>2 DEF Stores
<1> QED BY <1>3, <1>6, <1>7, <1>9, <1>10 DEF PathInv

-----------------------------------------------------------------------------
\* The chain moves and the handlers stand still: receipts stay backed, and what
\* has just been mined is logged or reverted.
LEMMA ChainStep ==
  ASSUME PathInv, EscrowInv', LogGrows,
         UNCHANGED <<gateVars, settleVars, storeVars>>,
         txState' \in [Calls -> {"none", "pending", "ok", "reverted"}],
         \A c \in Calls : txState[c] = "none" => txState'[c] = "none",
         \A c \in Calls : txState'[c] = "ok" =>
           txState[c] = "ok" \/ LoggedFor(Nonce(c), DebitAmount(c))'
  PROVE  PathInv'
<1>1. /\ TypeOK /\ Positions /\ Receipts /\ Stores
      /\ \A c \in Calls : Nonce(c) \in Nonces /\ DebitAmount(c) \in Nat
  BY CallTyped, DebitTyped DEF PathInv
<1>2. /\ UNCHANGED <<gate, working, computed, seenBalance, buyerLock, settling, receipt>>
      /\ UNCHANGED <<reservation, indexed, row, spent, settleTx, results, fresh, revenue,
                        strikes, storeThrew>>
  BY DEF gateVars, settleVars, storeVars
<1>3. TypeOK'
  BY <1>1, <1>2 DEF TypeOK, EscrowInv
<1>4. Positions'
  BY <1>1, <1>2 DEF Positions, SettlesAfterRun, BroadcastOnce, SignedInVerify,
                    ReservedFirst, WorkersWaited, GaveUp, Nonce
<1>5. Receipts'
  <2>1. DebitsLogged'
    <3> SUFFICES ASSUME NEW c \in Calls, txState'[c] = "ok"
                 PROVE  LoggedFor(Nonce(c), DebitAmount(c))'
      BY DEF DebitsLogged
    <3> DEFINE n == Nonce(c)
               x == DebitAmount(c)
    <3>1. CASE LoggedFor(n, x)
      <4>1. n' = n /\ x' = x
        BY <1>2 DEF Nonce, DebitAmount, Cap
      <4>2. LoggedFor(n, x) => \E i \in DebitOf(n)' : debited'[i].amount = x
        BY <1>1 DEF LogGrows, LoggedFor
      <4> QED BY <3>1, <4>1, <4>2 DEF LoggedFor, DebitOf
    <3> QED BY <1>1, <3>1 DEF Receipts, DebitsLogged
  <2>2. ReceiptsBacked'
    <3> SUFFICES ASSUME NEW d \in Calls, NEW rec, rec = receipt[d], rec # NoReceipt
                 PROVE  Backed(Nonce(d), rec)'
      BY <1>2 DEF ReceiptsBacked, Backed, LoggedFor, DebitOf, Reverted, NoReceipt, Nonce
    <3> QED BY <1>1, StaysBacked DEF Receipts, ReceiptsBacked
  <2>3. ReceiptHeld'
    BY <1>1, <1>2 DEF Receipts, ReceiptHeld, NoReceipt
  <2> QED BY <2>1, <2>2, <2>3 DEF Receipts
<1>6. Stores'
  <2>1. ResultsBacked'
    <3> SUFFICES ASSUME NEW n \in Nonces, NEW rec, rec = results[n], rec # NoResult
                 PROVE  n \in spent /\ Backed(n, rec)'
      BY <1>2 DEF ResultsBacked, Backed, LoggedFor, DebitOf, Reverted, Nonce
    <3> QED BY <1>1, StaysBacked DEF Stores, ResultsBacked
  <2>2. SpentBeforePut' /\ FreshStored'
    BY <1>1, <1>2 DEF Stores, SpentBeforePut, FreshStored, Nonce
  <2>3. SpentBacked'
    BY <1>1, <1>2 DEF Stores, SpentBacked, LogGrows, Nonce
  <2> QED BY <2>1, <2>2, <2>3 DEF Stores
<1> QED BY <1>3, <1>4, <1>5, <1>6 DEF PathInv

\* A transaction is mined: its debit is logged, or it reverts.
LEMMA MinePreserves ==
  ASSUME PathInv, NEW c \in Calls, MineTx(c)
  PROVE  PathInv'
<1>1. /\ TypeOK /\ EscrowInv
      /\ txState \in [Calls -> {"none", "pending", "ok", "reverted"}]
      /\ txState[c] = "pending"
      /\ AuthOf[c] \in Auths /\ DebitAmount(c) \in Nat
      /\ RegistryTypeOK /\ debited \in Seq(Debited) /\ Relayer \in Accounts
  BY CallTyped, DebitTyped, EscrowAssumption
     DEF MineTx, PathInv, TypeOK, EscrowSystemTypeOK, EscrowTypeOK
<1>2. UNCHANGED <<gateVars, settleVars, storeVars, registryVars, now>>
  BY DEF MineTx, offChainUnchanged
<1>3. CASE /\ Debit(Relayer, AuthOf[c], DebitAmount(c))
           /\ txState' = [txState EXCEPT ![c] = "ok"]
  <2>1. EscrowInv'
    BY <1>1, <1>2, <1>3, DebitPreserves
  <2> DEFINE e == DebitedEvent(AuthOf[c], DebitAmount(c))
  <2>2. /\ e \in Debited /\ e.nonce = Nonce(c) /\ e.amount = DebitAmount(c)
        /\ debited' = Append(debited, e)
    BY <1>1, <1>3, DebitLogs, ZenonT(40) DEF Nonce
  <2> HIDE DEF e
  <2>3. /\ DOMAIN debited' = DOMAIN debited \cup {Len(debited) + 1}
        /\ \A i \in DOMAIN debited : debited'[i] = debited[i]
        /\ debited'[Len(debited) + 1] = e
    BY <1>1, <2>2
  <2>4. \A n \in Nonces, x \in Nat : LoggedFor(n, x) => LoggedFor(n, x)'
    BY <2>3 DEF LoggedFor, DebitOf
  <2>5. \A d \in Calls : Reverted(d) => Reverted(d)'
    BY <1>1, <1>3 DEF Reverted
  <2>6. usedNonce \subseteq usedNonce'
    BY <1>3 DEF Debit
  <2>7. LoggedFor(Nonce(c), DebitAmount(c))'
    <3>1. Nonce(c)' = Nonce(c) /\ DebitAmount(c)' = DebitAmount(c)
      BY <1>2 DEF Nonce, DebitAmount, Cap, gateVars
    <3>2. \E i \in DOMAIN debited' : debited'[i].nonce = Nonce(c)
                                     /\ debited'[i].amount = DebitAmount(c)
      BY <2>2, <2>3
    <3> QED BY <3>1, <3>2 DEF LoggedFor, DebitOf
  <2>8. /\ txState' \in [Calls -> {"none", "pending", "ok", "reverted"}]
        /\ \A d \in Calls : txState[d] = "none" => txState'[d] = "none"
        /\ \A d \in Calls : d # c => txState'[d] = txState[d]
    BY <1>1, <1>3
  <2>9. LogGrows
    BY <2>4, <2>5, <2>6 DEF LogGrows
  <2>10. \A d \in Calls : txState'[d] = "ok" =>
           txState[d] = "ok" \/ LoggedFor(Nonce(d), DebitAmount(d))'
    <3> SUFFICES ASSUME NEW d \in Calls, txState'[d] = "ok", txState[d] # "ok"
                 PROVE  LoggedFor(Nonce(d), DebitAmount(d))'
      OBVIOUS
    <3>1. d = c
      BY <2>8
    <3> QED BY <2>7, <3>1 DEF LoggedFor, DebitOf, Nonce, DebitAmount, Cap
  <2> QED BY <1>2, <2>1, <2>8, <2>9, <2>10, ChainStep
<1>4. CASE txState' = [txState EXCEPT ![c] = "reverted"] /\ UNCHANGED escrowVars
  <2>1. UNCHANGED chainVars
    BY <1>2, <1>4 DEF chainVars
  <2>2. EscrowInv' /\ UNCHANGED <<usedNonce, debited>>
    BY <1>1, <2>1, ChainStays
  <2>3. /\ txState' \in [Calls -> {"none", "pending", "ok", "reverted"}]
        /\ \A d \in Calls : txState[d] = "none" => txState'[d] = "none"
        /\ \A d \in Calls : txState'[d] = "ok" => txState[d] = "ok"
        /\ \A d \in Calls : Reverted(d) => txState'[d] = "reverted"
    BY <1>1, <1>4 DEF Reverted
  <2>4. LogGrows
    BY <1>1, <2>2, <2>3, LogStays
  <2> QED BY <1>2, <2>2, <2>3, <2>4, ChainStep
<1> QED BY <1>3, <1>4 DEF MineTx

\* What else happens on chain: a withdrawal, a pause, time.
LEMMA OutsidePreserves ==
  ASSUME PathInv,
         \/ \E b \in Accounts : BuyerWithdraws(b)
         \/ \E r \in ResourceIds : ResourcePaused(r)
         \/ ClockTicks
  PROVE  PathInv'
<1>1. /\ TypeOK /\ EscrowInv
      /\ txState \in [Calls -> {"none", "pending", "ok", "reverted"}]
      /\ balanceOf \in [Addresses -> Nat]
  BY DEF PathInv, TypeOK, EscrowSystemTypeOK, EscrowTypeOK
<1>2. UNCHANGED <<gateVars, settleVars, storeVars, txState>>
  BY DEF BuyerWithdraws, ResourcePaused, ClockTicks, offChainUnchanged
<1>3. EscrowInv' /\ UNCHANGED <<usedNonce, debited>>
  <2>1. ASSUME NEW b \in Accounts, BuyerWithdraws(b)
        PROVE  EscrowInv' /\ UNCHANGED <<usedNonce, debited>>
    <3>1. /\ balanceOf[b] \in Nat /\ Withdraw(b, balanceOf[b])
          /\ UNCHANGED <<registryVars, now>>
      BY <1>1, <2>1 DEF BuyerWithdraws, Addresses
    <3> QED BY <1>1, <3>1, FundingPreserves DEF Withdraw
  <2>2. ASSUME NEW r \in ResourceIds, ResourcePaused(r)
        PROVE  EscrowInv' /\ UNCHANGED <<usedNonce, debited>>
    <3>1. PICK s \in RegistryAdmins : Pause(s, r)
      BY <2>2 DEF ResourcePaused
    <3>2. s \in Accounts
      BY RegistryAssumption
    <3>3. RegistryConfigCall
      BY <2>2, <3>1, <3>2 DEF ResourcePaused, RegistryConfigCall
    <3> QED BY <1>1, <2>2, <3>3, RegistryPreserves DEF ResourcePaused, escrowVars
  <2>3. CASE ClockTicks
    <3>1. BlockTime
      BY <2>3 DEF ClockTicks, BlockTime
    <3> QED BY <1>1, <2>3, <3>1, BlockTimePreserves DEF ClockTicks, escrowVars
  <2> QED BY <2>1, <2>2, <2>3
<1>4. LogGrows
  <2>1. \A d \in Calls : Reverted(d) => txState'[d] = "reverted"
    BY <1>2 DEF Reverted
  <2> QED BY <1>1, <1>3, <2>1, LogStays
<1>5. /\ txState' \in [Calls -> {"none", "pending", "ok", "reverted"}]
      /\ \A d \in Calls : txState'[d] = txState[d]
  BY <1>1, <1>2
<1> QED BY <1>2, <1>3, <1>4, <1>5, ChainStep

-----------------------------------------------------------------------------
\* Every step of the path keeps the invariant.
LEMMA PathStep == PathInv /\ [Next]_vars => PathInv'
<1> SUFFICES ASSUME PathInv, [Next]_vars PROVE PathInv'
  OBVIOUS
<1>1. ASSUME NEW c \in Calls, VerifyStep(c) PROVE PathInv'
  BY <1>1, VerifyPreserves, StorePreserves DEF VerifyStep
<1>2. ASSUME NEW c \in Calls, HandlerStep(c) PROVE PathInv'
  BY <1>2, GatePreserves, HandoverPreserves, StorePreserves DEF HandlerStep
<1>3. ASSUME NEW c \in Calls, SettleStep(c) PROVE PathInv'
  BY <1>3, SettlePreserves, HandoverPreserves DEF SettleStep
<1>4. ASSUME NEW c \in Calls, MineTx(c) PROVE PathInv'
  BY <1>4, MinePreserves
<1>5. CASE Environment
  <2>1. CASE \E b \in Accounts : BuyerWithdraws(b) \/ LockExpires(b)
    BY <2>1, OutsidePreserves, LockExpiryPreserves
  <2>2. CASE \E r \in ResourceIds : ResourcePaused(r)
    BY <2>2, OutsidePreserves
  <2>3. CASE \E n \in Nonces : ReservationExpires(n) \/ ResultExpires(n)
    BY <2>3, StorePreserves
  <2>4. CASE \E c \in Calls : \/ VerifyThrows(c) \/ ReserveThrows(c) \/ ReleaseThrows(c)
                              \/ SettleThrows(c) \/ ReplyLost(c) \/ GateCrash(c)
                              \/ HandlerEnds(c)
    BY <2>4, VerifyPreserves, StorePreserves, SettlePreserves, GatePreserves
  <2>5. CASE ClockTicks
    BY <2>5, OutsidePreserves
  <2>6. CASE FacilitatorCrash
    BY <2>6, CrashPreserves
  <2> QED BY <1>5, <2>1, <2>2, <2>3, <2>4, <2>5, <2>6 DEF Environment
<1>6. CASE UNCHANGED vars
  <2>1. UNCHANGED <<gateVars, settleVars, storeVars, chainVars, txState>>
    BY <1>6 DEF vars
  <2>2. TypeOK /\ EscrowInv' /\ UNCHANGED <<usedNonce, debited>>
    BY <2>1, ChainStays DEF PathInv
  <2>3. LogGrows
    <3>1. \A d \in Calls : Reverted(d) => txState'[d] = "reverted"
      BY <2>1 DEF Reverted
    <3> QED BY <2>2, <3>1, LogStays
  <2>4. txState' \in [Calls -> {"none", "pending", "ok", "reverted"}]
    BY <2>1, <2>2 DEF TypeOK
  <2> QED BY <2>1, <2>2, <2>3, <2>4, ChainStep
<1> QED BY <1>1, <1>2, <1>3, <1>4, <1>5, <1>6 DEF Next

\* The deployed contracts, funded, with empty stores and no handler running.
LEMMA PathStart == Init => PathInv
<1> SUFFICES ASSUME Init PROVE PathInv
  OBVIOUS
<1>1. IsFiniteSet(Addresses) /\ DOMAIN Funds = Addresses
  BY RegistryAssumption, FacilitatorAssumption, FS_AddElement DEF Addresses
<1>2. \A x \in Addresses : Funds[x] \in Nat
  BY FacilitatorAssumption
<1>3. SumOver(Funds, Addresses) \in Nat
  BY <1>1, <1>2, SumMonotone
<1>4. usdcOf \in [Accounts \cup {Escrow} -> Nat]
  <2>1. usdcOf = [a \in Accounts \cup {Escrow} |->
                    IF a = Escrow THEN SumOver(Funds, Addresses) ELSE Supply[a]]
    BY <1>1, FoldIsSum, Zenon DEF Init
  <2> QED BY <1>3, <2>1, EscrowAssumption
<1>5. /\ resources = Split /\ pendingSlashes = [r \in ResourceIds |-> NoPendingSlash]
      /\ now = 0 /\ balanceOf = Funds /\ usedNonce = {} /\ admin = Relayer
      /\ debited = <<>>
  BY DEF Init
<1>6. RegistryTypeOK /\ PayeesNamed
  BY <1>5, FacilitatorAssumption
     DEF RegistryTypeOK, PayeesNamed, NoPendingSlash, PendingSlash
<1>7. EscrowTypeOK
  BY <1>4, <1>5, FacilitatorAssumption, EscrowAssumption DEF EscrowTypeOK
<1>8. NonceSingleUse /\ ChargedAsSigned /\ NothingAtZero
  BY <1>5, FacilitatorAssumption DEF NonceSingleUse, ChargedAsSigned, NothingAtZero
<1>9. EscrowInv
  BY <1>6, <1>7, <1>8 DEF EscrowInv, EscrowSystemTypeOK
<1>10. /\ gate = [c \in Calls |-> "new"]
       /\ settling = [c \in Calls |-> "none"]
       /\ computed = [c \in Calls |-> 0]
       /\ seenBalance = [c \in Calls |-> 0]
       /\ receipt = [c \in Calls |-> NoReceipt]
       /\ buyerLock = [a \in Accounts |-> NoCall]
       /\ txState = [c \in Calls |-> "none"]
       /\ reservation = [n \in Nonces |-> NoCall]
       /\ indexed = [n \in Nonces |-> NoCall]
       /\ row = [n \in Nonces |-> "none"]
       /\ spent = {} /\ fresh = {} /\ strikes = {} /\ storeThrew = {} /\ working = {}
       /\ settleTx = [n \in Nonces |-> NoCall]
       /\ results = [n \in Nonces |-> NoResult]
       /\ revenue = [n \in Nonces |-> NoResult]
  BY DEF Init
<1>11. TypeOK
  BY <1>9, <1>10 DEF TypeOK, EscrowInv, GateSteps
<1>12. Positions
  BY <1>10 DEF Positions, SettlesAfterRun, BroadcastOnce, SignedInVerify, ReservedFirst,
               WorkersWaited, VerifySteps
<1>13. Receipts /\ Stores
  BY <1>10 DEF Receipts, DebitsLogged, ReceiptsBacked, ReceiptHeld, Receipted, Stores,
               SpentBeforePut, ResultsBacked, FreshStored, SpentBacked
<1> QED BY <1>9, <1>11, <1>12, <1>13 DEF PathInv

\* The invariant holds in every reachable state, whatever the environment does.
THEOREM PathInvariant == Spec => []PathInv
BY PathStep, PathStart, PTL DEF Spec

\* Positions, stores and chain keep their types; no handler, crash, replay or
\* lost reply drives a balance below zero.
THEOREM PathTypesHold == Spec => []TypeOK
<1>1. PathInv => TypeOK
  BY DEF PathInv
<1> QED BY <1>1, PathInvariant, PTL

\* A call is answered as paid only with a receipt of its own nonce: of the debit
\* the chain logged, with the amount it logged, or of a transaction that was
\* mined and reverted (settle does not read the status).
THEOREM PaidIsMined == Spec => []PaidMeansMined
<1>1. PathInv => PaidMeansMined
  BY DEF PathInv, Receipts, ReceiptsBacked, ReceiptHeld, Backed, PaidMeansMined
<1> QED BY <1>1, PathInvariant, PTL

\* A nonce is marked spent only when the chain consumed it or reverted a
\* transaction for it, and only a nonce marked spent has a stored result.
THEOREM SpentIsMined == Spec => []SpentMeansMined
<1>1. PathInv => SpentMeansMined
  BY DEF PathInv, Stores, SpentBacked, ResultsBacked, SpentMeansMined
<1> QED BY <1>1, PathInvariant, PTL

-----------------------------------------------------------------------------
(***************************************************************************)
(* The path implements the abstract promise.                               *)
(***************************************************************************)
\* A mined debit is a charge of the promise: its nonce was reserved before its
\* settlement could broadcast anything.
LEMMA MineSettles ==
  ASSUME PathInv, NEW c \in Calls, MineTx(c)
  PROVE  [PathPromise!PromiseNext]_(PathPromise!promiseVars)
<1>1. /\ EscrowInv /\ Positions /\ txState[c] = "pending"
      /\ AuthOf[c] \in Auths /\ DebitAmount(c) \in Nat /\ Relayer \in Accounts
      /\ AuthOf[c].maxAmount \in Nat /\ Nonce(c) \in Nonces
  BY CallTyped, DebitTyped, EscrowAssumption DEF MineTx, PathInv, Cap
<1>2. row' = row
  BY DEF MineTx, offChainUnchanged, storeVars
<1>3. row[Nonce(c)] # "none"
  <2>1. settling[c] # "none"
    BY <1>1 DEF Positions, BroadcastOnce, Unsent
  <2> QED BY <1>1, <2>1 DEF Positions, ReservedFirst
<1>4. CASE Debit(Relayer, AuthOf[c], DebitAmount(c))
  <2> DEFINE a == AuthOf[c]
             x == DebitAmount(c)
  <2>1. /\ a \in SignedAuths /\ x <= a.maxAmount
        /\ \A d \in Charges : d.nonce # a.nonce
        /\ Charges' = Charges \cup {PathPromise!Charge(a, x)}
    BY <1>1, <1>4, DebitCharges DEF PathPromise!Charge
  <2>2. a.nonce \in {n \in Nonces : row[n] # "none"}
    BY <1>1, <1>3 DEF Nonce
  <2>3. x \in 0..a.maxAmount
    BY <1>1, <2>1
  <2> HIDE DEF a, x
  <2>4. PathPromise!Settle(a, x)
    BY <1>2, <2>1, <2>2 DEF PathPromise!Settle
  <2> QED BY <2>1, <2>3, <2>4 DEF PathPromise!PromiseNext
<1>5. CASE UNCHANGED escrowVars
  BY <1>2, <1>5 DEF PathPromise!promiseVars, Charges, escrowVars
<1> QED BY <1>4, <1>5 DEF MineTx

\* A reservation reserves its nonce for good, one whose store call throws after
\* the row was written included.
LEMMA ReserveReserves ==
  ASSUME PathInv, NEW c \in Calls, Reserve(c) \/ ReserveThrows(c)
  PROVE  [PathPromise!PromiseNext]_(PathPromise!promiseVars)
<1>1. /\ gate[c] = "reserve" /\ AuthOf[c] \in SignedAuths
      /\ Nonce(c) \in Nonces
      /\ row \in [Nonces -> {"none", "reserved", "released", "settled"}]
  BY CallTyped DEF Reserve, ReserveThrows, GateMoves, PathInv, TypeOK, Positions,
                   SignedInVerify, VerifySteps
<1>2. Charges' = Charges
  BY DEF Reserve, ReserveThrows, Charges, chainVars, escrowVars
<1>3. CASE row' = row
  BY <1>2, <1>3 DEF PathPromise!promiseVars
<1>4. CASE row' = [row EXCEPT ![Nonce(c)] = "reserved"]
  <2>1. {n \in Nonces : row'[n] # "none"} = {n \in Nonces : row[n] # "none"} \cup {AuthOf[c].nonce}
    BY <1>1, <1>4 DEF Nonce
  <2>2. PathPromise!Reserve(AuthOf[c].nonce)
    BY <1>2, <2>1 DEF PathPromise!Reserve
  <2> QED BY <1>1, <2>2 DEF PathPromise!PromiseNext
<1> QED BY <1>3, <1>4 DEF Reserve, ReserveThrows

\* Every other step leaves the log alone and keeps the rows there are.
LEMMA PathRefines ==
  ASSUME PathInv, [Next]_vars
  PROVE  [PathPromise!PromiseNext]_(PathPromise!promiseVars)
<1>1. CASE \E c \in Calls : MineTx(c)
  BY <1>1, MineSettles
<1>2. CASE \E c \in Calls : Reserve(c) \/ ReserveThrows(c)
  BY <1>2, ReserveReserves
<1> DEFINE Kept == /\ debited' = debited
                   /\ \A n \in Nonces : row'[n] # "none" <=> row[n] # "none"
<1>3. ASSUME NEW c \in Calls, VerifyStep(c), ~Reserve(c)
      PROVE  Kept
  BY <1>3 DEF VerifyStep, Present, AcquireLock, ReadBalance, ReadOutstanding,
     CheckPending, CheckUsedNonce, CheckSpent, VerifyCheck, storeVars, chainVars, escrowVars
<1>4. row \in [Nonces -> {"none", "reserved", "released", "settled"}]
  BY DEF PathInv, TypeOK
<1>5. ASSUME NEW c \in Calls, HandlerStep(c)
      PROVE  Kept
  BY <1>4, <1>5, CallTyped DEF HandlerStep, RunHandler, HandlerCharges, HandlerFails,
     HandlerTimesOut, ReleaseReservation, Release, gateOnlyUnchanged, storeVars, chainVars,
     escrowVars
<1>6. ASSUME NEW c \in Calls, SettleStep(c)
      PROVE  Kept
  <2>1. debited' = debited
    BY <1>6 DEF SettleStep, SettleEntry, SettleLookup, SettleFromCache, Broadcast,
       RecordSettleTx, WaitForReceipt, Rebuild, Spend, PutResult, RecordRevenue,
       Answer, Reject, settleOnlyUnchanged, chainVars, escrowVars
  <2>2. \/ row' = row \/ Release(Nonce(c)) \/ MarkNonceSpent(Nonce(c))
    BY <1>6 DEF SettleStep, SettleEntry, SettleLookup, SettleFromCache, Broadcast,
       RecordSettleTx, WaitForReceipt, Rebuild, Spend, PutResult, RecordRevenue,
       Answer, Reject, storeVars
  <2> QED BY <1>4, <2>1, <2>2, CallTyped DEF Release, MarkNonceSpent
<1>7. ASSUME Environment, ~(\E c \in Calls : ReserveThrows(c))
      PROVE  Kept
  <2>1. row' = row \/ \E c \in Calls : Release(Nonce(c))
    BY <1>7 DEF Environment, BuyerWithdraws, LockExpires, ResourcePaused,
       ReservationExpires, ResultExpires, VerifyThrows, ReleaseThrows, SettleThrows,
       ReplyLost, GateCrash, HandlerEnds, gateOnlyUnchanged, ClockTicks, FacilitatorCrash, offChainUnchanged, storeVars
  <2>2. debited' = debited
    BY <1>7 DEF Environment, BuyerWithdraws, LockExpires, ResourcePaused, Withdraw,
       ReservationExpires, ResultExpires, VerifyThrows, ReleaseThrows, SettleThrows,
       ReplyLost, GateCrash, HandlerEnds, gateOnlyUnchanged, ClockTicks, FacilitatorCrash, settleOnlyUnchanged, chainVars, escrowVars
  <2> QED BY <1>4, <2>1, <2>2, CallTyped DEF Release
<1>8. ASSUME UNCHANGED vars
      PROVE  Kept
  BY <1>8 DEF vars, storeVars, chainVars, escrowVars
<1>9. Kept => [PathPromise!PromiseNext]_(PathPromise!promiseVars)
  BY DEF PathPromise!promiseVars, Charges
<1> HIDE DEF Kept
<1> QED BY <1>1, <1>2, <1>3, <1>5, <1>6, <1>7, <1>8, <1>9 DEF Next

\* The paid call, under every fault of the model, implements the promise: a
\* nonce is charged at most once, as its buyer signed, and only after /verify
\* reserved it.
THEOREM PathKeepsPromise == Spec => KeepsPromise
<1>1. Init => PathPromise!PromiseInit
  <2>1. Init => row = [n \in Nonces |-> "none"] /\ debited = <<>>
    BY DEF Init
  <2> QED BY <2>1 DEF PathPromise!PromiseInit, Charges
<1>2. PathInv /\ [Next]_vars => [PathPromise!PromiseNext]_(PathPromise!promiseVars)
  BY PathRefines
<1> QED BY <1>1, <1>2, PathInvariant, PTL
     DEF Spec, KeepsPromise, PathPromise!PromiseSpec
=============================================================================
