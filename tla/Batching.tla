------------------------------ MODULE Batching ------------------------------
(***************************************************************************)
(* Sub-cent debits of one resource: routeDebit accrues them into the open  *)
(* batch of the BatchSettler, whose flush settles the batch with a single  *)
(* debit under a nonce computed from the batch sequence.                   *)
(*                                                                         *)
(* A call is one /settle request that passed the checks of the handler and *)
(* is below the threshold of routeDebit.  A pending batch is the set of    *)
(* calls folded into it plus the remainder carried into it, of which the   *)
(* source keeps the sums.  The settle() of a flush is cut to what a batch  *)
(* can tell apart: result cache, broadcast, mined - by a debit or, without *)
(* settle() noticing, by its revert - and persisted.                       *)
(***************************************************************************)
EXTENDS Naturals, FiniteSets, FiniteSetsExt

CONSTANTS Debits,
          DebitOf,          \* call -> its metered debit
          CreatorBps,       \* the resource's split
          MaxBatchCount, MaxBatchSeconds, MinEconomical,   \* the triggers
          BatchCap,         \* maxAmount of a batch authorization
          MaxSeq,           \* bound on the batch sequence
          MaxClock,         \* bound on the clock
          Faults            \* subset of {"crash", "throw", "revert"}

BPS_DENOMINATOR == 10000

ASSUME BatchAssumption ==
  /\ IsFiniteSet(Debits)
  /\ DebitOf \in [Debits -> Nat]
  /\ CreatorBps \in 0..BPS_DENOMINATOR
  /\ {MaxBatchCount, MaxBatchSeconds, MinEconomical, BatchCap, MaxSeq, MaxClock}
       \subseteq Nat
  /\ Faults \subseteq {"crash", "throw", "revert"}

Seqs == 0..MaxSeq
None == MaxClock + 1        \* no window open

VARIABLES clock,
          batchSeq,         \* the open batch, in memory
          windowStart,      \* time of its first accrual, or None, in memory
          ledger,           \* seq -> pending batch
          step,             \* call -> position
          arrived,          \* call -> the time its request arrived
          seq,              \* call -> the batch it accrued into, then flushes
          total,            \* call -> accruedTotal returned to it
          read,             \* call -> the pending batch its flush read
          tx,               \* call -> its debit transaction
          charged,          \* seq -> what the chain debited for it
          results,          \* seqs with a persisted settle result
          answer            \* call -> what its request was told

memoryVars == <<batchSeq, windowStart>>
debitVars  == <<arrived, seq, total, read, tx>>
batchVars  == <<clock, memoryVars, ledger, step, debitVars, charged, results, answer>>

Batch   == [calls : SUBSET Debits, carriedIn : Nat]
NoBatch == [calls |-> {}, carriedIn |-> 0]
Charge  == [calls : SUBSET Debits, amount : Nat]
NoCharge == [calls |-> {}, amount |-> 0]

BatchInit ==
  /\ clock = 0
  /\ batchSeq = 0 /\ windowStart = None
  /\ ledger = [s \in Seqs |-> NoBatch]
  /\ step = [c \in Debits |-> "new"]
  /\ arrived = [c \in Debits |-> 0]
  /\ seq = [c \in Debits |-> 0]
  /\ total = [c \in Debits |-> 0]
  /\ read = [c \in Debits |-> NoBatch]
  /\ tx = [c \in Debits |-> "none"]
  /\ charged = [s \in Seqs |-> NoCharge]
  /\ results = {}
  /\ answer = [c \in Debits |-> "none"]

Sum(cs) == MapThenSumSet(LAMBDA c : DebitOf[c], cs)
Amount(batch) == Sum(batch.calls) + batch.carriedIn
DebitAmount(batch) == IF Amount(batch) < BatchCap THEN Amount(batch) ELSE BatchCap
IsCharged(s) == charged[s] # NoCharge
\* A transaction for the batch was mined.
IsMined(s) == IsCharged(s) \/ \E c \in Debits : seq[c] = s /\ tx[c] = "reverted"

Advance(c, from, to) == step[c] = from /\ step' = [step EXCEPT ![c] = to]
Answers(c, what) == answer' = [answer EXCEPT ![c] = what]
Idle == {c \in Debits : step[c] \in {"new", "done"}}

-----------------------------------------------------------------------------
\* ledger.accrue into the batch that is open when the request arrives.
Accrue(c) ==
  /\ Advance(c, "new", "accrued")
  /\ windowStart' = IF windowStart = None THEN clock ELSE windowStart
  /\ arrived' = [arrived EXCEPT ![c] = clock]
  /\ seq' = [seq EXCEPT ![c] = batchSeq]
  /\ ledger' = [ledger EXCEPT ![batchSeq].calls = @ \cup {c}]
  /\ total' = [total EXCEPT ![c] = Sum(ledger[batchSeq].calls \cup {c})]
  /\ UNCHANGED <<clock, batchSeq, read, tx, charged, results, answer>>

\* now is the time the request arrived; a window another flush has closed in
\* between is null, which counts as the beginning of time.
Triggered(c) ==
  \/ Cardinality(ledger[seq[c]].calls) >= MaxBatchCount
  \/ windowStart = None
  \/ arrived[c] >= windowStart + MaxBatchSeconds
  \/ total[c] >= MinEconomical

\* getPending, the triggers, and flushBatch of the batch that is open by then; the
\* time and the total of the accrual are not used again.
CheckTrigger(c) ==
  /\ IF Triggered(c)
     THEN /\ Advance(c, "accrued", "flush")
          /\ seq' = [seq EXCEPT ![c] = batchSeq]
          /\ UNCHANGED answer
     ELSE Advance(c, "accrued", "done") /\ Answers(c, "accrued") /\ UNCHANGED seq
  /\ arrived' = [arrived EXCEPT ![c] = 0] /\ total' = [total EXCEPT ![c] = 0]
  /\ UNCHANGED <<clock, memoryVars, ledger, read, tx, charged, results>>

ReadPending(c) ==
  /\ Advance(c, "flush", "cache")
  /\ read' = [read EXCEPT ![c] = ledger[seq[c]]]
  /\ UNCHANGED <<clock, memoryVars, ledger, arrived, seq, total, tx, charged, results, answer>>

\* A settled batch answers its receipt, an empty one nothing.
CheckCache(c) ==
  /\ \/ /\ seq[c] \in results
        /\ Advance(c, "cache", "done") /\ Answers(c, "receipt")
     \/ /\ seq[c] \notin results /\ Sum(read[c].calls) = 0
        /\ Advance(c, "cache", "done") /\ Answers(c, "accrued")
     \/ /\ seq[c] \notin results /\ Sum(read[c].calls) # 0
        /\ Advance(c, "cache", "settle") /\ UNCHANGED answer
  /\ UNCHANGED <<clock, memoryVars, ledger, debitVars, charged, results>>

\* settle(): its own cache check and the broadcast of the debit.  Gas estimation
\* fails on a consumed nonce; then the receipt is rebuilt from the event, or the
\* error does not name the cause and settle throws.
Submit(c) ==
  /\ IF seq[c] \in results \/ IsCharged(seq[c])
     THEN Advance(c, "settle", "persist") /\ UNCHANGED tx
     ELSE Advance(c, "settle", "wait") /\ tx' = [tx EXCEPT ![c] = "pending"]
  /\ UNCHANGED <<clock, memoryVars, ledger, arrived, seq, total, read, charged, results, answer>>

\* Any receipt will do; its status is not read.
WaitForReceipt(c) ==
  /\ tx[c] \in {"debited", "reverted"}
  /\ Advance(c, "wait", "persist")
  /\ UNCHANGED <<clock, memoryVars, ledger, debitVars, charged, results, answer>>

Persist(c) ==
  /\ Advance(c, "persist", "markFlushed")
  /\ results' = results \cup {seq[c]}
  /\ UNCHANGED <<clock, memoryVars, ledger, debitVars, charged, answer>>

\* The fault the comments of the source remember as CR-03: both legs floored,
\* the dust carried.  (Faulty variants only serve to show that the properties
\* below can fail.)
CarriedRemainderOfDust(batch) ==
  Amount(batch) - (Amount(batch) * CreatorBps) \div BPS_DENOMINATOR
    - (Amount(batch) * (BPS_DENOMINATOR - CreatorBps)) \div BPS_DENOMINATOR

CarriedRemainder(batch) == 0

\* markFlushed deletes the batch as it is now, and seeds the next one.
MarkFlushed(c) ==
  /\ Advance(c, "markFlushed", "advance")
  /\ seq[c] + 1 \in Seqs
  /\ ledger' = [ledger EXCEPT ![seq[c]] = NoBatch,
                  ![seq[c] + 1].carriedIn = @ + CarriedRemainder(read[c])]
  /\ UNCHANGED <<clock, memoryVars, debitVars, charged, results, answer>>

OpenNextAlways(c) ==
  /\ Advance(c, "advance", "done") /\ Answers(c, "receipt")
  /\ batchSeq' = batchSeq + 1 /\ windowStart' = None
  /\ UNCHANGED <<clock, ledger, debitVars, charged, results>>

\* The next batch is opened by the flush of the one that is open.
OpenNext(c) ==
  /\ Advance(c, "advance", "done") /\ Answers(c, "receipt")
  /\ IF seq[c] = batchSeq
     THEN batchSeq' = seq[c] + 1 /\ windowStart' = None
     ELSE UNCHANGED memoryVars
  /\ UNCHANGED <<clock, ledger, debitVars, charged, results>>

\* An awaited call of the request throws, markFlushed's perhaps once it has been
\* applied: a 500.
Throws(c) ==
  /\ "throw" \in Faults
  /\ \E from \in {"accrued", "flush", "cache", "settle", "wait", "persist",
                  "markFlushed", "advance"} : Advance(c, from, "done")
  /\ Answers(c, "error")
  /\ UNCHANGED <<clock, memoryVars, ledger, debitVars, charged, results>>

-----------------------------------------------------------------------------
\* The escrow debits a nonce once.  A transaction for one that is used is mined as
\* a revert, and so may be any other: by then the balance may be short, the
\* resource paused or the authorization expired.
Mine(c) ==
  /\ tx[c] = "pending"
  /\ \/ /\ ~IsCharged(seq[c])
        /\ tx' = [tx EXCEPT ![c] = "debited"]
        /\ charged' = [charged EXCEPT ![seq[c]] =
                         [calls |-> read[c].calls, amount |-> DebitAmount(read[c])]]
     \/ /\ IsCharged(seq[c]) \/ "revert" \in Faults
        /\ tx' = [tx EXCEPT ![c] = "reverted"]
        /\ UNCHANGED charged
  /\ UNCHANGED <<clock, memoryVars, ledger, step, arrived, seq, total, read, results, answer>>

\* The process restarts: the settler starts over, ledger, results and chain stay.
Restart ==
  /\ "crash" \in Faults
  /\ Idle # Debits
  /\ batchSeq' = 0 /\ windowStart' = None
  /\ step' = [c \in Debits |-> IF c \in Idle THEN step[c] ELSE "done"]
  /\ answer' = [c \in Debits |-> IF c \in Idle THEN answer[c] ELSE "error"]
  /\ UNCHANGED <<clock, ledger, debitVars, charged, results>>

ClockTicks ==
  /\ clock < MaxClock
  /\ clock' = clock + 1
  /\ UNCHANGED <<memoryVars, ledger, step, debitVars, charged, results, answer>>

BatchNext ==
  \/ \E c \in Debits :
       \/ Accrue(c) \/ CheckTrigger(c) \/ ReadPending(c) \/ CheckCache(c)
       \/ Submit(c) \/ WaitForReceipt(c) \/ Persist(c) \/ MarkFlushed(c)
       \/ OpenNext(c) \/ Throws(c) \/ Mine(c)
  \/ Restart
  \/ ClockTicks
BatchSpec == BatchInit /\ [][BatchNext]_batchVars

-----------------------------------------------------------------------------
\* Memory, ledger and chain keep their types; the open batch is in bounds.
BatchTypeOK ==
  /\ clock \in Nat
  /\ batchSeq \in Seqs
  /\ windowStart \in 0..clock \cup {None}
  /\ ledger \in [Seqs -> Batch]
  /\ step \in [Debits -> {"new", "accrued", "flush", "cache", "settle", "wait",
                       "persist", "markFlushed", "advance", "done"}]
  /\ arrived \in [Debits -> 0..clock]
  /\ seq \in [Debits -> Seqs]
  /\ total \in [Debits -> Nat]
  /\ read \in [Debits -> Batch]
  /\ tx \in [Debits -> {"none", "pending", "debited", "reverted"}]
  /\ charged \in [Seqs -> Charge]
  /\ results \subseteq Seqs
  /\ answer \in [Debits -> {"none", "receipt", "accrued", "error"}]

\* The buyer never pays more than the calls a batch debit covers, and no call
\* is covered twice, whatever flushes overlap, fail or are repeated.
NeverOvercharged ==
  /\ \A s \in Seqs : charged[s].amount <= Sum(charged[s].calls)
  /\ \A s, t \in Seqs :
       s # t => charged[s].calls \cap charged[t].calls = {}

\* The settler leaves a batch behind, and a result is stored for it, only once a
\* transaction for it was mined: it was debited, or its debit reverted.
SettledMeansMined ==
  \A s \in Seqs : s < batchSeq \/ s \in results => IsMined(s)

\* batch-settler.ts:1-3: one settle() per batch preserves "the Phase 2 exactly-once
\* guarantee"; a debit that reverted was none, and is not tried again.
SettledMeansDebited ==
  \A s \in Seqs : s < batchSeq \/ s \in results => IsCharged(s)

\* A call that was accepted is paid for, or waits in a batch still to be paid.
NoDebitLost ==
  \A c \in Debits : answer[c] \in {"accrued", "receipt"} =>
    \E s \in Seqs :
      \/ c \in charged[s].calls
      \/ c \in ledger[s].calls /\ ~IsCharged(s)

\* The gate answers 502 and records a strike when /settle brings no receipt; the
\* buyer of such a call is not debited.
FailedMeansUncharged ==
  \A c \in Debits : answer[c] \in {"accrued", "error"} =>
    \A s \in Seqs : c \notin charged[s].calls
=============================================================================
