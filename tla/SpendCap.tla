------------------------------ MODULE SpendCap ------------------------------
(***************************************************************************)
(* The rolling 24 h spend cap of one payer: spendCapPreReserveGate around  *)
(* the reserve of /verify, over the SpendCapStore, whose Redis adapter is  *)
(* a sorted set and whose in-memory default is a list of entries.          *)
(*                                                                         *)
(* Each store operation is one Lua script (or one synchronous function),   *)
(* so it is one step; the gate awaits it and the reserve, so the steps of  *)
(* different calls interleave.  A call computes its time once, before the  *)
(* first of them, and every operation of the call uses that time.          *)
(***************************************************************************)
EXTENDS Integers, FiniteSets, FiniteSetsExt

CONSTANTS Calls,            \* /verify requests of the payer
          AmountOf,         \* call -> the maxAmount it would reserve
          PerPayerCap,      \* the cap
          Window,           \* SPEND_CAP_WINDOW_SECONDS, in clock ticks
          MaxLatency,       \* bound on a call's time from clock to store
          Stores,           \* the adapters in question: "redis", "memory"
          MaxTime           \* bound on the clock

ASSUME SpendCapAssumption ==
  /\ IsFiniteSet(Calls)
  /\ AmountOf \in [Calls -> Nat]
  /\ PerPayerCap \in Nat
  /\ MaxLatency \in Nat
  /\ Window \in Nat /\ Window > MaxLatency
  /\ Stores \subseteq {"redis", "memory"}
  /\ MaxTime \in Nat

VARIABLES store,            \* the adapter of this deployment, chosen at start-up
          now,              \* the clock
          pc,               \* call -> position in the gate
          at,               \* call -> the time it computed
          entries,          \* the stored spends
          touched           \* when the stored key's TTL was last refreshed

capVars == <<store, now, pc, at, entries, touched>>

\* by stands for the uniqueness counter of the source.
Entry == [at : Nat, by : Calls, amount : Nat]

CapInit ==
  /\ store \in Stores
  /\ now = 0
  /\ pc = [c \in Calls |-> "new"]
  /\ at = [c \in Calls |-> 0]
  /\ entries = {}
  /\ touched = 0

Moves(c, from, to) == pc[c] = from /\ pc' = [pc EXCEPT ![c] = to]

-----------------------------------------------------------------------------
(***************************************************************************)
(* SpendCapStore.                                                          *)
(***************************************************************************)
\* What an operation at time t trims away: in memory whatever is not younger
\* than the window, in Redis only what is strictly older, the bound of
\* ZREMRANGEBYSCORE being exclusive.
Kept(t) ==
  IF store = "memory" THEN {e \in entries : e.at > t - Window}
                      ELSE {e \in entries : e.at >= t - Window}

Total(spends) == MapThenSumSet(LAMBDA e : e.amount, spends)

SpendScoredAtCutoff(c) ==
  IF AmountOf[c] = 0 THEN {}
  ELSE {[at |-> at[c] - Window, by |-> c, amount |-> AmountOf[c]]}

\* A zero amount is not stored.
Spend(c) ==
  IF AmountOf[c] = 0 THEN {}
  ELSE {[at |-> at[c], by |-> c, amount |-> AmountOf[c]]}

\* Faulty variants of a definition are named after it; they only serve to show
\* that the properties below can fail.
TryRecordSpendUnchecked(c) ==
  LET kept == Kept(at[c]) IN
  /\ touched' = now
  /\ IF Total(kept) <= PerPayerCap
     THEN Moves(c, "captured", "reserving") /\ entries' = kept \cup Spend(c)
     ELSE Moves(c, "captured", "denied") /\ entries' = kept

TryRecordSpendLenient(c) ==
  LET kept == Kept(at[c]) IN
  /\ touched' = now
  /\ IF Total(kept) + AmountOf[c] < PerPayerCap
     THEN Moves(c, "captured", "reserving") /\ entries' = kept \cup Spend(c)
     ELSE Moves(c, "captured", "denied") /\ entries' = kept

TryRecordSpend(c) ==
  LET kept == Kept(at[c]) IN
  /\ touched' = now
  /\ IF Total(kept) + AmountOf[c] <= PerPayerCap
     THEN Moves(c, "captured", "reserving") /\ entries' = kept \cup Spend(c)
     ELSE Moves(c, "captured", "denied") /\ entries' = kept

\* One entry with the call's time and amount, whichever call stored it.
RefundAt(c, t) ==
  LET kept    == Kept(t)
      matches == {e \in kept : e.at = t /\ e.amount = AmountOf[c]} IN
  /\ touched' = now
  /\ IF matches = {} THEN entries' = kept
     ELSE \E e \in matches : entries' = kept \ {e}

RefundSpendAtClock(c) == RefundAt(c, now)
RefundSpend(c)        == RefundAt(c, at[c])

\* EXPIRE: Redis drops a key nobody touched for a window.
KeyExpires ==
  /\ store = "redis"
  /\ entries # {} /\ now >= touched + Window
  /\ entries' = {}
  /\ UNCHANGED <<store, now, pc, at, touched>>

-----------------------------------------------------------------------------
(***************************************************************************)
(* The gate of one /verify.                                                *)
(***************************************************************************)
Capture(c) ==
  /\ Moves(c, "new", "captured")
  /\ at' = [at EXCEPT ![c] = now]
  /\ UNCHANGED <<store, now, entries, touched>>

CheckAndHold(c) == TryRecordSpend(c) /\ UNCHANGED <<store, now, at>>

\* verifyAndReserve answers, or throws out of the gate, hold and all.
ReserveAnswers(c) ==
  /\ \/ Moves(c, "reserving", "reserved")
     \/ Moves(c, "reserving", "refunding")
     \/ Moves(c, "reserving", "threw")
  /\ UNCHANGED <<store, now, at, entries, touched>>

RefundHold(c) ==
  /\ Moves(c, "refunding", "rejected")
  /\ RefundSpend(c)
  /\ UNCHANGED <<store, now, at>>

\* Time passes, but never past the latency bound of a call on its way.
Passes ==
  /\ now < MaxTime
  /\ \A c \in Calls : pc[c] = "captured" => now < at[c] + MaxLatency
  /\ now' = now + 1
  /\ UNCHANGED <<store, pc, at, entries, touched>>

CapNext ==
  \/ \E c \in Calls :
       Capture(c) \/ CheckAndHold(c) \/ ReserveAnswers(c) \/ RefundHold(c)
  \/ KeyExpires
  \/ Passes
CapSpec == CapInit /\ [][CapNext]_capVars

-----------------------------------------------------------------------------
\* Positions and entries keep their types; no entry is scored before the clock
\* started or after now, although the operations arrive out of order.
CapTypeOK ==
  /\ store \in Stores
  /\ now \in Nat
  /\ pc \in [Calls -> {"new", "captured", "denied", "reserving", "refunding",
                       "reserved", "rejected", "threw"}]
  /\ at \in [Calls -> Nat]
  /\ entries \subseteq Entry
  /\ \A e \in entries : e.at <= now
  /\ touched \in 0..now

\* Calls that were admitted and not refunded.
Holders == {c \in Calls : pc[c] \in {"reserving", "refunding", "reserved", "threw"}}
Held(cs) == MapThenSumSet(LAMBDA c : AmountOf[c], cs)

\* However calls overlap, what was admitted and not refunded within one window
\* never exceeds the cap.  Calls that reach the store out of the order of their
\* times cost the window at most the latency bound.
CapHoldsPerWindow ==
  \A t \in 0..now :
    Held({c \in Holders : at[c] <= t /\ at[c] > t - (Window - MaxLatency)})
      <= PerPayerCap

\* A rejected call leaves nothing behind: for every time and amount the store
\* has at most as many entries as there are admitted, unrefunded calls.
RefundsAreComplete ==
  \A e \in entries :
    Cardinality({f \in entries : f.at = e.at /\ f.amount = e.amount})
      <= Cardinality({c \in Holders : at[c] = e.at /\ AmountOf[c] = e.amount})

\* A payer is denied only for spends of the window; one that is exactly a window
\* old counts in the Redis store and not in memory.
Recent(d, c) == IF store = "memory" THEN at[d] > at[c] - Window
                                    ELSE at[d] >= at[c] - Window
DenialsAreJustified ==
  [][\A c \in Calls :
       pc[c] = "captured" /\ pc'[c] = "denied"
         => Held({d \in Holders : Recent(d, c)}) + AmountOf[c]
              > PerPayerCap]_capVars
=============================================================================
