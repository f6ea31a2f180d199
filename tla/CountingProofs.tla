--------------------------- MODULE CountingProofs ---------------------------
(***************************************************************************)
(* What the facilitator counts, proved for every value of the constants:   *)
(* the spend cap, the batches, the refunds and the reservations of a buyer.*)
(***************************************************************************)
EXTENDS SpendCap, Batching, Refunds, Reservations, FiniteSums

-----------------------------------------------------------------------------
(***************************************************************************)
(* The spend cap, for any number of calls, any amounts, caps, windows and  *)
(* latencies, in both adapters of the store.                               *)
(*                                                                         *)
(* The store does not say whose an entry is: a refund takes any entry of   *)
(* its time and amount.  What is inductive is that the entries can be      *)
(* shared out among the calls that hold, each to one call of its time and  *)
(* amount, and no call of the current window goes without.                 *)
(***************************************************************************)

\* How the entries es are shared out among the holders: own[e] is e's call.
SharedOut(es, own) ==
  /\ own \in [es -> Holders]
  /\ \A e \in es : at[own[e]] = e.at /\ AmountOf[own[e]] = e.amount
  /\ \A e, f \in es : own[e] = own[f] => e = f

\* A holder of the current window with something to hold has an entry.
Covered(es, own) ==
  \A c \in Holders : AmountOf[c] # 0 /\ at[c] > now - Window => \E e \in es : own[e] = c

Shared == \E own \in [entries -> Holders] : SharedOut(entries, own) /\ Covered(entries, own)

\* A call on its way to the store is no later than the latency bound, and no
\* call has computed a time to come.
OnItsWay ==
  \A c \in Calls : /\ at[c] <= now
                   /\ pc[c] = "captured" => now <= at[c] + MaxLatency

\* Only calls that reached the store have stored anything.
StoredByReached ==
  \A e \in entries : pc[e.by] \notin {"new", "captured", "denied"}

\* Whatever is stored was stored by an operation at its time or later.
TouchedSince == \A e \in entries : e.at <= touched

CapInv ==
  /\ CapTypeOK /\ OnItsWay /\ StoredByReached /\ TouchedSince
  /\ Shared
  /\ CapHoldsPerWindow

-----------------------------------------------------------------------------
(***************************************************************************)
(* The sums the model takes, over the functions of FiniteSums.             *)
(***************************************************************************)
LEMMA HeldIsSum ==
  ASSUME NEW cs
  PROVE  Held(cs) = SumOver(AmountOf, cs)
BY DEF Held, SumOver

LEMMA HoldersFinite == IsFiniteSet(Holders) /\ Holders \in SUBSET Calls
BY SpendCapAssumption, FS_Subset DEF Holders

LEMMA HeldTyped ==
  ASSUME NEW cs \in SUBSET Calls, NEW ds \in SUBSET cs
  PROVE  Held(cs) \in Nat /\ Held(ds) \in Nat /\ Held(ds) <= Held(cs)
<1>1. IsFiniteSet(cs) /\ \A c \in cs : AmountOf[c] \in Nat
  BY SpendCapAssumption, FS_Subset
<1>2. SumOver(AmountOf, cs) \in Nat
  BY <1>1, SumMonotone
<1> QED BY <1>1, <1>2, SumMonotone, HeldIsSum

Amounts(es) == [e \in es |-> e.amount]

LEMMA TotalIsSum ==
  ASSUME NEW es, IsFiniteSet(es)
  PROVE  Total(es) = SumOver(Amounts(es), es)
<1> DEFINE F == Amounts(es)
           Sums(h) == h = [T \in SUBSET es |-> IF T = {} THEN 0
                             ELSE Pick(T).amount + h[T \ {Pick(T)}]]
<1>1. Total(es) = (CHOOSE h : Sums(h))[es]
  BY DEF Total, MapThenSumSet, MapThenFoldSet, Pick
<1>2. \A T \in SUBSET es : T # {} => F[Pick(T)] = Pick(T).amount
  BY PickIn DEF Amounts
<1>3. ASSUME NEW h
      PROVE  Sums(h) <=> SumsOf(F, es, h)
  <2> DEFINE with(T) == IF T = {} THEN 0 ELSE Pick(T).amount + h[T \ {Pick(T)}]
             from(T) == IF T = {} THEN 0 ELSE F[Pick(T)] + h[T \ {Pick(T)}]
  <2>1. \A T \in SUBSET es : with(T) = from(T)
    BY <1>2
  <2>2. Sums(h) <=> h = [T \in SUBSET es |-> with(T)]
    OBVIOUS
  <2>3. SumsOf(F, es, h) <=> h = [T \in SUBSET es |-> from(T)]
    BY DEF SumsOf
  <2> HIDE DEF with, from, Sums, F
  <2> QED BY <2>1, <2>2, <2>3
<1> HIDE DEF Sums, F
<1>4. PICK g : SumsOf(F, es, g) /\ \A h : SumsOf(F, es, h) => h = g
  BY SumsExist
<1>5. (CHOOSE h : Sums(h)) = g
  BY <1>3, <1>4
<1>6. SumOver(F, es) = g[es]
  BY <1>4, SumOverIs
<1> QED BY <1>1, <1>5, <1>6 DEF F

\* What is shared out among calls is finite.
LEMMA SharedFinite ==
  ASSUME NEW es, NEW own, SharedOut(es, own)
  PROVE  IsFiniteSet(es)
<1>1. own \in Injection(es, Holders)
  BY DEF SharedOut, Injection, IsInjective
<1> QED BY <1>1, HoldersFinite, FS_Injection

\* The entries of some holders add up to at most what those hold.
LEMMA TotalBelowHeld ==
  ASSUME NEW es, NEW own, SharedOut(es, own), NEW cs \in SUBSET Calls,
         \A e \in es : own[e] \in cs
  PROVE  Total(es) <= Held(cs) /\ Total(es) \in Nat
<1>1. IsFiniteSet(es) /\ IsFiniteSet(cs)
  BY SharedFinite, SpendCapAssumption, FS_Subset
<1> DEFINE F == Amounts(es)
<1>2. \A e \in es : own[e] \in cs /\ AmountOf[own[e]] = F[e]
  BY DEF SharedOut, Amounts
<1>3. \A c \in cs : AmountOf[c] \in Nat
  BY SpendCapAssumption
<1>4. \A e, f \in es : own[e] = own[f] => e = f
  BY DEF SharedOut
<1>5. \A e \in es : F[e] \in Nat
  BY <1>2, <1>3
<1> HIDE DEF F
<1>6. SumOver(F, es) <= SumOver(AmountOf, cs)
  BY <1>1, <1>2, <1>3, <1>4, SumInjected
<1>7. SumOver(F, es) \in Nat
  BY <1>1, <1>5, SumMonotone
<1> QED BY <1>1, <1>6, <1>7, TotalIsSum, HeldIsSum DEF F

\* Holders that all have an entry hold at most the total.
LEMMA HeldBelowTotal ==
  ASSUME NEW es, NEW own, SharedOut(es, own), NEW cs \in SUBSET Holders,
         \A c \in cs : AmountOf[c] # 0 => \E e \in es : own[e] = c
  PROVE  Held(cs) <= Total(es)
<1> DEFINE pos == {c \in cs : AmountOf[c] # 0}
           m   == [c \in pos |-> CHOOSE e \in es : own[e] = c]
           G   == Amounts(es)
<1>1. /\ IsFiniteSet(es) /\ IsFiniteSet(cs) /\ IsFiniteSet(pos)
      /\ pos \in SUBSET cs
  BY SharedFinite, HoldersFinite, FS_Subset
<1>2. \A c \in cs : AmountOf[c] \in Nat
  BY HoldersFinite, SpendCapAssumption
<1>3. \A c \in pos : m[c] \in es /\ own[m[c]] = c
  OBVIOUS
<1>4. \A e \in es : G[e] = AmountOf[own[e]] /\ own[e] \in Calls
  BY HoldersFinite DEF SharedOut, Amounts
<1>5. \A e \in es : G[e] \in Nat
  BY <1>4, SpendCapAssumption
<1>6. SumOver(AmountOf, cs) = SumOver(AmountOf, pos)
  BY <1>1, <1>2, SumSupport
<1> HIDE DEF m, G
<1>7. /\ \A c \in pos : m[c] \in es /\ G[m[c]] = AmountOf[c]
      /\ \A c, d \in pos : m[c] = m[d] => c = d
  BY <1>3, <1>4
<1>8. SumOver(AmountOf, pos) <= SumOver(G, es)
  <2> HIDE DEF pos
  <2> QED BY <1>1, <1>5, <1>7, SumInjected
<1> QED BY <1>1, <1>6, <1>8, TotalIsSum, HeldIsSum DEF G

-----------------------------------------------------------------------------
(***************************************************************************)
(* One step: first the parts that no action finds hard.                    *)
(***************************************************************************)
LEMMA SharedNext ==
  ASSUME NEW es, es = entries', NEW own, own \in [es -> Holders'],
         \A e \in es : at'[own[e]] = e.at /\ AmountOf[own[e]] = e.amount,
         \A e, f \in es : own[e] = own[f] => e = f,
         \A c \in Holders' : AmountOf[c] # 0 /\ at'[c] > now' - Window
           => \E e \in es : own[e] = c
  PROVE  Shared'
BY DEF Shared, SharedOut, Covered

\* No call begins to hold: no window gains anything.
LEMMA WindowShrinks ==
  ASSUME CapTypeOK, OnItsWay, CapHoldsPerWindow,
         now' \in {now, now + 1}, Holders' \in SUBSET Holders,
         \A c \in Holders' : at'[c] = at[c]
  PROVE  CapHoldsPerWindow'
<1> SUFFICES ASSUME NEW t \in 0..now'
             PROVE  Held({c \in Holders' : /\ at'[c] <= t
                                           /\ at'[c] > t - (Window - MaxLatency)})
                      <= PerPayerCap
  BY DEF CapHoldsPerWindow
<1> DEFINE new == {c \in Holders' : at'[c] <= t /\ at'[c] > t - (Window - MaxLatency)}
           s   == IF t <= now THEN t ELSE now
           old == {c \in Holders : at[c] <= s /\ at[c] > s - (Window - MaxLatency)}
<1>1. s \in 0..now /\ s <= t
  BY DEF CapTypeOK
<1>2. new \in SUBSET old
  <2> SUFFICES ASSUME NEW c \in new PROVE c \in old
    OBVIOUS
  <2>1. c \in Calls /\ c \in Holders /\ at[c] \in Nat /\ at[c] <= now /\ now \in Nat
    BY DEF CapTypeOK, OnItsWay, Holders
  <2>2. at[c] <= t /\ at[c] > t - (Window - MaxLatency)
    OBVIOUS
  <2> QED BY <2>1, <2>2, <1>1, SpendCapAssumption
<1>3. old \in SUBSET Calls
  BY HoldersFinite
<1> HIDE DEF new, s
<1>4. Held(old) <= PerPayerCap
  BY <1>1 DEF CapHoldsPerWindow
<1> HIDE DEF old
<1>5. Held(new) \in Nat /\ Held(old) \in Nat /\ Held(new) <= Held(old)
  BY <1>2, <1>3, HeldTyped
<1> QED BY <1>4, <1>5, SpendCapAssumption DEF new

\* What an operation keeps, whichever the adapter.
LEMMA KeptEntries ==
  ASSUME CapTypeOK, NEW t \in Nat
  PROVE  /\ Kept(t) \in SUBSET entries
         /\ \A e \in entries : e.at > t - Window => e \in Kept(t)
BY SpendCapAssumption DEF CapTypeOK, Kept, Entry

LEMMA CapStart == CapInit => CapInv
<1> SUFFICES ASSUME CapInit PROVE CapInv
  OBVIOUS
<1>1. CapTypeOK /\ OnItsWay /\ StoredByReached /\ TouchedSince
  BY SpendCapAssumption
  DEF CapInit, CapTypeOK, OnItsWay, StoredByReached, TouchedSince, Entry
<1>2. Holders = {}
  BY DEF CapInit, Holders
<1>3. Shared
  <2>1. [e \in {} |-> 0] \in [{} -> {}]
    OBVIOUS
  <2> QED BY <1>2, <2>1 DEF Shared, SharedOut, Covered, CapInit
<1>4. CapHoldsPerWindow
  <2>1. \A t \in 0..now :
          {c \in Holders : at[c] <= t /\ at[c] > t - (Window - MaxLatency)} = {}
    BY <1>2
  <2>2. Held({}) = 0
    BY SumEmpty, HeldIsSum
  <2> QED BY <2>1, <2>2, SpendCapAssumption DEF CapHoldsPerWindow
<1> QED BY <1>1, <1>3, <1>4 DEF CapInv

LEMMA CaptureKeeps ==
  ASSUME CapInv, NEW c \in Calls, Capture(c)
  PROVE  CapInv'
<1> USE DEF CapInv
<1>1. /\ pc[c] = "new" /\ pc' = [pc EXCEPT ![c] = "captured"]
      /\ at' = [at EXCEPT ![c] = now]
      /\ store' = store /\ now' = now /\ entries' = entries /\ touched' = touched
  BY DEF Capture, Moves
<1>2. CapTypeOK' /\ OnItsWay' /\ StoredByReached' /\ TouchedSince'
  BY <1>1, SpendCapAssumption
  DEF CapTypeOK, OnItsWay, StoredByReached, TouchedSince, Entry
<1>3. Holders' = Holders /\ \A d \in Holders : at'[d] = at[d]
  BY <1>1 DEF Holders, CapTypeOK
<1>4. Shared'
  BY <1>1, <1>3 DEF Shared, SharedOut, Covered
<1>5. CapHoldsPerWindow'
  BY <1>1, <1>3, WindowShrinks
<1> QED BY <1>2, <1>4, <1>5

LEMMA AnswerKeeps ==
  ASSUME CapInv, NEW c \in Calls, ReserveAnswers(c)
  PROVE  CapInv'
<1> USE DEF CapInv
<1>1. /\ pc[c] = "reserving"
      /\ \E to \in {"reserved", "refunding", "threw"} : pc' = [pc EXCEPT ![c] = to]
      /\ store' = store /\ now' = now /\ at' = at
      /\ entries' = entries /\ touched' = touched
  BY DEF ReserveAnswers, Moves
<1>2. CapTypeOK' /\ OnItsWay' /\ StoredByReached' /\ TouchedSince'
  BY <1>1 DEF CapTypeOK, OnItsWay, StoredByReached, TouchedSince, Entry
<1>3. Holders' = Holders
  BY <1>1 DEF Holders, CapTypeOK
<1>4. Shared'
  BY <1>1, <1>3 DEF Shared, SharedOut, Covered
<1>5. CapHoldsPerWindow'
  BY <1>1, <1>3, WindowShrinks
<1> QED BY <1>2, <1>4, <1>5

LEMMA PassesKeeps ==
  ASSUME CapInv, Passes
  PROVE  CapInv'
<1> USE DEF CapInv
<1>1. /\ now' = now + 1 /\ now \in Nat
      /\ \A c \in Calls : pc[c] = "captured" => now < at[c] + MaxLatency
      /\ store' = store /\ pc' = pc /\ at' = at
      /\ entries' = entries /\ touched' = touched
  BY DEF Passes, CapTypeOK
<1>2. CapTypeOK' /\ OnItsWay' /\ StoredByReached' /\ TouchedSince'
  BY <1>1, SpendCapAssumption
  DEF CapTypeOK, OnItsWay, StoredByReached, TouchedSince, Entry
<1>3. Holders' = Holders
  BY <1>1 DEF Holders
<1>4. Shared'
  BY <1>1, <1>3, SpendCapAssumption, HoldersFinite
  DEF Shared, SharedOut, Covered, CapTypeOK
<1>5. CapHoldsPerWindow'
  BY <1>1, <1>3, WindowShrinks
<1> QED BY <1>2, <1>4, <1>5

\* A key that nobody touched for a window holds no entry of the window.
LEMMA ExpiryKeeps ==
  ASSUME CapInv, KeyExpires
  PROVE  CapInv'
<1> USE DEF CapInv
<1>1. /\ entries' = {} /\ now >= touched + Window
      /\ store' = store /\ now' = now /\ pc' = pc /\ at' = at /\ touched' = touched
  BY DEF KeyExpires
<1>2. CapTypeOK' /\ OnItsWay' /\ StoredByReached' /\ TouchedSince'
  BY <1>1 DEF CapTypeOK, OnItsWay, StoredByReached, TouchedSince, Entry
<1>3. Holders' = Holders
  BY <1>1 DEF Holders
<1>4. \A c \in Holders : AmountOf[c] # 0 => at[c] <= now - Window
  <2> SUFFICES ASSUME NEW c \in Holders, AmountOf[c] # 0, ~(at[c] <= now - Window)
               PROVE  FALSE
    OBVIOUS
  <2>1. at[c] \in Nat /\ now \in Nat /\ touched \in Nat /\ Window \in Nat
    BY HoldersFinite, SpendCapAssumption DEF CapTypeOK
  <2>2. PICK own \in [entries -> Holders] :
              SharedOut(entries, own) /\ Covered(entries, own)
    BY DEF Shared
  <2>3. PICK e \in entries : own[e] = c
    BY <2>1, <2>2 DEF Covered
  <2>4. at[c] = e.at
    BY <2>2, <2>3 DEF SharedOut
  <2>5. at[c] <= touched
    BY <2>4 DEF TouchedSince
  <2> QED BY <1>1, <2>1, <2>5
<1>5. Shared'
  <2>1. [e \in {} |-> 0] \in [{} -> Holders']
    OBVIOUS
  <2>2. \A c \in Holders' : ~ (AmountOf[c] # 0 /\ at'[c] > now' - Window)
    BY <1>1, <1>3, <1>4, HoldersFinite, SpendCapAssumption DEF CapTypeOK
  <2> QED BY <1>1, <2>1, <2>2, SharedNext
<1>6. CapHoldsPerWindow'
  BY <1>1, <1>3, WindowShrinks
<1> QED BY <1>2, <1>5, <1>6

-----------------------------------------------------------------------------
(***************************************************************************)
(* The check: what the store keeps is shared out among the holders it      *)
(* belongs to, and everyone who counts in a window with the new call is    *)
(* among them.                                                             *)
(***************************************************************************)
LEMMA KeptShared ==
  ASSUME CapInv, NEW t \in Nat, t <= now
  PROVE  \E own \in [Kept(t) -> Holders] :
           /\ SharedOut(Kept(t), own)
           /\ \A d \in Holders : AmountOf[d] # 0 /\ at[d] > now - Window
                => \E e \in Kept(t) : own[e] = d
           /\ \A e \in entries : e.at = t => e \in Kept(t)
<1> DEFINE kept == Kept(t)
<1>1. /\ kept \in SUBSET entries
      /\ \A e \in entries : e.at > t - Window => e \in kept
  BY KeptEntries DEF CapInv
<1>2. PICK all \in [entries -> Holders] :
            SharedOut(entries, all) /\ Covered(entries, all)
  BY DEF CapInv, Shared
<1> HIDE DEF kept
<1> DEFINE own == [e \in kept |-> all[e]]
<1>3. own \in [kept -> Holders] /\ SharedOut(kept, own)
  BY <1>1, <1>2 DEF SharedOut
<1>4. \A e \in entries : e.at > now - Window \/ e.at = t => e \in kept
  BY <1>1, SpendCapAssumption DEF CapInv, CapTypeOK, Entry
<1>5. \A d \in Holders : AmountOf[d] # 0 /\ at[d] > now - Window
        => \E e \in kept : own[e] = d
  BY <1>2, <1>4 DEF SharedOut, Covered
<1> QED BY <1>3, <1>4, <1>5 DEF kept

LEMMA DenyKeeps ==
  ASSUME CapInv, NEW c \in Calls, pc[c] = "captured",
         pc' = [pc EXCEPT ![c] = "denied"], entries' = Kept(at[c]),
         touched' = now, now' = now, at' = at, store' = store
  PROVE  CapInv'
<1> USE DEF CapInv
<1>1. Kept(at[c]) \in SUBSET entries /\ at[c] \in Nat /\ at[c] <= now
  BY KeptEntries DEF CapTypeOK, OnItsWay
<1>2. CapTypeOK' /\ OnItsWay' /\ StoredByReached' /\ TouchedSince'
  BY <1>1 DEF CapTypeOK, OnItsWay, StoredByReached, TouchedSince, Entry
<1>3. Holders' = Holders
  BY DEF Holders, CapTypeOK
<1>4. Shared'
  <2>1. PICK own \in [Kept(at[c]) -> Holders] :
              /\ SharedOut(Kept(at[c]), own)
              /\ \A d \in Holders : AmountOf[d] # 0 /\ at[d] > now - Window
                   => \E e \in Kept(at[c]) : own[e] = d
    BY <1>1, KeptShared
  <2> QED BY <1>3, <2>1, SharedNext DEF SharedOut
<1>5. CapHoldsPerWindow'
  BY <1>3, WindowShrinks
<1> QED BY <1>2, <1>4, <1>5

LEMMA AdmitKeeps ==
  ASSUME CapInv, NEW c \in Calls, pc[c] = "captured",
         pc' = [pc EXCEPT ![c] = "reserving"],
         Total(Kept(at[c])) + AmountOf[c] <= PerPayerCap,
         entries' = Kept(at[c]) \cup Spend(c),
         touched' = now, now' = now, at' = at, store' = store
  PROVE  CapInv'
<1> USE DEF CapInv
<1> DEFINE kept == Kept(at[c])
           new  == [at |-> at[c], by |-> c, amount |-> AmountOf[c]]
<1>1. /\ kept \in SUBSET entries /\ at[c] \in Nat /\ at[c] <= now /\ now \in Nat
      /\ now <= at[c] + MaxLatency
      /\ \A e \in entries : e.at > at[c] - Window => e \in kept
  BY KeptEntries DEF CapTypeOK, OnItsWay
<1>2. /\ entries' \in SUBSET (kept \cup {new})
      /\ AmountOf[c] = 0 => entries' = kept
      /\ AmountOf[c] # 0 => entries' = kept \cup {new}
  BY DEF Spend
<1>3. new \in Entry /\ new.at = at[c] /\ new.by = c /\ new.amount = AmountOf[c]
  BY <1>1, SpendCapAssumption DEF Entry
<1>4. new \notin entries
  BY <1>3 DEF StoredByReached
<1>5. PICK own \in [kept -> Holders] :
            /\ SharedOut(kept, own)
            /\ \A d \in Holders : AmountOf[d] # 0 /\ at[d] > now - Window
                 => \E e \in kept : own[e] = d
  BY <1>1, KeptShared
<1> HIDE DEF kept, new
<1>6. CapTypeOK' /\ OnItsWay' /\ StoredByReached' /\ TouchedSince'
  BY <1>1, <1>2, <1>3
  DEF CapTypeOK, OnItsWay, StoredByReached, TouchedSince, Entry
<1>7. Holders' = Holders \cup {c} /\ c \notin Holders
  BY DEF Holders, CapTypeOK
<1>8. Shared'
  <2> DEFINE more == [e \in entries' |-> IF e = new THEN c ELSE own[e]]
  <2>1. more \in [entries' -> Holders']
    BY <1>2, <1>5, <1>7
  <2>2. \A e \in entries' : at'[more[e]] = e.at /\ AmountOf[more[e]] = e.amount
    BY <1>2, <1>3, <1>5 DEF SharedOut
  <2>3. \A e \in entries' : e # new => more[e] # c /\ more[e] = own[e] /\ e \in kept
    BY <1>2, <1>5, <1>7
  <2>4. \A e, f \in entries' : more[e] = more[f] => e = f
    BY <2>3, <1>5 DEF SharedOut
  <2>5. ASSUME NEW d \in Holders', AmountOf[d] # 0, at'[d] > now' - Window
        PROVE  \E e \in entries' : more[e] = d
    <3>1. CASE d = c
      BY <1>2, <2>5, <3>1
    <3>2. CASE d # c
      <4>1. PICK e \in kept : own[e] = d
        BY <1>5, <1>7, <2>5, <3>2
      <4> QED BY <4>1, <1>1, <1>2, <1>4
    <3> QED BY <3>1, <3>2
  <2> HIDE DEF more
  <2>6. \A d \in Holders' : AmountOf[d] # 0 /\ at'[d] > now' - Window
          => \E e \in entries' : more[e] = d
    BY <2>5
  <2> QED BY ONLY <2>1, <2>2, <2>4, <2>6, SharedNext
<1>9. CapHoldsPerWindow'
  <2> SUFFICES ASSUME NEW t \in 0..now'
               PROVE  Held({d \in Holders' : /\ at'[d] <= t
                                             /\ at'[d] > t - (Window - MaxLatency)})
                        <= PerPayerCap
    BY DEF CapHoldsPerWindow
  <2> DEFINE inwin(d) == at[d] <= t /\ at[d] > t - (Window - MaxLatency)
             old == {d \in Holders : inwin(d)}
             all == {d \in Holders' : at'[d] <= t /\ at'[d] > t - (Window - MaxLatency)}
  <2>1. all = IF inwin(c) THEN old \cup {c} ELSE old
    BY <1>7
  <2>2. Held(old) <= PerPayerCap
    BY DEF CapHoldsPerWindow
  <2>3. old \in SUBSET Holders /\ old \in SUBSET Calls /\ c \notin old
    BY <1>7, HoldersFinite
  <2>4. ASSUME inwin(c) PROVE Held(old \cup {c}) <= PerPayerCap
    <3>1. \A d \in old : AmountOf[d] # 0 => \E e \in kept : own[e] = d
      <4>1. \A d \in old : at[d] > now - Window
        BY <1>1, <2>3, <2>4, SpendCapAssumption DEF CapTypeOK
      <4> QED BY <1>5, <2>3, <4>1
    <3> HIDE DEF old
    <3>2. Held(old) <= Total(kept)
      BY <1>5, <2>3, <3>1, HeldBelowTotal
    <3>3. Total(kept) \in Nat
      BY <1>5, HoldersFinite, TotalBelowHeld
    <3>4. Held(old \cup {c}) = AmountOf[c] + Held(old)
      <4>1. IsFiniteSet(old) /\ \A x \in old \cup {c} : AmountOf[x] \in Int
        BY <2>3, SpendCapAssumption, FS_Subset
      <4> QED BY <2>3, <4>1, SumAdd, HeldIsSum
    <3>5. Held(old) \in Nat
      BY <2>3, HeldTyped
    <3> QED BY <3>2, <3>3, <3>4, <3>5, SpendCapAssumption DEF kept
  <2> HIDE DEF old, all, inwin
  <2>5. Held(all) <= PerPayerCap
    BY <2>1, <2>2, <2>4
  <2> QED BY <2>5 DEF all
<1> QED BY <1>6, <1>8, <1>9

LEMMA CheckKeeps ==
  ASSUME CapInv, NEW c \in Calls, CheckAndHold(c)
  PROVE  CapInv'
<1>1. /\ pc[c] = "captured" /\ now' = now /\ at' = at /\ store' = store
      /\ touched' = now
  BY DEF CheckAndHold, TryRecordSpend, Moves
<1>2. CASE Total(Kept(at[c])) + AmountOf[c] <= PerPayerCap
  <2>1. pc' = [pc EXCEPT ![c] = "reserving"] /\ entries' = Kept(at[c]) \cup Spend(c)
    BY <1>2 DEF CheckAndHold, TryRecordSpend, Moves
  <2> QED BY <1>1, <1>2, <2>1, AdmitKeeps
<1>3. CASE ~ (Total(Kept(at[c])) + AmountOf[c] <= PerPayerCap)
  <2>1. pc' = [pc EXCEPT ![c] = "denied"] /\ entries' = Kept(at[c])
    BY <1>3 DEF CheckAndHold, TryRecordSpend, Moves
  <2> QED BY <1>1, <2>1, DenyKeeps
<1> QED BY <1>2, <1>3

(***************************************************************************)
(* A refund takes an entry of the call's time and amount, whoever stored   *)
(* it.  When it was shared out to another call, that call takes over the   *)
(* entry of the refunded one.                                              *)
(***************************************************************************)
LEMMA RefundKeeps ==
  ASSUME CapInv, NEW c \in Calls, RefundHold(c)
  PROVE  CapInv'
<1> USE DEF CapInv
<1> DEFINE kept    == Kept(at[c])
           matches == {e \in kept : e.at = at[c] /\ e.amount = AmountOf[c]}
<1>1. /\ pc[c] = "refunding" /\ pc' = [pc EXCEPT ![c] = "rejected"]
      /\ now' = now /\ at' = at /\ store' = store /\ touched' = now
      /\ IF matches = {} THEN entries' = kept
         ELSE \E e \in matches : entries' = kept \ {e}
  BY DEF RefundHold, RefundSpend, RefundAt, Moves
<1>2. /\ kept \in SUBSET entries /\ entries' \in SUBSET kept
      /\ at[c] \in Nat /\ at[c] <= now /\ now \in Nat
  BY <1>1, KeptEntries DEF CapTypeOK, OnItsWay
<1>3. PICK own \in [kept -> Holders] :
            /\ SharedOut(kept, own)
            /\ \A d \in Holders : AmountOf[d] # 0 /\ at[d] > now - Window
                 => \E e \in kept : own[e] = d
  BY <1>2, KeptShared
<1>4. \A e \in kept : own[e] = c => e \in matches
  BY <1>3 DEF SharedOut
<1>5. matches \in SUBSET kept /\ \A e \in matches : e.at = at[c] /\ e.amount = AmountOf[c]
  OBVIOUS
<1> HIDE DEF kept, matches
<1>6. CapTypeOK' /\ OnItsWay' /\ StoredByReached' /\ TouchedSince'
  BY <1>1, <1>2 DEF CapTypeOK, OnItsWay, StoredByReached, TouchedSince, Entry
<1>7. Holders' = Holders \ {c} /\ c \in Holders
  BY <1>1 DEF Holders, CapTypeOK
<1>8. Shared'
  <2>1. CASE matches = {}
    <3>1. own \in [kept -> Holders'] /\ entries' = kept
      BY <1>1, <1>3, <1>4, <1>7, <2>1
    <3>2. \A d \in Holders' : AmountOf[d] # 0 /\ at'[d] > now' - Window
            => \E e \in kept : own[e] = d
      BY <1>1, <1>3, <1>7
    <3>3. /\ \A e \in kept : at'[own[e]] = e.at /\ AmountOf[own[e]] = e.amount
          /\ \A e, f \in kept : own[e] = own[f] => e = f
      BY <1>1, <1>3 DEF SharedOut
    <3> QED BY <3>1, <3>2, <3>3, SharedNext
  <2>2. CASE matches # {}
    <3>1. PICK gone \in matches : entries' = kept \ {gone}
      BY <1>1, <2>2
    <3> DEFINE swap == [e \in entries' |-> IF own[e] = c THEN own[gone] ELSE own[e]]
    <3>2. gone \in kept /\ gone.at = at[c] /\ gone.amount = AmountOf[c]
      BY <1>5
    <3>3. /\ \A e \in kept : /\ own[e] \in Holders
                             /\ at[own[e]] = e.at /\ AmountOf[own[e]] = e.amount
          /\ \A e, f \in kept : own[e] = own[f] => e = f
      BY <1>3 DEF SharedOut
    <3>4. swap \in [entries' -> Holders']
      BY <1>7, <3>1, <3>2, <3>3
    <3>5. \A e \in entries' : at'[swap[e]] = e.at /\ AmountOf[swap[e]] = e.amount
      BY <1>1, <3>1, <3>2, <3>3
    <3>6. \A e, f \in entries' : swap[e] = swap[f] => e = f
      BY <3>1, <3>2, <3>3
    <3>7. ASSUME NEW d \in Holders', AmountOf[d] # 0 /\ at'[d] > now' - Window
          PROVE  \E e \in entries' : swap[e] = d
      <4>1. PICK e \in kept : own[e] = d
        BY <1>1, <1>3, <1>7, <3>7
      <4>2. CASE e # gone
        BY <1>7, <3>1, <4>1, <4>2
      <4>3. CASE e = gone
        <5>1. AmountOf[c] # 0 /\ at[c] > now - Window
          BY <1>1, <3>2, <3>3, <3>7, <4>1, <4>3
        <5>2. PICK f \in kept : own[f] = c
          BY <1>3, <1>7, <5>1
        <5>3. f # gone
          BY <1>7, <4>1, <4>3, <5>2
        <5> QED BY <3>1, <4>1, <4>3, <5>2, <5>3
      <4> QED BY <4>2, <4>3
    <3> HIDE DEF swap
    <3>8. \A d \in Holders' : AmountOf[d] # 0 /\ at'[d] > now' - Window
            => \E e \in entries' : swap[e] = d
      BY <3>7
    <3> QED BY <3>4, <3>5, <3>6, <3>8, SharedNext
  <2> QED BY <2>1, <2>2
<1>9. CapHoldsPerWindow'
  BY <1>1, <1>7, WindowShrinks
<1> QED BY <1>6, <1>8, <1>9

-----------------------------------------------------------------------------
LEMMA CapStep ==
  ASSUME CapInv, [CapNext]_capVars
  PROVE  CapInv'
<1>1. ASSUME NEW c \in Calls, Capture(c) PROVE CapInv'
  BY <1>1, CaptureKeeps
<1>2. ASSUME NEW c \in Calls, CheckAndHold(c) PROVE CapInv'
  BY <1>2, CheckKeeps
<1>3. ASSUME NEW c \in Calls, ReserveAnswers(c) PROVE CapInv'
  BY <1>3, AnswerKeeps
<1>4. ASSUME NEW c \in Calls, RefundHold(c) PROVE CapInv'
  BY <1>4, RefundKeeps
<1>5. CASE KeyExpires
  BY <1>5, ExpiryKeeps
<1>6. CASE Passes
  BY <1>6, PassesKeeps
<1>7. CASE UNCHANGED capVars
  BY <1>7 DEF capVars, CapInv, CapTypeOK, OnItsWay, StoredByReached, TouchedSince,
              Shared, SharedOut, Covered, CapHoldsPerWindow, Holders
<1> QED BY <1>1, <1>2, <1>3, <1>4, <1>5, <1>6, <1>7 DEF CapNext

\* The inductive invariant of the gate and its store.
THEOREM CapInvariant == CapSpec => []CapInv
<1>1. CapInv /\ [CapNext]_capVars => CapInv'
  BY CapStep
<1> QED BY CapStart, <1>1, PTL DEF CapSpec

\* However many calls of a payer overlap and in whatever order they reach the
\* store, what was admitted and not refunded within one window, shortened by the
\* latency bound, never exceeds the cap (the gate of /verify over
\* tryRecordSpend).
THEOREM CapHolds == CapSpec => []CapHoldsPerWindow
<1>1. CapInv => CapHoldsPerWindow
  BY DEF CapInv
<1> QED BY CapInvariant, <1>1, PTL

\* Every entry stands for a call that still holds its amount: refundSpend, which
\* removes an entry by time and amount only, leaves none too many.
THEOREM RefundsComplete == CapSpec => []RefundsAreComplete
<1>1. CapInv => RefundsAreComplete
  <2> SUFFICES ASSUME CapInv, NEW e \in entries
               PROVE  Cardinality({f \in entries : f.at = e.at /\ f.amount = e.amount})
                        <= Cardinality({c \in Holders : at[c] = e.at /\ AmountOf[c] = e.amount})
    BY DEF RefundsAreComplete
  <2> DEFINE alike == {f \in entries : f.at = e.at /\ f.amount = e.amount}
             hold  == {c \in Holders : at[c] = e.at /\ AmountOf[c] = e.amount}
  <2>1. PICK own \in [entries -> Holders] : SharedOut(entries, own)
    BY DEF CapInv, Shared
  <2>2. [f \in alike |-> own[f]] \in Injection(alike, hold)
    BY <2>1 DEF SharedOut, Injection, IsInjective
  <2>3. IsFiniteSet(hold)
    BY HoldersFinite, FS_Subset
  <2> HIDE DEF alike, hold
  <2>4. Cardinality(alike) <= Cardinality(hold)
    BY <2>2, <2>3, FS_Injection
  <2> QED BY <2>4 DEF alike, hold
<1> QED BY CapInvariant, <1>1, PTL

\* A payer is turned away only when the calls of the last window that still hold
\* would exceed the cap together with this one: nothing rejected, nothing older
\* and nothing of a lost or doubled entry ever counts against it.
THEOREM DenialsJustified == CapSpec => DenialsAreJustified
<1>1. ASSUME CapInv, [CapNext]_capVars
      PROVE  [\A c \in Calls :
                pc[c] = "captured" /\ pc'[c] = "denied"
                  => Held({d \in Holders : Recent(d, c)}) + AmountOf[c]
                       > PerPayerCap]_capVars
  <2> SUFFICES ASSUME NEW c \in Calls, pc[c] = "captured", pc'[c] = "denied"
               PROVE  Held({d \in Holders : Recent(d, c)}) + AmountOf[c] > PerPayerCap
    OBVIOUS
  <2> DEFINE kept   == Kept(at[c])
             recent == {d \in Holders : Recent(d, c)}
  <2>1. ~ (Total(kept) + AmountOf[c] <= PerPayerCap)
    BY <1>1
    DEF CapInv, CapTypeOK, CapNext, capVars, Moves, Capture, CheckAndHold,
        TryRecordSpend, ReserveAnswers, RefundHold, KeyExpires, Passes
  <2>2. at[c] \in Nat /\ at[c] <= now
    BY <1>1 DEF CapInv, CapTypeOK, OnItsWay
  <2>3. PICK own \in [kept -> Holders] : SharedOut(kept, own)
    BY <1>1, <2>2, KeptShared
  <2>4. \A e \in kept : own[e] \in recent
    BY <2>3 DEF SharedOut, Kept, Recent
  <2>5. recent \in SUBSET Calls
    BY HoldersFinite
  <2> HIDE DEF kept, recent
  <2>6. Total(kept) <= Held(recent) /\ Total(kept) \in Nat
    BY <2>3, <2>4, <2>5, TotalBelowHeld
  <2>7. Held(recent) \in Nat
    BY <2>5, HeldTyped
  <2>8. Held(recent) + AmountOf[c] > PerPayerCap
    BY <2>1, <2>6, <2>7, SpendCapAssumption
  <2> QED BY <2>8 DEF recent
<1> QED BY CapInvariant, <1>1, PTL DEF CapSpec, DenialsAreJustified

-----------------------------------------------------------------------------
(***************************************************************************)
(* Batching.  A call is in one batch for good: it accrues once, and the    *)
(* ledger, whoever reads it and the debit on chain agree on its batch.     *)
(***************************************************************************)
InBatch(c, s) ==
  \/ c \in ledger[s].calls
  \/ c \in charged[s].calls
  \/ \E d \in Debits : seq[d] = s /\ c \in read[d].calls

BatchTyped ==
  /\ batchSeq \in Seqs
  /\ ledger \in [Seqs -> Batch]
  /\ step \in [Debits -> {"new", "accrued", "flush", "cache", "settle", "wait",
                          "persist", "markFlushed", "advance", "done"}]
  /\ seq \in [Debits -> Seqs]
  /\ read \in [Debits -> Batch]
  /\ tx \in [Debits -> {"none", "pending", "debited", "reverted"}]
  /\ charged \in [Seqs -> Charge]

\* The creator's leg takes the remainder, so no batch carries any.
NothingCarried ==
  /\ \A s \in Seqs : ledger[s].carriedIn = 0
  /\ \A c \in Debits : read[c].carriedIn = 0

OneBatch ==
  \A c \in Debits :
    /\ \A s, t \in Seqs : InBatch(c, s) /\ InBatch(c, t) => s = t
    /\ \A s \in Seqs : InBatch(c, s) => step[c] # "new"

\* How far a flush is tells what it read and what the chain did.
Flushing ==
  \A c \in Debits :
    /\ step[c] \in {"new", "accrued", "flush"} => read[c] = NoBatch /\ tx[c] = "none"
    /\ step[c] \in {"cache", "settle"} => tx[c] = "none"
    /\ step[c] \in {"settle", "wait"} \/ tx[c] # "none" => read[c].calls # {}
    /\ step[c] \in {"persist", "markFlushed", "advance"} \/ tx[c] \in {"debited", "reverted"}
         => IsMined(seq[c])
    /\ step[c] = "advance" => seq[c] + 1 \in Seqs

BatchInv ==
  BatchTyped /\ NothingCarried /\ OneBatch /\ Flushing
    /\ NeverOvercharged /\ SettledMeansMined

LEMMA SumOfDebits ==
  ASSUME NEW cs \in SUBSET Debits
  PROVE  Sum(cs) \in Nat /\ Sum({}) = 0
<1>1. Sum(cs) = SumOver(DebitOf, cs) /\ Sum({}) = SumOver(DebitOf, {})
  BY DEF Sum, SumOver
<1>2. IsFiniteSet(cs) /\ \A c \in cs : DebitOf[c] \in Nat
  BY BatchAssumption, FS_Subset
<1> QED BY <1>1, <1>2, SumMonotone, SumEmpty

LEMMA BatchStart == BatchInit => BatchInv
<1> SUFFICES ASSUME BatchInit PROVE BatchInv
  OBVIOUS
<1> USE BatchAssumption DEF BatchInit, NoBatch, NoCharge
<1>1. BatchTyped
  BY DEF BatchTyped, Batch, Charge, Seqs
<1>2. NothingCarried /\ OneBatch /\ Flushing
  BY DEF NothingCarried, OneBatch, Flushing, InBatch, IsMined, IsCharged
<1>3. NeverOvercharged /\ SettledMeansMined
  BY SumOfDebits DEF NeverOvercharged, SettledMeansMined, IsMined, IsCharged, Seqs
<1> QED BY <1>1, <1>2, <1>3 DEF BatchInv

\* A step that leaves ledger, chain, sequence and what was read as they are.
LEMMA AdvanceKeeps ==
  ASSUME BatchInv,
         UNCHANGED <<batchSeq, ledger, seq, read, tx, charged, results>>,
         step' \in [Debits -> {"new", "accrued", "flush", "cache", "settle", "wait",
                               "persist", "markFlushed", "advance", "done"}],
         \A c \in Debits : step'[c] # step[c] =>
           /\ step'[c] \notin {"new", "accrued", "flush", "cache", "advance"}
           /\ step'[c] = "settle" => tx[c] = "none"
           /\ step'[c] \in {"settle", "wait"} => read[c].calls # {}
           /\ step'[c] \in {"persist", "markFlushed"} => IsMined(seq[c])
  PROVE  BatchInv'
<1> USE DEF BatchInv
<1>1. BatchTyped' /\ NothingCarried'
  BY DEF BatchTyped, NothingCarried
<1>2. \A c \in Debits : step[c] # "new" => step'[c] # "new"
  OBVIOUS
<1>3. OneBatch'
  BY <1>2 DEF OneBatch, InBatch
<1>4. Flushing'
  BY DEF Flushing, IsMined, IsCharged
<1>5. NeverOvercharged' /\ SettledMeansMined'
  BY DEF NeverOvercharged, SettledMeansMined, IsMined, IsCharged
<1> QED BY <1>1, <1>3, <1>4, <1>5

LEMMA AccrueKeeps ==
  ASSUME BatchInv, NEW c \in Debits, Accrue(c)
  PROVE  BatchInv'
<1> USE DEF BatchInv
<1>1. /\ step[c] = "new" /\ step' = [step EXCEPT ![c] = "accrued"]
      /\ seq' = [seq EXCEPT ![c] = batchSeq]
      /\ ledger' = [ledger EXCEPT ![batchSeq].calls = @ \cup {c}]
      /\ UNCHANGED <<batchSeq, read, tx, charged, results>>
  BY DEF Accrue, Advance
<1>2. read[c].calls = {} /\ tx[c] = "none"
  BY <1>1 DEF Flushing, NoBatch
<1>3. BatchTyped'
  BY <1>1 DEF BatchTyped, Batch
<1>4. NothingCarried'
  BY <1>1 DEF NothingCarried, BatchTyped, Batch
<1>5. \A d \in Debits, s \in Seqs :
        InBatch(d, s)' <=> InBatch(d, s) \/ (d = c /\ s = batchSeq)
  BY <1>1, <1>2 DEF InBatch, BatchTyped, Batch
<1>6. OneBatch'
  BY <1>1, <1>5 DEF OneBatch, BatchTyped
<1>7. Flushing'
  BY <1>1 DEF Flushing, IsMined, IsCharged, BatchTyped
<1>8. NeverOvercharged' /\ SettledMeansMined'
  BY <1>1, <1>2 DEF NeverOvercharged, SettledMeansMined, IsMined, IsCharged, BatchTyped
<1> QED BY <1>3, <1>4, <1>6, <1>7, <1>8

LEMMA CheckTriggerKeeps ==
  ASSUME BatchInv, NEW c \in Debits, CheckTrigger(c)
  PROVE  BatchInv'
<1> USE DEF BatchInv
<1>1. CASE Triggered(c)
  <2>1. /\ step[c] = "accrued" /\ step' = [step EXCEPT ![c] = "flush"]
        /\ seq' = [seq EXCEPT ![c] = batchSeq]
        /\ UNCHANGED <<batchSeq, ledger, read, tx, charged, results>>
    BY <1>1 DEF CheckTrigger, Advance, memoryVars
  <2>2. read[c].calls = {} /\ tx[c] = "none"
    BY <2>1 DEF Flushing, NoBatch
  <2>3. BatchTyped' /\ NothingCarried'
    BY <2>1 DEF BatchTyped, NothingCarried
  <2>4. \A d \in Debits, s \in Seqs : InBatch(d, s)' <=> InBatch(d, s)
    BY <2>1, <2>2 DEF InBatch, BatchTyped
  <2>5. OneBatch'
    BY <2>1, <2>4 DEF OneBatch, BatchTyped
  <2>6. Flushing'
    BY <2>1 DEF Flushing, IsMined, IsCharged, BatchTyped
  <2>7. NeverOvercharged' /\ SettledMeansMined'
    BY <2>1, <2>2 DEF NeverOvercharged, SettledMeansMined, IsMined, IsCharged, BatchTyped
  <2> QED BY <2>3, <2>5, <2>6, <2>7
<1>2. CASE ~Triggered(c)
  BY <1>2, AdvanceKeeps DEF CheckTrigger, Advance, memoryVars, BatchTyped
<1> QED BY <1>1, <1>2

LEMMA ReadPendingKeeps ==
  ASSUME BatchInv, NEW c \in Debits, ReadPending(c)
  PROVE  BatchInv'
<1> USE DEF BatchInv
<1>1. /\ step[c] = "flush" /\ step' = [step EXCEPT ![c] = "cache"]
      /\ read' = [read EXCEPT ![c] = ledger[seq[c]]]
      /\ UNCHANGED <<batchSeq, ledger, seq, tx, charged, results>>
  BY DEF ReadPending, Advance, memoryVars
<1>2. seq[c] \in Seqs /\ tx[c] = "none"
  BY <1>1 DEF Flushing, BatchTyped
<1>3. BatchTyped' /\ NothingCarried'
  BY <1>1, <1>2 DEF BatchTyped, NothingCarried
<1>4. \A d \in Debits, s \in Seqs : InBatch(d, s)' => InBatch(d, s)
  BY <1>1, <1>2 DEF InBatch, BatchTyped
<1>5. OneBatch'
  BY <1>1, <1>4 DEF OneBatch, BatchTyped
<1>6. Flushing'
  BY <1>1, <1>2 DEF Flushing, IsMined, IsCharged, BatchTyped
<1>7. NeverOvercharged' /\ SettledMeansMined'
  BY <1>1 DEF NeverOvercharged, SettledMeansMined, IsMined, IsCharged
<1> QED BY <1>3, <1>5, <1>6, <1>7

LEMMA SubmitKeeps ==
  ASSUME BatchInv, NEW c \in Debits, Submit(c)
  PROVE  BatchInv'
<1> USE DEF BatchInv
<1>1. CASE seq[c] \in results \/ IsCharged(seq[c])
  <2>1. IsMined(seq[c])
    BY <1>1 DEF SettledMeansMined, BatchTyped, IsMined
  <2> QED BY <1>1, <2>1, AdvanceKeeps DEF Submit, Advance, memoryVars, BatchTyped
<1>2. CASE ~(seq[c] \in results \/ IsCharged(seq[c]))
  <2>1. /\ step[c] = "settle" /\ step' = [step EXCEPT ![c] = "wait"]
        /\ tx' = [tx EXCEPT ![c] = "pending"]
        /\ UNCHANGED <<batchSeq, ledger, seq, read, charged, results>>
    BY <1>2 DEF Submit, Advance, memoryVars
  <2>2. BatchTyped' /\ NothingCarried'
    BY <2>1 DEF BatchTyped, NothingCarried
  <2>3. OneBatch'
    BY <2>1 DEF OneBatch, InBatch, BatchTyped
  <2>4. Flushing'
    BY <2>1 DEF Flushing, IsMined, IsCharged, BatchTyped
  <2>5. NeverOvercharged' /\ SettledMeansMined'
    BY <2>1 DEF NeverOvercharged, SettledMeansMined, IsMined, IsCharged, BatchTyped, Flushing
  <2> QED BY <2>2, <2>3, <2>4, <2>5
<1> QED BY <1>1, <1>2

LEMMA PersistKeeps ==
  ASSUME BatchInv, NEW c \in Debits, Persist(c)
  PROVE  BatchInv'
<1> USE DEF BatchInv
<1>1. /\ step[c] = "persist" /\ step' = [step EXCEPT ![c] = "markFlushed"]
      /\ results' = results \cup {seq[c]}
      /\ UNCHANGED <<batchSeq, ledger, seq, read, tx, charged>>
  BY DEF Persist, Advance, memoryVars, debitVars
<1>2. IsMined(seq[c])
  BY <1>1 DEF Flushing
<1>3. BatchTyped' /\ NothingCarried'
  BY <1>1 DEF BatchTyped, NothingCarried
<1>4. OneBatch'
  BY <1>1 DEF OneBatch, InBatch, BatchTyped
<1>5. Flushing'
  BY <1>1, <1>2 DEF Flushing, IsMined, IsCharged, BatchTyped
<1>6. NeverOvercharged' /\ SettledMeansMined'
  BY <1>1, <1>2 DEF NeverOvercharged, SettledMeansMined, IsMined, IsCharged
<1> QED BY <1>3, <1>4, <1>5, <1>6

LEMMA MarkFlushedKeeps ==
  ASSUME BatchInv, NEW c \in Debits, MarkFlushed(c)
  PROVE  BatchInv'
<1> USE DEF BatchInv
<1>1. /\ step[c] = "markFlushed" /\ step' = [step EXCEPT ![c] = "advance"]
      /\ seq[c] + 1 \in Seqs /\ seq[c] \in Seqs
      /\ ledger' = [ledger EXCEPT ![seq[c]] = NoBatch, ![seq[c] + 1].carriedIn = @ + 0]
      /\ UNCHANGED <<batchSeq, seq, read, tx, charged, results>>
  BY DEF MarkFlushed, Advance, memoryVars, debitVars, BatchTyped, CarriedRemainder
<1>2. IsMined(seq[c])
  BY <1>1 DEF Flushing
<1>3. \A s \in Seqs : /\ ledger'[s] \in Batch
                      /\ ledger'[s].carriedIn = 0
                      /\ ledger'[s].calls \in SUBSET ledger[s].calls
  <2> SUFFICES ASSUME NEW s \in Seqs
               PROVE  /\ ledger'[s] \in Batch
                      /\ ledger'[s].carriedIn = 0
                      /\ ledger'[s].calls \in SUBSET ledger[s].calls
    OBVIOUS
  <2>1. /\ ledger[s] \in Batch /\ ledger[s].carriedIn = 0
        /\ ledger \in [Seqs -> Batch] /\ seq[c] # seq[c] + 1
    BY <1>1, BatchAssumption DEF NothingCarried, BatchTyped, Seqs
  <2>2. \/ ledger'[s] = ledger[s]
        \/ ledger'[s] = NoBatch
        \/ ledger'[s] = [ledger[s] EXCEPT !.carriedIn = @ + 0]
    BY <1>1, <2>1
  <2> QED BY <2>1, <2>2 DEF Batch, NoBatch
<1>4. BatchTyped'
  BY <1>1, <1>3 DEF BatchTyped
<1>5. NothingCarried'
  BY <1>1, <1>3 DEF NothingCarried
<1>6. \A d \in Debits, s \in Seqs : InBatch(d, s)' => InBatch(d, s)
  BY <1>1, <1>3 DEF InBatch
<1>7. OneBatch'
  BY <1>1, <1>6 DEF OneBatch, BatchTyped
<1>8. Flushing'
  BY <1>1 DEF Flushing, IsMined, IsCharged, BatchTyped
<1>9. NeverOvercharged'
  BY <1>1 DEF NeverOvercharged
<1>10. SettledMeansMined'
  BY <1>1 DEF SettledMeansMined, IsMined, IsCharged
<1> QED BY <1>4, <1>5, <1>7, <1>8, <1>9, <1>10

LEMMA OpenNextKeeps ==
  ASSUME BatchInv, NEW c \in Debits, OpenNext(c)
  PROVE  BatchInv'
<1> USE DEF BatchInv
<1>1. /\ step[c] = "advance" /\ step' = [step EXCEPT ![c] = "done"]
      /\ seq[c] \in Seqs /\ seq[c] + 1 \in Seqs
      /\ batchSeq' \in {batchSeq, seq[c] + 1}
      /\ batchSeq' # batchSeq => seq[c] = batchSeq
      /\ UNCHANGED <<ledger, seq, read, tx, charged, results>>
  BY DEF OpenNext, Advance, memoryVars, debitVars, BatchTyped, Flushing
<1>2. IsMined(seq[c])
  BY <1>1 DEF Flushing
<1>3. BatchTyped' /\ NothingCarried'
  BY <1>1 DEF BatchTyped, NothingCarried
<1>4. OneBatch'
  BY <1>1 DEF OneBatch, InBatch, BatchTyped
<1>5. Flushing'
  BY <1>1 DEF Flushing, IsMined, IsCharged, BatchTyped
<1>6. NeverOvercharged'
  BY <1>1 DEF NeverOvercharged
<1>7. SettledMeansMined'
  <2> SUFFICES ASSUME NEW s \in Seqs, s < batchSeq' \/ s \in results PROVE IsMined(s)
    BY <1>1 DEF SettledMeansMined, IsMined, IsCharged
  <2>1. s < batchSeq \/ s \in results \/ s = seq[c]
    BY <1>1 DEF Seqs, BatchTyped
  <2> QED BY <1>2, <2>1 DEF SettledMeansMined
<1> QED BY <1>3, <1>4, <1>5, <1>6, <1>7

\* A debit that reverts: the batch is mined, and nothing is charged.
LEMMA RevertKeeps ==
  ASSUME BatchInv, NEW c \in Debits, Mine(c), charged' = charged
  PROVE  BatchInv'
<1> USE DEF BatchInv
<1>1. /\ tx[c] = "pending" /\ tx' = [tx EXCEPT ![c] = "reverted"]
      /\ seq[c] \in Seqs /\ read[c] \in Batch
      /\ UNCHANGED <<batchSeq, ledger, step, seq, read, results, charged>>
  <2>1. tx' = [tx EXCEPT ![c] = "reverted"]
    <3>1. ASSUME ~IsCharged(seq[c]), seq[c] \in Seqs, charged' = [charged EXCEPT ![seq[c]] =
                   [calls |-> read[c].calls, amount |-> DebitAmount(read[c])]]
          PROVE  FALSE
      <4>1. charged[seq[c]] = NoCharge /\ charged \in [Seqs -> Charge]
        BY <3>1 DEF IsCharged, BatchTyped
      <4>2. charged'[seq[c]].calls = read[c].calls
        BY <3>1, <4>1
      <4>3. read[c].calls # {}
        BY DEF Mine, Flushing
      <4> QED BY <4>1, <4>2, <4>3 DEF NoCharge
    <3> QED BY <3>1 DEF Mine, BatchTyped
  <2> QED BY <2>1 DEF Mine, memoryVars, BatchTyped
<1>2. read[c].calls # {}
  BY <1>1 DEF Flushing
<1>3. \A s \in Seqs : IsMined(s) => IsMined(s)'
  BY <1>1 DEF IsMined, IsCharged, BatchTyped
<1>4. IsMined(seq[c])'
  BY <1>1 DEF IsMined, BatchTyped
<1>5. BatchTyped' /\ NothingCarried'
  BY <1>1 DEF BatchTyped, NothingCarried
<1>6. OneBatch'
  BY <1>1 DEF OneBatch, InBatch
<1>7. Flushing'
  <2> SUFFICES ASSUME NEW d \in Debits PROVE Flushing!(d)'
    BY DEF Flushing
  <2>1. CASE d = c
    BY <1>1, <1>2, <1>4, <2>1 DEF Flushing, BatchTyped
  <2>2. CASE d # c
    BY <1>1, <1>3, <2>2 DEF Flushing, BatchTyped
  <2> QED BY <2>1, <2>2
<1>8. NeverOvercharged' /\ SettledMeansMined'
  BY <1>1, <1>3 DEF NeverOvercharged, SettledMeansMined
<1> QED BY <1>5, <1>6, <1>7, <1>8

LEMMA DebitKeeps ==
  ASSUME BatchInv, NEW c \in Debits, Mine(c), charged' # charged
  PROVE  BatchInv'
<1> USE DEF BatchInv
<1> DEFINE paid == [calls |-> read[c].calls, amount |-> DebitAmount(read[c])]
<1>1. /\ tx[c] = "pending" /\ tx' = [tx EXCEPT ![c] = "debited"]
      /\ seq[c] \in Seqs /\ read[c] \in Batch /\ ~IsCharged(seq[c])
      /\ charged' = [charged EXCEPT ![seq[c]] = paid]
      /\ UNCHANGED <<batchSeq, ledger, step, seq, read, results>>
  BY DEF Mine, memoryVars, BatchTyped
<1>2. read[c].calls # {} /\ read[c].carriedIn = 0 /\ read[c].calls \in SUBSET Debits
  BY <1>1 DEF Flushing, NothingCarried, Batch
<1>3. DebitAmount(read[c]) \in Nat /\ DebitAmount(read[c]) <= Sum(read[c].calls)
  <2>1. Sum(read[c].calls) \in Nat /\ BatchCap \in Nat
    BY <1>2, SumOfDebits, BatchAssumption
  <2> QED BY <1>2, <2>1 DEF DebitAmount, Amount
<1>4. paid \in Charge /\ paid # NoCharge
  BY <1>1, <1>2, <1>3 DEF Charge, NoCharge
<1>5. paid.calls = read[c].calls /\ paid.amount = DebitAmount(read[c])
  OBVIOUS
<1> HIDE DEF paid
<1>6. BatchTyped' /\ NothingCarried'
  BY <1>1, <1>4 DEF BatchTyped, NothingCarried
<1>7. \A s \in Seqs : \/ charged'[s] = charged[s]
                      \/ s = seq[c] /\ charged'[s] = paid /\ ~IsCharged(s)
  BY <1>1 DEF BatchTyped
<1>8. \A d \in Debits, s \in Seqs : InBatch(d, s)' <=> InBatch(d, s)
  <2> SUFFICES ASSUME NEW d \in Debits, NEW s \in Seqs
               PROVE  InBatch(d, s)' <=> InBatch(d, s)
    OBVIOUS
  <2>1. CASE charged'[s] = charged[s]
    BY <1>1, <2>1 DEF InBatch
  <2>2. CASE s = seq[c] /\ charged'[s] = paid /\ ~IsCharged(s)
    <3>1. charged[s].calls = {}
      BY <2>2 DEF IsCharged, NoCharge
    <3> QED BY <1>1, <1>5, <2>2, <3>1 DEF InBatch
  <2> QED BY <1>7, <2>1, <2>2
<1>9. OneBatch'
  BY <1>1, <1>8 DEF OneBatch
<1>10. \A s \in Seqs : IsMined(s) => IsMined(s)'
  BY <1>1, <1>4, <1>7 DEF IsMined, IsCharged, BatchTyped
<1>11. IsMined(seq[c])'
  BY <1>1, <1>4 DEF IsMined, IsCharged, BatchTyped
<1>12. Flushing'
  BY <1>1, <1>2, <1>10, <1>11 DEF Flushing, BatchTyped
<1>13. SettledMeansMined'
  BY <1>1, <1>10 DEF SettledMeansMined
<1>14. NeverOvercharged'
  <2>1. \A s \in Seqs : charged'[s].amount <= Sum(charged'[s].calls)
    BY <1>3, <1>5, <1>7 DEF NeverOvercharged
  <2>2. \A s, t \in Seqs : s # t => charged'[s].calls \cap charged'[t].calls = {}
    <3> SUFFICES ASSUME NEW s \in Seqs, NEW t \in Seqs, NEW d,
                        d \in charged'[s].calls, d \in charged'[t].calls
                 PROVE  s = t
      OBVIOUS
    <3>1. d \in Debits
      BY <1>6 DEF BatchTyped, Charge
    <3>2. InBatch(d, s)' /\ InBatch(d, t)'
      BY DEF InBatch
    <3> QED BY <1>9, <3>1, <3>2 DEF OneBatch
  <2> QED BY <2>1, <2>2 DEF NeverOvercharged
<1> QED BY <1>6, <1>9, <1>12, <1>13, <1>14

LEMMA BatchStep ==
  ASSUME BatchInv, [BatchNext]_batchVars
  PROVE  BatchInv'
<1>1. ASSUME NEW c \in Debits, CheckCache(c) PROVE BatchInv'
  <2>1. read[c].calls # {} \/ Sum(read[c].calls) = 0
    <3>1. Sum({}) = 0
      BY SumOfDebits
    <3> QED BY <3>1
  <2>2. step[c] = "cache" /\ UNCHANGED <<batchSeq, ledger, seq, read, tx, charged, results>>
    BY <1>1 DEF CheckCache, Advance, memoryVars, debitVars
  <2>3. \/ step' = [step EXCEPT ![c] = "done"]
        \/ step' = [step EXCEPT ![c] = "settle"] /\ read[c].calls # {} /\ tx[c] = "none"
    BY <1>1, <2>1, <2>2 DEF CheckCache, Advance, BatchInv, Flushing
  <2> QED BY <2>2, <2>3, AdvanceKeeps DEF BatchInv, BatchTyped
<1>2. ASSUME NEW c \in Debits, WaitForReceipt(c) PROVE BatchInv'
  <2>1. IsMined(seq[c])
    BY <1>2 DEF WaitForReceipt, BatchInv, Flushing
  <2> QED BY <1>2, <2>1, AdvanceKeeps
          DEF WaitForReceipt, Advance, memoryVars, debitVars, BatchInv, BatchTyped
<1>3. ASSUME NEW c \in Debits, Throws(c) PROVE BatchInv'
  <2>1. step' = [step EXCEPT ![c] = "done"]
        /\ UNCHANGED <<batchSeq, ledger, seq, read, tx, charged, results>>
    BY <1>3 DEF Throws, Advance, memoryVars, debitVars
  <2> QED BY <2>1, AdvanceKeeps DEF BatchInv, BatchTyped
<1>4. CASE Restart
  <2> USE DEF BatchInv
  <2>1. /\ step' = [c \in Debits |-> IF c \in Idle THEN step[c] ELSE "done"]
        /\ batchSeq' = 0
        /\ UNCHANGED <<ledger, seq, read, tx, charged, results>>
    BY <1>4 DEF Restart, debitVars
  <2>2. BatchTyped' /\ NothingCarried'
    <3>1. BatchTyped /\ NothingCarried
      OBVIOUS
    <3>2. batchSeq' \in Seqs
      BY <2>1, BatchAssumption DEF Seqs
    <3>3. step' \in [Debits -> {"new", "accrued", "flush", "cache", "settle", "wait",
                                "persist", "markFlushed", "advance", "done"}]
      BY <2>1, <3>1 DEF BatchTyped
    <3> HIDE DEF BatchInv
    <3> QED BY <2>1, <3>1, <3>2, <3>3 DEF BatchTyped, NothingCarried
  <2>3. OneBatch'
    BY <2>1 DEF OneBatch, InBatch, BatchTyped
  <2>4. Flushing'
    BY <2>1 DEF Flushing, IsMined, IsCharged, BatchTyped
  <2>5. NeverOvercharged' /\ SettledMeansMined'
    BY <2>1 DEF NeverOvercharged, SettledMeansMined, IsMined, IsCharged, Seqs
  <2> QED BY <2>2, <2>3, <2>4, <2>5
<1>5. CASE ClockTicks \/ UNCHANGED batchVars
  <2>1. UNCHANGED <<batchSeq, ledger, step, seq, read, tx, charged, results>>
    BY <1>5 DEF ClockTicks, batchVars, memoryVars, debitVars
  <2> QED BY <2>1, AdvanceKeeps DEF BatchInv, BatchTyped
<1> QED BY <1>1, <1>2, <1>3, <1>4, <1>5, AccrueKeeps, CheckTriggerKeeps,
           ReadPendingKeeps, SubmitKeeps, PersistKeeps, MarkFlushedKeeps, OpenNextKeeps, DebitKeeps,
           RevertKeeps
        DEF BatchNext

\* The inductive invariant of the batches.
LEMMA BatchInvariant == BatchSpec => []BatchInv
<1>1. BatchInv /\ [BatchNext]_batchVars => BatchInv'
  BY BatchStep
<1> QED BY BatchStart, <1>1, PTL DEF BatchSpec

\* Whatever flushes overlap, fail, are repeated or restart: a batch debit takes no
\* more than the calls it covers add up to, and covers no call that another covers
\* (flushBatch and the batch ledger).
THEOREM NobodyOvercharged == BatchSpec => []NeverOvercharged
<1>1. BatchInv => NeverOvercharged
  BY DEF BatchInv
<1> QED BY BatchInvariant, <1>1, PTL

\* The settler moves past a batch, and a result is stored for it, only once a
\* transaction for it was mined, the debit or one that reverted (flushBatch and
\* settle, which waits for a receipt of any status).
THEOREM SettledIsMined == BatchSpec => []SettledMeansMined
<1>1. BatchInv => SettledMeansMined
  BY DEF BatchInv
<1> QED BY BatchInvariant, <1>1, PTL

-----------------------------------------------------------------------------
(***************************************************************************)
(* The refunds.  A window has covered a payment when it marked the payer,  *)
(* or just broadcast the refund, and has no refund of it left to send; a   *)
(* payment is refunded no more often than windows have covered it.         *)
(***************************************************************************)
AtWork(r) == refundRun[r].pc \notin {"idle", "done", "failed"}

ToSend(w, p) ==
  \E r \in Runs : WindowOf[r] = w /\ AtWork(r) /\ p \in refundRun[r].pending \ refundRun[r].sent

JustSent(w, p) ==
  \E r \in Runs : WindowOf[r] = w /\ AtWork(r) /\ p \in refundRun[r].sent

CoveredBy(p) ==
  {w \in WindowsOf(p) : /\ <<w, Payer[p]>> \in marks \/ JustSent(w, p)
                        /\ ~ToSend(w, p)}

RunRecords ==
  [pc : {"idle", "checking", "bounding", "writing", "marking", "done", "failed"},
   check : SUBSET Payments, pending : SUBSET Payments, sent : SUBSET Payments]

RefundTyped ==
  /\ refundRun \in [Runs -> RunRecords]
  /\ mempool \in [Payments -> Nat] /\ repaid \in [Payments -> Nat]
  /\ refundPool \in Nat
  /\ reverted \in BOOLEAN /\ careless \in BOOLEAN

\* What each position of a run has left of its window.
RunsShaped ==
  \A r \in Runs :
    /\ refundRun[r].check \cup refundRun[r].pending \subseteq Affected[WindowOf[r]]
    /\ refundRun[r].sent \subseteq refundRun[r].pending
    /\ refundRun[r].pc \in {"checking", "bounding", "writing"} => refundRun[r].sent = {}
    /\ refundRun[r].pc \in {"bounding", "writing", "marking", "done"} => refundRun[r].check = {}
    /\ refundRun[r].pc = "done" => refundRun[r].pending = {}

OneAtWork ==
  ~careless => \A q, r \in Runs :
                 AtWork(q) /\ AtWork(r) /\ WindowOf[q] = WindowOf[r] => q = r

CoveredOnce ==
  ~careless => \A p \in Payments : Refunds(p) <= Cardinality(CoveredBy(p))

\* No payment of a window is forgotten, and a mark is of a refund.
NoneForgotten ==
  \A r \in Runs : AtWork(r) \/ refundRun[r].pc = "done" =>
    \A p \in Affected[WindowOf[r]] :
      \/ p \in refundRun[r].check \cup refundRun[r].pending
      \/ <<WindowOf[r], Payer[p]>> \in marks

PayerPaid(w, x) ==
  reverted \/ \E q \in Affected[w] : Payer[q] = x /\ Refunds(q) > 0

MarksArePaid ==
  /\ \A r \in Runs : \A p \in Affected[WindowOf[r]] :
       <<WindowOf[r], Payer[p]>> \in marks => PayerPaid(WindowOf[r], Payer[p])
  /\ \A r \in Runs : AtWork(r) =>
       \A p \in refundRun[r].sent : PayerPaid(WindowOf[r], Payer[p])

RefundInv ==
  RefundTyped /\ RunsShaped /\ OneAtWork /\ CoveredOnce /\ NoneForgotten /\ MarksArePaid

LEMMA WindowsFinite ==
  ASSUME NEW p \in Payments
  PROVE  IsFiniteSet(WindowsOf(p))
<1> DEFINE S == {q \in Runs : p \in Affected[WindowOf[q]]}
           f == [r \in S |-> WindowOf[r]]
<1>1. IsFiniteSet(S)
  BY RefundAssumption, FS_Subset
<1>2. f \in Surjection(S, WindowsOf(p))
  BY DEF Surjection, WindowsOf
<1> HIDE DEF S, f
<1> QED BY <1>1, <1>2, FS_Surjection

LEMMA CoveredFinite ==
  ASSUME NEW p \in Payments
  PROVE  IsFiniteSet(CoveredBy(p)) /\ Cardinality(CoveredBy(p)) \in Nat
<1>1. CoveredBy(p) \subseteq WindowsOf(p)
  BY DEF CoveredBy
<1> QED BY <1>1, WindowsFinite, FS_Subset, FS_CardinalityType

\* A step that broadcasts nothing keeps the bound where no cover is lost.
LEMMA CoverKept ==
  ASSUME CoveredOnce, RefundTyped, careless => careless',
         mempool' \in [Payments -> Nat], repaid' \in [Payments -> Nat],
         ~careless' => \A p \in Payments : /\ CoveredBy(p) \subseteq CoveredBy(p)'
                                           /\ Refunds(p)' <= Refunds(p),
         ~careless' => \A p \in Payments : IsFiniteSet(CoveredBy(p)')
  PROVE  CoveredOnce'
<1> SUFFICES ASSUME ~careless', NEW p \in Payments
             PROVE  Refunds(p)' <= Cardinality(CoveredBy(p)')
  BY DEF CoveredOnce
<1>1. Cardinality(CoveredBy(p)) <= Cardinality(CoveredBy(p)') /\ Cardinality(CoveredBy(p)') \in Nat
  BY FS_Subset, FS_CardinalityType
<1>2. Refunds(p) <= Cardinality(CoveredBy(p)) /\ Cardinality(CoveredBy(p)) \in Nat
  BY CoveredFinite DEF CoveredOnce
<1>3. Refunds(p) \in Nat /\ Refunds(p)' \in Nat
  BY DEF Refunds, RefundTyped
<1>4. Refunds(p)' <= Refunds(p)
  OBVIOUS
<1> QED BY <1>1, <1>2, <1>3, <1>4

\* A step of run r to the record x that broadcasts nothing.
RunTo(r, x) ==
  /\ x \in RunRecords
  /\ refundRun' = [refundRun EXCEPT ![r] = x]
  /\ marks \subseteq marks'
  /\ \A m \in marks' \ marks :
       AtWork(r) /\ \E p \in refundRun[r].sent : m = <<WindowOf[r], Payer[p]>>
  /\ AtWork(r) => careless' \/ \A p \in refundRun[r].sent : <<WindowOf[r], Payer[p]>> \in marks'
  /\ careless => careless'
  /\ careless' \in BOOLEAN
  /\ UNCHANGED <<mempool, refundPool, repaid, reverted>>

Shaped(r, x) ==
  /\ x.check \cup x.pending \subseteq Affected[WindowOf[r]]
  /\ x.sent \subseteq x.pending
  /\ x.pc \notin {"failed"} => x.sent = {}
  /\ x.pc \in {"bounding", "writing", "marking", "done"} => x.check = {}
  /\ x.pc = "done" => x.pending = {}

\* If x is at work, it is alone in its window, and what it has left to send it
\* had before, or the window has no mark of.
AloneAt(r, x) ==
  x.pc \notin {"idle", "done", "failed"} =>
    /\ ~careless' => \A q \in Runs \ {r} : AtWork(q) => WindowOf[q] # WindowOf[r]
    /\ \A p \in x.pending :
         \/ AtWork(r) /\ p \in refundRun[r].pending \ refundRun[r].sent
         \/ <<WindowOf[r], Payer[p]>> \notin marks'

StaysMarked(r, x) ==
  x.pc \notin {"idle", "failed"} =>
    \A p \in Affected[WindowOf[r]] :
      p \in x.check \cup x.pending \/ <<WindowOf[r], Payer[p]>> \in marks'

LEMMA RunMoves ==
  ASSUME RefundInv, NEW r \in Runs, NEW x, RunTo(r, x),
         Shaped(r, x), AloneAt(r, x), StaysMarked(r, x)
  PROVE  RefundInv'
<1> USE DEF RefundInv, RunTo
<1>1. /\ refundRun'[r] = x
      /\ \A q \in Runs : q # r => refundRun'[q] = refundRun[q]
      /\ \A q \in Runs : refundRun'[q] \in RunRecords
  BY DEF RefundTyped
<1>2. RefundTyped'
  BY DEF RefundTyped
<1>3. RunsShaped'
  BY <1>1 DEF RunsShaped, Shaped
<1>4. OneAtWork'
  BY <1>1 DEF OneAtWork, AtWork, AloneAt
<1>5. ASSUME ~careless', NEW p \in Payments, NEW w \in CoveredBy(p)
      PROVE  w \in CoveredBy(p)'
  <2>1. /\ w \in WindowsOf(p) /\ w \in WindowsOf(p)'
        /\ <<w, Payer[p]>> \in marks \/ JustSent(w, p)
        /\ ~ToSend(w, p)
    BY DEF CoveredBy, WindowsOf
  <2>2. <<w, Payer[p]>> \in marks' \/ JustSent(w, p)'
    <3>1. ASSUME NEW q \in Runs, WindowOf[q] = w, AtWork(q), p \in refundRun[q].sent, q # r
          PROVE  JustSent(w, p)'
      BY <1>1, <3>1 DEF JustSent, AtWork
    <3>2. CASE JustSent(w, p)
      BY <1>5, <3>1, <3>2 DEF JustSent
    <3> QED BY <2>1, <3>2
  <2>3. ASSUME ToSend(w, p)' PROVE FALSE
    <3>1. PICK q \in Runs : /\ WindowOf[q] = w /\ AtWork(q)'
                            /\ p \in refundRun'[q].pending \ refundRun'[q].sent
      BY <2>3 DEF ToSend
    <3>2. q = r
      BY <1>1, <2>1, <3>1 DEF ToSend, AtWork
    <3>3. x.pc \notin {"idle", "done", "failed"} /\ p \in x.pending
      BY <1>1, <3>1, <3>2 DEF AtWork
    <3>4. <<w, Payer[p]>> \notin marks'
      BY <2>1, <3>1, <3>2, <3>3 DEF AloneAt, ToSend
    <3>5. PICK s \in Runs : WindowOf[s] = w /\ AtWork(s) /\ p \in refundRun[s].sent
      BY <2>1, <3>4 DEF JustSent
    <3>6. s = r
      BY <1>5, <3>1, <3>2, <3>3, <3>5 DEF AloneAt
    <3> QED BY <1>5, <3>4, <3>5, <3>6
  <2> QED BY <2>1, <2>2, <2>3 DEF CoveredBy
<1>6. \A p \in Payments : Refunds(p)' = Refunds(p) /\ Refunds(p) \in Nat
  BY DEF Refunds, RefundTyped
<1>7. \A p \in Payments : IsFiniteSet(CoveredBy(p)')
  <2> SUFFICES ASSUME NEW p \in Payments PROVE IsFiniteSet(CoveredBy(p)')
    OBVIOUS
  <2>1. CoveredBy(p)' \subseteq WindowsOf(p)
    BY DEF CoveredBy, WindowsOf
  <2> QED BY <2>1, WindowsFinite, FS_Subset
<1>8. CoveredOnce'
  <2>1. \A p \in Payments : Refunds(p)' <= Refunds(p)
    BY <1>6
  <2>2. mempool' \in [Payments -> Nat] /\ repaid' \in [Payments -> Nat]
    BY DEF RefundTyped
  <2>3. ~careless' => \A p \in Payments : CoveredBy(p) \subseteq CoveredBy(p)'
    BY <1>5
  <2> QED BY <1>7, <2>1, <2>2, <2>3, CoverKept
<1>9. NoneForgotten'
  BY <1>1 DEF NoneForgotten, StaysMarked, AtWork
<1>10. MarksArePaid'
  <2>1. \A w, y : PayerPaid(w, y) => PayerPaid(w, y)'
    BY DEF PayerPaid, Refunds
  <2>2. ASSUME NEW q \in Runs, NEW p \in Affected[WindowOf[q]],
               <<WindowOf[q], Payer[p]>> \in marks'
        PROVE  PayerPaid(WindowOf[q], Payer[p])
    BY <2>2 DEF MarksArePaid
  <2>3. ASSUME NEW q \in Runs, AtWork(q)', NEW p \in refundRun'[q].sent
        PROVE  PayerPaid(WindowOf[q], Payer[p])
    BY <1>1, <2>3 DEF MarksArePaid, AtWork, Shaped
  <2> QED BY <2>1, <2>2, <2>3 DEF MarksArePaid
<1> QED BY <1>2, <1>3, <1>4, <1>8, <1>9, <1>10

LEMMA RefundStart == RefundInit => RefundInv
<1> SUFFICES ASSUME RefundInit PROVE RefundInv
  OBVIOUS
<1> USE DEF RefundInit, RunIdle
<1>1. RefundTyped
  BY RefundAssumption DEF RefundTyped, RunRecords
<1>2. RunsShaped /\ OneAtWork /\ NoneForgotten /\ MarksArePaid
  BY DEF RunsShaped, OneAtWork, NoneForgotten, MarksArePaid, AtWork
<1>3. CoveredOnce
  <2> SUFFICES ASSUME NEW p \in Payments PROVE Refunds(p) <= Cardinality(CoveredBy(p))
    BY DEF CoveredOnce
  <2>1. Refunds(p) = 0
    BY DEF Refunds
  <2>2. Cardinality(CoveredBy(p)) \in Nat
    BY CoveredFinite
  <2> QED BY <2>1, <2>2
<1> QED BY <1>1, <1>2, <1>3 DEF RefundInv

\* A refund is broadcast: the run covers one more payment with its window.
LEMMA WriteCovers ==
  ASSUME RefundInv, NEW r \in Runs, NEW p \in Payments, WriteRefund(r, p)
  PROVE  RefundInv'
<1> USE DEF RefundInv
<1> DEFINE x == [refundRun[r] EXCEPT !.pc = "marking", !.sent = {p}]
<1>1. /\ refundRun[r] \in RunRecords /\ refundRun[r].pc = "writing"
      /\ p \in refundRun[r].pending /\ refundRun[r].sent = {} /\ refundRun[r].check = {}
      /\ p \in Affected[WindowOf[r]]
  BY DEF WriteRefund, RefundTyped, RunsShaped
<1>2. /\ x \in RunRecords /\ x.pc = "marking" /\ x.sent = {p} /\ x.check = {}
      /\ x.pending = refundRun[r].pending
  BY <1>1 DEF RunRecords
<1>3. refundRun' = [refundRun EXCEPT ![r] = x]
  BY DEF WriteRefund
<1> HIDE DEF x
<1>4. /\ refundRun'[r] = x
      /\ \A q \in Runs : q # r => refundRun'[q] = refundRun[q]
  BY <1>3 DEF RefundTyped
<1>5. mempool' \in [Payments -> Nat] /\ mempool'[p] = mempool[p] + 1
      /\ \A q \in Payments : q # p => mempool'[q] = mempool[q]
  BY DEF WriteRefund, RefundTyped
<1>6. UNCHANGED <<marks, refundPool, repaid, reverted, retries, careless>>
  BY DEF WriteRefund
<1>7. RefundTyped'
  BY <1>2, <1>3, <1>5, <1>6 DEF RefundTyped
<1>8. RunsShaped'
  BY <1>1, <1>2, <1>4 DEF RunsShaped
<1>9. OneAtWork' /\ NoneForgotten'
  BY <1>1, <1>2, <1>4, <1>6 DEF OneAtWork, NoneForgotten, AtWork
<1>10. \A q \in Payments : /\ Refunds(q) \in Nat /\ Refunds(q)' \in Nat
                           /\ q # p => Refunds(q)' = Refunds(q)
                           /\ q = p => Refunds(q)' = Refunds(q) + 1
  BY <1>5, <1>6 DEF Refunds, RefundTyped
<1>11. MarksArePaid'
  <2>1. \A w, y : PayerPaid(w, y) => PayerPaid(w, y)'
    <3> SUFFICES ASSUME NEW w, NEW y, PayerPaid(w, y), ~reverted
                 PROVE  PayerPaid(w, y)'
      BY <1>6 DEF PayerPaid
    <3>1. PICK q \in Affected[w] : Payer[q] = y /\ Refunds(q) > 0
      BY DEF PayerPaid
    <3>2. CASE q \in Payments
      BY <1>10, <3>1, <3>2 DEF PayerPaid
    <3>3. CASE q \notin Payments
      BY <1>3, <1>6, <3>1, <3>3 DEF PayerPaid, Refunds, WriteRefund, RefundTyped
    <3> QED BY <3>2, <3>3
  <2>2. Refunds(p)' > 0
    BY <1>10
  <2>3. PayerPaid(WindowOf[r], Payer[p])'
    BY <1>1, <2>2 DEF PayerPaid
  <2>4. ASSUME NEW q \in Runs, AtWork(q)', NEW s \in refundRun'[q].sent
        PROVE  PayerPaid(WindowOf[q], Payer[s])'
    BY <1>2, <1>4, <2>1, <2>3, <2>4 DEF MarksArePaid, AtWork
  <2>5. ASSUME NEW q \in Runs, NEW s \in Affected[WindowOf[q]],
               <<WindowOf[q], Payer[s]>> \in marks'
        PROVE  PayerPaid(WindowOf[q], Payer[s])'
    BY <1>6, <2>1, <2>5 DEF MarksArePaid
  <2> QED BY <2>4, <2>5 DEF MarksArePaid
<1>12. CoveredOnce'
  <2> SUFFICES ASSUME ~careless, NEW q \in Payments
               PROVE  Refunds(q)' <= Cardinality(CoveredBy(q)')
    BY <1>6 DEF CoveredOnce
  <2> DEFINE w == WindowOf[r]
  <2>1. \A s \in Runs : AtWork(s) /\ WindowOf[s] = w => s = r
    BY <1>1 DEF OneAtWork, AtWork
  <2>2. \A v, s : ToSend(v, s)' => ToSend(v, s)
    BY <1>1, <1>2, <1>4 DEF ToSend, AtWork
  <2>3. \A v, s : JustSent(v, s) => JustSent(v, s)'
    BY <1>1, <1>4 DEF JustSent, AtWork
  <2>4. CoveredBy(q) \subseteq CoveredBy(q)'
    BY <1>6, <2>2, <2>3 DEF CoveredBy, WindowsOf
  <2>5. CoveredBy(q)' \subseteq WindowsOf(q) /\ IsFiniteSet(WindowsOf(q))
    BY WindowsFinite DEF CoveredBy, WindowsOf
  <2>6. IsFiniteSet(CoveredBy(q)') /\ Cardinality(CoveredBy(q)') \in Nat
    BY <2>5, FS_Subset, FS_CardinalityType
  <2>7. Cardinality(CoveredBy(q)) <= Cardinality(CoveredBy(q)') /\ Cardinality(CoveredBy(q)) \in Nat
    BY <2>4, <2>6, CoveredFinite, FS_Subset
  <2>8. Refunds(q) <= Cardinality(CoveredBy(q))
    BY DEF CoveredOnce
  <2>9. CASE q # p
    BY <1>10, <2>6, <2>7, <2>8, <2>9
  <2>10. CASE q = p
    <3>1. w \in WindowsOf(p)
      BY <1>1 DEF WindowsOf
    <3>2. w \notin CoveredBy(p)
      BY <1>1 DEF CoveredBy, ToSend, AtWork
    <3>3. w \in CoveredBy(p)'
      <4>1. JustSent(w, p)'
        BY <1>2, <1>4 DEF JustSent, AtWork
      <4>2. ~ToSend(w, p)'
        BY <1>2, <1>4, <2>1 DEF ToSend, AtWork
      <4> QED BY <3>1, <4>1, <4>2 DEF CoveredBy, WindowsOf
    <3>4. CoveredBy(p) \cup {w} \subseteq CoveredBy(p)'
      BY <2>4, <2>10, <3>3
    <3>5. Cardinality(CoveredBy(p) \cup {w}) = Cardinality(CoveredBy(p)) + 1
      BY <3>2, CoveredFinite, FS_AddElement
    <3>6. Cardinality(CoveredBy(p) \cup {w}) <= Cardinality(CoveredBy(p)')
      BY <2>6, <2>10, <3>4, FS_Subset
    <3> QED BY <1>10, <2>6, <2>7, <2>8, <2>10, <3>5, <3>6
  <2> QED BY <2>9, <2>10
<1> QED BY <1>7, <1>8, <1>9, <1>11, <1>12

\* A refund is mined: what was on its way is paid, or reverts.
LEMMA MinedCovers ==
  ASSUME RefundInv, NEW p \in Payments, RefundMined(p)
  PROVE  RefundInv'
<1> USE DEF RefundInv
<1>1. /\ mempool[p] > 0 /\ mempool' = [mempool EXCEPT ![p] = mempool[p] - 1]
      /\ UNCHANGED <<refundRun, marks, retries, careless>>
      /\ \/ refundPool > 0 /\ refundPool' = refundPool - 1 /\ reverted' = reverted
            /\ repaid' = [repaid EXCEPT ![p] = repaid[p] + 1]
         \/ reverted' = TRUE /\ UNCHANGED <<refundPool, repaid>>
  BY DEF RefundMined
<1>2. mempool[p] \in Nat /\ repaid[p] \in Nat /\ refundPool \in Nat
  BY DEF RefundTyped
<1>3. mempool' \in [Payments -> Nat] /\ repaid' \in [Payments -> Nat]
  BY <1>1, <1>2 DEF RefundTyped
<1>a. refundPool' \in Nat /\ reverted' \in BOOLEAN
  <2>1. refundPool' \in Nat
    BY <1>1, <1>2
  <2>2. reverted' = reverted \/ reverted' = TRUE
    BY <1>1
  <2> QED BY <2>1, <2>2 DEF RefundTyped
<1>4. RefundTyped'
  BY <1>1, <1>3, <1>a DEF RefundTyped
<1>5. \A q \in Payments : Refunds(q)' <= Refunds(q) /\ (reverted' \/ Refunds(q)' = Refunds(q))
  <2> SUFFICES ASSUME NEW q \in Payments
               PROVE  Refunds(q)' <= Refunds(q) /\ (reverted' \/ Refunds(q)' = Refunds(q))
    OBVIOUS
  <2>1. CASE q = p
    BY <1>1, <1>2, <2>1 DEF Refunds, RefundTyped
  <2>2. CASE q # p
    BY <1>1, <2>2 DEF Refunds, RefundTyped
  <2> QED BY <2>1, <2>2
<1>6. \A q : CoveredBy(q)' = CoveredBy(q)
  BY <1>1 DEF CoveredBy, JustSent, ToSend, AtWork, WindowsOf
<1>7. CoveredOnce'
  BY <1>1, <1>3, <1>5, <1>6, CoverKept, CoveredFinite
<1>8. RunsShaped' /\ OneAtWork' /\ NoneForgotten'
  BY <1>1 DEF RunsShaped, OneAtWork, NoneForgotten, AtWork
<1>9. MarksArePaid'
  <2>1. ASSUME NEW r \in Runs, NEW y, PayerPaid(WindowOf[r], y)
        PROVE  PayerPaid(WindowOf[r], y)'
    BY <1>1, <1>5, <2>1, RefundAssumption DEF PayerPaid
  <2> QED BY <1>1, <2>1 DEF MarksArePaid, AtWork
<1> QED BY <1>4, <1>7, <1>8, <1>9

LEMMA RefundStep ==
  ASSUME RefundInv, [RefundNext]_refundVars
  PROVE  RefundInv'
<1> USE DEF RefundInv
<1>0. /\ \A r \in Runs : refundRun[r] \in RunRecords /\ Affected[WindowOf[r]] \in SUBSET Payments
      /\ careless \in BOOLEAN
  BY RefundAssumption DEF RefundTyped
<1>1. ASSUME NEW r \in Runs, RefundStarts(r) PROVE RefundInv'
  <2> DEFINE A == Affected[WindowOf[r]]
             x == IF A = {} THEN [RunIdle EXCEPT !.pc = "done"]
                  ELSE [RunIdle EXCEPT !.pc = "checking", !.check = A]
  <2>1. /\ refundRun[r].pc = "idle" /\ refundRun' = [refundRun EXCEPT ![r] = x]
        /\ careless' = (careless \/ AnotherAtWork(r))
        /\ UNCHANGED <<marks, mempool, refundPool, repaid, reverted>>
    BY <1>1 DEF RefundStarts
  <2>2. /\ x \in RunRecords /\ x.pending = {} /\ x.sent = {}
        /\ x.pc = IF A = {} THEN "done" ELSE "checking"
        /\ x.check = A
    <3>1. A \in SUBSET Payments
      BY <1>0
    <3>2. CASE A = {}
      BY <3>2 DEF RunRecords, RunIdle
    <3>3. CASE A # {}
      BY <3>1, <3>3 DEF RunRecords, RunIdle
    <3> QED BY <3>2, <3>3
  <2> HIDE DEF x
  <2>3. careless' \in BOOLEAN
    BY <1>0, <2>1 DEF AnotherAtWork
  <2>4. RunTo(r, x)
    BY <2>1, <2>2, <2>3 DEF RunTo, AtWork
  <2>5. Shaped(r, x) /\ StaysMarked(r, x)
    BY <2>2 DEF Shaped, StaysMarked
  <2>6. AloneAt(r, x)
    BY <2>1, <2>2 DEF AloneAt, AnotherAtWork, AtWork
  <2> QED BY <2>4, <2>5, <2>6, RunMoves
<1>2. ASSUME NEW r \in Runs, NEW p \in Payments, CheckBuyer(r, p) PROVE RefundInv'
  <2> DEFINE check == refundRun[r].check \ {p}
             waiting == refundRun[r].pending \cup (IF IsRefunded(r, p) THEN {} ELSE {p})
             to == CASE check # {} -> "checking"
                     [] check = {} /\ waiting = {} -> "done"
                     [] OTHER -> "bounding"
             x == [refundRun[r] EXCEPT !.check = check, !.pending = waiting, !.pc = to]
  <2>1. /\ refundRun[r].pc = "checking" /\ p \in refundRun[r].check
        /\ refundRun' = [refundRun EXCEPT ![r] = x]
        /\ UNCHANGED <<marks, mempool, refundPool, repaid, reverted, careless>>
    BY <1>2 DEF CheckBuyer
  <2>2. /\ to \in {"checking", "done", "bounding"}
        /\ to # "checking" => check = {}
        /\ to = "done" => waiting = {}
    OBVIOUS
  <2>3. /\ refundRun[r].sent = {}
        /\ refundRun[r].check \cup refundRun[r].pending \subseteq Affected[WindowOf[r]]
    BY <2>1 DEF RunsShaped
  <2>4. check \in SUBSET Payments /\ waiting \in SUBSET Payments
    BY <1>0 DEF RunRecords
  <2>5. \A s \in waiting : \/ s \in refundRun[r].pending
                           \/ <<WindowOf[r], Payer[s]>> \notin marks
    BY DEF IsRefunded
  <2>6. \A s \in Affected[WindowOf[r]] :
          s \in check \cup waiting \/ <<WindowOf[r], Payer[s]>> \in marks
    BY <2>1 DEF NoneForgotten, AtWork, IsRefunded
  <2>a. check \cup waiting \subseteq refundRun[r].check \cup refundRun[r].pending
    BY <2>1
  <2> HIDE DEF check, waiting, to
  <2>7. /\ x \in RunRecords /\ x.check = check /\ x.pending = waiting /\ x.pc = to
        /\ x.sent = {}
    BY <1>0, <2>2, <2>3, <2>4 DEF RunRecords
  <2> HIDE DEF x
  <2>8. RunTo(r, x)
    BY <1>0, <2>1, <2>3, <2>7 DEF RunTo
  <2>9. Shaped(r, x)
    BY <2>2, <2>3, <2>7, <2>a DEF Shaped
  <2>10. StaysMarked(r, x)
    BY <2>1, <2>6, <2>7 DEF StaysMarked
  <2>11. AloneAt(r, x)
    BY <2>1, <2>3, <2>5, <2>7 DEF AloneAt, AtWork, OneAtWork
  <2> QED BY <2>8, <2>9, <2>10, <2>11, RunMoves
<1>3. ASSUME NEW r \in Runs, BoundByPool(r) PROVE RefundInv'
  <2> DEFINE to == IF Cardinality(refundRun[r].pending) <= refundPool THEN "writing" ELSE "failed"
             x == [refundRun[r] EXCEPT !.pc = to]
  <2>1. /\ refundRun[r].pc = "bounding" /\ refundRun' = [refundRun EXCEPT ![r] = x]
        /\ UNCHANGED <<marks, mempool, refundPool, repaid, reverted, careless>>
    BY <1>3 DEF BoundByPool
  <2>2. to \in {"writing", "failed"}
    OBVIOUS
  <2> HIDE DEF to
  <2>3. /\ x \in RunRecords /\ x.pc = to /\ x.check = refundRun[r].check
        /\ x.pending = refundRun[r].pending /\ x.sent = refundRun[r].sent
    BY <1>0, <2>2 DEF RunRecords
  <2> HIDE DEF x
  <2>4. refundRun[r].sent = {}
    BY <2>1 DEF RunsShaped
  <2>5. RunTo(r, x)
    BY <1>0, <2>1, <2>3, <2>4 DEF RunTo
  <2>6. Shaped(r, x)
    BY <2>1, <2>2, <2>3, <2>4 DEF Shaped, RunsShaped
  <2>7. StaysMarked(r, x)
    BY <2>1, <2>3 DEF StaysMarked, NoneForgotten, AtWork
  <2>8. AloneAt(r, x)
    BY <2>1, <2>3, <2>4 DEF AloneAt, AtWork, OneAtWork
  <2> QED BY <2>5, <2>6, <2>7, <2>8, RunMoves
<1>4. ASSUME NEW r \in Runs, NEW p \in Payments, WriteRefund(r, p) PROVE RefundInv'
  BY <1>4, WriteCovers
<1>5. ASSUME NEW r \in Runs, MarkRefunded(r) PROVE RefundInv'
  <2> DEFINE left == refundRun[r].pending \ refundRun[r].sent
             to == IF left = {} THEN "done" ELSE "writing"
             x == [refundRun[r] EXCEPT !.pending = left, !.sent = {}, !.pc = to]
  <2>1. /\ refundRun[r].pc = "marking" /\ refundRun' = [refundRun EXCEPT ![r] = x]
        /\ marks' = marks \cup {<<WindowOf[r], Payer[p]>> : p \in refundRun[r].sent}
        /\ UNCHANGED <<mempool, refundPool, repaid, reverted, careless>>
    BY <1>5 DEF MarkRefunded
  <2>2. to \in {"writing", "done"} /\ (to = "done" => left = {})
    OBVIOUS
  <2>3. left \in SUBSET Payments
    BY <1>0 DEF RunRecords
  <2>a. left = refundRun[r].pending \ refundRun[r].sent
    OBVIOUS
  <2> HIDE DEF to, left
  <2>4. x \in RunRecords /\ x.pc = to /\ x.check = refundRun[r].check
        /\ x.pending = left /\ x.sent = {}
    BY <1>0, <2>2, <2>3 DEF RunRecords
  <2> HIDE DEF x
  <2>5. RunTo(r, x)
    BY <1>0, <2>1, <2>4 DEF RunTo, AtWork
  <2>6. Shaped(r, x)
    BY <2>1, <2>2, <2>4, <2>a DEF Shaped, RunsShaped
  <2>7. StaysMarked(r, x)
    BY <2>1, <2>4, <2>a DEF StaysMarked, NoneForgotten, AtWork
  <2>8. AloneAt(r, x)
    BY <2>1, <2>4, <2>a DEF AloneAt, AtWork, OneAtWork
  <2> QED BY <2>5, <2>6, <2>7, <2>8, RunMoves
<1>6. ASSUME NEW r \in Runs, RefundThrows(r) PROVE RefundInv'
  <2> DEFINE x == [refundRun[r] EXCEPT !.pc = "failed"]
  <2>1. /\ AtWork(r) /\ refundRun' = [refundRun EXCEPT ![r] = x]
        /\ careless' = (careless \/ refundRun[r].pc = "marking")
        /\ UNCHANGED <<marks, mempool, refundPool, repaid, reverted>>
    BY <1>6 DEF RefundThrows, AtWork
  <2>2. /\ x \in RunRecords /\ x.pc = "failed" /\ x.check = refundRun[r].check
        /\ x.pending = refundRun[r].pending /\ x.sent = refundRun[r].sent
    BY <1>0 DEF RunRecords
  <2> HIDE DEF x
  <2>3. refundRun[r].pc # "marking" => refundRun[r].sent = {}
    BY <1>0, <2>1 DEF RunsShaped, AtWork, RunRecords
  <2>4. RunTo(r, x)
    BY <1>0, <2>1, <2>2, <2>3 DEF RunTo
  <2>5. Shaped(r, x) /\ StaysMarked(r, x) /\ AloneAt(r, x)
    BY <2>2 DEF Shaped, RunsShaped, StaysMarked, AloneAt
  <2> QED BY <2>4, <2>5, RunMoves
<1>7. ASSUME NEW r \in Runs, RefundRetried(r) PROVE RefundInv'
  <2>1. /\ ~AtWork(r) /\ refundRun' = [refundRun EXCEPT ![r] = RunIdle]
        /\ UNCHANGED <<marks, mempool, refundPool, repaid, reverted, careless>>
    BY <1>7 DEF RefundRetried, AtWork
  <2>2. RunIdle \in RunRecords
    BY DEF RunIdle, RunRecords
  <2>3. RunTo(r, RunIdle)
    BY <1>0, <2>1, <2>2 DEF RunTo
  <2>4. Shaped(r, RunIdle) /\ StaysMarked(r, RunIdle) /\ AloneAt(r, RunIdle)
    BY DEF Shaped, StaysMarked, AloneAt, RunIdle
  <2> QED BY <2>3, <2>4, RunMoves
<1>8. ASSUME NEW p \in Payments, RefundMined(p) PROVE RefundInv'
  BY <1>8, MinedCovers
<1>9. CASE UNCHANGED refundVars
  <2>1. \A p : CoveredBy(p)' = CoveredBy(p) /\ Refunds(p)' = Refunds(p)
    BY <1>9 DEF refundVars, CoveredBy, WindowsOf, JustSent, ToSend, AtWork, Refunds
  <2>2. RefundTyped' /\ RunsShaped' /\ OneAtWork' /\ NoneForgotten'
    BY <1>9 DEF refundVars, RefundTyped, RunsShaped, OneAtWork, NoneForgotten, AtWork
  <2>3. CoveredOnce' /\ MarksArePaid'
    BY <1>9, <2>1 DEF refundVars, CoveredOnce, MarksArePaid, PayerPaid, AtWork
  <2> QED BY <2>2, <2>3
<1> QED BY <1>1, <1>2, <1>3, <1>4, <1>5, <1>6, <1>7, <1>8, <1>9 DEF RefundNext

\* Whatever throws and is retried, a payment is refunded at most once per window
\* that holds it, and a run that ends has paid each of its payers something or is
\* about to, as long as runs of a window do not overlap and none stops between a
\* broadcast and its mark (executeRefund); for any payments, windows and runs.
THEOREM RefundsAreSettled == RefundSpec => []RefundsSettled
<1>1. RefundInv /\ [RefundNext]_refundVars => RefundInv'
  BY RefundStep
<1>2. ASSUME RefundInv PROVE RefundsSettled
  <2> USE <1>2 DEF RefundInv
  <2> SUFFICES ASSUME ~careless PROVE RefundsSettled
    BY DEF RefundsSettled
  <2>1. ASSUME NEW p \in Payments PROVE Refunds(p) <= Cardinality(WindowsOf(p))
    <3>1. CoveredBy(p) \subseteq WindowsOf(p)
      BY DEF CoveredBy
    <3>2. /\ Cardinality(CoveredBy(p)) <= Cardinality(WindowsOf(p))
          /\ Cardinality(CoveredBy(p)) \in Nat /\ Cardinality(WindowsOf(p)) \in Nat
      BY <3>1, WindowsFinite, CoveredFinite, FS_Subset, FS_CardinalityType
    <3>3. Refunds(p) \in Nat /\ Refunds(p) <= Cardinality(CoveredBy(p))
      BY DEF Refunds, RefundTyped, CoveredOnce
    <3> QED BY <3>2, <3>3
  <2>2. ASSUME NEW r \in Runs, refundRun[r].pc = "done", NEW p \in Affected[WindowOf[r]]
        PROVE  PayerPaid(WindowOf[r], Payer[p])
    BY <2>2 DEF NoneForgotten, RunsShaped, MarksArePaid
  <2> QED BY <2>1, <2>2 DEF RefundsSettled, PayerPaid
<1>3. RefundInv => RefundsSettled
  BY <1>2
<1> QED BY RefundStart, <1>1, <1>3, PTL DEF RefundSpec

-----------------------------------------------------------------------------
(***************************************************************************)
(* The reservations of a buyer.  While the lock does not lapse, one verify *)
(* is inside it; what it has read covers every lock that was granted, for  *)
(* others may be dropped meanwhile and none added; and what it prunes or   *)
(* has yet to write concerns no granted lock.                              *)
(***************************************************************************)
ResRecords == [pc : Positions, seen : SUBSET ResNonces, expired : SUBSET ResNonces,
               sum : 0..Cardinality(ResNonces), ttl : 0..ReserveTtl]

GrantedLocks == {n \in granted : Locked(n)}

ResTyped == ReservationsTypeOK /\ reserving \in [Verifies -> ResRecords]

OneInside == \A v \in Verifies : reserving[v].pc \notin {"idle", "done"} => buyerHeldBy = v

\* Only Redis takes more than one step, and its cap key outlives the lock.
Indexed ==
  /\ adapter = "redis" =>
       \A n \in GrantedLocks : n \in indexed /\ capUntil[n] >= lockUntil[n]
  /\ \A v \in Verifies :
       reserving[v].pc \notin {"idle", "members", "exists", "done"} => adapter = "redis"

\* Where a verify is in the section tells what it knows.
Knows(v) == LET r == reserving[v]  n == ResNonceOf[v] IN
  /\ r.pc = "caps" => GrantedLocks \subseteq r.seen
  /\ r.pc = "prune" => GrantedLocks \cap r.expired = {}
  /\ r.pc \in {"prune", "exists", "set"} => r.sum >= Cardinality(GrantedLocks)
  /\ r.pc \in {"set", "index", "cap", "row"} => r.ttl >= 1
  /\ r.pc \in {"index", "cap", "row"} => lockUntil[n] <= resNow + r.ttl
  /\ r.pc \in {"cap", "row"} => n \in indexed \/ ~Locked(n)
  /\ r.pc = "row" => capUntil[n] >= lockUntil[n]
  /\ r.pc \in {"index", "cap", "row"} => n \notin granted

KnowsInside == \A v \in Verifies : Knows(v)

ResInv == ResTyped /\ OneInside /\ Indexed /\ KnowsInside

LEMMA ResNoncesFinite ==
  /\ IsFiniteSet(ResNonces) /\ Cardinality(ResNonces) \in Nat
  /\ \A c \in Verifies \cup Finishers : ResNonceOf[c] \in ResNonces
  /\ \A S \in SUBSET ResNonces :
       /\ IsFiniteSet(S) /\ Cardinality(S) \in 0..Cardinality(ResNonces)
       /\ \A T \in SUBSET S : Cardinality(T) <= Cardinality(S)
<1>1. IsFiniteSet(ResNonces)
  <2> DEFINE S == Verifies \cup Finishers
             f == [c \in S |-> ResNonceOf[c]]
  <2>1. f \in Surjection(S, ResNonces)
    BY DEF Surjection, ResNonces
  <2>2. IsFiniteSet(S)
    BY FS_Union, ReservationsAssumption
  <2> QED BY <2>1, <2>2, FS_Surjection
<1>2. \A c \in Verifies \cup Finishers : ResNonceOf[c] \in ResNonces
  BY DEF ResNonces
<1>3. ASSUME NEW S \in SUBSET ResNonces
      PROVE  /\ IsFiniteSet(S) /\ Cardinality(S) \in 0..Cardinality(ResNonces)
             /\ \A T \in SUBSET S : Cardinality(T) <= Cardinality(S)
  <2>1. IsFiniteSet(S) /\ Cardinality(S) <= Cardinality(ResNonces)
    BY <1>1, FS_Subset
  <2>2. \A T \in SUBSET S : Cardinality(T) <= Cardinality(S)
    BY <2>1, FS_Subset
  <2>3. Cardinality(S) \in Nat /\ Cardinality(ResNonces) \in Nat
    BY <1>1, <2>1, FS_CardinalityType
  <2> QED BY <2>1, <2>2, <2>3
<1> QED BY <1>1, <1>2, <1>3, FS_CardinalityType

LEMMA ResStart == ReservationsInit => ResInv
<1> SUFFICES ASSUME ReservationsInit PROVE ResInv
  OBVIOUS
<1>1. GrantedLocks = {} /\ Cardinality(ResNonces) \in Nat
  BY ResNoncesFinite DEF GrantedLocks, ReservationsInit
<1>2. Outside \in ResRecords
  BY <1>1, ReservationsAssumption DEF Outside, ResRecords, Positions
<1>3. ReservationsTypeOK
  BY <1>1, <1>2, ReservationsAssumption
  DEF ReservationsInit, ReservationsTypeOK, Outside, Positions
<1>4. ResTyped
  BY <1>2, <1>3 DEF ResTyped, ReservationsInit
<1>5. \A v \in Verifies : reserving[v].pc = "idle"
  BY DEF ReservationsInit, Outside
<1>6. OneInside
  BY <1>5 DEF OneInside
<1>7. Indexed
  BY <1>1, <1>5 DEF Indexed
<1>8. KnowsInside
  BY <1>5 DEF KnowsInside, Knows
<1> QED BY <1>4, <1>6, <1>7, <1>8 DEF ResInv

\* A move of a verify that is inside, or enters, leaves the others outside.
InsideMove(v, x) ==
  /\ x \in ResRecords
  /\ reserving' = [reserving EXCEPT ![v] = x]
  /\ buyerHeldBy = v \/ buyerHeldBy = Nobody
  /\ buyerHeldBy' = v \/ x.pc = "done"
  /\ buyerHeldBy' \in Verifies \cup {Nobody}
  /\ adapter' = adapter /\ finishing' = finishing
  /\ x.pc \in {"idle", "members", "exists", "done"} \/ adapter = "redis"

LEMMA InsideMoves ==
  ASSUME ResInv, NEW v \in Verifies, NEW x, InsideMove(v, x)
  PROVE  /\ reserving'[v] = x /\ reserving' \in [Verifies -> ResRecords]
         /\ \A u \in Verifies : u # v => reserving'[u] = reserving[u]
                                         /\ reserving'[u].pc \in {"idle", "done"}
         /\ OneInside'
         /\ \A u \in Verifies : reserving'[u].pc \notin {"idle", "members", "exists", "done"}
                                  => adapter' = "redis"
         /\ \A u \in Verifies :
              /\ reserving'[u].pc \in Positions /\ reserving'[u].seen \subseteq ResNonces
              /\ reserving'[u].expired \subseteq ResNonces
              /\ reserving'[u].sum \in 0..Cardinality(ResNonces)
              /\ reserving'[u].ttl \in 0..ReserveTtl
<1>1. reserving \in [Verifies -> ResRecords]
  BY DEF ResInv, ResTyped
<1>2. /\ reserving'[v] = x /\ reserving' \in [Verifies -> ResRecords]
      /\ \A u \in Verifies : u # v => reserving'[u] = reserving[u]
  BY <1>1 DEF InsideMove
<1>3. \A u \in Verifies : u # v => reserving[u].pc \in {"idle", "done"}
  BY ReservationsAssumption DEF InsideMove, ResInv, OneInside
<1>4. OneInside'
  BY <1>2, <1>3 DEF OneInside, InsideMove
<1>5. \A u \in Verifies : reserving'[u].pc \notin {"idle", "members", "exists", "done"}
                            => adapter' = "redis"
  BY <1>2, <1>3 DEF InsideMove
<1>6. \A u \in Verifies :
        /\ reserving'[u].pc \in Positions /\ reserving'[u].seen \subseteq ResNonces
        /\ reserving'[u].expired \subseteq ResNonces
        /\ reserving'[u].sum \in 0..Cardinality(ResNonces)
        /\ reserving'[u].ttl \in 0..ReserveTtl
  BY <1>2 DEF ResRecords
<1> QED BY <1>2, <1>3, <1>4, <1>5, <1>6

\* A step inside that only reads, or leaves.
LEMMA ReadsInside ==
  ASSUME ResInv, NEW v \in Verifies, NEW x, InsideMove(v, x), UNCHANGED <<resNow, resKeys>>,
         granted' = granted,
         x.pc = "caps" => GrantedLocks \subseteq x.seen,
         x.pc = "prune" => GrantedLocks \cap x.expired = {},
         x.pc \in {"prune", "exists", "set"} => x.sum >= Cardinality(GrantedLocks),
         x.pc = "set" => x.ttl >= 1,
         x.pc \notin {"index", "cap", "row"}
  PROVE  ResInv'
<1>1. GrantedLocks' = GrantedLocks
  BY DEF GrantedLocks, Locked, resKeys
<1>2. ReservationsTypeOK'
  BY InsideMoves DEF ResInv, ResTyped, ReservationsTypeOK, InsideMove, resKeys
<1>3. Indexed'
  BY <1>1, InsideMoves DEF ResInv, Indexed, InsideMove, resKeys
<1>4. reserving'[v] = x /\ \A u \in Verifies : u # v => reserving'[u].pc \in {"idle", "done"}
  BY InsideMoves
<1>5. KnowsInside'
  BY <1>1, <1>4 DEF KnowsInside, Knows
<1> QED BY <1>2, <1>3, <1>5, InsideMoves DEF ResInv, ResTyped

LEMMA TurnedKeeps ==
  ASSUME ResInv, NEW v \in Verifies, reserving[v].pc \notin {"idle", "done"}, Turned(v)
  PROVE  ResInv'
<1> DEFINE x == [Outside EXCEPT !.pc = "done"]
<1>1. x \in ResRecords /\ x.pc = "done"
  BY ResNoncesFinite, ReservationsAssumption DEF Outside, ResRecords, Positions
<1>2. buyerHeldBy = v
  BY DEF ResInv, OneInside
<1> HIDE DEF x
<1>3. InsideMove(v, x)
  BY <1>1, <1>2 DEF Turned, InsideMove, LeaveExclusive, x
<1> QED BY <1>1, <1>3, ReadsInside DEF Turned

\* The steps that read the keys, or only move on.
LEMMA ReadingKeeps ==
  ASSUME ResInv, NEW v \in Verifies,
         Enter(v) \/ ReadMembers(v) \/ ReadCaps(v) \/ NoRoom(v) \/ PendingOrSpent(v)
           \/ SeenUnspent(v) \/ OutstandingInMemory(v) \/ VerifyThrows(v)
  PROVE  ResInv'
<1>1. /\ reserving \in [Verifies -> ResRecords] /\ reserving[v] \in ResRecords
      /\ granted \subseteq ResNonces /\ indexed \subseteq ResNonces
      /\ buyerHeldBy \in Verifies \cup {Nobody}
  BY DEF ResInv, ResTyped, ReservationsTypeOK
<1>2. reserving[v].pc \notin {"idle", "done"} => buyerHeldBy = v
  BY DEF ResInv, OneInside
<1>3. /\ GrantedLocks \subseteq ResNonces
      /\ IsFiniteSet(GrantedLocks) /\ Cardinality(GrantedLocks) \in 0..Cardinality(ResNonces)
  BY <1>1, ResNoncesFinite DEF GrantedLocks
<1>4. CASE Enter(v)
  <2> DEFINE x == [reserving[v] EXCEPT !.pc = "members"]
  <2>1. x \in ResRecords /\ x.pc = "members"
    BY <1>1 DEF ResRecords, Positions
  <2>2. reserving' = [reserving EXCEPT ![v] = x]
    BY <1>1, <1>4 DEF Enter, GoTo
  <2> HIDE DEF x
  <2>3. InsideMove(v, x)
    BY <1>4, <2>1, <2>2 DEF Enter, InsideMove
  <2> QED BY <1>4, <2>1, <2>3, ReadsInside DEF Enter
<1>5. CASE ReadMembers(v)
  <2> DEFINE to == IF indexed = {} THEN "exists" ELSE "caps"
             x == [reserving[v] EXCEPT !.seen = indexed, !.pc = to]
  <2>1. x \in ResRecords
    BY <1>1 DEF ResRecords, Positions
  <2>2. x.pc = to /\ x.seen = indexed /\ x.sum = reserving[v].sum /\ x.sum \in Nat
    BY <1>1 DEF ResRecords
  <2>3. reserving' = [reserving EXCEPT ![v] = x]
    BY <1>1, <1>5 DEF ReadMembers
  <2> HIDE DEF x
  <2>4. InsideMove(v, x)
    BY <1>2, <1>5, <2>1, <2>2, <2>3 DEF ReadMembers, InsideMove, At
  <2>5. GrantedLocks \subseteq indexed
    BY <1>5 DEF ReadMembers, ResInv, Indexed
  <2>6. to = "exists" => Cardinality(GrantedLocks) = 0
    BY <2>5, FS_EmptySet
  <2> QED BY <1>5, <2>2, <2>4, <2>5, <2>6, ReadsInside DEF ReadMembers
<1>6. CASE ReadCaps(v)
  <2> DEFINE r == reserving[v]
             live == {n \in r.seen : capUntil[n] > resNow}
             gone == r.seen \ live
             to == IF gone = {} THEN "exists" ELSE "prune"
             x == [r EXCEPT !.sum = Cardinality(live), !.seen = {}, !.expired = gone, !.pc = to]
  <2>1. live \in SUBSET ResNonces /\ gone \in SUBSET ResNonces
        /\ Cardinality(live) \in 0..Cardinality(ResNonces)
    <3>1. r.seen \subseteq ResNonces
      BY <1>1 DEF ResRecords
    <3> QED BY <3>1, ResNoncesFinite
  <2>2. adapter = "redis" /\ r.pc = "caps"
    BY <1>6 DEF ReadCaps, At, ResInv, Indexed
  <2>3. GrantedLocks \subseteq live
    <3>1. GrantedLocks \subseteq r.seen
      BY <2>2 DEF ResInv, KnowsInside, Knows
    <3>2. \A n \in GrantedLocks : capUntil[n] >= lockUntil[n] /\ lockUntil[n] > resNow
      BY <2>2 DEF ResInv, Indexed, GrantedLocks, Locked
    <3>3. \A n \in GrantedLocks : capUntil[n] \in Nat /\ lockUntil[n] \in Nat /\ resNow \in Nat
      BY <1>3, ReservationsAssumption DEF ResInv, ResTyped, ReservationsTypeOK
    <3> QED BY <3>1, <3>2, <3>3
  <2>4. Cardinality(live) >= Cardinality(GrantedLocks)
    BY <2>1, <2>3, ResNoncesFinite
  <2>5. GrantedLocks \cap gone = {}
    BY <2>3
  <2>6. reserving' = [reserving EXCEPT ![v] = x]
    BY <1>1, <1>6 DEF ReadCaps
  <2>7. UNCHANGED <<adapter, resNow, resKeys, buyerHeldBy, finishing, granted>>
    BY <1>6 DEF ReadCaps
  <2> HIDE DEF live, gone, r
  <2>8. x \in ResRecords
    <3> DEFINE y == [r EXCEPT !.sum = Cardinality(live), !.seen = {}]
    <3>1. y \in ResRecords
      BY <1>1, <2>1 DEF ResRecords, r
    <3>2. x = [y EXCEPT !.expired = gone, !.pc = to]
      OBVIOUS
    <3> HIDE DEF x, y
    <3> QED BY <2>1, <3>1, <3>2 DEF ResRecords, Positions
  <2>9. x.sum = Cardinality(live) /\ x.expired = gone /\ x.pc = to
    BY <1>1 DEF ResRecords, r
  <2> HIDE DEF x
  <2>10. InsideMove(v, x)
    BY <1>2, <2>2, <2>6, <2>7, <2>8, <2>9 DEF InsideMove, r
  <2> QED BY <2>4, <2>5, <2>7, <2>9, <2>10, ReadsInside
<1>7. CASE NoRoom(v) \/ PendingOrSpent(v) \/ VerifyThrows(v)
  <2>1. Turned(v) /\ reserving[v].pc \notin {"idle", "done"}
    BY <1>7 DEF NoRoom, PendingOrSpent, VerifyThrows, At
  <2> QED BY <2>1, TurnedKeeps
<1>8. CASE SeenUnspent(v)
  <2>1. PICK left \in 1..ReserveTtl :
          reserving' = [reserving EXCEPT ![v].ttl = left, ![v].pc = "set"]
    BY <1>8 DEF SeenUnspent
  <2> DEFINE x == [reserving[v] EXCEPT !.ttl = left, !.pc = "set"]
  <2>2. x \in ResRecords
    <3>1. left \in 0..ReserveTtl
      BY <2>1, ReservationsAssumption
    <3> QED BY <1>1, <3>1 DEF ResRecords, Positions
  <2>3. x.pc = "set" /\ x.ttl = left /\ x.sum = reserving[v].sum /\ left >= 1
    BY <1>1 DEF ResRecords
  <2>4. reserving' = [reserving EXCEPT ![v] = x]
    BY <1>1, <2>1
  <2> HIDE DEF x
  <2>5. InsideMove(v, x)
    BY <1>2, <1>8, <2>2, <2>3, <2>4 DEF SeenUnspent, InsideMove, At
  <2>6. x.sum >= Cardinality(GrantedLocks)
    BY <1>8, <2>3 DEF SeenUnspent, At, ResInv, KnowsInside, Knows
  <2> QED BY <1>8, <2>3, <2>5, <2>6, ReadsInside DEF SeenUnspent
<1>9. CASE OutstandingInMemory(v)
  <2> DEFINE all == {n \in ResNonces : Locked(n)}
             x == [reserving[v] EXCEPT !.sum = Cardinality(all), !.pc = "exists"]
  <2>1. Cardinality(all) \in 0..Cardinality(ResNonces) /\ all \in SUBSET ResNonces
        /\ Cardinality(all) >= Cardinality(GrantedLocks)
    <3>1. all \in SUBSET ResNonces /\ GrantedLocks \subseteq all
      BY <1>3 DEF GrantedLocks
    <3> HIDE DEF all
    <3> QED BY <3>1, ResNoncesFinite
  <2>2. reserving' = [reserving EXCEPT ![v] = x]
    BY <1>1, <1>9 DEF OutstandingInMemory
  <2> HIDE DEF all
  <2>3. x \in ResRecords
    BY <1>1, <2>1 DEF ResRecords, Positions
  <2>4. x.pc = "exists" /\ x.sum = Cardinality(all)
    BY <1>1 DEF ResRecords
  <2> HIDE DEF x
  <2>5. InsideMove(v, x)
    BY <1>2, <1>9, <2>2, <2>3, <2>4 DEF OutstandingInMemory, InsideMove, At
  <2> QED BY <1>9, <2>1, <2>4, <2>5, ReadsInside DEF OutstandingInMemory
<1> QED BY <1>4, <1>5, <1>6, <1>7, <1>8, <1>9

\* The steps of a reserve that write keys.
LEMMA WritingKeeps ==
  ASSUME ResInv, NEW v \in Verifies,
         Prune(v) \/ SetLock(v) \/ AddToIndex(v) \/ SetCap(v) \/ WriteRow(v)
           \/ ReserveInMemory(v)
  PROVE  ResInv'
<1> DEFINE n == ResNonceOf[v]
           r == reserving[v]
<1>0. n \in ResNonces
  BY ResNoncesFinite
<1>1. /\ reserving \in [Verifies -> ResRecords] /\ r \in ResRecords
      /\ granted \subseteq ResNonces /\ indexed \subseteq ResNonces
      /\ spentMarks \subseteq ResNonces
      /\ buyerHeldBy \in Verifies \cup {Nobody}
      /\ adapter \in {"redis", "memory"} /\ resNow \in 0..MaxResTime /\ resNow \in Nat
      /\ lockUntil \in [ResNonces -> 0..(MaxResTime + ReserveTtl)]
      /\ capUntil \in [ResNonces -> 0..(MaxResTime + ReserveTtl)]
      /\ finishing \in [Finishers -> {"idle", "known", "unknown", "done"}]
  BY ReservationsAssumption DEF ResInv, ResTyped, ReservationsTypeOK
<1>2. r.pc \notin {"idle", "done"} => buyerHeldBy = v
  BY DEF ResInv, OneInside
<1>3. Knows(v) /\ Indexed
  BY DEF ResInv, KnowsInside
<1>4. \A m \in ResNonces : lockUntil[m] \in Nat /\ capUntil[m] \in Nat
  BY <1>1
<1>5. r.ttl \in 0..ReserveTtl /\ r.ttl \in Nat
  BY <1>1, ReservationsAssumption DEF ResRecords
\* What is left to show of such a step.
<1>k. ASSUME NEW x, InsideMove(v, x),
             lockUntil' \in [ResNonces -> 0..(MaxResTime + ReserveTtl)],
             capUntil' \in [ResNonces -> 0..(MaxResTime + ReserveTtl)],
             indexed' \subseteq ResNonces, spentMarks' = spentMarks,
             granted' \subseteq ResNonces, resNow' = resNow,
             adapter = "redis" =>
               \A m \in GrantedLocks' : m \in indexed' /\ capUntil'[m] >= lockUntil'[m],
             Knows(v)'
      PROVE  ResInv'
  <2>1. ReservationsTypeOK'
    BY <1>1, <1>k, InsideMoves DEF ReservationsTypeOK, InsideMove
  <2>2. Indexed'
    BY <1>k, InsideMoves DEF Indexed, InsideMove
  <2>3. KnowsInside'
    <3>1. \A u \in Verifies : u # v => reserving'[u].pc \in {"idle", "done"}
      BY <1>k, InsideMoves
    <3> QED BY <1>k, <3>1 DEF KnowsInside, Knows
  <2> QED BY <1>k, <2>1, <2>2, <2>3, InsideMoves DEF ResInv, ResTyped
<1>6. CASE Prune(v)
  <2> DEFINE x == [r EXCEPT !.expired = {}, !.pc = "exists"]
  <2>1. x \in ResRecords
    BY <1>1 DEF ResRecords, Positions
  <2>2. x.pc = "exists" /\ x.sum = r.sum
    BY <1>1 DEF ResRecords
  <2>3. reserving' = [reserving EXCEPT ![v] = x] /\ r.pc = "prune"
    BY <1>1, <1>6 DEF Prune, At
  <2> HIDE DEF x
  <2>4. InsideMove(v, x) /\ reserving'[v] = x
    BY <1>1, <1>2, <1>6, <2>1, <2>2, <2>3 DEF Prune, InsideMove
  <2>5. GrantedLocks' = GrantedLocks
    BY <1>6 DEF Prune, GrantedLocks, Locked
  <2>6. Knows(v)'
    BY <1>3, <2>2, <2>3, <2>4, <2>5 DEF Knows
  <2>7. GrantedLocks \cap r.expired = {}
    BY <1>3, <2>3 DEF Knows
  <2> QED BY <1>1, <1>3, <1>6, <1>k, <2>4, <2>5, <2>6, <2>7 DEF Prune, Indexed
<1>7. CASE SetLock(v)
  <2>1. r.pc = "set"
    BY <1>7 DEF SetLock, At
  <2>2. CASE Locked(n)
    BY <1>7, <2>1, <2>2, TurnedKeeps DEF SetLock
  <2>3. CASE ~Locked(n)
    <3> DEFINE x == [r EXCEPT !.sum = 0, !.pc = "index"]
    <3>1. x \in ResRecords
      <4>1. 0 \in 0..Cardinality(ResNonces) /\ "index" \in Positions
        BY ResNoncesFinite DEF Positions
      <4> QED BY <1>1, <4>1 DEF ResRecords
    <3>2. x.pc = "index" /\ x.ttl = r.ttl
      BY <1>1 DEF ResRecords
    <3>3. reserving' = [reserving EXCEPT ![v] = x]
      BY <1>1, <1>7, <2>3 DEF SetLock
    <3>a. /\ lockUntil' = [lockUntil EXCEPT ![n] = resNow + r.ttl]
          /\ granted' = granted \ {n}
          /\ UNCHANGED <<adapter, resNow, indexed, capUntil, spentMarks,
                         buyerHeldBy, finishing>>
      BY <1>7, <2>3 DEF SetLock
    <3>b. adapter = "redis"
      BY <1>3, <2>1 DEF Indexed
    <3> HIDE DEF x
    <3>4. InsideMove(v, x) /\ reserving'[v] = x
      BY <1>1, <1>2, <2>1, <3>1, <3>2, <3>3, <3>a, <3>b DEF InsideMove
    <3>5. /\ lockUntil' \in [ResNonces -> 0..(MaxResTime + ReserveTtl)]
          /\ lockUntil'[n] = resNow + r.ttl
          /\ \A m \in ResNonces : m # n => lockUntil'[m] = lockUntil[m]
      BY <1>0, <1>1, <1>5, <3>a, ReservationsAssumption
    <3>6. \A m \in GrantedLocks' : m # n /\ m \in GrantedLocks
      BY <1>1, <3>5, <3>a DEF GrantedLocks, Locked
    <3>7. Knows(v)'
      BY <1>1, <1>3, <1>5, <2>1, <3>2, <3>4, <3>5, <3>a DEF Knows
    <3>8. \A m \in GrantedLocks' : m \in indexed' /\ capUntil'[m] >= lockUntil'[m]
      BY <1>1, <1>3, <3>5, <3>6, <3>a, <3>b DEF Indexed, GrantedLocks
    <3> QED BY <1>1, <1>k, <3>4, <3>5, <3>7, <3>8, <3>a
  <2> QED BY <2>2, <2>3
<1>8. CASE AddToIndex(v)
  <2> DEFINE x == [r EXCEPT !.pc = "cap"]
  <2>1. x \in ResRecords /\ x.pc = "cap" /\ x.ttl = r.ttl
    BY <1>1 DEF ResRecords, Positions
  <2>2. reserving' = [reserving EXCEPT ![v] = x] /\ r.pc = "index"
    BY <1>1, <1>8 DEF AddToIndex, At, GoTo
  <2>3. adapter = "redis"
    BY <1>3, <2>2 DEF Indexed
  <2> HIDE DEF x
  <2>4. InsideMove(v, x) /\ reserving'[v] = x
    BY <1>1, <1>2, <1>8, <2>1, <2>2, <2>3 DEF AddToIndex, InsideMove
  <2>5. GrantedLocks' = GrantedLocks
    BY <1>8 DEF AddToIndex, GrantedLocks, Locked
  <2>6. Knows(v)'
    BY <1>3, <1>8, <2>1, <2>2, <2>4 DEF Knows, AddToIndex
  <2> QED BY <1>0, <1>1, <1>3, <1>8, <1>k, <2>4, <2>5, <2>6 DEF AddToIndex, Indexed
<1>9. CASE SetCap(v)
  <2> DEFINE x == [r EXCEPT !.pc = "row"]
  <2>1. x \in ResRecords /\ x.pc = "row" /\ x.ttl = r.ttl
    BY <1>1 DEF ResRecords, Positions
  <2>2. reserving' = [reserving EXCEPT ![v] = x] /\ r.pc = "cap"
    BY <1>1, <1>9 DEF SetCap, At, GoTo
  <2>3. adapter = "redis"
    BY <1>3, <2>2 DEF Indexed
  <2>a. /\ capUntil' = [capUntil EXCEPT ![n] = resNow + r.ttl]
        /\ UNCHANGED <<adapter, resNow, lockUntil, indexed, spentMarks, buyerHeldBy,
                 finishing, granted>>
    BY <1>9 DEF SetCap
  <2> HIDE DEF x
  <2>4. InsideMove(v, x) /\ reserving'[v] = x
    BY <1>1, <1>2, <2>1, <2>2, <2>3, <2>a DEF InsideMove
  <2>5. GrantedLocks' = GrantedLocks
    BY <2>a DEF GrantedLocks, Locked
  <2>6. /\ capUntil' \in [ResNonces -> 0..(MaxResTime + ReserveTtl)]
        /\ capUntil'[n] = resNow + r.ttl
        /\ \A m \in ResNonces : m # n => capUntil'[m] = capUntil[m]
    BY <1>0, <1>1, <1>5, <2>a, ReservationsAssumption
  <2>7. n \notin GrantedLocks
    BY <1>3, <2>2 DEF Knows, GrantedLocks
  <2>8. Knows(v)'
    BY <1>1, <1>3, <1>5, <2>1, <2>2, <2>4, <2>6, <2>a DEF Knows, Locked
  <2>9. \A m \in GrantedLocks' : m \in indexed' /\ capUntil'[m] >= lockUntil'[m]
    BY <1>1, <1>3, <2>3, <2>5, <2>6, <2>7, <2>a DEF Indexed, GrantedLocks
  <2> QED BY <1>1, <1>k, <2>4, <2>6, <2>8, <2>9, <2>a
<1>10. CASE WriteRow(v) \/ ReserveInMemory(v)
  <2> DEFINE x == [Outside EXCEPT !.pc = "done"]
  <2>1. x \in ResRecords /\ x.pc = "done"
    BY ResNoncesFinite, ReservationsAssumption DEF Outside, ResRecords, Positions
  <2>2. reserving' = [reserving EXCEPT ![v] = x] /\ r.pc \in {"row", "exists"}
    BY <1>10 DEF WriteRow, ReserveInMemory, At
  <2> HIDE DEF x
  <2>3. InsideMove(v, x) /\ reserving'[v] = x
    BY <1>1, <1>2, <1>10, <2>1, <2>2 DEF WriteRow, ReserveInMemory, LeaveExclusive, InsideMove
  <2>4. Knows(v)'
    BY <2>1, <2>3 DEF Knows
  <2>5. /\ lockUntil' \in [ResNonces -> 0..(MaxResTime + ReserveTtl)]
        /\ granted' \subseteq ResNonces
        /\ capUntil' = capUntil /\ indexed' = indexed /\ spentMarks' = spentMarks
        /\ resNow' = resNow
    BY <1>0, <1>1, <1>10, ReservationsAssumption DEF WriteRow, ReserveInMemory, resKeys
  <2>6. ASSUME adapter = "redis", NEW m \in GrantedLocks'
        PROVE  m \in indexed' /\ capUntil'[m] >= lockUntil'[m]
    <3>1. /\ r.pc = "row" /\ lockUntil' = lockUntil
          /\ granted' = IF Locked(n) THEN granted \cup {n} ELSE granted
      BY <1>10, <2>6 DEF WriteRow, ReserveInMemory, resKeys, At
    <3>2. m \in GrantedLocks \/ (m = n /\ Locked(n))
      BY <2>5, <2>6, <3>1 DEF GrantedLocks, Locked
    <3> QED BY <1>3, <2>5, <2>6, <3>1, <3>2 DEF Knows, Indexed
  <2> QED BY <1>1, <1>k, <2>3, <2>4, <2>5, <2>6
<1> QED BY <1>6, <1>7, <1>8, <1>9, <1>10

\* A step that only drops keys, or lets time pass.
OnlyDrops ==
  /\ UNCHANGED <<adapter, buyerHeldBy, reserving>>
  /\ resNow' \in 0..MaxResTime /\ resNow' >= resNow
  /\ lockUntil' \in [ResNonces -> 0..(MaxResTime + ReserveTtl)]
  /\ capUntil' \in [ResNonces -> 0..(MaxResTime + ReserveTtl)]
  /\ indexed' \subseteq indexed /\ granted' \subseteq granted
  /\ spentMarks' \subseteq ResNonces
  /\ finishing' \in [Finishers -> {"idle", "known", "unknown", "done"}]
  /\ \A m \in ResNonces :
       \/ lockUntil'[m] = 0
       \/ /\ lockUntil'[m] = lockUntil[m] /\ capUntil'[m] = capUntil[m]
          /\ m \in indexed => m \in indexed'

LEMMA DropsKeep ==
  ASSUME ResInv, OnlyDrops
  PROVE  ResInv'
<1>1. /\ granted \subseteq ResNonces /\ indexed \subseteq ResNonces
      /\ reserving \in [Verifies -> ResRecords]
      /\ resNow \in Nat /\ resNow' \in Nat
      /\ lockUntil \in [ResNonces -> 0..(MaxResTime + ReserveTtl)]
      /\ capUntil \in [ResNonces -> 0..(MaxResTime + ReserveTtl)]
  BY ReservationsAssumption DEF ResInv, ResTyped, ReservationsTypeOK, OnlyDrops
<1>2. \A m \in ResNonces : /\ lockUntil[m] \in Nat /\ lockUntil'[m] \in Nat
                           /\ capUntil[m] \in Nat /\ capUntil'[m] \in Nat
  <2>1. 0..(MaxResTime + ReserveTtl) \subseteq Nat
    OBVIOUS
  <2>2. lockUntil' \in [ResNonces -> 0..(MaxResTime + ReserveTtl)]
        /\ capUntil' \in [ResNonces -> 0..(MaxResTime + ReserveTtl)]
    BY DEF OnlyDrops
  <2> QED BY <1>1, <2>1, <2>2
<1>3. \A m \in ResNonces : Locked(m)' =>
        /\ Locked(m) /\ lockUntil'[m] = lockUntil[m] /\ capUntil'[m] = capUntil[m]
        /\ m \in indexed => m \in indexed'
  BY <1>1, <1>2 DEF OnlyDrops, Locked
<1>4. GrantedLocks' \subseteq GrantedLocks /\ GrantedLocks \in SUBSET ResNonces
  BY <1>1, <1>3 DEF GrantedLocks, OnlyDrops
<1>5. /\ Cardinality(GrantedLocks') <= Cardinality(GrantedLocks)
      /\ Cardinality(GrantedLocks') \in Nat /\ Cardinality(GrantedLocks) \in Nat
  <2> DEFINE G == GrantedLocks
             H == GrantedLocks'
  <2>1. H \subseteq G /\ G \in SUBSET ResNonces /\ H \in SUBSET ResNonces
    BY <1>4
  <2> HIDE DEF G, H
  <2>2. Cardinality(H) <= Cardinality(G) /\ Cardinality(G) \in Nat /\ Cardinality(H) \in Nat
    BY <2>1, ResNoncesFinite
  <2> QED BY <2>2 DEF G, H
<1>6. ResTyped'
  BY <1>1 DEF ResInv, ResTyped, ReservationsTypeOK, OnlyDrops
<1>7. OneInside'
  BY DEF ResInv, OneInside, OnlyDrops
<1>8. Indexed'
  <2>1. ASSUME adapter = "redis", NEW m \in GrantedLocks'
        PROVE  m \in indexed' /\ capUntil'[m] >= lockUntil'[m]
    <3>1. m \in indexed /\ capUntil[m] >= lockUntil[m] /\ m \in ResNonces
      BY <1>4, <2>1 DEF ResInv, Indexed
    <3>2. Locked(m)'
      BY <2>1 DEF GrantedLocks
    <3> QED BY <1>3, <3>1, <3>2
  <2> QED BY <2>1 DEF ResInv, Indexed, OnlyDrops
<1>9. KnowsInside'
  <2>1. ASSUME NEW v \in Verifies PROVE Knows(v)'
    <3> DEFINE r == reserving[v]
               n == ResNonceOf[v]
    <3>1. n \in ResNonces /\ r \in ResRecords /\ reserving' = reserving
          /\ r.ttl \in Nat /\ r.sum \in Nat
      <4>1. n \in ResNonces /\ r \in ResRecords /\ reserving' = reserving
        BY <1>1, ResNoncesFinite DEF OnlyDrops
      <4>2. Cardinality(ResNonces) \in Nat /\ ReserveTtl \in Nat
        BY ResNoncesFinite, ReservationsAssumption
      <4> QED BY <4>1, <4>2 DEF ResRecords
    <3>2. Knows(v)
      BY DEF ResInv, KnowsInside
    <3>3. r.pc = "caps" => GrantedLocks' \subseteq r.seen
      BY <1>4, <3>2 DEF Knows
    <3>4. r.pc = "prune" => GrantedLocks' \cap r.expired = {}
      BY <1>4, <3>2 DEF Knows
    <3>5. r.pc \in {"prune", "exists", "set"} => r.sum >= Cardinality(GrantedLocks')
      BY <1>5, <3>1, <3>2 DEF Knows
    <3>6. r.pc \in {"index", "cap", "row"} => lockUntil'[n] <= resNow' + r.ttl
      BY <1>1, <1>2, <3>1, <3>2 DEF Knows, OnlyDrops
    <3>7. r.pc \in {"cap", "row"} => n \in indexed' \/ ~Locked(n)'
      BY <1>3, <3>1, <3>2 DEF Knows
    <3>8. r.pc = "row" => capUntil'[n] >= lockUntil'[n]
      BY <1>2, <3>1, <3>2 DEF Knows, OnlyDrops
    <3>9. r.pc \in {"index", "cap", "row"} => n \notin granted'
      BY <3>2 DEF Knows, OnlyDrops
    <3> HIDE DEF r, n
    <3> QED BY <3>1, <3>2, <3>3, <3>4, <3>5, <3>6, <3>7, <3>8, <3>9 DEF Knows, r, n
  <2> QED BY <2>1 DEF KnowsInside
<1> QED BY <1>6, <1>7, <1>8, <1>9 DEF ResInv

LEMMA ResStep ==
  ASSUME ResInv, ~LockLapses, [ReservationsNext]_reservationVars
  PROVE  ResInv'
<1>1. /\ granted \subseteq ResNonces /\ indexed \subseteq ResNonces
      /\ spentMarks \subseteq ResNonces
      /\ resNow \in 0..MaxResTime /\ resNow \in Nat
      /\ lockUntil \in [ResNonces -> 0..(MaxResTime + ReserveTtl)]
      /\ capUntil \in [ResNonces -> 0..(MaxResTime + ReserveTtl)]
      /\ finishing \in [Finishers -> {"idle", "known", "unknown", "done"}]
      /\ 0 \in 0..(MaxResTime + ReserveTtl)
  BY ReservationsAssumption DEF ResInv, ResTyped, ReservationsTypeOK
<1>2. ASSUME NEW v \in Verifies,
             Enter(v) \/ ReadMembers(v) \/ ReadCaps(v) \/ NoRoom(v) \/ PendingOrSpent(v)
               \/ SeenUnspent(v) \/ OutstandingInMemory(v) \/ VerifyThrows(v)
      PROVE  ResInv'
  BY <1>2, ReadingKeeps
<1>3. ASSUME NEW v \in Verifies,
             Prune(v) \/ SetLock(v) \/ AddToIndex(v) \/ SetCap(v) \/ WriteRow(v)
               \/ ReserveInMemory(v)
      PROVE  ResInv'
  BY <1>3, WritingKeeps
<1>4. ASSUME NEW v \in Verifies, VerifyStops(v) PROVE ResInv'
  <2> DEFINE x == [Outside EXCEPT !.pc = "done"]
  <2>1. x \in ResRecords /\ x.pc = "done"
    BY ResNoncesFinite, ReservationsAssumption DEF Outside, ResRecords, Positions
  <2>2. buyerHeldBy = v
    BY <1>4 DEF VerifyStops, ResInv, OneInside
  <2> HIDE DEF x
  <2>3. InsideMove(v, x)
    BY <1>4, <2>1, <2>2 DEF VerifyStops, InsideMove, x
  <2> QED BY <1>4, <2>1, <2>3, ReadsInside DEF VerifyStops
<1>5. ASSUME NEW v \in Verifies, BuyerLockLapses(v) PROVE ResInv'
  <2>1. /\ buyerHeldBy = v /\ reserving[v].pc = "done" /\ buyerHeldBy' = Nobody
        /\ UNCHANGED <<adapter, resNow, resKeys, reserving, finishing, granted>>
    BY <1>5 DEF BuyerLockLapses, At
  <2>2. OneInside'
    BY <2>1 DEF ResInv, OneInside
  <2>3. GrantedLocks' = GrantedLocks
    BY <2>1 DEF GrantedLocks, Locked, resKeys
  <2>4. ResTyped'
    BY <2>1 DEF ResInv, ResTyped, ReservationsTypeOK, resKeys
  <2>5. Indexed'
    BY <2>1, <2>3 DEF ResInv, Indexed, resKeys
  <2>6. KnowsInside'
    BY <2>1, <2>3 DEF ResInv, KnowsInside, Knows, Locked, resKeys
  <2> QED BY <2>2, <2>4, <2>5, <2>6 DEF ResInv
<1>6. ASSUME NEW f \in Finishers, ReadLock(f) PROVE ResInv'
  <2> DEFINE to == IF Locked(ResNonceOf[f]) THEN "known" ELSE "unknown"
  <2>1. /\ finishing' = [finishing EXCEPT ![f] = to]
        /\ UNCHANGED <<adapter, resNow, resKeys, buyerHeldBy, reserving, granted>>
    BY <1>6 DEF ReadLock
  <2>2. finishing' \in [Finishers -> {"idle", "known", "unknown", "done"}]
    BY <1>1, <2>1
  <2>3. OnlyDrops
    BY <1>1, <2>1, <2>2 DEF OnlyDrops, resKeys
  <2> QED BY <2>3, DropsKeep
<1>7. ASSUME NEW f \in Finishers, DropReservation(f) \/ DropInMemory(f) PROVE ResInv'
  <2> DEFINE n == ResNonceOf[f]
  <2>1. n \in ResNonces
    BY ResNoncesFinite
  <2>2. /\ lockUntil' = [lockUntil EXCEPT ![n] = 0]
        /\ capUntil' = [capUntil EXCEPT ![n] = 0] \/ capUntil' = capUntil
        /\ indexed' = indexed \ {n} \/ indexed' = indexed
        /\ spentMarks' = spentMarks \cup {n} \/ spentMarks' = spentMarks
        /\ granted' = granted \ {n}
        /\ finishing' = [finishing EXCEPT ![f] = "done"]
        /\ UNCHANGED <<adapter, resNow, buyerHeldBy, reserving>>
    BY <1>7 DEF DropReservation, DropInMemory
  <2> HIDE DEF n
  <2>3. /\ lockUntil' \in [ResNonces -> 0..(MaxResTime + ReserveTtl)]
        /\ capUntil' \in [ResNonces -> 0..(MaxResTime + ReserveTtl)]
        /\ finishing' \in [Finishers -> {"idle", "known", "unknown", "done"}]
    BY <1>1, <2>2
  <2>4. \A m \in ResNonces :
          \/ lockUntil'[m] = 0
          \/ /\ lockUntil'[m] = lockUntil[m] /\ capUntil'[m] = capUntil[m]
             /\ m \in indexed => m \in indexed'
    BY <1>1, <2>1, <2>2
  <2>5. OnlyDrops
    BY <1>1, <2>1, <2>2, <2>3, <2>4 DEF OnlyDrops
  <2> QED BY <2>5, DropsKeep
<1>8. ASSUME ReservationsTick PROVE ResInv'
  <2>1. OnlyDrops
    BY <1>1, <1>8, ReservationsAssumption DEF ReservationsTick, OnlyDrops, resKeys
  <2> QED BY <2>1, DropsKeep
<1>9. ASSUME UNCHANGED reservationVars PROVE ResInv'
  <2>1. OnlyDrops
    BY <1>1, <1>9 DEF reservationVars, OnlyDrops, resKeys
  <2> QED BY <2>1, DropsKeep
<1> QED BY <1>2, <1>3, <1>4, <1>5, <1>6, <1>7, <1>8, <1>9 DEF ReservationsNext

LEMMA ReservationsCounted ==
  ASSUME ResInv PROVE ReservationsTypeOK /\ GrantedIsCounted /\ SumCovers
<1>1. ReservationsTypeOK
  BY DEF ResInv, ResTyped
<1>2. GrantedIsCounted
  <2> SUFFICES ASSUME NEW n \in granted, Locked(n) PROVE Counts(n)
    BY DEF GrantedIsCounted
  <2>1. n \in GrantedLocks /\ n \in ResNonces
    BY <1>1 DEF GrantedLocks, ReservationsTypeOK
  <2>2. lockUntil[n] \in Nat /\ capUntil[n] \in Nat /\ resNow \in Nat
    BY <1>1, <2>1, ReservationsAssumption DEF ReservationsTypeOK
  <2> QED BY <2>1, <2>2 DEF Counts, Locked, ResInv, Indexed
<1>3. SumCovers
  BY DEF SumCovers, ResInv, KnowsInside, Knows, GrantedLocks
<1> QED BY <1>1, <1>2, <1>3

\* While the buyer's lock outlives its holder, a granted reservation counts against
\* the balance for as long as its lock lives, and the sum a verify decides on covers
\* all that stand, though each operation is several commands and releases take no
\* lock (pgRedis.ts:73-150, verify.ts:198-215).
THEOREM ReservationsAreCounted ==
  ~LockLapses /\ ReservationsInit /\ [][ReservationsNext]_reservationVars
    => [](GrantedIsCounted /\ SumCovers)
<1> SUFFICES ASSUME ~LockLapses
             PROVE  ReservationsInit /\ [][ReservationsNext]_reservationVars
                      => [](GrantedIsCounted /\ SumCovers)
  OBVIOUS
<1>1. ResInv /\ [ReservationsNext]_reservationVars => ResInv'
  BY ResStep
<1>2. ResInv => GrantedIsCounted /\ SumCovers
  BY ReservationsCounted
<1> QED BY ResStart, <1>1, <1>2, PTL
=============================================================================
