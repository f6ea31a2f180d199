---------------------------- MODULE Reservations ----------------------------
(***************************************************************************)
(* The reservations of one buyer, command by command: what a verify counts *)
(* and reserves under the buyer's lock (verify.ts), over the Redis adapter *)
(* (pgRedis.ts), where each operation is several commands, and over the    *)
(* one in memory (store.ts), where it is one step.  Releases and spent     *)
(* marks come from handlers that hold no lock.  Every cap is one unit, so  *)
(* a sum of caps is a number of nonces.                                    *)
(***************************************************************************)
EXTENDS Naturals, FiniteSets

CONSTANTS Verifies, Finishers,   \* calls of verify; releases and spent marks
          ResNonceOf,            \* call -> its nonce
          KindsOf,               \* finisher -> what it does: "release", "spend"
          ReserveTtl,            \* maxTimeoutSeconds + settleBufferSeconds
          LockLapses,            \* BOOLEAN: the buyer's lock expires under a
                                 \* verify that still runs
          MaxResTime             \* bound on the clock

ResNonces == {ResNonceOf[c] : c \in Verifies \cup Finishers}

Nobody == "nobody"

ASSUME ReservationsAssumption ==
  /\ IsFiniteSet(Verifies) /\ IsFiniteSet(Finishers) /\ Nobody \notin Verifies
  /\ ReserveTtl \in Nat \ {0}
  /\ MaxResTime \in Nat
  /\ LockLapses \in BOOLEAN
  /\ \A f \in Finishers : KindsOf[f] \in {"release", "spend"}

VARIABLES adapter,      \* the adapter of this deployment: "redis" or "memory"
          resNow,       \* the clock of both
          lockUntil,    \* nonce -> end of its lock (resv:); 0 is none
          indexed,      \* the set of the buyer's nonces (resvbuyerset:)
          capUntil,     \* nonce -> end of its cap key (resvbuyercap:); 0 is none
          spentMarks,   \* nonces marked spent (spent:)
          buyerHeldBy,  \* the verify that holds the buyer's lock, or Nobody
          reserving,    \* verify -> position, members read, sum, TTL it asks for
          finishing,    \* finisher -> position
          granted       \* history: nonces whose reserve answered true, until a
                        \* drop or a new reserve of the nonce

resKeys == <<lockUntil, indexed, capUntil, spentMarks>>
reservationVars == <<adapter, resNow, resKeys, buyerHeldBy, reserving, finishing,
                     granted>>

Outside == [pc |-> "idle", seen |-> {}, expired |-> {}, sum |-> 0, ttl |-> 0]
Positions == {"idle", "members", "caps", "prune", "exists", "set", "index", "cap",
              "row", "done"}

ReservationsTypeOK ==
  /\ adapter \in {"redis", "memory"}
  /\ resNow \in 0..MaxResTime
  /\ lockUntil \in [ResNonces -> 0..(MaxResTime + ReserveTtl)]
  /\ capUntil \in [ResNonces -> 0..(MaxResTime + ReserveTtl)]
  /\ indexed \subseteq ResNonces /\ spentMarks \subseteq ResNonces
  /\ granted \subseteq ResNonces
  /\ buyerHeldBy \in Verifies \cup {Nobody}
  /\ \A v \in Verifies : /\ reserving[v].pc \in Positions
                         /\ reserving[v].seen \subseteq ResNonces
                         /\ reserving[v].expired \subseteq ResNonces
                         /\ reserving[v].sum \in 0..Cardinality(ResNonces)
                         /\ reserving[v].ttl \in 0..ReserveTtl
  /\ finishing \in [Finishers -> {"idle", "known", "unknown", "done"}]

ReservationsInit ==
  /\ adapter \in {"redis", "memory"}
  /\ resNow = 0
  /\ lockUntil = [n \in ResNonces |-> 0]
  /\ capUntil = [n \in ResNonces |-> 0]
  /\ indexed = {} /\ spentMarks = {} /\ granted = {}
  /\ buyerHeldBy = Nobody
  /\ reserving = [v \in Verifies |-> Outside]
  /\ finishing = [f \in Finishers |-> "idle"]

Locked(n)  == lockUntil[n] > resNow
Counts(n)  == IF adapter = "redis" THEN n \in indexed /\ capUntil[n] > resNow
                                   ELSE Locked(n)
At(v, pc)  == reserving[v].pc = pc
GoTo(v, pc) == reserving' = [reserving EXCEPT ![v].pc = pc]

-----------------------------------------------------------------------------
\* runExclusive: the lock is taken, and the sum of reservations is next.
Enter(v) ==
  /\ At(v, "idle") /\ buyerHeldBy = Nobody
  /\ buyerHeldBy' = v
  /\ GoTo(v, "members")
  /\ UNCHANGED <<adapter, resNow, resKeys, finishing, granted>>

\* The compare-and-delete: a lock that a later holder has is left alone.
LeaveExclusive(v) == buyerHeldBy' = IF buyerHeldBy = v THEN Nobody ELSE buyerHeldBy

\* The reserve answers false, or the balance does not suffice: out of the lock.
Turned(v) ==
  /\ reserving' = [reserving EXCEPT ![v] = [Outside EXCEPT !.pc = "done"]]
  /\ LeaveExclusive(v)
  /\ UNCHANGED <<adapter, resNow, resKeys, finishing, granted>>

-----------------------------------------------------------------------------
(***************************************************************************)
(* Redis.                                                                  *)
(***************************************************************************)
\* outstandingReserved: the members first.
ReadMembers(v) ==
  /\ adapter = "redis" /\ At(v, "members")
  /\ reserving' = [reserving EXCEPT ![v].seen = indexed,
                                    ![v].pc = IF indexed = {} THEN "exists" ELSE "caps"]
  /\ UNCHANGED <<adapter, resNow, resKeys, buyerHeldBy, finishing, granted>>

\* Then their caps: those without one have expired.
ReadCaps(v) ==
  LET live == {n \in reserving[v].seen : capUntil[n] > resNow}
      gone == reserving[v].seen \ live
  IN /\ At(v, "caps")
     /\ reserving' = [reserving EXCEPT ![v].sum = Cardinality(live),
                                       ![v].seen = {}, ![v].expired = gone,
                                       ![v].pc = IF gone = {} THEN "exists" ELSE "prune"]
     /\ UNCHANGED <<adapter, resNow, resKeys, buyerHeldBy, finishing, granted>>

\* Which are removed from the set, as they were then.
Prune(v) ==
  /\ At(v, "prune")
  /\ indexed' = indexed \ reserving[v].expired
  /\ reserving' = [reserving EXCEPT ![v].expired = {}, ![v].pc = "exists"]
  /\ UNCHANGED <<adapter, resNow, lockUntil, capUntil, spentMarks, buyerHeldBy,
                 finishing, granted>>

\* The sum leaves no room for another cap (the balance is the chain's business).
NoRoom(v) == At(v, "exists") /\ Turned(v)

\* isNoncePending, then reserve: a spent nonce is not reserved again.
PendingOrSpent(v) ==
  /\ At(v, "exists")
  /\ Locked(ResNonceOf[v]) \/ ResNonceOf[v] \in spentMarks
  /\ Turned(v)

\* The time left until the reservation's end is computed once, after EXISTS and
\* before the commands that use it.
SeenUnspent(v) ==
  /\ adapter = "redis" /\ At(v, "exists")
  /\ ResNonceOf[v] \notin spentMarks
  /\ \E left \in 1..ReserveTtl :
       reserving' = [reserving EXCEPT ![v].ttl = left, ![v].pc = "set"]
  /\ UNCHANGED <<adapter, resNow, resKeys, buyerHeldBy, finishing, granted>>

\* SET NX PX.
SetLock(v) ==
  LET n == ResNonceOf[v]
  IN /\ At(v, "set")
     /\ IF Locked(n) THEN Turned(v)
        ELSE /\ lockUntil' = [lockUntil EXCEPT ![n] = resNow + reserving[v].ttl]
             /\ granted' = granted \ {n}
             /\ reserving' = [reserving EXCEPT ![v].sum = 0, ![v].pc = "index"]
             /\ UNCHANGED <<adapter, resNow, indexed, capUntil, spentMarks,
                            buyerHeldBy, finishing>>

\* SADD.
AddToIndex(v) ==
  /\ At(v, "index")
  /\ indexed' = indexed \cup {ResNonceOf[v]}
  /\ GoTo(v, "cap")
  /\ UNCHANGED <<adapter, resNow, lockUntil, capUntil, spentMarks, buyerHeldBy,
                 finishing, granted>>

\* SET PX of the cap, with the same TTL from a later moment.
SetCap(v) ==
  /\ At(v, "cap")
  /\ capUntil' = [capUntil EXCEPT ![ResNonceOf[v]] = resNow + reserving[v].ttl]
  /\ GoTo(v, "row")
  /\ UNCHANGED <<adapter, resNow, lockUntil, indexed, spentMarks, buyerHeldBy,
                 finishing, granted>>

\* The payments row; reserve answers true, and the verify leaves the lock.  The
\* answer stands for a lock a concurrent drop has removed meanwhile.
WriteRow(v) ==
  LET n == ResNonceOf[v]
  IN /\ At(v, "row")
     /\ granted' = IF Locked(n) THEN granted \cup {n} ELSE granted
     /\ reserving' = [reserving EXCEPT ![v] = [Outside EXCEPT !.pc = "done"]]
     /\ LeaveExclusive(v)
     /\ UNCHANGED <<adapter, resNow, resKeys, finishing>>

\* dropReservation: read the lock, to learn its buyer.
ReadLock(f) ==
  /\ adapter = "redis" /\ finishing[f] = "idle"
  /\ finishing' = [finishing EXCEPT ![f] = IF Locked(ResNonceOf[f]) THEN "known"
                                                                    ELSE "unknown"]
  /\ UNCHANGED <<adapter, resNow, resKeys, buyerHeldBy, reserving, granted>>

\* One MULTI: the lock goes, with its index entry and cap if the lock was there
\* when it was read; a spend sets the marker in it.
DropReservation(f) ==
  LET n == ResNonceOf[f]
      known == finishing[f] = "known"
  IN /\ finishing[f] \in {"known", "unknown"}
     /\ lockUntil' = [lockUntil EXCEPT ![n] = 0]
     /\ indexed' = IF known THEN indexed \ {n} ELSE indexed
     /\ capUntil' = IF known THEN [capUntil EXCEPT ![n] = 0] ELSE capUntil
     /\ spentMarks' = IF KindsOf[f] = "spend" THEN spentMarks \cup {n} ELSE spentMarks
     /\ granted' = granted \ {n}
     /\ finishing' = [finishing EXCEPT ![f] = "done"]
     /\ UNCHANGED <<adapter, resNow, buyerHeldBy, reserving>>

-----------------------------------------------------------------------------
(***************************************************************************)
(* In memory.                                                              *)
(***************************************************************************)
OutstandingInMemory(v) ==
  /\ adapter = "memory" /\ At(v, "members")
  /\ reserving' = [reserving EXCEPT ![v].sum = Cardinality({n \in ResNonces : Locked(n)}),
                                    ![v].pc = "exists"]
  /\ UNCHANGED <<adapter, resNow, resKeys, buyerHeldBy, finishing, granted>>

ReserveInMemory(v) ==
  LET n == ResNonceOf[v]
  IN /\ adapter = "memory" /\ At(v, "exists")
     /\ n \notin spentMarks /\ ~Locked(n)
     /\ lockUntil' = [lockUntil EXCEPT ![n] = resNow + ReserveTtl]
     /\ granted' = granted \cup {n}
     /\ reserving' = [reserving EXCEPT ![v] = [Outside EXCEPT !.pc = "done"]]
     /\ LeaveExclusive(v)
     /\ UNCHANGED <<adapter, resNow, indexed, capUntil, spentMarks, finishing>>

DropInMemory(f) ==
  LET n == ResNonceOf[f]
  IN /\ adapter = "memory" /\ finishing[f] = "idle"
     /\ lockUntil' = [lockUntil EXCEPT ![n] = 0]
     /\ spentMarks' = IF KindsOf[f] = "spend" THEN spentMarks \cup {n} ELSE spentMarks
     /\ granted' = granted \ {n}
     /\ finishing' = [finishing EXCEPT ![f] = "done"]
     /\ UNCHANGED <<adapter, resNow, indexed, capUntil, buyerHeldBy, reserving>>

-----------------------------------------------------------------------------
\* A command throws: what was written stays, and the lock is released.
VerifyThrows(v) ==
  /\ reserving[v].pc \notin {"idle", "done"}
  /\ Turned(v)

\* The process stops: the lock in Redis stays as well.
VerifyStops(v) ==
  /\ adapter = "redis" /\ reserving[v].pc \notin {"idle", "done"}
  /\ reserving' = [reserving EXCEPT ![v] = [Outside EXCEPT !.pc = "done"]]
  /\ UNCHANGED <<adapter, resNow, resKeys, buyerHeldBy, finishing, granted>>

\* The buyer's lock ends with its TTL: after its holder stopped or, if the TTL is
\* too short, under a holder that still runs.
BuyerLockLapses(v) ==
  /\ adapter = "redis" /\ buyerHeldBy = v
  /\ At(v, "done") \/ LockLapses
  /\ buyerHeldBy' = Nobody
  /\ UNCHANGED <<adapter, resNow, resKeys, reserving, finishing, granted>>

ReservationsTick ==
  /\ resNow < MaxResTime
  /\ resNow' = resNow + 1
  /\ UNCHANGED <<adapter, resKeys, buyerHeldBy, reserving, finishing, granted>>

ReservationsNext ==
  \/ \E v \in Verifies :
       \/ Enter(v) \/ ReadMembers(v) \/ ReadCaps(v) \/ Prune(v)
       \/ NoRoom(v) \/ PendingOrSpent(v) \/ SeenUnspent(v)
       \/ SetLock(v) \/ AddToIndex(v) \/ SetCap(v) \/ WriteRow(v)
       \/ OutstandingInMemory(v) \/ ReserveInMemory(v)
       \/ VerifyThrows(v) \/ VerifyStops(v) \/ BuyerLockLapses(v)
  \/ \E f \in Finishers : ReadLock(f) \/ DropReservation(f) \/ DropInMemory(f)
  \/ ReservationsTick

-----------------------------------------------------------------------------
\* A reservation that was granted counts against the balance for as long as its
\* lock lives, whatever a stale prune or a cap key with its own TTL does
\* (pgRedis.ts:73-84, 129-150).
GrantedIsCounted == \A n \in granted : Locked(n) => Counts(n)

\* While a verify holds the buyer's lock, the sum it decides on covers every
\* reservation that still stands: others may be dropped meanwhile, none added
\* (verify.ts:198-215).
SumCovers ==
  \A v \in Verifies :
    /\ buyerHeldBy = v
    /\ reserving[v].pc \in {"prune", "exists", "set"}
    => reserving[v].sum >= Cardinality({n \in granted : Locked(n)})
=============================================================================
