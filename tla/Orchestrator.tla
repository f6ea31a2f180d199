---------------------------- MODULE Orchestrator ----------------------------
(***************************************************************************)
(* The LocalDriver of the orchestrator for one resource: schedule serves a *)
(* warm sandbox of the pool or launches one, a top-up brings the pool back *)
(* to its size off the hot path, and reap stops the idle runs and drains   *)
(* the pool.  One step runs from one await to the next.                    *)
(*                                                                         *)
(* schedule touches its run without a time, so its last activity is 0 and  *)
(* any reap at a real time finds it idle, however recent it is: a reap     *)
(* here collects every run.  The surplus branch of the top-up is left out: *)
(* only the one top-up in flight ever releases into the pool.              *)
(***************************************************************************)
EXTENDS Naturals, FiniteSets, Sequences, SequencesExt

CONSTANTS Schedules,      \* calls of schedule for the resource
          PoolSize,
          MaxSandboxes,   \* bound: containers the runner creates
          MaxStopFaults   \* bound: stops that fail

ASSUME OrchestratorAssumption ==
  /\ IsFiniteSet(Schedules) /\ PoolSize \in Nat \ {0}
  /\ MaxSandboxes \in Nat /\ MaxStopFaults \in Nat

Sandboxes == 1..MaxSandboxes

VARIABLES created,        \* sandboxes created so far
          running,        \* containers that run
          pool,           \* the warm spares, last in first out
          runs,           \* what the driver and its reaper track
          served,         \* schedule -> the sandbox it got, as a set
          schedule,       \* schedule -> position
          topUp,          \* the replenishing promise: none, due, launching
          reap,           \* the reap: position, and what it has left to stop
          launchFailed,   \* history: a launch of a top-up was rejected
          leaked,         \* history: dropped from every list, the stop failing
          stopFaults

stopFaultVars == <<leaked, stopFaults>>
orchVars == <<created, running, pool, runs, served, schedule, topUp, reap,
              launchFailed, stopFaultVars>>

ReapIdle == [pc |-> "idle", left |-> {}]

OrchInit ==
  /\ created = 0
  /\ running = {} /\ runs = {}
  /\ pool = <<>>
  /\ served = [c \in Schedules |-> {}]
  /\ schedule = [c \in Schedules |-> "idle"]
  /\ topUp = "none"
  /\ reap = ReapIdle
  /\ launchFailed = FALSE
  /\ leaked = {} /\ stopFaults = 0

(***************************************************************************)
(* schedule.                                                               *)
(***************************************************************************)
\* The run is tracked and a top-up is due, unless one is in flight.
Serve(c, s) ==
  /\ runs' = runs \cup {s}
  /\ served' = [served EXCEPT ![c] = {s}]
  /\ schedule' = [schedule EXCEPT ![c] = "served"]
  /\ topUp' = IF topUp = "none" THEN "due" ELSE topUp

AcquireKept == pool

Acquire == Front(pool)

ScheduleWarm(c) ==
  /\ schedule[c] = "idle" /\ pool # <<>>
  /\ Serve(c, Last(pool))
  /\ pool' = Acquire
  /\ UNCHANGED <<created, running, reap, launchFailed, stopFaultVars>>

ScheduleCold(c) ==
  /\ schedule[c] = "idle" /\ pool = <<>>
  /\ schedule' = [schedule EXCEPT ![c] = "launching"]
  /\ UNCHANGED <<created, running, pool, runs, served, topUp, reap, launchFailed,
                 stopFaultVars>>

Launch(s) == s = created + 1 /\ created' = s /\ running' = running \cup {s}

ScheduleLaunched(c) ==
  /\ schedule[c] = "launching"
  /\ \/ \E s \in Sandboxes : Launch(s) /\ Serve(c, s)
     \/ /\ schedule' = [schedule EXCEPT ![c] = "failed"]     \* run() rejects
        /\ UNCHANGED <<created, running, runs, served, topUp>>
  /\ UNCHANGED <<pool, reap, launchFailed, stopFaultVars>>

(***************************************************************************)
(* The top-up runs in a task of its own, one launch after the other.       *)
(***************************************************************************)
NeedsSpare == IF Len(pool) < PoolSize THEN "launching" ELSE "none"

TopUpStart ==
  /\ topUp = "due"
  /\ topUp' = NeedsSpare
  /\ UNCHANGED <<created, running, pool, runs, served, schedule, reap, launchFailed,
                 stopFaultVars>>

TopUpLaunched ==
  /\ topUp = "launching"
  /\ \E s \in Sandboxes : Launch(s) /\ pool' = Append(pool, s)
  /\ topUp' = IF Len(pool) + 1 < PoolSize THEN "launching" ELSE "none"
  /\ UNCHANGED <<runs, served, schedule, reap, launchFailed, stopFaultVars>>

\* The rejection takes a reap that waits for the top-up down with it: the pool
\* is not drained, and no idle run is left to bring a later reap back to it.
TopUpFails ==
  /\ topUp = "launching"
  /\ topUp' = "none"
  /\ launchFailed' = TRUE
  /\ reap' = IF reap.pc = "settling" THEN ReapIdle ELSE reap
  /\ UNCHANGED <<created, running, pool, runs, served, schedule, stopFaultVars>>

(***************************************************************************)
(* reap.  Stopping a container that is gone already is not an error.       *)
(***************************************************************************)
CollectIdle ==
  /\ reap.pc = "idle" /\ runs # {}
  /\ reap' = [pc |-> "stopping", left |-> runs]
  /\ UNCHANGED <<created, running, pool, runs, served, schedule, topUp, launchFailed,
                 stopFaultVars>>

\* The runner swallows a kill that fails: stop resolves, the container runs on.
StopSandbox(s) ==
  \/ running' = running \ {s} /\ UNCHANGED stopFaultVars
  \/ /\ stopFaults < MaxStopFaults
     /\ stopFaults' = stopFaults + 1 /\ leaked' = leaked \cup {s}
     /\ UNCHANGED running

StopIdle(s) ==
  /\ reap.pc = "stopping" /\ s \in reap.left
  /\ StopSandbox(s)
  /\ runs' = runs \ {s}
  /\ reap' = [pc |-> IF reap.left = {s} THEN "settling" ELSE "stopping",
              left |-> reap.left \ {s}]
  /\ UNCHANGED <<created, pool, served, schedule, topUp, launchFailed>>

SettledAlways == TRUE

\* warmupSettled: the promise of the top-up that is in flight.
Settled == topUp = "none"

Drain ==
  /\ reap.pc = "settling" /\ Settled
  /\ pool' = <<>>
  /\ reap' = IF pool = <<>> THEN ReapIdle
             ELSE [pc |-> "draining", left |-> ToSet(pool)]
  /\ UNCHANGED <<created, running, runs, served, schedule, topUp, launchFailed,
                 stopFaultVars>>

StopDrained(s) ==
  /\ reap.pc = "draining" /\ s \in reap.left
  /\ StopSandbox(s)
  /\ reap' = IF reap.left = {s} THEN ReapIdle ELSE [reap EXCEPT !.left = @ \ {s}]
  /\ UNCHANGED <<created, pool, runs, served, schedule, topUp, launchFailed>>

\* A stop that rejects takes the reap down.  The idle runs not stopped yet stay
\* tracked, for the next reap; the spares left to drain are in no list any more.
StopThrows ==
  /\ reap.pc \in {"stopping", "draining"}
  /\ stopFaults < MaxStopFaults
  /\ stopFaults' = stopFaults + 1
  /\ leaked' = IF reap.pc = "draining" THEN leaked \cup reap.left ELSE leaked
  /\ reap' = ReapIdle
  /\ UNCHANGED <<created, running, pool, runs, served, schedule, topUp, launchFailed>>

\* The runner kills a container at the deadline of its spec.
SandboxDeadline(s) ==
  /\ s \in running
  /\ running' = running \ {s}
  /\ UNCHANGED <<created, pool, runs, served, schedule, topUp, reap, launchFailed,
                 stopFaultVars>>

SandboxReapStep ==
  \/ CollectIdle \/ Drain
  \/ \E s \in Sandboxes : StopIdle(s) \/ StopDrained(s)
TopUpStep == TopUpStart \/ TopUpLaunched \/ TopUpFails

OrchNext ==
  \/ \E c \in Schedules : ScheduleWarm(c) \/ ScheduleCold(c) \/ ScheduleLaunched(c)
  \/ TopUpStep
  \/ SandboxReapStep \/ StopThrows
  \/ \E s \in Sandboxes : SandboxDeadline(s)

\* reap is called again and again, and a launch settles one way or the other.
OrchFairness == WF_orchVars(SandboxReapStep) /\ WF_orchVars(TopUpStep)

OrchSpec == OrchInit /\ [][OrchNext]_orchVars /\ OrchFairness

-----------------------------------------------------------------------------
(***************************************************************************)
(* Types, and whose a sandbox is: the pool and the runs never share one,   *)
(* and every container that runs is known to one of them, to the reap that *)
(* is about to stop it, or was dropped by a stop that failed.              *)
(***************************************************************************)
OrchTypeOK ==
  /\ created \in 0..MaxSandboxes /\ running \subseteq 1..created
  /\ pool \in Seq(Sandboxes) /\ Len(pool) <= PoolSize
  /\ Cardinality(ToSet(pool)) = Len(pool)
  /\ runs \subseteq Sandboxes /\ runs \cap ToSet(pool) = {}
  /\ served \in [Schedules -> SUBSET Sandboxes]
  /\ schedule \in [Schedules -> {"idle", "launching", "served", "failed"}]
  /\ topUp \in {"none", "due", "launching"}
  /\ reap \in [pc : {"idle", "stopping", "settling", "draining"},
               left : SUBSET Sandboxes]
  /\ leaked \subseteq Sandboxes /\ stopFaults \in 0..MaxStopFaults
  /\ running \subseteq runs \cup ToSet(pool) \cup reap.left \cup leaked

\* No sandbox serves two schedules, warm or cold (local-driver.ts:80-92).
SandboxServesOnce ==
  \A c, d \in Schedules : c # d => served[c] \cap served[d] = {}

\* Once no schedule comes any more, reaps scale the resource to zero: neither a
\* run nor a spare of a top-up that raced them is left, unless a launch failed,
\* but for the containers whose own stop failed.
ScalesToZero == <>[](running \subseteq leaked \/ launchFailed)

-----------------------------------------------------------------------------
(***************************************************************************)
(* What warm-pool.ts:75-79 says of drain and the model refutes (README).   *)
(***************************************************************************)
\* An idle resource truly scales to zero.
ScalesFully == <>[](running = {})
=============================================================================
