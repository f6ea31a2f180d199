------------------------------ MODULE Shutdown ------------------------------
(***************************************************************************)
(* The graceful shutdown of a service: runGracefulShutdown around the      *)
(* reconcile loop of the deployer.  A signal stops the intake, the drain   *)
(* waits for the requests up to a timeout, the loop is stopped and its     *)
(* tick awaited, the clients are closed, all of them, and the process ends.*)
(*                                                                         *)
(* What the timeout cuts is the sockets: a handler whose request it cut    *)
(* runs on, and so may use a client that is being closed.                  *)
(***************************************************************************)
EXTENDS Naturals, FiniteSets

CONSTANTS Handlers,                 \* requests
          Hung,                     \* those whose handler never returns
          Clients,                  \* closeables
          MaxTicks                  \* bound on the ticks of the loop

ASSUME ShutdownAssumption ==
  /\ IsFiniteSet(Handlers) /\ Hung \subseteq Handlers /\ IsFiniteSet(Clients)
  /\ MaxTicks \in Nat

VARIABLES request,                  \* handler -> idle, running, done, refused
          intake,                   \* the server accepts connections
          timer,                    \* the interval of the loop is set
          current,                  \* the tick in flight, of ticks so far
          ticks,
          phase,                    \* of runOnce
          timedOut,                 \* the drain was cut short
          open                      \* the clients that are not closed

shutdownVars == <<request, intake, timer, current, ticks, phase, timedOut, open>>

ShutdownInit ==
  /\ request = [h \in Handlers |-> "idle"]
  /\ intake = TRUE /\ timer = TRUE
  /\ current = FALSE /\ ticks = 0
  /\ phase = "up" /\ timedOut = FALSE
  /\ open = Clients

Arrives(h) ==
  /\ request[h] = "idle" /\ phase # "exited"
  /\ request' = [request EXCEPT ![h] = IF intake THEN "running" ELSE "refused"]
  /\ UNCHANGED <<intake, timer, current, ticks, phase, timedOut, open>>

Returns(h) ==
  /\ request[h] = "running" /\ h \notin Hung /\ phase # "exited"
  /\ request' = [request EXCEPT ![h] = "done"]
  /\ UNCHANGED <<intake, timer, current, ticks, phase, timedOut, open>>

\* The interval: a tick only while no other is in flight.
LoopTicks ==
  /\ timer /\ ~current /\ ticks < MaxTicks /\ phase # "exited"
  /\ current' = TRUE /\ ticks' = ticks + 1
  /\ UNCHANGED <<request, intake, timer, phase, timedOut, open>>

TickEnds ==
  /\ current /\ phase # "exited"
  /\ current' = FALSE
  /\ UNCHANGED <<request, intake, timer, ticks, phase, timedOut, open>>

\* A signal; a second one finds the sequence in flight and changes nothing.
Signal ==
  /\ phase = "up"
  /\ phase' = "draining" /\ intake' = FALSE
  /\ UNCHANGED <<request, timer, current, ticks, timedOut, open>>

Drained ==
  /\ phase = "draining" /\ \A h \in Handlers : request[h] # "running"
  /\ phase' = "drained"
  /\ UNCHANGED <<request, intake, timer, current, ticks, timedOut, open>>

DrainTimesOut ==
  /\ phase = "draining" /\ \E h \in Handlers : request[h] = "running"
  /\ phase' = "drained" /\ timedOut' = TRUE
  /\ UNCHANGED <<request, intake, timer, current, ticks, open>>

StopLoop ==
  /\ phase = "drained"
  /\ timer' = FALSE /\ phase' = "stopping"
  /\ UNCHANGED <<request, intake, current, ticks, timedOut, open>>

StopSettlesAtOnce == TRUE

\* stop() resolves with the tick that was in flight.
StopSettles == ~current

ClosePools ==
  /\ phase = "stopping" /\ StopSettles
  /\ phase' = "closing"
  /\ UNCHANGED <<request, intake, timer, current, ticks, timedOut, open>>

\* A client closes, or its close rejects: allSettled waits for all alike.
CloseClient(k) ==
  /\ phase = "closing" /\ k \in open
  /\ open' = open \ {k}
  /\ UNCHANGED <<request, intake, timer, current, ticks, phase, timedOut>>

Exits ==
  /\ phase = "closing" /\ open = {}
  /\ phase' = "exited"
  /\ UNCHANGED <<request, intake, timer, current, ticks, timedOut, open>>

ShutdownStep ==
  \/ Drained \/ DrainTimesOut \/ StopLoop \/ ClosePools \/ Exits
  \/ \E k \in Clients : CloseClient(k)

ShutdownNext ==
  \/ \E h \in Handlers : Arrives(h) \/ Returns(h)
  \/ LoopTicks \/ TickEnds \/ Signal \/ ShutdownStep

\* The sequence and a tick go on as their promises settle; handlers need not.
ShutdownFairness == WF_shutdownVars(ShutdownStep) /\ WF_shutdownVars(TickEnds)

ShutdownSpec == ShutdownInit /\ [][ShutdownNext]_shutdownVars /\ ShutdownFairness

-----------------------------------------------------------------------------
ShutdownTypeOK ==
  /\ request \in [Handlers -> {"idle", "running", "done", "refused"}]
  /\ {intake, timer, current, timedOut} \subseteq BOOLEAN /\ ticks \in 0..MaxTicks
  /\ phase \in {"up", "draining", "drained", "stopping", "closing", "exited"}
  /\ open \subseteq Clients

\* No client is closed under a tick of the reconcile loop, nor under a request
\* unless the drain was cut short (shutdown.ts:153-159, reconcile.ts:509-521).
PoolsCloseQuiet ==
  phase \in {"closing", "exited"} =>
    ~current /\ ~timer /\ (timedOut \/ \A h \in Handlers : request[h] # "running")

\* A handler that never returns cannot keep a service that got its signal from
\* ending (shutdown.ts:136-151).
ShutdownExits == phase = "draining" ~> phase = "exited"
=============================================================================
