----------------------------- MODULE MCHosting -----------------------------
(***************************************************************************)
(* The components that make and host resources and owe somebody an end: the*)
(* deployer and its shutdown, the orchestrator, the generator, the studio's*)
(* build stream.  They share no state, so a behaviour is that of one of    *)
(* them, chosen at the start, while the others rest.                       *)
(***************************************************************************)
EXTENDS Deployer, Orchestrator, Shutdown, BuildStream, Generation

VARIABLE component

hostingVars == <<component, deployerVars, orchVars, shutdownVars, streamVars,
                 genVars>>

\* Two resources ask for one slug; two readers watch two resources that compete
\* for the only stream.
OneSlug == [r \in Resources |-> "s1"]
AnyOf   == [d \in Deploys |-> Resources]
Makes   == [b \in Builds |-> IF b = "b1" THEN "x" ELSE "y"]
Watches == [r \in Readers |-> IF r = "e1" THEN "x" ELSE "y"]

HostingInit ==
  /\ component \in {"deployer", "orchestrator", "shutdown", "stream", "generation"}
  /\ DeployerInit /\ OrchInit /\ ShutdownInit /\ BuildStreamInit
  /\ GenerationInit /\ (component # "generation" => host = {})

HostingNext ==
  /\ UNCHANGED component
  /\ IF component = "deployer" THEN DeployerNext ELSE UNCHANGED deployerVars
  /\ IF component = "orchestrator" THEN OrchNext ELSE UNCHANGED orchVars
  /\ IF component = "shutdown" THEN ShutdownNext ELSE UNCHANGED shutdownVars
  /\ IF component = "stream" THEN BuildStreamNext ELSE UNCHANGED streamVars
  /\ IF component = "generation" THEN GenerationNext ELSE UNCHANGED genVars

\* The fairness of the modules, each asked of its component only.
Of(c, step) == component = c /\ step

HostingFairness ==
  /\ \A d \in Deploys : /\ WF_deployerVars(Of("deployer", RouteStep(d)))
                        /\ WF_deployerVars(Of("deployer", Deadline(d)))
  /\ \A r \in Resources : WF_deployerVars(Of("deployer", Age(r)))
  /\ WF_deployerVars(Of("deployer", TickStep))
  /\ WF_orchVars(Of("orchestrator", SandboxReapStep))
  /\ WF_orchVars(Of("orchestrator", TopUpStep))
  /\ WF_shutdownVars(Of("shutdown", ShutdownStep))
  /\ WF_shutdownVars(Of("shutdown", TickEnds))
  /\ \A b \in Builds : WF_streamVars(Of("stream", BuildStep(b)))
  /\ \A r \in Readers : WF_streamVars(Of("stream", ReaderStep(r)))
  /\ WF_genVars(Of("generation", GenerationNext))

HostingSpec == HostingInit /\ [][HostingNext]_hostingVars /\ HostingFairness

-----------------------------------------------------------------------------
\* The components keep their types; no sandbox serves two schedules
\* (local-driver.ts:80-92); a reader stays attached to the stream that its
\* resource's builds emit into, whatever is evicted (build-channel.ts:102-141); and
\* a bundle is accepted only whole, after no call that could repair nothing
\* (live.ts:330-349).
HostingOK ==
  CASE component = "deployer"     -> DeployerTypeOK
    [] component = "orchestrator" -> OrchTypeOK /\ SandboxServesOnce
    [] component = "shutdown"     -> ShutdownTypeOK
    [] component = "stream"       -> BuildStreamTypeOK /\ ReadersAttached
    [] component = "generation"   -> GenerationTypeOK /\ AcceptedIsWhole /\ NoHopelessCall

\* What is begun comes to an end: no record stays deploying, no slot stays held,
\* no hung handler keeps a service that got its signal alive, and whatever the
\* agent writes the generation returns (reconcile.ts:360-397,
\* server.ts:440-540, shutdown.ts:136-151, claude-backend.ts:145-157).
HostingSettles ==
  /\ RecordsResolve /\ SlotsReleased /\ ShutdownExits
  /\ component = "generation" => GenerationEnds
=============================================================================
