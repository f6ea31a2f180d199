------------------------------ MODULE Deployer ------------------------------
(***************************************************************************)
(* The deployer service: POST /deploy (admission, the durable record, the  *)
(* deploy itself under its deadline), the launch of a handler and a gate   *)
(* container on the network of their slug, and the tick of the reconcile   *)
(* loop that quarantines, reaps and collects.                              *)
(*                                                                         *)
(* A deploy is one request.  Its route (the HTTP handler) and its work     *)
(* (deployResource) are two activities: past the deadline the handler      *)
(* answers and frees its slots while the work goes on.  A container is     *)
(* named by the deploy that created it and its role; Docker's name for it  *)
(* is derived from the slug, so the two containers of a slug exclude those *)
(* of every other deploy of that slug.  The store, the containers, the     *)
(* networks and the routing files survive a crash of the process.          *)
(***************************************************************************)
EXTENDS Naturals, FiniteSets

CONSTANTS Deploys, Resources, Slugs,
          SlugOf,          \* resource -> the slug its requests name
          Wants,           \* deploy -> the resources it may be a request for
          MaxContainers,   \* capacity.maxContainers
          MaxFaults,       \* bound: crashes of the process, failing store or
                           \* Docker calls, wedged containers
          None

ASSUME DeployerAssumption ==
  /\ IsFiniteSet(Deploys) /\ IsFiniteSet(Resources)
  /\ SlugOf \in [Resources -> Slugs]
  /\ Wants \in [Deploys -> SUBSET Resources]
  /\ {MaxContainers, MaxFaults} \subseteq Nat
  /\ None \notin Resources

Roles      == {"handler", "gate"}
Containers == Deploys \X Roles
Statuses   == {"none", "deploying", "running", "failed"}
NoRecord   == [status |-> "none", version |-> 0]
Versions   == 0..(2 * Cardinality(Deploys))
Records    == [status : Statuses, version : Versions]

VARIABLES record, slugOwner, aged,              \* the store, and its clock
          up, wedged, net, routed,              \* Docker and Traefik
          target, census, outcome,              \* deploy -> locals of its handler
          route, work, holding,                 \* deploy -> positions; reservations
          tick,                                 \* the locals of runTick
          lost, disturbed,                      \* history: see Isolated, LaunchIntact
          faults

storeVars   == <<record, slugOwner, aged>>
hostVars    == <<up, wedged, net, routed>>
requestVars == <<target, census, outcome, route, holding>>
historyVars == <<lost, disturbed>>
deployerVars == <<storeVars, hostVars, requestVars, work, tick, historyVars,
                  faults>>

ResourceOf(c) == target[c[1]]
Slug(d)       == SlugOf[target[d]]
OnSlug(s)     == {c \in up : SlugOf[ResourceOf(c)] = s}
ActiveOnlyRunning(r) == record[r].status = "running"
Active(r)     == record[r].status \in {"running", "deploying"}
Working(d)    == work[d] \notin {"none", "done", "dead"}
Outstanding(d) == route[d] \notin {"idle", "refused", "answered"} \/ Working(d)

Rows(R) == [r \in R |-> record[r]]
NoTick  == [pc |-> "idle", seen |-> {}, todo |-> {}, reaped |-> {},
            cur |-> {}, rows |-> <<>>]

DeployerInit ==
  /\ record = [r \in Resources |-> NoRecord]
  /\ slugOwner = [s \in Slugs |-> None]
  /\ aged = {}
  /\ up = {} /\ wedged = {} /\ routed = {}
  /\ net = [s \in Slugs |-> None]
  /\ target = [d \in Deploys |-> None]
  /\ census = [d \in Deploys |-> {}]
  /\ outcome = [d \in Deploys |-> "none"]
  /\ route = [d \in Deploys |-> "idle"]
  /\ work = [d \in Deploys |-> "none"]
  /\ holding = {}
  /\ tick = NoTick
  /\ lost = {} /\ disturbed = {}
  /\ faults = 0

Fault == faults < MaxFaults /\ faults' = faults + 1

(***************************************************************************)
(* The deployment store.  put refuses a slug held by another resource; the *)
(* slug of a resource never changes here, so a claim is never given back.  *)
(***************************************************************************)
SlugFreeAlways(r) == TRUE

SlugFree(r) == slugOwner[SlugOf[r]] \in {None, r}

Put(r, rec) ==
  /\ record' = [record EXCEPT ![r] = rec]
  /\ slugOwner' = [slugOwner EXCEPT ![SlugOf[r]] = r]
  /\ aged' = aged \ {r}

(***************************************************************************)
(* The request.  The census is a list of the containers; the comparison    *)
(* and the reservation follow in one step, after the list came back.       *)
(***************************************************************************)
Reserved == {target[d] : d \in holding}

RequestCensus(d, r) ==
  /\ route[d] = "idle"
  /\ target' = [target EXCEPT ![d] = r]
  /\ census' = [census EXCEPT ![d] = up \ wedged]
  /\ route' = [route EXCEPT ![d] = "census"]
  /\ disturbed' = disturbed \cup
       LET rivals == {e \in Deploys \ {d} : Outstanding(e) /\
                        (target[e] = r \/ (e \in lost /\ Slug(e) = SlugOf[r]))}
       IN  IF rivals = {} THEN {} ELSE rivals \cup {d}
  /\ UNCHANGED <<storeVars, hostVars, outcome, work, holding, tick, lost,
                 faults>>

Fits(d) ==
  Cardinality({c \in census[d] : ResourceOf(c) \notin Reserved \cup {target[d]}})
    + 2 * Cardinality(holding) + 2 <= MaxContainers

Admit(d) ==
  /\ route[d] = "census"
  /\ Fits(d)
  /\ holding' = holding \cup {d}
  /\ census' = [census EXCEPT ![d] = {}]
  /\ route' = [route EXCEPT ![d] = "pre"]
  /\ UNCHANGED <<storeVars, hostVars, target, outcome, work, tick,
                 historyVars, faults>>

Refuse(d) ==
  /\ route[d] = "census"
  /\ \/ ~Fits(d) /\ UNCHANGED faults
     \/ Fault                                   \* the census failed or timed out
  /\ census' = [census EXCEPT ![d] = {}]
  /\ route' = [route EXCEPT ![d] = "refused"]
  /\ UNCHANGED <<storeVars, hostVars, target, outcome, work, holding,
                 tick, historyVars>>

(***************************************************************************)
(* recordDeployment puts the next version of the record: once as deploying,*)
(* before the work starts, and once with the outcome.  (Its read and its   *)
(* put are one step: it uses nothing of what it read but the version.)     *)
(***************************************************************************)
NextVersion(d, status) ==
  [status |-> status, version |-> record[target[d]].version + 1]

Begin(d) == /\ route' = [route EXCEPT ![d] = "await"]
            /\ work' = [work EXCEPT ![d] = "prepare"]
            /\ UNCHANGED holding

ReleaseForgetsSlots(d) == /\ route' = [route EXCEPT ![d] = "answered"]
                          /\ UNCHANGED holding

Release(d) == /\ route' = [route EXCEPT ![d] = "answered"]
              /\ holding' = holding \ {d}

PreWrite(d) ==
  /\ route[d] = "pre"
  /\ \/ /\ SlugFree(target[d])
        /\ Put(target[d], NextVersion(d, "deploying"))
        /\ Begin(d)
        /\ UNCHANGED <<lost, disturbed, faults>>
     \/ /\ ~SlugFree(target[d])                 \* SlugConflictError: aborted
        /\ Release(d)
        /\ UNCHANGED <<storeVars, work, lost, disturbed, faults>>
     \/ /\ Fault                                \* any other error: best effort
        /\ Begin(d)
        /\ lost' = lost \cup {d}
        /\ disturbed' = disturbed \cup
             {e \in Deploys : target[e] # None /\ Slug(e) = Slug(d)}
        /\ UNCHANGED storeVars
  /\ UNCHANGED <<hostVars, target, census, outcome, tick>>

PostWrite(d) ==
  /\ route[d] = "post"
  /\ \/ /\ SlugFree(target[d])
        /\ Put(target[d], NextVersion(d, outcome[d]))
        /\ UNCHANGED faults
     \/ ~SlugFree(target[d]) /\ UNCHANGED <<storeVars, faults>>
     \/ Fault /\ UNCHANGED storeVars            \* logged, the answer stands
  /\ Release(d)
  /\ UNCHANGED <<hostVars, target, census, outcome, work, tick, historyVars>>

(***************************************************************************)
(* The outcome reaches the handler only while it still waits; the deadline *)
(* stops the wait and nothing else.                                        *)
(***************************************************************************)
Settle(d, status) ==
  IF route[d] = "await"
  THEN /\ route' = [route EXCEPT ![d] = "post"]
       /\ outcome' = [outcome EXCEPT ![d] = status]
  ELSE UNCHANGED <<route, outcome>>

DeadlineNever(d) == FALSE

Deadline(d) ==
  /\ route[d] = "await"
  /\ Settle(d, "failed")
  /\ UNCHANGED <<storeVars, hostVars, target, census, work, holding,
                 tick, historyVars, faults>>

\* Every call of the work may throw; nothing launched is taken back.
WorkFails(d) ==
  /\ Working(d)
  /\ work' = [work EXCEPT ![d] = "dead"]
  /\ Settle(d, "failed")
  /\ UNCHANGED <<storeVars, hostVars, target, census, holding, tick,
                 historyVars, faults>>

(***************************************************************************)
(* The work: deployResource with launchResourcePair inside it.             *)
(***************************************************************************)
Advance(d, from, to) ==
  /\ work[d] = from
  /\ work' = [work EXCEPT ![d] = to]
  /\ UNCHANGED <<storeVars, requestVars, tick, historyVars, faults>>

\* The deposit of the test buyer, the registration on chain, the token: calls
\* that may fail and leave nothing the deployer reads later.
Prepare(d) == Advance(d, "prepare", "clear") /\ UNCHANGED hostVars

\* Both images are built, then the containers are removed by name, whichever
\* deploy started them.
ClearPair(d) ==
  /\ Advance(d, "clear", "net")
  /\ up' = up \ OnSlug(Slug(d))
  /\ wedged' = wedged \ OnSlug(Slug(d))
  /\ UNCHANGED <<net, routed>>

EnsurePairNetwork(d) ==
  /\ Advance(d, "net", "handler")
  /\ net[Slug(d)] \in {None, target[d]}
  /\ net' = [net EXCEPT ![Slug(d)] = target[d]]
  /\ UNCHANGED <<up, wedged, routed>>

\* Docker refuses a second container of the same name and a missing network.
Start(d, role) ==
  /\ net[Slug(d)] # None
  /\ \A c \in OnSlug(Slug(d)) : c[2] # role
  /\ up' = up \cup {<<d, role>>}
  /\ UNCHANGED <<wedged, net, routed>>

StartHandler(d) == Advance(d, "handler", "gate") /\ Start(d, "handler")
StartGate(d)    == Advance(d, "gate", "route") /\ Start(d, "gate")

WriteRoute(d) ==
  /\ Advance(d, "route", "verify")
  /\ routed' = routed \cup {Slug(d)}
  /\ UNCHANGED <<up, wedged, net>>

\* The unpaid call is answered 402 once a gate serves the routed host; the
\* paid call goes through that gate to the handler of the same launch.
Serving(s) ==
  /\ s \in routed
  /\ \E e \in Deploys : {e} \X Roles \subseteq OnSlug(s) \ wedged

Verify(d) ==
  /\ work[d] = "verify"
  /\ Serving(Slug(d))
  /\ work' = [work EXCEPT ![d] = "done"]
  /\ Settle(d, "running")
  /\ UNCHANGED <<storeVars, hostVars, target, census, holding, tick, historyVars,
                 faults>>

(***************************************************************************)
(* The tick.  The containers are listed first and acted upon to the end;   *)
(* a quarantine puts back the whole record it read.  (A tick that would    *)
(* find nothing is left out, and so is a stale pass without a stale row.)  *)
(***************************************************************************)
Reap(c, removed) ==
  /\ up' = IF removed THEN up \ {c} ELSE up
  /\ wedged' = IF removed THEN wedged \ {c} ELSE wedged
  /\ routed' = routed \ {SlugOf[ResourceOf(c)]}
  /\ net' = [net EXCEPT ![SlugOf[ResourceOf(c)]] =
               IF OnSlug(SlugOf[ResourceOf(c)]) \ (IF removed THEN {c} ELSE {}) = {}
               THEN None ELSE @]

\* remove({force}) that fails is swallowed; the rest of the reap goes on.
ReapStep(c) == \/ Reap(c, TRUE) /\ UNCHANGED faults
               \/ Reap(c, FALSE) /\ Fault

QuarantineKeepsStatus(r, row) ==
  /\ Put(r, row)
  /\ disturbed' = disturbed \cup {d \in Deploys : target[d] = r}

Quarantine(r, row) ==
  /\ Put(r, [row EXCEPT !.status = "failed"])
  /\ disturbed' = disturbed \cup {d \in Deploys : target[d] = r}

TickList ==
  /\ tick.pc = "idle"
  /\ up # {} \/ aged # {} \/ \E s \in Slugs : net[s] # None
  /\ tick' = [NoTick EXCEPT !.pc = "runaway", !.seen = up, !.todo = wedged]
  /\ UNCHANGED <<storeVars, hostVars, requestVars, work, historyVars, faults>>

\* A wedged container: its record is read, quarantined if still active, and
\* the container is removed only after that write.
RunawayRead(c) ==
  /\ tick.pc = "runaway" /\ c \in tick.todo
  /\ tick' = [tick EXCEPT
       !.todo = @ \ {c}, !.cur = {c}, !.rows = Rows({ResourceOf(c)}),
       !.pc = IF record[ResourceOf(c)].status \in {"none", "failed"}
              THEN "reapRunaway" ELSE "quarantine"]
  /\ UNCHANGED <<storeVars, hostVars, requestVars, work, historyVars, faults>>

RunawayQuarantine ==
  /\ tick.pc = "quarantine"
  /\ \/ /\ \E r \in DOMAIN tick.rows : Quarantine(r, tick.rows[r])
        /\ tick' = [tick EXCEPT !.pc = "reapRunaway", !.rows = <<>>]
        /\ UNCHANGED faults
     \/ /\ Fault                                 \* the container is left alone
        /\ tick' = [tick EXCEPT !.pc = "runaway", !.cur = {}, !.rows = <<>>]
        /\ UNCHANGED <<storeVars, disturbed>>
  /\ UNCHANGED <<hostVars, requestVars, work, lost>>

ReapRunaway ==
  /\ tick.pc = "reapRunaway"
  /\ \E c \in tick.cur : ReapStep(c)
  /\ tick' = [tick EXCEPT !.pc = "runaway", !.cur = {}, !.rows = <<>>,
                          !.reaped = @ \cup tick.cur]
  /\ UNCHANGED <<storeVars, requestVars, work, historyVars>>

\* The stale pass: rows older than the deploy timeout, listed together.
StaleList ==
  /\ tick.pc = "runaway" /\ tick.todo = {} /\ aged # {}
  /\ tick' = [tick EXCEPT !.pc = "stale", !.rows = Rows(aged)]
  /\ UNCHANGED <<storeVars, hostVars, requestVars, work, historyVars, faults>>

StaleQuarantine(r) ==
  /\ tick.pc = "stale" /\ r \in DOMAIN tick.rows
  /\ tick' = [tick EXCEPT !.rows = [q \in DOMAIN @ \ {r} |-> @[q]]]
  /\ \/ Quarantine(r, tick.rows[r]) /\ UNCHANGED faults
     \/ Fault /\ UNCHANGED <<storeVars, disturbed>>
  /\ UNCHANGED <<hostVars, requestVars, work, lost>>

DesiredListRecordedOnly ==
  /\ \/ tick.pc = "stale" /\ DOMAIN tick.rows = {}
     \/ tick.pc = "runaway" /\ tick.todo = {} /\ aged = {}
  /\ tick' = [tick EXCEPT !.pc = "reap", !.rows = <<>>,
       !.todo = {c \in tick.seen \ tick.reaped : record[ResourceOf(c)].status = "failed"}]
  /\ UNCHANGED <<storeVars, hostVars, requestVars, work, historyVars, faults>>

\* reconcile(): the listed containers of resources no active record wants.
DesiredList ==
  /\ \/ tick.pc = "stale" /\ DOMAIN tick.rows = {}
     \/ tick.pc = "runaway" /\ tick.todo = {} /\ aged = {}
  /\ tick' = [tick EXCEPT !.pc = "reap", !.rows = <<>>,
       !.todo = {c \in tick.seen \ tick.reaped : ~Active(ResourceOf(c))}]
  /\ UNCHANGED <<storeVars, hostVars, requestVars, work, historyVars, faults>>

ReapOrphan(c) ==
  /\ tick.pc = "reap" /\ c \in tick.todo
  /\ ReapStep(c)
  /\ tick' = [tick EXCEPT !.todo = @ \ {c}]
  /\ UNCHANGED <<storeVars, requestVars, work, historyVars>>

\* The sweep of the networks nothing is attached to ends the tick.
ReapOrphanPairNetworks ==
  /\ tick.pc = "reap" /\ tick.todo = {}
  /\ net' = [s \in Slugs |-> IF OnSlug(s) = {} THEN None ELSE net[s]]
  /\ tick' = NoTick
  /\ UNCHANGED <<storeVars, up, wedged, routed, requestVars, work,
                 historyVars, faults>>

(***************************************************************************)
(* The rest of the world.                                                  *)
(***************************************************************************)
Age(r) ==
  /\ record[r].status = "deploying" /\ r \notin aged
  /\ aged' = aged \cup {r}
  /\ UNCHANGED <<record, slugOwner, hostVars, requestVars, work, tick,
                 historyVars, faults>>

Wedge(c) ==
  /\ c \in up \ wedged /\ c[2] = "handler"
  /\ Fault
  /\ wedged' = wedged \cup {c}
  /\ UNCHANGED <<storeVars, up, net, routed, requestVars, work, tick,
                 historyVars>>

\* A crash ends every request, every work and the tick, and frees the slots.
Crash ==
  /\ Fault
  /\ route' = [d \in Deploys |->
                 IF route[d] \in {"idle", "refused"} THEN route[d] ELSE "answered"]
  /\ work' = [d \in Deploys |-> IF Working(d) THEN "dead" ELSE work[d]]
  /\ census' = [d \in Deploys |-> {}]
  /\ holding' = {}
  /\ tick' = NoTick
  /\ UNCHANGED <<storeVars, hostVars, target, outcome, historyVars>>

RouteStep(d) == PreWrite(d) \/ PostWrite(d) \/ Admit(d) \/ Refuse(d)
WorkStep(d) ==
  \/ Prepare(d) \/ ClearPair(d) \/ EnsurePairNetwork(d) \/ StartHandler(d)
  \/ StartGate(d) \/ WriteRoute(d) \/ Verify(d)
TickStep ==
  \/ TickList \/ RunawayQuarantine \/ ReapRunaway \/ StaleList \/ DesiredList
  \/ ReapOrphanPairNetworks
  \/ \E c \in Containers : RunawayRead(c) \/ ReapOrphan(c)
  \/ \E r \in Resources : StaleQuarantine(r)

DeployerNext ==
  \/ \E d \in Deploys : \/ RouteStep(d) \/ WorkStep(d) \/ WorkFails(d) \/ Deadline(d)
                        \/ \E r \in Wants[d] : RequestCensus(d, r)
  \/ TickStep
  \/ \E r \in Resources : Age(r)
  \/ \E c \in Containers : Wedge(c)
  \/ Crash

(***************************************************************************)
(* The handler's own steps run, its timer fires, time passes and the       *)
(* interval of the loop keeps ticking.  Nothing is assumed of the work: a  *)
(* build or a Docker call may hang.                                        *)
(***************************************************************************)
DeployerFairness ==
  /\ \A d \in Deploys : WF_deployerVars(RouteStep(d)) /\ WF_deployerVars(Deadline(d))
  /\ \A r \in Resources : WF_deployerVars(Age(r))
  /\ WF_deployerVars(TickStep)

DeployerSpec == DeployerInit /\ [][DeployerNext]_deployerVars /\ DeployerFairness

-----------------------------------------------------------------------------
(***************************************************************************)
(* Types, and the reservations: a deploy holds its two slots from its      *)
(* admission until its handler answers, on every path through it.          *)
(***************************************************************************)
Pending == {"pre", "await", "post"}

DeployerTypeOK ==
  /\ record \in [Resources -> Records]
  /\ slugOwner \in [Slugs -> Resources \cup {None}]
  /\ net \in [Slugs -> Resources \cup {None}]
  /\ aged \subseteq Resources /\ wedged \subseteq up /\ up \subseteq Containers
  /\ routed \subseteq Slugs
  /\ target \in [Deploys -> Resources \cup {None}]
  /\ census \in [Deploys -> SUBSET Containers]
  /\ outcome \in [Deploys -> {"none", "running", "failed"}]
  /\ route \in [Deploys -> Pending \cup {"idle", "census", "refused", "answered"}]
  /\ work \in [Deploys -> {"none", "prepare", "clear", "net", "handler", "gate", "route",
                           "verify", "done", "dead"}]
  /\ lost \cup disturbed \subseteq Deploys
  /\ faults \in 0..MaxFaults
  /\ holding = {d \in Deploys : route[d] \in Pending}

\* The containers and the network of a slug belong to the resource that holds
\* the slug in the store (M5), unless the write that claims the slug failed and
\* the deploy went on without it.
Isolated ==
  /\ \A c \in up : c[1] \in lost \/ slugOwner[Slug(c[1])] = ResourceOf(c)
  /\ \A s \in Slugs : \/ net[s] \in {None, slugOwner[s]}
                      \/ \E d \in lost : target[d] = net[s]

\* Write-then-launch: while its handler waits for it, a deploy's record says
\* deploying and no tick removes what it launched -- if no other deploy of the
\* resource overlapped it, its record was written and no tick quarantined it.
LaunchIntact ==
  \A d \in Deploys \ disturbed : route[d] = "await" =>
    /\ record[target[d]].status = "deploying"
    /\ work[d] \in {"gate", "route", "verify"} => <<d, "handler">> \in up
    /\ work[d] \in {"route", "verify"} => <<d, "gate">> \in up

\* No record stays deploying: a crash, a hung build or a lost write of the
\* outcome ends in the stale pass.
RecordsResolve ==
  \A r \in Resources : record[r].status = "deploying" ~> record[r].status # "deploying"

\* Containers of a resource whose record is not active are collected, whoever
\* left them behind: a failed deploy, a crash, or work past its deadline.
OrphansCollected ==
  \A c \in Containers :
    c \in up /\ ~Active(ResourceOf(c)) ~> c \notin up \/ Active(ResourceOf(c))

\* The two slots of a deploy are given back even if its work hangs for ever.
SlotsReleased == \A d \in Deploys : d \in holding ~> d \notin holding

\* memory.ts:29: "Monotonic deploy version".
VersionMonotonic ==
  [][\A r \in Resources : record'[r].version >= record[r].version]_deployerVars

\* server.ts:121-124: "When present the route refuses (pre-stream 503) any
\* deploy that would push running + in-flight containers past
\* maxContainers": outside a launch, no more containers run than fit.
HostCapKept ==
  \/ \E d \in Deploys : Working(d) /\ route[d] # "await"
  \/ Cardinality(up \ wedged) <= MaxContainers
=============================================================================
