--------------------------- MODULE HostingProofs ---------------------------
(***************************************************************************)
(* The components that make and host resources, each proved for every      *)
(* value of its constants: the shutdown of a service, the generator, the   *)
(* orchestrator, the deployer, the build stream; and at the end all of them*)
(* together.                                                               *)
(***************************************************************************)
EXTENDS MCHosting, FiniteSetTheorems, SequenceTheorems, TLAPS

-----------------------------------------------------------------------------
(***************************************************************************)
(* The shutdown.  What closes the clients only under a quiet service is    *)
(* the order of its steps: each establishes what the next relies on, and   *)
(* nothing that runs beside them takes it back.                            *)
(***************************************************************************)
ShutdownOrder ==
  /\ phase # "up" => ~intake
  /\ phase \in {"drained", "stopping", "closing", "exited"} =>
       timedOut \/ \A h \in Handlers : request[h] # "running"
  /\ phase \in {"stopping", "closing", "exited"} => ~timer
  /\ phase \in {"closing", "exited"} => ~current

ShutdownInv == ShutdownTypeOK /\ ShutdownOrder

LEMMA ShutdownStart == ShutdownInit => ShutdownInv
<1> SUFFICES ASSUME ShutdownInit PROVE ShutdownInv
  OBVIOUS
<1>1. ShutdownTypeOK
  <2>1. 0 \in 0..MaxTicks
    BY ShutdownAssumption
  <2> QED BY <2>1, Zenon DEF ShutdownInit, ShutdownTypeOK
<1>2. ShutdownOrder
  BY DEF ShutdownInit, ShutdownOrder
<1> QED BY <1>1, <1>2 DEF ShutdownInv

LEMMA ShutdownTyped ==
  ASSUME ShutdownTypeOK, [ShutdownNext]_shutdownVars
  PROVE  ShutdownTypeOK'
<1> USE ShutdownAssumption DEF ShutdownTypeOK
<1>1. ASSUME NEW h \in Handlers, Arrives(h) \/ Returns(h) PROVE ShutdownTypeOK'
  BY <1>1 DEF Arrives, Returns
<1>2. CASE LoopTicks
  <2>1. ticks' \in 0..MaxTicks
    BY <1>2 DEF LoopTicks
  <2> QED BY <1>2, <2>1 DEF LoopTicks
<1>3. CASE TickEnds \/ Signal
  BY <1>3 DEF TickEnds, Signal
<1>4. CASE Drained \/ DrainTimesOut \/ StopLoop \/ ClosePools \/ Exits
  BY <1>4 DEF Drained, DrainTimesOut, StopLoop, ClosePools, Exits
<1>5. ASSUME NEW k \in Clients, CloseClient(k) PROVE ShutdownTypeOK'
  BY <1>5 DEF CloseClient
<1>6. CASE UNCHANGED shutdownVars
  BY <1>6 DEF shutdownVars
<1> QED BY <1>1, <1>2, <1>3, <1>4, <1>5, <1>6 DEF ShutdownNext, ShutdownStep

LEMMA ShutdownOrdered ==
  ASSUME ShutdownInv, [ShutdownNext]_shutdownVars
  PROVE  ShutdownOrder'
<1> USE DEF ShutdownInv, ShutdownOrder
<1>1. ASSUME NEW h \in Handlers, Arrives(h) \/ Returns(h) PROVE ShutdownOrder'
  <2>1. /\ UNCHANGED <<phase, intake, timer, current, timedOut>>
        /\ phase # "up" => request'[h] # "running"
        /\ \A g \in Handlers : g # h => request'[g] = request[g]
    BY <1>1 DEF Arrives, Returns, ShutdownTypeOK
  <2> QED BY <2>1
<1>2. CASE LoopTicks \/ TickEnds \/ Signal
  BY <1>2 DEF LoopTicks, TickEnds, Signal
<1>3. CASE Drained \/ DrainTimesOut \/ StopLoop
  BY <1>3 DEF Drained, DrainTimesOut, StopLoop
<1>4. CASE ClosePools \/ Exits
  BY <1>4 DEF ClosePools, Exits, StopSettles
<1>5. ASSUME NEW k \in Clients, CloseClient(k) PROVE ShutdownOrder'
  BY <1>5 DEF CloseClient
<1>6. CASE UNCHANGED shutdownVars
  BY <1>6 DEF shutdownVars
<1> QED BY <1>1, <1>2, <1>3, <1>4, <1>5, <1>6 DEF ShutdownNext, ShutdownStep

LEMMA ShutdownInvariant ==
  ShutdownInit /\ [][ShutdownNext]_shutdownVars => []ShutdownInv
<1>1. ShutdownInv /\ [ShutdownNext]_shutdownVars => ShutdownInv'
  BY ShutdownTyped, ShutdownOrdered DEF ShutdownInv
<1> QED BY ShutdownStart, <1>1, PTL

\* No client is closed under a tick of the reconcile loop, nor under a request
\* unless the drain was cut short, for any number of handlers, clients and ticks
\* (runGracefulShutdown, the stop of the loop).
THEOREM PoolsCloseQuietly == ShutdownSpec => []PoolsCloseQuiet
<1>1. ShutdownInv => PoolsCloseQuiet
  BY DEF ShutdownInv, ShutdownOrder, PoolsCloseQuiet
<1> QED BY ShutdownInvariant, <1>1, PTL DEF ShutdownSpec

-----------------------------------------------------------------------------
(***************************************************************************)
(* The generator.  An attempt's directory exists exactly while it runs, and*)
(* the bundle under repair is one whose violations asked for it.           *)
(***************************************************************************)
InAttempt == {"first", "missing", "repair", "assemble", "validate"}

AtMostOne(S) == \A a, b \in S : a = b

GenTyped ==
  /\ gen \in [pc : {"begin", "hand", "done"} \cup InAttempt,
              attempt : 0..MaxAttempts, repairs : 0..MaxRepairs]
  /\ tmp \in SUBSET Directories /\ AtMostOne(tmp)
  /\ bundle \in SUBSET Directories /\ AtMostOne(bundle)
  /\ host \in SUBSET PlatformFlaws
  /\ result \in {"none", "accepted", "rejected", "failed"}

GenOrder ==
  /\ gen.pc = "begin" => gen.attempt < MaxAttempts
  /\ gen.pc \in {"begin", "hand", "done"} => tmp = {}
  /\ result # "none" => gen.pc = "done"
  /\ result = "accepted" => \A d \in bundle : Violations(d) = {}
  /\ gen.pc = "repair" => \E d \in bundle : Repairable(Violations(d)) # {}

GenInv == GenTyped /\ GenOrder

\* What passes the four gates is whole, and what the agent can repair is a
\* missing file, a flaw of its own files or, wrongly, the prompt on the card.
LEMMA GatesComplete ==
  ASSUME NEW d \in Directories, GenTyped, Violations(d) = {}
  PROVE  d.missing = {} /\ d.flaws = {} /\ host = {}
<1>1. ShapeGate(d) = {} /\ StaticGate(d) = {} /\ BuildSpecGate(d) = {} /\ ServeGate(d) = {}
  BY DEF Violations
<1>2. d.missing = {}
  BY <1>1 DEF ShapeGate
<1>3. d.flaws \cap {"shape"} = {} /\ host \cap {"card"} = {}
  BY <1>1, <1>2 DEF ShapeGate
<1>4. d.flaws \cap {"static"} = {} /\ host \cap {"prompt"} = {}
  BY <1>1 DEF StaticGate
<1>5. d.flaws \cap {"serve"} = {}
  BY <1>1, <1>2, <1>3 DEF ServeGate
<1>6. d.flaws \in SUBSET Flaws /\ host \in SUBSET PlatformFlaws
  BY DEF Directories, GenTyped
<1>7. d.flaws = {}
  BY <1>3, <1>4, <1>5, <1>6 DEF Flaws
<1>8. host = {}
  BY <1>1, <1>3, <1>4, <1>6 DEF BuildSpecGate, PlatformFlaws
<1> QED BY <1>2, <1>7, <1>8

LEMMA RepairableIsFlawed ==
  ASSUME NEW d \in Directories, Repairable(Violations(d)) # {}, "prompt" \notin host
  PROVE  d.missing # {} \/ d.flaws # {}
<1> SUFFICES ASSUME d.missing = {}, d.flaws = {} PROVE FALSE
  OBVIOUS
<1>1. /\ ShapeGate(d) \in SUBSET {"card"}
      /\ StaticGate(d) = {}
      /\ BuildSpecGate(d) \in SUBSET {"recipe"}
      /\ ServeGate(d) = {}
  BY DEF ShapeGate, StaticGate, BuildSpecGate, ServeGate
<1> QED BY <1>1 DEF Violations, Repairable

LEMMA GenerationStart == GenerationInit => GenInv
<1> SUFFICES ASSUME GenerationInit PROVE GenInv
  OBVIOUS
<1>1. 0 \in 0..MaxAttempts /\ 0 \in 0..MaxRepairs /\ 0 < MaxAttempts
  BY GenerationAssumption
<1>2. GenTyped
  BY <1>1, Zenon DEF GenerationInit, GenTyped, AtMostOne
<1>3. GenOrder
  BY <1>1 DEF GenerationInit, GenOrder
<1> QED BY <1>2, <1>3 DEF GenInv

\* An attempt ends: the loop begins another or hands over what there is.
LEMMA AttemptEnds ==
  ASSUME GenInv, gen.pc \in InAttempt, NEW to \in {"begin", "hand", "done"}, EndAttempt(to),
         to = "begin" => gen.attempt < MaxAttempts,
         UNCHANGED <<host, bundle>>,
         result' = result \/ (to = "done" /\ result' = "failed")
  PROVE  GenInv'
<1> USE DEF GenInv, EndAttempt
<1>1. /\ gen'.pc = to /\ gen'.attempt = gen.attempt
      /\ gen' \in [pc : {"begin", "hand", "done"} \cup InAttempt,
                   attempt : 0..MaxAttempts, repairs : 0..MaxRepairs]
  BY DEF GenTyped
<1>2. result = "none"
  BY DEF GenOrder, InAttempt
<1>3. GenTyped'
  BY <1>1, <1>2, Zenon DEF GenTyped, AtMostOne
<1>4. GenOrder'
  BY <1>1, <1>2 DEF GenOrder
<1> QED BY <1>3, <1>4

LEMMA GenerationStep ==
  ASSUME GenInv, [GenerationNext]_genVars
  PROVE  GenInv'
<1> USE DEF GenInv
<1> DEFINE Loops == [pc : {"begin", "hand", "done"} \cup InAttempt,
                     attempt : 0..MaxAttempts, repairs : 0..MaxRepairs]
<1>a. MaxAttempts \in Nat /\ MaxRepairs \in Nat
  BY GenerationAssumption
<1>b. gen \in Loops
  BY DEF GenTyped
<1>1. CASE BeginAttempt
  <2>1. gen.attempt + 1 \in 0..MaxAttempts /\ 0 \in 0..MaxRepairs
    BY <1>1, <1>a, <1>b DEF BeginAttempt, GenOrder
  <2>2. gen' \in Loops /\ gen'.pc = "first"
    BY <1>1, <1>b, <2>1 DEF BeginAttempt, InAttempt
  <2>3. FreshDir \in Directories
    BY DEF FreshDir, Directories
  <2>4. tmp' = {FreshDir} /\ bundle' = {} /\ UNCHANGED <<host, result>> /\ gen.pc = "begin"
    BY <1>1 DEF BeginAttempt
  <2>5. GenTyped'
    BY <2>2, <2>3, <2>4 DEF GenTyped, AtMostOne
  <2>6. GenOrder'
    BY <2>2, <2>4 DEF GenOrder
  <2> QED BY <2>5, <2>6
<1>2. CASE AgentWrites
  <2>1. PICK d \in Directories :
          /\ tmp' = {d}
          /\ gen' = [gen EXCEPT !.pc = IF gen.pc = "first" /\ d.missing # {}
                                       THEN "missing" ELSE "assemble"]
    BY <1>2 DEF AgentWrites
  <2>2. gen' \in Loops /\ gen'.pc \in {"missing", "assemble"}
    BY <1>b, <2>1 DEF InAttempt
  <2>3. UNCHANGED <<host, bundle, result>> /\ gen.pc \in InAttempt
    BY <1>2 DEF AgentWrites, InAttempt
  <2>4. GenTyped'
    BY <2>1, <2>2, <2>3 DEF GenTyped, AtMostOne
  <2>5. GenOrder'
    BY <2>2, <2>3 DEF GenOrder, InAttempt
  <2> QED BY <2>4, <2>5
<1>3. ASSUME gen.pc \in InAttempt, Throws PROVE GenInv'
  BY <1>3, AttemptEnds DEF Throws
<1>4. CASE AttemptThrows
  BY <1>3, <1>4 DEF AttemptThrows, InAttempt
<1>5. CASE Assemble
  <2>1. PICK d \in tmp :
          IF d.alien THEN Throws
          ELSE /\ bundle' = {d} /\ gen' = [gen EXCEPT !.pc = "validate"]
               /\ UNCHANGED <<tmp, host, result>>
    BY <1>5 DEF Assemble
  <2>2. gen.pc = "assemble" /\ d \in Directories
    BY <1>5 DEF Assemble, GenTyped
  <2>3. CASE d.alien
    BY <1>3, <2>1, <2>2, <2>3 DEF InAttempt
  <2>4. CASE ~d.alien
    <3>1. bundle' = {d} /\ UNCHANGED <<tmp, host, result>>
      BY <2>1, <2>4
    <3>2. gen' \in Loops /\ gen'.pc = "validate"
      BY <1>b, <2>1, <2>4 DEF InAttempt
    <3>3. GenTyped'
      BY <2>2, <3>1, <3>2 DEF GenTyped, AtMostOne
    <3>4. GenOrder'
      BY <2>2, <3>1, <3>2 DEF GenOrder
    <3> QED BY <3>3, <3>4
  <2> QED BY <2>3, <2>4
<1>6. CASE Validate
  <2>1. PICK d \in bundle :
          CASE Repairable(Violations(d)) = {} -> EndAttempt("hand")
            [] Repairable(Violations(d)) # {} /\ gen.repairs < MaxRepairs ->
                 /\ gen' = [gen EXCEPT !.repairs = @ + 1, !.pc = "repair"]
                 /\ UNCHANGED tmp
            [] OTHER -> EndAttempt(IF gen.attempt < MaxAttempts THEN "begin" ELSE "hand")
    BY <1>6 DEF Validate
  <2>2. gen.pc = "validate" /\ UNCHANGED <<host, bundle, result>>
    BY <1>6 DEF Validate
  <2>3. CASE EndAttempt("hand")
    BY <2>2, <2>3, AttemptEnds DEF InAttempt
  <2>4. CASE gen.attempt < MaxAttempts /\ EndAttempt("begin")
    BY <2>2, <2>4, AttemptEnds DEF InAttempt
  <2>5. CASE /\ Repairable(Violations(d)) # {} /\ gen.repairs < MaxRepairs
             /\ gen' = [gen EXCEPT !.repairs = @ + 1, !.pc = "repair"]
             /\ UNCHANGED tmp
    <3>1. gen.repairs + 1 \in 0..MaxRepairs
      BY <1>a, <1>b, <2>5
    <3>2. gen' \in Loops /\ gen'.pc = "repair"
      BY <1>b, <2>5, <3>1 DEF InAttempt
    <3>3. GenTyped'
      BY <2>2, <2>5, <3>2 DEF GenTyped, AtMostOne
    <3>4. result = "none"
      BY <2>2 DEF GenOrder
    <3>5. Repairable(Violations(d))' # {}
      BY <2>2, <2>5 DEF Repairable, Violations, ShapeGate, StaticGate, BuildSpecGate, ServeGate
    <3>6. GenOrder'
      BY <2>2, <3>2, <3>4, <3>5 DEF GenOrder
    <3> QED BY <3>3, <3>6
  <2> QED BY <2>1, <2>3, <2>4, <2>5
<1>7. CASE CallerValidates
  <2>1. PICK d \in bundle : \/ result' = IF Violations(d) = {} THEN "accepted" ELSE "rejected"
                            \/ result' = "failed"
    BY <1>7 DEF CallerValidates
  <2>2. /\ gen.pc = "hand" /\ gen' = [gen EXCEPT !.pc = "done"]
        /\ UNCHANGED <<tmp, host, bundle>>
    BY <1>7 DEF CallerValidates
  <2>3. gen' \in Loops /\ gen'.pc = "done"
    BY <1>b, <2>2
  <2>4. GenTyped'
    BY <2>1, <2>2, <2>3 DEF GenTyped, AtMostOne
  <2>5. \A b \in bundle : Violations(b)' = Violations(b) /\ b = d
    BY <2>2 DEF GenTyped, AtMostOne, Violations, ShapeGate, StaticGate, BuildSpecGate, ServeGate
  <2>6. result' = "accepted" => \A b \in bundle' : Violations(b)' = {}
    BY <2>1, <2>2, <2>5
  <2>7. GenOrder'
    BY <2>2, <2>3, <2>6 DEF GenOrder
  <2> QED BY <2>4, <2>7
<1>8. CASE UNCHANGED genVars
  <2>1. GenTyped'
    BY <1>8, Zenon DEF genVars, GenTyped
  <2>2. GenOrder'
    BY <1>8 DEF genVars, GenOrder, Repairable, Violations, ShapeGate, StaticGate, BuildSpecGate,
                ServeGate
  <2> QED BY <2>1, <2>2
<1> QED BY <1>1, <1>2, <1>4, <1>5, <1>6, <1>7, <1>8 DEF GenerationNext

LEMMA GenerationInvariant ==
  GenerationInit /\ [][GenerationNext]_genVars => []GenInv
<1>1. GenInv /\ [GenerationNext]_genVars => GenInv'
  BY GenerationStep
<1> QED BY GenerationStart, <1>1, PTL

LEMMA SmallSet ==
  ASSUME NEW S, AtMostOne(S)
  PROVE  Cardinality(S) <= 1
<1>1. CASE S = {}
  BY <1>1, FS_EmptySet
<1>2. CASE S # {}
  <2>1. PICK a \in S : S = {a}
    BY <1>2 DEF AtMostOne
  <2>2. Cardinality({a}) = 1
    BY FS_Singleton
  <2> QED BY <2>1, <2>2
<1> QED BY <1>1, <1>2

LEMMA GenerationHolds ==
  ASSUME GenInv
  PROVE  GenerationTypeOK /\ AcceptedIsWhole /\ NoHopelessCall
<1> USE DEF GenInv
<1>1. GenerationTypeOK
  <2>1. Cardinality(tmp) <= 1 /\ Cardinality(bundle) <= 1
    BY SmallSet DEF GenTyped
  <2>2. {"begin", "hand", "done"} \cup InAttempt
          = {"begin", "first", "missing", "repair", "assemble", "validate", "hand", "done"}
    BY DEF InAttempt
  <2> QED BY <2>1, <2>2, Zenon DEF GenTyped, GenerationTypeOK
<1>2. AcceptedIsWhole
  <2>1. result = "accepted" => \A d \in bundle : d.missing = {} /\ d.flaws = {} /\ host = {}
    BY GatesComplete DEF GenOrder, GenTyped
  <2> QED BY <2>1 DEF AcceptedIsWhole, GenOrder
<1>3. NoHopelessCall
  <2> SUFFICES ASSUME gen.pc = "repair", "prompt" \notin host, NEW d \in bundle
               PROVE  d.missing # {} \/ d.flaws # {}
    BY DEF NoHopelessCall
  <2>1. d \in Directories /\ Repairable(Violations(d)) # {}
    BY DEF GenOrder, GenTyped, AtMostOne
  <2> QED BY <2>1, RepairableIsFlawed
<1> QED BY <1>1, <1>2, <1>3

-----------------------------------------------------------------------------
(***************************************************************************)
(* The orchestrator.  A sandbox is in the pool or served, never both, and  *)
(* every one is younger than the counter that names them.                  *)
(***************************************************************************)
Distinct(s) == \A i, j \in 1..Len(s) : s[i] = s[j] => i = j

LEMMA ToSetIs ==
  ASSUME NEW S, NEW s \in Seq(S)
  PROVE  ToSet(s) = {s[i] : i \in 1..Len(s)} /\ ToSet(s) \in SUBSET S
<1>1. DOMAIN s = 1..Len(s) /\ \A i \in 1..Len(s) : s[i] \in S
  OBVIOUS
<1> QED BY <1>1 DEF ToSet

LEMMA FrontIs ==
  ASSUME NEW S, NEW s \in Seq(S), s # <<>>, Distinct(s)
  PROVE  /\ Front(s) \in Seq(S) /\ Len(Front(s)) = Len(s) - 1 /\ Distinct(Front(s))
         /\ Last(s) \in S /\ Last(s) \notin ToSet(Front(s))
         /\ ToSet(s) = ToSet(Front(s)) \cup {Last(s)}
<1> DEFINE n == Len(s)
           t == Front(s)
<1>1. n \in Nat \ {0} /\ \A i \in 1..n : s[i] \in S
  BY EmptySeq, LenProperties
<1>2. t \in Seq(S) /\ Len(t) = n - 1 /\ \A i \in 1..(n - 1) : t[i] = s[i]
  <2>1. \A i \in 1..(n - 1) : s[i] \in S
    BY <1>1
  <2>2. 1 \in Int /\ n - 1 \in Int
    BY <1>1
  <2>3. /\ SubSeq(s, 1, n - 1) \in Seq(S)
        /\ Len(SubSeq(s, 1, n - 1)) = IF 1 <= n - 1 THEN (n - 1) - 1 + 1 ELSE 0
        /\ \A i \in 1..((n - 1) - 1 + 1) : SubSeq(s, 1, n - 1)[i] = s[1 + i - 1]
    BY <2>1, <2>2, SubSeqProperties
  <2>4. (n - 1) - 1 + 1 = n - 1 /\ \A i \in 1..(n - 1) : 1 + i - 1 = i
    BY <1>1
  <2>5. (IF 1 <= n - 1 THEN (n - 1) - 1 + 1 ELSE 0) = n - 1
    <3>1. n \in Nat /\ n # 0
      BY <1>1
    <3> HIDE DEF n
    <3> QED BY <3>1
  <2> QED BY <1>1, <2>3, <2>4, <2>5 DEF Front
<1>3. Last(s) = s[n]
  BY DEF Last
<1> HIDE DEF t
<1>4. Distinct(t)
  BY <1>1, <1>2 DEF Distinct
<1>5. ToSet(t) = {t[i] : i \in 1..(n - 1)} /\ ToSet(s) = {s[i] : i \in 1..n}
  BY <1>2, ToSetIs
<1>6. Last(s) \notin ToSet(t)
  BY <1>1, <1>2, <1>3, <1>5 DEF Distinct
<1>7. ToSet(s) = ToSet(t) \cup {Last(s)}
  BY <1>1, <1>2, <1>3, <1>5
<1> QED BY <1>1, <1>2, <1>3, <1>4, <1>6, <1>7 DEF t

LEMMA AppendIs ==
  ASSUME NEW S, NEW s \in Seq(S), NEW e \in S, e \notin ToSet(s), Distinct(s)
  PROVE  /\ Append(s, e) \in Seq(S) /\ Len(Append(s, e)) = Len(s) + 1
         /\ Distinct(Append(s, e))
         /\ ToSet(Append(s, e)) = ToSet(s) \cup {e}
<1> DEFINE n == Len(s)
           t == Append(s, e)
<1>1. n \in Nat
  BY LenProperties
<1>2. t \in Seq(S) /\ Len(t) = n + 1 /\ t[n + 1] = e /\ \A i \in 1..n : t[i] = s[i]
  BY AppendProperties
<1> HIDE DEF t
<1>3. ToSet(t) = {t[i] : i \in 1..(n + 1)} /\ ToSet(s) = {s[i] : i \in 1..n}
  BY <1>2, ToSetIs
<1>4. ToSet(t) = ToSet(s) \cup {e}
  BY <1>1, <1>2, <1>3
<1>5. Distinct(t)
  BY <1>1, <1>2, <1>3 DEF Distinct
<1> QED BY <1>2, <1>4, <1>5 DEF t

LEMMA DistinctCount ==
  ASSUME NEW S, NEW s \in Seq(S), Distinct(s)
  PROVE  Cardinality(ToSet(s)) = Len(s)
<1> DEFINE n == Len(s)
           f == [i \in 1..n |-> s[i]]
<1>1. n \in Nat
  BY LenProperties
<1>2. f \in Bijection(1..n, ToSet(s))
  <2>1. ToSet(s) = {s[i] : i \in 1..n}
    BY ToSetIs
  <2>2. f \in [1..n -> ToSet(s)] /\ \A y \in ToSet(s) : \E i \in 1..n : f[i] = y
    BY <2>1
  <2>3. \A i, j \in 1..n : f[i] = f[j] => i = j
    BY DEF Distinct
  <2> HIDE DEF f
  <2> QED BY <2>2, <2>3 DEF Bijection, Injection, Surjection, IsInjective
<1>3. IsFiniteSet(1..n) /\ Cardinality(1..n) = n
  BY <1>1, FS_Interval
<1> HIDE DEF f, n
<1>4. Cardinality(ToSet(s)) = n
  BY <1>2, <1>3, FS_Bijection DEF ExistsBijection
<1> QED BY <1>4 DEF n

OrchTyped ==
  /\ created \in Nat /\ created <= MaxSandboxes
  /\ running \in SUBSET Sandboxes /\ runs \in SUBSET Sandboxes
  /\ pool \in Seq(Sandboxes)
  /\ served \in [Schedules -> SUBSET Sandboxes]
  /\ schedule \in [Schedules -> {"idle", "launching", "served", "failed"}]
  /\ topUp \in {"none", "due", "launching"}
  /\ reap \in [pc : {"idle", "stopping", "settling", "draining"}, left : SUBSET Sandboxes]
  /\ leaked \in SUBSET Sandboxes
  /\ stopFaults \in Nat /\ stopFaults <= MaxStopFaults

\* What is running, in the pool or served was created.
OrchCreated ==
  /\ \A s \in running : s <= created
  /\ \A s \in ToSet(pool) : s <= created
  /\ \A c \in Schedules : \A s \in served[c] : s <= created

PoolShaped ==
  /\ Distinct(pool) /\ Len(pool) <= PoolSize
  /\ topUp = "launching" => Len(pool) < PoolSize

OrchOwned ==
  /\ \A c \in Schedules : served[c] \cap ToSet(pool) = {}
  /\ \A c, d \in Schedules : c # d => served[c] \cap served[d] = {}
  /\ \A s \in runs : \E c \in Schedules : s \in served[c]
  /\ \A c \in Schedules : schedule[c] \in {"idle", "launching"} => served[c] = {}

\* A container that runs is known to the runs, the pool or the reap, or its stop
\* failed.
OrchTracked ==
  /\ running \subseteq runs \cup ToSet(pool) \cup reap.left \cup leaked
  /\ reap.pc \in {"idle", "settling"} => reap.left = {}
  /\ reap.pc = "stopping" => reap.left \subseteq runs

OrchInv == OrchTyped /\ OrchCreated /\ PoolShaped /\ OrchOwned /\ OrchTracked

LEMMA OrchStart == OrchInit => OrchInv
<1> SUFFICES ASSUME OrchInit PROVE OrchInv
  OBVIOUS
<1> USE OrchestratorAssumption DEF OrchInit, ReapIdle
<1>1. /\ <<>> \in Seq(Sandboxes) /\ Len(<<>>) = 0 /\ ToSet(<<>>) = {} /\ Distinct(<<>>)
  BY DEF ToSet, Distinct
<1>2. OrchTyped
  BY <1>1 DEF OrchTyped
<1>3. OrchCreated /\ OrchOwned /\ OrchTracked
  BY <1>1 DEF OrchCreated, OrchOwned, OrchTracked
<1>4. PoolShaped
  <2>1. Distinct(pool) /\ Len(pool) <= PoolSize /\ topUp # "launching"
    BY <1>1
  <2> QED BY <2>1 DEF PoolShaped
<1> QED BY <1>2, <1>3, <1>4 DEF OrchInv

\* A schedule gets a sandbox that nobody was given and that is not in the pool
\* any more.
LEMMA Serves ==
  ASSUME OrchInv, NEW c \in Schedules, NEW s \in Sandboxes, Serve(c, s), served[c] = {},
         \A d \in Schedules : s \notin served[d],
         s \notin ToSet(pool)', ToSet(pool)' \subseteq ToSet(pool)
  PROVE  /\ OrchOwned'
         /\ runs' \in SUBSET Sandboxes /\ served' \in [Schedules -> SUBSET Sandboxes]
         /\ schedule' \in [Schedules -> {"idle", "launching", "served", "failed"}]
         /\ topUp' \in {"none", "due", "launching"} /\ (topUp' = "launching" => topUp = "launching")
         /\ \A d \in Schedules : served'[d] = IF d = c THEN {s} ELSE served[d]
<1> USE DEF OrchInv, Serve
<1>1. /\ \A d \in Schedules : served'[d] = IF d = c THEN {s} ELSE served[d]
      /\ runs' = runs \cup {s}
  BY DEF OrchTyped
<1>2. /\ runs' \in SUBSET Sandboxes /\ served' \in [Schedules -> SUBSET Sandboxes]
      /\ schedule' \in [Schedules -> {"idle", "launching", "served", "failed"}]
  BY DEF OrchTyped
<1>3. topUp' \in {"none", "due", "launching"} /\ (topUp' = "launching" => topUp = "launching")
  BY DEF OrchTyped
<1>4. \A d \in Schedules : schedule'[d] \in {"idle", "launching"} => d # c /\ schedule'[d] = schedule[d]
  BY DEF OrchTyped
<1>5. OrchOwned'
  <2>1. \A d \in Schedules : served'[d] \cap ToSet(pool)' = {}
    BY <1>1 DEF OrchOwned
  <2>2. \A d, e \in Schedules : d # e => served'[d] \cap served'[e] = {}
    BY <1>1 DEF OrchOwned
  <2>3. \A r \in runs' : \E d \in Schedules : r \in served'[d]
    BY <1>1 DEF OrchOwned
  <2>4. \A d \in Schedules : schedule'[d] \in {"idle", "launching"} => served'[d] = {}
    BY <1>1, <1>4 DEF OrchOwned
  <2> QED BY <2>1, <2>2, <2>3, <2>4 DEF OrchOwned
<1> QED BY <1>1, <1>2, <1>3, <1>5

\* What a stop leaves: the container is gone, or it is one whose stop failed.
Stopped(s) ==
  /\ running' \subseteq running /\ leaked \subseteq leaked'
  /\ leaked' \in SUBSET Sandboxes /\ stopFaults' \in Nat /\ stopFaults' <= MaxStopFaults
  /\ s \in running' => s \in leaked'

LEMMA StopIs ==
  ASSUME OrchInv, NEW s \in Sandboxes, StopSandbox(s)
  PROVE  Stopped(s)
BY OrchestratorAssumption DEF OrchInv, OrchTyped, StopSandbox, stopFaultVars, Stopped

LEMMA OrchStep ==
  ASSUME OrchInv, [OrchNext]_orchVars
  PROVE  OrchInv'
<1> USE DEF OrchInv
<1>0. /\ pool \in Seq(Sandboxes) /\ Distinct(pool) /\ created \in Nat /\ Len(pool) \in Nat
      /\ PoolSize \in Nat /\ Sandboxes \in SUBSET Nat
      /\ \A s \in Sandboxes : s <= MaxSandboxes
  BY LenProperties, OrchestratorAssumption DEF OrchTyped, PoolShaped, Sandboxes
<1>1. ASSUME NEW c \in Schedules, ScheduleWarm(c) PROVE OrchInv'
  <2> DEFINE s == Last(pool)
  <2>1. /\ schedule[c] = "idle" /\ pool # <<>> /\ Serve(c, s) /\ pool' = Front(pool)
        /\ UNCHANGED <<created, running, reap, leaked, stopFaults>>
    BY <1>1 DEF ScheduleWarm, Acquire, stopFaultVars
  <2>2. /\ pool' \in Seq(Sandboxes) /\ Distinct(pool') /\ Len(pool') = Len(pool) - 1
        /\ s \in Sandboxes /\ s \notin ToSet(pool') /\ ToSet(pool) = ToSet(pool') \cup {s}
    BY <1>0, <2>1, FrontIs
  <2> HIDE DEF s
  <2>3. \A d \in Schedules : s \notin served[d]
    BY <2>2 DEF OrchOwned
  <2>a. served[c] = {}
    BY <2>1 DEF OrchOwned
  <2>4. /\ OrchOwned'
        /\ runs' \in SUBSET Sandboxes /\ served' \in [Schedules -> SUBSET Sandboxes]
        /\ schedule' \in [Schedules -> {"idle", "launching", "served", "failed"}]
        /\ topUp' \in {"none", "due", "launching"} /\ (topUp' = "launching" => topUp = "launching")
        /\ \A d \in Schedules : served'[d] = IF d = c THEN {s} ELSE served[d]
    BY <2>1, <2>2, <2>3, <2>a, Serves
  <2>5. OrchTyped'
    BY <2>1, <2>2, <2>4 DEF OrchTyped
  <2>6. OrchCreated'
    BY <2>1, <2>2, <2>4 DEF OrchCreated
  <2>7. PoolShaped'
    <3>1. Len(pool') <= PoolSize /\ (topUp' = "launching" => Len(pool') < PoolSize)
      BY <1>0, <2>2, <2>4 DEF PoolShaped
    <3> QED BY <2>2, <3>1 DEF PoolShaped
  <2>8. OrchTracked'
    BY <2>1, <2>2 DEF OrchTracked, Serve
  <2> QED BY <2>4, <2>5, <2>6, <2>7, <2>8
<1>2. ASSUME NEW c \in Schedules, ScheduleCold(c) PROVE OrchInv'
  <2>1. /\ schedule[c] = "idle" /\ schedule' = [schedule EXCEPT ![c] = "launching"]
        /\ UNCHANGED <<created, running, pool, runs, served, topUp, reap, leaked, stopFaults>>
    BY <1>2 DEF ScheduleCold, stopFaultVars
  <2>2. OrchTyped' /\ OrchCreated' /\ PoolShaped' /\ OrchTracked'
    BY <2>1 DEF OrchTyped, OrchCreated, PoolShaped, OrchTracked
  <2>3. OrchOwned'
    BY <2>1 DEF OrchOwned, OrchTyped
  <2> QED BY <2>2, <2>3
<1>3. ASSUME NEW c \in Schedules, ScheduleLaunched(c) PROVE OrchInv'
  <2>1. schedule[c] = "launching" /\ UNCHANGED <<pool, reap, leaked, stopFaults>> /\ served[c] = {}
    BY <1>3 DEF ScheduleLaunched, OrchOwned, stopFaultVars
  <2>2. CASE /\ schedule' = [schedule EXCEPT ![c] = "failed"]
             /\ UNCHANGED <<created, running, runs, served, topUp>>
    <3>1. OrchTyped' /\ OrchCreated' /\ PoolShaped' /\ OrchTracked'
      BY <2>1, <2>2 DEF OrchTyped, OrchCreated, PoolShaped, OrchTracked
    <3>2. OrchOwned'
      BY <2>1, <2>2 DEF OrchOwned, OrchTyped
    <3> QED BY <3>1, <3>2
  <2>3. ASSUME NEW s \in Sandboxes, Launch(s), Serve(c, s) PROVE OrchInv'
    <3>1. s = created + 1 /\ created' = s /\ running' = running \cup {s} /\ s <= MaxSandboxes
      BY <1>0, <2>3 DEF Launch
    <3>2. s \notin ToSet(pool) /\ \A d \in Schedules : s \notin served[d]
      BY <1>0, <3>1 DEF OrchCreated
    <3>3. /\ OrchOwned'
          /\ runs' \in SUBSET Sandboxes /\ served' \in [Schedules -> SUBSET Sandboxes]
          /\ schedule' \in [Schedules -> {"idle", "launching", "served", "failed"}]
          /\ topUp' \in {"none", "due", "launching"} /\ (topUp' = "launching" => topUp = "launching")
          /\ \A d \in Schedules : served'[d] = IF d = c THEN {s} ELSE served[d]
      BY <2>1, <2>3, <3>2, Serves
    <3>4. OrchTyped'
      BY <1>0, <2>1, <2>3, <3>1, <3>3 DEF OrchTyped
    <3>5. OrchCreated'
      <4>1. ToSet(pool) \in SUBSET Nat /\ (\A d \in Schedules : served[d] \in SUBSET Nat)
            /\ running \in SUBSET Nat
        BY <1>0, ToSetIs DEF OrchTyped
      <4>2. \A x \in Nat : x <= created => x <= created'
        BY <1>0, <3>1
      <4>3. s <= created'
        BY <1>0, <3>1
      <4>4. /\ \A x \in running' : x <= created'
            /\ \A x \in ToSet(pool)' : x <= created'
        BY <2>1, <3>1, <4>1, <4>2, <4>3 DEF OrchCreated
      <4>5. \A d \in Schedules : \A x \in served'[d] : x <= created'
        BY <3>3, <4>1, <4>2, <4>3 DEF OrchCreated
      <4> QED BY <4>4, <4>5 DEF OrchCreated
    <3>6. PoolShaped'
      BY <2>1, <3>3 DEF PoolShaped
    <3>7. OrchTracked'
      BY <2>1, <2>3, <3>1 DEF OrchTracked, Serve
    <3> QED BY <3>3, <3>4, <3>5, <3>6, <3>7
  <2> QED BY <1>3, <2>2, <2>3 DEF ScheduleLaunched
<1>4. CASE TopUpStart
  <2>1. /\ topUp' = NeedsSpare
        /\ UNCHANGED <<created, running, pool, runs, served, schedule, reap, leaked, stopFaults>>
    BY <1>4 DEF TopUpStart, stopFaultVars
  <2>2. OrchTyped' /\ OrchCreated' /\ OrchOwned' /\ OrchTracked'
    BY <2>1 DEF OrchTyped, OrchCreated, OrchOwned, OrchTracked, NeedsSpare
  <2>3. PoolShaped'
    BY <2>1 DEF PoolShaped, NeedsSpare
  <2> QED BY <2>2, <2>3
<1>5. CASE TopUpLaunched
  <2>1. PICK s \in Sandboxes : Launch(s) /\ pool' = Append(pool, s)
    BY <1>5 DEF TopUpLaunched
  <2>2. /\ topUp = "launching"
        /\ topUp' = IF Len(pool) + 1 < PoolSize THEN "launching" ELSE "none"
        /\ UNCHANGED <<runs, served, schedule, reap, leaked, stopFaults>>
    BY <1>5 DEF TopUpLaunched, stopFaultVars
  <2>3. s = created + 1 /\ created' = s /\ running' = running \cup {s} /\ s <= MaxSandboxes
    BY <1>0, <2>1 DEF Launch
  <2>4. s \notin ToSet(pool) /\ \A d \in Schedules : s \notin served[d]
    BY <1>0, <2>3 DEF OrchCreated
  <2>5. /\ pool' \in Seq(Sandboxes) /\ Len(pool') = Len(pool) + 1 /\ Distinct(pool')
        /\ ToSet(pool') = ToSet(pool) \cup {s}
    BY <1>0, <2>1, <2>4, AppendIs
  <2>6. OrchTyped'
    BY <1>0, <2>2, <2>3, <2>5 DEF OrchTyped
  <2>7. OrchCreated'
    <3>1. ToSet(pool) \in SUBSET Nat /\ (\A d \in Schedules : served[d] \in SUBSET Nat)
          /\ running \in SUBSET Nat
      BY <1>0, ToSetIs DEF OrchTyped
    <3>2. \A x \in Nat : x <= created => x <= created'
      BY <1>0, <2>3
    <3>3. s <= created'
      BY <1>0, <2>3
    <3> QED BY <2>2, <2>3, <2>5, <3>1, <3>2, <3>3 DEF OrchCreated
  <2>8. PoolShaped'
    <3>1. Len(pool') <= PoolSize /\ (topUp' = "launching" => Len(pool') < PoolSize)
      BY <1>0, <2>2, <2>5 DEF PoolShaped
    <3> QED BY <2>5, <3>1 DEF PoolShaped
  <2>9. OrchOwned'
    BY <2>2, <2>4, <2>5 DEF OrchOwned
  <2>10. OrchTracked'
    BY <2>2, <2>3, <2>5 DEF OrchTracked
  <2> QED BY <2>6, <2>7, <2>8, <2>9, <2>10
<1>6. CASE TopUpFails
  <2>1. /\ topUp' = "none" /\ reap' = IF reap.pc = "settling" THEN ReapIdle ELSE reap
        /\ UNCHANGED <<created, running, pool, runs, served, schedule, leaked, stopFaults>>
    BY <1>6 DEF TopUpFails, stopFaultVars
  <2>2. OrchTyped' /\ OrchCreated' /\ OrchOwned' /\ PoolShaped'
    BY <2>1 DEF OrchTyped, OrchCreated, OrchOwned, PoolShaped, ReapIdle
  <2>3. OrchTracked'
    BY <2>1 DEF OrchTracked, ReapIdle
  <2> QED BY <2>2, <2>3
<1>7. CASE CollectIdle
  <2>1. /\ reap.pc = "idle" /\ reap' = [pc |-> "stopping", left |-> runs]
        /\ UNCHANGED <<created, running, pool, runs, served, schedule, topUp, leaked, stopFaults>>
    BY <1>7 DEF CollectIdle, stopFaultVars
  <2>2. OrchTyped' /\ OrchCreated' /\ OrchOwned' /\ PoolShaped'
    BY <2>1 DEF OrchTyped, OrchCreated, OrchOwned, PoolShaped
  <2>3. OrchTracked'
    BY <2>1 DEF OrchTracked
  <2> QED BY <2>2, <2>3
<1>8. ASSUME NEW s \in Sandboxes, StopIdle(s) PROVE OrchInv'
  <2>1. /\ runs' = runs \ {s}
        /\ reap' = [pc |-> IF reap.left = {s} THEN "settling" ELSE "stopping",
                    left |-> reap.left \ {s}]
        /\ UNCHANGED <<created, pool, served, schedule, topUp>>
    BY <1>8 DEF StopIdle
  <2>2. Stopped(s)
    BY <1>8, StopIs DEF StopIdle
  <2>3. OrchTyped' /\ OrchCreated' /\ OrchOwned' /\ PoolShaped'
    BY <2>1, <2>2 DEF OrchTyped, OrchCreated, OrchOwned, PoolShaped, Stopped
  <2>4. OrchTracked'
    <3>1. /\ reap'.left = reap.left \ {s} /\ reap'.pc \in {"settling", "stopping"}
          /\ reap'.pc = "settling" => reap'.left = {}
          /\ reap.pc = "stopping"
      BY <1>8, <2>1 DEF StopIdle
    <3>2. reap.left \subseteq runs
      BY <3>1 DEF OrchTracked
    <3>3. running' \subseteq runs' \cup ToSet(pool)' \cup reap'.left \cup leaked'
      BY <2>1, <2>2, <3>1 DEF OrchTracked, Stopped
    <3>4. reap'.left \subseteq runs'
      BY <2>1, <3>1, <3>2
    <3> HIDE DEF OrchInv
    <3> QED BY <3>1, <3>3, <3>4 DEF OrchTracked
  <2> QED BY <2>3, <2>4
<1>9. CASE Drain
  <2>1. /\ reap.pc = "settling" /\ topUp = "none" /\ pool' = <<>>
        /\ reap' = IF pool = <<>> THEN ReapIdle ELSE [pc |-> "draining", left |-> ToSet(pool)]
        /\ UNCHANGED <<created, running, runs, served, schedule, topUp, leaked, stopFaults>>
    BY <1>9 DEF Drain, Settled, stopFaultVars
  <2>2. /\ pool' \in Seq(Sandboxes) /\ ToSet(pool') = {} /\ Distinct(pool') /\ Len(pool') = 0
    BY <2>1 DEF ToSet, Distinct
  <2>3. ToSet(pool) \in SUBSET Sandboxes /\ (pool = <<>> => ToSet(pool) = {})
    BY <1>0, ToSetIs DEF ToSet
  <2>4. OrchTyped'
    BY <2>1, <2>2, <2>3 DEF OrchTyped, ReapIdle
  <2>5. OrchCreated' /\ OrchOwned'
    BY <2>1, <2>2 DEF OrchCreated, OrchOwned
  <2>6. PoolShaped'
    BY <1>0, <2>1, <2>2 DEF PoolShaped
  <2>7. OrchTracked'
    BY <2>1, <2>2, <2>3 DEF OrchTracked, ReapIdle
  <2> QED BY <2>4, <2>5, <2>6, <2>7
<1>10. ASSUME NEW s \in Sandboxes, StopDrained(s) PROVE OrchInv'
  <2>1. /\ reap.pc = "draining"
        /\ reap' = IF reap.left = {s} THEN ReapIdle ELSE [reap EXCEPT !.left = @ \ {s}]
        /\ UNCHANGED <<created, pool, runs, served, schedule, topUp>>
    BY <1>10 DEF StopDrained
  <2>2. Stopped(s)
    BY <1>10, StopIs DEF StopDrained
  <2>3. /\ reap' \in [pc : {"idle", "stopping", "settling", "draining"}, left : SUBSET Sandboxes]
        /\ reap'.left = reap.left \ {s}
        /\ reap'.pc = IF reap.left = {s} THEN "idle" ELSE "draining"
    BY <2>1 DEF OrchTyped, ReapIdle
  <2>4. OrchTyped' /\ OrchCreated' /\ OrchOwned' /\ PoolShaped'
    BY <2>1, <2>2, <2>3 DEF OrchTyped, OrchCreated, OrchOwned, PoolShaped, Stopped
  <2>5. OrchTracked'
    BY <2>1, <2>2, <2>3 DEF OrchTracked, Stopped
  <2> QED BY <2>4, <2>5
<1>13. CASE StopThrows
  <2>1. /\ reap' = ReapIdle /\ reap.pc \in {"stopping", "draining"}
        /\ leaked' = IF reap.pc = "draining" THEN leaked \cup reap.left ELSE leaked
        /\ stopFaults' = stopFaults + 1 /\ stopFaults < MaxStopFaults
        /\ UNCHANGED <<created, running, pool, runs, served, schedule, topUp>>
    BY <1>13 DEF StopThrows
  <2>2. stopFaults' \in Nat /\ stopFaults' <= MaxStopFaults
    BY <2>1, OrchestratorAssumption DEF OrchTyped
  <2>3. OrchTyped'
    BY <2>1, <2>2 DEF OrchTyped, ReapIdle
  <2>4. OrchCreated' /\ OrchOwned' /\ PoolShaped'
    BY <2>1 DEF OrchCreated, OrchOwned, PoolShaped
  <2>5. OrchTracked'
    BY <2>1 DEF OrchTracked, ReapIdle
  <2> QED BY <2>3, <2>4, <2>5
<1>11. ASSUME NEW s \in Sandboxes, SandboxDeadline(s) PROVE OrchInv'
  <2>1. /\ running' = running \ {s}
        /\ UNCHANGED <<created, pool, runs, served, schedule, topUp, reap, leaked, stopFaults>>
    BY <1>11 DEF SandboxDeadline, stopFaultVars
  <2> QED BY <2>1 DEF OrchTyped, OrchCreated, OrchOwned, PoolShaped, OrchTracked
<1>12. CASE UNCHANGED orchVars
  BY <1>12 DEF orchVars, stopFaultVars, OrchTyped, OrchCreated, OrchOwned, PoolShaped, OrchTracked
<1> QED BY <1>1, <1>2, <1>3, <1>4, <1>5, <1>6, <1>7, <1>8, <1>9, <1>10, <1>11, <1>12, <1>13
        DEF OrchNext, TopUpStep, SandboxReapStep

LEMMA OrchInvariant == OrchInit /\ [][OrchNext]_orchVars => []OrchInv
<1>1. OrchInv /\ [OrchNext]_orchVars => OrchInv'
  BY OrchStep
<1> QED BY OrchStart, <1>1, PTL

LEMMA OrchHolds ==
  ASSUME OrchInv
  PROVE  OrchTypeOK /\ SandboxServesOnce
<1> USE DEF OrchInv
<1>1. Cardinality(ToSet(pool)) = Len(pool)
  BY DistinctCount DEF OrchTyped, PoolShaped
<1>2. created \in 0..MaxSandboxes /\ running \subseteq 1..created
  <2>1. \A s \in running : s \in 1..MaxSandboxes /\ s <= created
    BY DEF OrchTyped, OrchCreated, Sandboxes
  <2> QED BY <2>1, OrchestratorAssumption DEF OrchTyped
<1>3. runs \cap ToSet(pool) = {}
  BY DEF OrchOwned
<1>4. OrchTypeOK
  BY <1>1, <1>2, <1>3 DEF OrchTypeOK, OrchTyped, OrchTracked, PoolShaped
<1>5. SandboxServesOnce
  BY DEF SandboxServesOnce, OrchOwned
<1> QED BY <1>4, <1>5

-----------------------------------------------------------------------------
(***************************************************************************)
(* The deployer.  Writes of the record that need no claim on the slug (the *)
(* quarantines) are of records that hold it, since a row is read of a      *)
(* record that was put; and no tick lists a container of a deploy that may *)
(* still become a deploy nobody disturbed.                                 *)
(***************************************************************************)
WorkPlaces == {"none", "prepare", "clear", "net", "handler", "gate", "route", "verify",
               "done", "dead"}
RoutePlaces == Pending \cup {"idle", "census", "refused", "answered"}
TickPlaces  == {"idle", "runaway", "quarantine", "reapRunaway", "stale", "reap"}

StoreTyped ==
  /\ record \in [Resources -> [status : Statuses, version : Nat]]
  /\ slugOwner \in [Slugs -> Resources \cup {None}]
  /\ aged \in SUBSET Resources

HostTyped ==
  /\ net \in [Slugs -> Resources \cup {None}]
  /\ up \in SUBSET Containers /\ wedged \in SUBSET up
  /\ routed \in SUBSET Slugs

RequestTyped ==
  /\ target \in [Deploys -> Resources \cup {None}]
  /\ census \in [Deploys -> SUBSET Containers]
  /\ outcome \in [Deploys -> {"none", "running", "failed"}]
  /\ route \in [Deploys -> RoutePlaces]
  /\ work \in [Deploys -> WorkPlaces]
  /\ lost \in SUBSET Deploys /\ disturbed \in SUBSET Deploys
  /\ faults \in 0..MaxFaults

RowsRead == UNION {[R -> [status : Statuses, version : Nat]] : R \in SUBSET Resources}

TickTyped ==
  tick \in [pc : TickPlaces, seen : SUBSET Containers, todo : SUBSET Containers,
            reaped : SUBSET Containers, cur : SUBSET Containers, rows : RowsRead]

\* What was begun has a target, what is up or listed was begun, and a deploy
\* that lost its write was disturbed by that.
BegunRequests ==
  \A d \in Deploys : /\ target[d] = None <=> route[d] = "idle"
                     /\ route[d] \in {"idle", "census", "refused", "pre"} => work[d] = "none"

BegunHosts == \A c \in up \cup tick.seen \cup tick.todo \cup tick.cur : work[c[1]] # "none"

BegunLost == \A d \in lost : work[d] # "none" /\ d \in disturbed

Holds == holding = {d \in Deploys : route[d] \in Pending}

Begun == BegunRequests /\ BegunHosts /\ BegunLost /\ Holds

Owns(r) == slugOwner[SlugOf[r]] = r

\* Whoever has a record or works on one that was written owns its slug.
RecordsOwn == \A r \in Resources : record[r].status # "none" \/ r \in aged => Owns(r)

RowsOwn ==
  tick.pc \in {"quarantine", "stale"} => \A r \in DOMAIN tick.rows : Owns(r)

WorkOwns == \A d \in Deploys \ lost : work[d] # "none" => Owns(target[d])

Claims == RecordsOwn /\ RowsOwn /\ WorkOwns

\* A deploy nobody disturbed shares its resource, and its slug with a deploy
\* that could not claim it, with no other.
Apart ==
  \A d \in Deploys \ disturbed : \A e \in Deploys \ {d} :
    Outstanding(d) /\ Outstanding(e) =>
      target[e] # target[d] /\ ~(e \in lost /\ Slug(e) = Slug(d))

Spared(c) == route[c[1]] = "await" => c[1] \in disturbed

\* Whatever the tick is about to remove is not of an intact launch.
TickSpares ==
  /\ tick.pc = "quarantine" =>
       \A c \in tick.cur : ResourceOf(c) \in DOMAIN tick.rows /\ DOMAIN tick.rows = {ResourceOf(c)}
  /\ tick.pc = "reapRunaway" => \A c \in tick.cur : Spared(c)
  /\ tick.pc = "reap" => \A c \in tick.todo : Spared(c)

\* The versions: a put of a deploy raises one by one, and each puts twice.
Puts == Cardinality({d \in Deploys : route[d] \in {"await", "post", "answered"}})
          + Cardinality({d \in Deploys : route[d] = "answered"})

VersionsBounded ==
  /\ \A r \in Resources : record[r].version <= Puts
  /\ \A r \in DOMAIN tick.rows : tick.rows[r].version <= Puts

DeployerInv ==
  /\ StoreTyped /\ HostTyped /\ RequestTyped /\ TickTyped
  /\ Begun /\ Claims /\ Apart /\ TickSpares /\ VersionsBounded
  /\ Isolated /\ LaunchIntact

LEMMA RowsAre ==
  ASSUME StoreTyped, NEW R \in SUBSET Resources
  PROVE  Rows(R) \in RowsRead /\ DOMAIN Rows(R) = R /\ \A r \in R : Rows(R)[r] = record[r]
<1>1. Rows(R) \in [R -> [status : Statuses, version : Nat]]
  BY DEF Rows, StoreTyped
<1> QED BY <1>1 DEF Rows, RowsRead

LEMMA RowTyped ==
  ASSUME NEW rows \in RowsRead
  PROVE  /\ DOMAIN rows \in SUBSET Resources
         /\ \A r \in DOMAIN rows : rows[r] \in [status : Statuses, version : Nat]
         /\ \A R : [r \in DOMAIN rows \ R |-> rows[r]] \in RowsRead
<1>1. PICK R \in SUBSET Resources : rows \in [R -> [status : Statuses, version : Nat]]
  BY DEF RowsRead
<1>2. ASSUME NEW Q PROVE [r \in DOMAIN rows \ Q |-> rows[r]] \in RowsRead
  <2>1. [r \in R \ Q |-> rows[r]] \in [R \ Q -> [status : Statuses, version : Nat]]
    BY <1>1
  <2> QED BY <1>1, <2>1 DEF RowsRead
<1> QED BY <1>1, <1>2

LEMMA NoRows == <<>> \in RowsRead /\ DOMAIN <<>> = {}
<1>1. <<>> \in [{} -> [status : Statuses, version : Nat]]
  BY SMT
<1> QED BY <1>1 DEF RowsRead

LEMMA PutTyped ==
  ASSUME StoreTyped, NEW r \in Resources,
         NEW rec \in [status : Statuses, version : Nat], Put(r, rec)
  PROVE  StoreTyped'
<1>1. SlugOf[r] \in Slugs
  BY DeployerAssumption
<1> QED BY <1>1 DEF Put, StoreTyped

LEMMA StoreStays ==
  ASSUME DeployerInv, [DeployerNext]_deployerVars
  PROVE  StoreTyped'
<1> USE DeployerAssumption DEF DeployerInv
<1>1. ASSUME NEW d \in Deploys, PreWrite(d) PROVE StoreTyped'
  <2>0. target[d] \in Resources
    BY <1>1 DEF PreWrite, Begun, BegunRequests, RequestTyped
  <2>1. NextVersion(d, "deploying") \in [status : Statuses, version : Nat]
    BY <2>0 DEF NextVersion, StoreTyped, Statuses, RequestTyped
  <2> QED BY <1>1, <2>0, <2>1, PutTyped DEF PreWrite, StoreTyped, storeVars
<1>2. ASSUME NEW d \in Deploys, PostWrite(d) PROVE StoreTyped'
  <2>0. target[d] \in Resources
    BY <1>2 DEF PostWrite, Begun, BegunRequests, RequestTyped
  <2>1. outcome[d] \in Statuses /\ NextVersion(d, outcome[d]) \in [status : Statuses, version : Nat]
    BY <2>0 DEF NextVersion, StoreTyped, Statuses, RequestTyped
  <2> QED BY <1>2, <2>0, <2>1, PutTyped DEF PostWrite, StoreTyped, storeVars
<1>3. ASSUME NEW r \in Resources, StaleQuarantine(r) PROVE StoreTyped'
  <2>1. CASE Quarantine(r, tick.rows[r])
    <3>1. [tick.rows[r] EXCEPT !.status = "failed"] \in [status : Statuses, version : Nat]
      BY <1>3, RowTyped DEF StaleQuarantine, TickTyped, Statuses
    <3> QED BY <2>1, <3>1, PutTyped DEF Quarantine
  <2>2. CASE UNCHANGED storeVars
    BY <2>2 DEF storeVars, StoreTyped
  <2> QED BY <1>3, <2>1, <2>2 DEF StaleQuarantine
<1>4. CASE RunawayQuarantine
  <2>1. ASSUME NEW r \in DOMAIN tick.rows, Quarantine(r, tick.rows[r]) PROVE StoreTyped'
    <3>1. r \in Resources /\ [tick.rows[r] EXCEPT !.status = "failed"] \in [status : Statuses, version : Nat]
      BY RowTyped DEF TickTyped, Statuses
    <3> QED BY <2>1, <3>1, PutTyped DEF Quarantine
  <2>2. CASE UNCHANGED storeVars
    BY <2>2 DEF storeVars, StoreTyped
  <2> QED BY <1>4, <2>1, <2>2 DEF RunawayQuarantine
<1>5. ASSUME NEW r \in Resources, Age(r) PROVE StoreTyped'
  BY <1>5 DEF Age, StoreTyped, storeVars, hostVars, requestVars, historyVars
<1>6. ASSUME NEW d \in Deploys, NEW r \in Wants[d], RequestCensus(d, r) PROVE StoreTyped'
  BY <1>6 DEF RequestCensus, StoreTyped, storeVars, hostVars, requestVars, historyVars
<1>7. ASSUME NEW d \in Deploys,
              Admit(d) \/ Refuse(d) \/ Deadline(d) \/ WorkFails(d) \/ Prepare(d) \/ ClearPair(d)
                 \/ EnsurePairNetwork(d) \/ StartHandler(d) \/ StartGate(d) \/ WriteRoute(d) \/
                 Verify(d)
      PROVE  StoreTyped'
  BY <1>7 DEF Admit, Refuse, Deadline, WorkFails, Prepare, ClearPair, EnsurePairNetwork,
     StartHandler, StartGate, WriteRoute, Verify, Advance, Start, StoreTyped, storeVars, hostVars,
     requestVars, historyVars
<1>8. CASE TickList \/ ReapRunaway \/ StaleList \/ DesiredList \/ ReapOrphanPairNetworks \/ Crash
  BY <1>8 DEF TickList, ReapRunaway, StaleList, DesiredList, ReapOrphanPairNetworks, Crash,
     StoreTyped, storeVars, hostVars, requestVars, historyVars
<1>9. ASSUME NEW c \in Containers, RunawayRead(c) \/ ReapOrphan(c) \/ Wedge(c) PROVE StoreTyped'
  BY <1>9 DEF RunawayRead, ReapOrphan, Wedge, StoreTyped, storeVars, hostVars, requestVars,
     historyVars
<1>10. CASE UNCHANGED deployerVars
  BY <1>10 DEF deployerVars, StoreTyped, storeVars, hostVars, requestVars, historyVars
<1> QED BY <1>1, <1>2, <1>3, <1>4, <1>5, <1>6, <1>7, <1>8, <1>9, <1>10 DEF DeployerNext,
   RouteStep, WorkStep, TickStep

LEMMA WorkTarget ==
  ASSUME DeployerInv, NEW d \in Deploys, work[d] # "none"
  PROVE  target[d] \in Resources /\ Slug(d) \in Slugs
<1>1. target[d] \in Resources
  BY DEF DeployerInv, Begun, BegunRequests, RequestTyped
<1> QED BY <1>1, DeployerAssumption DEF Slug


LEMMA HostStays ==
  ASSUME DeployerInv, [DeployerNext]_deployerVars
  PROVE  HostTyped'
<1> USE DeployerAssumption DEF DeployerInv
<1>1. ASSUME NEW d \in Deploys, ClearPair(d) PROVE HostTyped'
  BY <1>1 DEF ClearPair, Advance, HostTyped, storeVars, hostVars, requestVars, historyVars
<1>2. ASSUME NEW d \in Deploys, EnsurePairNetwork(d) PROVE HostTyped'
  <2>1. target[d] \in Resources /\ Slug(d) \in Slugs
    BY <1>2, WorkTarget DEF EnsurePairNetwork, Advance
  <2> QED BY <1>2, <2>1 DEF EnsurePairNetwork, Advance, HostTyped
<1>3. ASSUME NEW d \in Deploys, StartHandler(d) PROVE HostTyped'
  <2>1. <<d, "handler">> \in Containers
    BY DEF Containers, Roles
  <2> QED BY <1>3, <2>1 DEF StartHandler, Start, HostTyped
<1>4. ASSUME NEW d \in Deploys, StartGate(d) PROVE HostTyped'
  <2>1. <<d, "gate">> \in Containers
    BY DEF Containers, Roles
  <2> QED BY <1>4, <2>1 DEF StartGate, Start, HostTyped
<1>5. ASSUME NEW d \in Deploys, WriteRoute(d) PROVE HostTyped'
  <2>1. target[d] \in Resources /\ Slug(d) \in Slugs
    BY <1>5, WorkTarget DEF WriteRoute, Advance
  <2> QED BY <1>5, <2>1 DEF WriteRoute, Advance, HostTyped
<1>6. CASE ReapRunaway
  BY <1>6 DEF ReapRunaway, ReapStep, Reap, Fault, HostTyped, storeVars, hostVars, requestVars,
     historyVars
<1>7. ASSUME NEW c \in Containers, ReapOrphan(c) PROVE HostTyped'
  BY <1>7 DEF ReapOrphan, ReapStep, Reap, Fault, HostTyped, storeVars, hostVars, requestVars,
     historyVars
<1>8. CASE ReapOrphanPairNetworks
  BY <1>8 DEF ReapOrphanPairNetworks, NoTick, HostTyped, storeVars, hostVars, requestVars,
     historyVars
<1>9. ASSUME NEW c \in Containers, Wedge(c) PROVE HostTyped'
  BY <1>9 DEF Wedge, Fault, HostTyped, storeVars, hostVars, requestVars, historyVars
<1>10. ASSUME NEW d \in Deploys, NEW r \in Wants[d], RequestCensus(d, r) PROVE HostTyped'
  BY <1>10 DEF RequestCensus, HostTyped, storeVars, hostVars, requestVars, historyVars
<1>11. ASSUME NEW d \in Deploys,
              Admit(d) \/ Refuse(d) \/ PreWrite(d) \/ PostWrite(d) \/ Deadline(d) \/ WorkFails(d)
                 \/ Prepare(d) \/ Verify(d)
      PROVE  HostTyped'
  BY <1>11 DEF Admit, Refuse, PreWrite, PostWrite, Deadline, WorkFails, Prepare, Verify, Advance,
     HostTyped, storeVars, hostVars, requestVars, historyVars
<1>12. CASE TickList \/ RunawayQuarantine \/ StaleList \/ DesiredList \/ Crash
  BY <1>12 DEF TickList, RunawayQuarantine, StaleList, DesiredList, Crash, HostTyped, storeVars,
     hostVars, requestVars, historyVars
<1>13. ASSUME NEW c \in Containers, RunawayRead(c) PROVE HostTyped'
  BY <1>13 DEF RunawayRead, HostTyped, storeVars, hostVars, requestVars, historyVars
<1>14. ASSUME NEW r \in Resources, StaleQuarantine(r) \/ Age(r) PROVE HostTyped'
  BY <1>14 DEF StaleQuarantine, Age, HostTyped, storeVars, hostVars, requestVars, historyVars
<1>15. CASE UNCHANGED deployerVars
  BY <1>15 DEF deployerVars, HostTyped, storeVars, hostVars, requestVars, historyVars
<1> QED BY <1>1, <1>2, <1>3, <1>4, <1>5, <1>6, <1>7, <1>8, <1>9, <1>10, <1>11, <1>12, <1>13,
   <1>14, <1>15 DEF DeployerNext, RouteStep, WorkStep, TickStep


LEMMA RequestStays ==
  ASSUME DeployerInv, [DeployerNext]_deployerVars
  PROVE  RequestTyped'
<1> USE DeployerAssumption DEF DeployerInv
<1>1. ASSUME NEW d \in Deploys, NEW r \in Wants[d], RequestCensus(d, r) PROVE RequestTyped'
  <2>1. r \in Resources
    BY DEF DeployerAssumption
  <2>2. census' \in [Deploys -> SUBSET Containers] /\ route' \in [Deploys -> RoutePlaces]
        /\ target' \in [Deploys -> Resources \cup {None}]
    BY <1>1, <2>1 DEF RequestCensus, RequestTyped, HostTyped, RoutePlaces
  <2> QED BY <1>1, <2>2 DEF RequestCensus, RequestTyped
<1>2. ASSUME NEW d \in Deploys, Admit(d) PROVE RequestTyped'
  BY <1>2 DEF Admit, RequestTyped, RoutePlaces, Pending, storeVars, hostVars, requestVars, historyVars
<1>3. ASSUME NEW d \in Deploys, Refuse(d) PROVE RequestTyped'
  BY <1>3 DEF Refuse, Fault, RequestTyped, RoutePlaces, storeVars, hostVars, requestVars, historyVars
<1>4. ASSUME NEW d \in Deploys, PreWrite(d) PROVE RequestTyped'
  <2>1. faults' \in 0..MaxFaults
    BY <1>4 DEF PreWrite, Fault, RequestTyped
  <2>2. route' \in [Deploys -> RoutePlaces] /\ work' \in [Deploys -> WorkPlaces]
    BY <1>4 DEF PreWrite, Begin, Release, RequestTyped, RoutePlaces, WorkPlaces, Pending
  <2>3. lost' \in SUBSET Deploys /\ disturbed' \in SUBSET Deploys
    BY <1>4 DEF PreWrite, RequestTyped
  <2> QED BY <1>4, <2>1, <2>2, <2>3 DEF PreWrite, RequestTyped
<1>5. ASSUME NEW d \in Deploys, PostWrite(d) PROVE RequestTyped'
  <2>1. faults' \in 0..MaxFaults
    BY <1>5 DEF PostWrite, Fault, RequestTyped
  <2> QED BY <1>5, <2>1 DEF PostWrite, Release, RequestTyped, historyVars, RoutePlaces
<1>6. ASSUME NEW d \in Deploys, Deadline(d) PROVE RequestTyped'
  <2>1. route' \in [Deploys -> RoutePlaces] /\ outcome' \in [Deploys -> {"none", "running", "failed"}]
    BY <1>6 DEF Deadline, Settle, RequestTyped, RoutePlaces, Pending
  <2> QED BY <1>6, <2>1 DEF Deadline, RequestTyped, WorkPlaces, historyVars
<1>7. ASSUME NEW d \in Deploys, WorkFails(d) PROVE RequestTyped'
  <2>1. route' \in [Deploys -> RoutePlaces] /\ outcome' \in [Deploys -> {"none", "running", "failed"}]
    BY <1>7 DEF WorkFails, Settle, RequestTyped, RoutePlaces, Pending
  <2> QED BY <1>7, <2>1 DEF WorkFails, RequestTyped, WorkPlaces, historyVars
<1>8. ASSUME NEW d \in Deploys,
              Prepare(d) \/ ClearPair(d) \/ EnsurePairNetwork(d) \/ StartHandler(d) \/
                 StartGate(d) \/ WriteRoute(d)
      PROVE  RequestTyped'
  <2>1. work' \in [Deploys -> WorkPlaces] /\ UNCHANGED <<requestVars, historyVars, faults>>
    BY <1>8 DEF Advance, Prepare, ClearPair, EnsurePairNetwork, StartHandler, StartGate, WriteRoute,
              RequestTyped, WorkPlaces
  <2> QED BY <2>1 DEF requestVars, historyVars, RequestTyped
<1>9. ASSUME NEW d \in Deploys, Verify(d) PROVE RequestTyped'
  <2>1. route' \in [Deploys -> RoutePlaces] /\ outcome' \in [Deploys -> {"none", "running", "failed"}]
    BY <1>9 DEF Verify, Settle, RequestTyped, RoutePlaces, Pending
  <2> QED BY <1>9, <2>1 DEF Verify, RequestTyped, WorkPlaces, historyVars
<1>10. CASE RunawayQuarantine
  BY <1>10 DEF RunawayQuarantine, Quarantine, Put, Fault, RequestTyped, storeVars, hostVars,
     requestVars, historyVars
<1>11. ASSUME NEW r \in Resources, StaleQuarantine(r) PROVE RequestTyped'
  BY <1>11 DEF StaleQuarantine, Quarantine, Put, Fault, RequestTyped, storeVars, hostVars,
     requestVars, historyVars
<1>12. CASE ReapRunaway
  BY <1>12 DEF ReapRunaway, ReapStep, Reap, Fault, RequestTyped, storeVars, hostVars, requestVars,
     historyVars
<1>13. ASSUME NEW c \in Containers, ReapOrphan(c) PROVE RequestTyped'
  BY <1>13 DEF ReapOrphan, ReapStep, Reap, Fault, RequestTyped, storeVars, hostVars, requestVars,
     historyVars
<1>14. ASSUME NEW c \in Containers, Wedge(c) PROVE RequestTyped'
  BY <1>14 DEF Wedge, Fault, RequestTyped, storeVars, hostVars, requestVars, historyVars
<1>15. CASE Crash
  <2>1. route' \in [Deploys -> RoutePlaces] /\ work' \in [Deploys -> WorkPlaces]
    BY <1>15 DEF Crash, RequestTyped, RoutePlaces, WorkPlaces, Working
  <2>2. census' \in [Deploys -> SUBSET Containers] /\ faults' \in 0..MaxFaults
    BY <1>15 DEF Crash, Fault, RequestTyped
  <2> QED BY <1>15, <2>1, <2>2 DEF Crash, RequestTyped, historyVars
<1>16. CASE TickList \/ StaleList \/ DesiredList \/ ReapOrphanPairNetworks
  BY <1>16 DEF TickList, StaleList, DesiredList, ReapOrphanPairNetworks, RequestTyped, storeVars,
     hostVars, requestVars, historyVars
<1>17. ASSUME NEW c \in Containers, RunawayRead(c) PROVE RequestTyped'
  BY <1>17 DEF RunawayRead, RequestTyped, storeVars, hostVars, requestVars, historyVars
<1>18. ASSUME NEW r \in Resources, Age(r) PROVE RequestTyped'
  BY <1>18 DEF Age, RequestTyped, storeVars, hostVars, requestVars, historyVars
<1>19. CASE UNCHANGED deployerVars
  BY <1>19 DEF deployerVars, RequestTyped, storeVars, hostVars, requestVars, historyVars
<1> QED BY <1>1, <1>2, <1>3, <1>4, <1>5, <1>6, <1>7, <1>8, <1>9, <1>10, <1>11, <1>12, <1>13,
   <1>14, <1>15, <1>16, <1>17, <1>18, <1>19 DEF DeployerNext, RouteStep, WorkStep, TickStep

LEMMA TickStays ==
  ASSUME DeployerInv, [DeployerNext]_deployerVars
  PROVE  TickTyped'
<1> USE DeployerAssumption DEF DeployerInv
<1>1. CASE TickList
  <2>1. tick' = [pc |-> "runaway", seen |-> up, todo |-> wedged, reaped |-> {}, cur |-> {}, rows |-> <<>>]
    BY <1>1 DEF TickList, NoTick
  <2> QED BY <2>1, NoRows DEF HostTyped, TickTyped, TickPlaces
<1>2. ASSUME NEW c \in Containers, RunawayRead(c) PROVE TickTyped'
  <2> DEFINE R == {ResourceOf(c)}
             to == IF record[ResourceOf(c)].status \in {"none", "failed"}
                   THEN "reapRunaway" ELSE "quarantine"
  <2>1. tick' = [tick EXCEPT !.todo = @ \ {c}, !.cur = {c}, !.rows = Rows(R), !.pc = to]
    BY <1>2 DEF RunawayRead
  <2>2. Rows(R) \in RowsRead
    <3>1. c \in tick.todo /\ work[c[1]] # "none" /\ c[1] \in Deploys
      BY <1>2 DEF RunawayRead, Begun, BegunHosts, Containers
    <3>2. R \in SUBSET Resources
      BY <3>1, WorkTarget DEF ResourceOf
    <3> QED BY <3>2, RowsAre
  <2>3. to \in TickPlaces
    BY DEF TickPlaces
  <2> HIDE DEF to
  <2> QED BY <2>1, <2>2, <2>3 DEF TickTyped
<1>3. CASE RunawayQuarantine
  BY <1>3, NoRows DEF RunawayQuarantine, TickTyped, TickPlaces
<1>4. CASE ReapRunaway
  BY <1>4, NoRows DEF ReapRunaway, TickTyped, TickPlaces
<1>5. CASE StaleList
  <2>1. Rows(aged) \in RowsRead
    BY RowsAre DEF StoreTyped
  <2> QED BY <1>5, <2>1 DEF StaleList, TickTyped, TickPlaces
<1>6. ASSUME NEW r \in Resources, StaleQuarantine(r) PROVE TickTyped'
  <2>1. [q \in DOMAIN tick.rows \ {r} |-> tick.rows[q]] \in RowsRead
    BY RowTyped DEF TickTyped
  <2> QED BY <1>6, <2>1 DEF StaleQuarantine, TickTyped
<1>7. CASE DesiredList
  BY <1>7, NoRows DEF DesiredList, TickTyped, TickPlaces
<1>8. ASSUME NEW c \in Containers, ReapOrphan(c) PROVE TickTyped'
  BY <1>8 DEF ReapOrphan, ReapStep, Reap, Fault, TickTyped, TickPlaces, storeVars, hostVars,
     requestVars, historyVars
<1>9. CASE ReapOrphanPairNetworks
  BY <1>9, NoRows DEF ReapOrphanPairNetworks, Crash, NoTick, TickTyped, TickPlaces
<1>10. CASE Crash
  BY <1>10, NoRows DEF ReapOrphanPairNetworks, Crash, NoTick, TickTyped, TickPlaces
<1>11. ASSUME NEW d \in Deploys, NEW r \in Wants[d], RequestCensus(d, r) PROVE TickTyped'
  BY <1>11 DEF RequestCensus, TickTyped, TickPlaces, storeVars, hostVars, requestVars, historyVars
<1>12. ASSUME NEW d \in Deploys,
              Admit(d) \/ Refuse(d) \/ PreWrite(d) \/ PostWrite(d) \/ Deadline(d) \/ WorkFails(d)
                 \/ Prepare(d) \/ ClearPair(d) \/ EnsurePairNetwork(d) \/ StartHandler(d) \/
                 StartGate(d) \/ WriteRoute(d) \/ Verify(d)
      PROVE  TickTyped'
  BY <1>12 DEF Admit, Refuse, PreWrite, PostWrite, Deadline, WorkFails, Prepare, ClearPair,
     EnsurePairNetwork, StartHandler, StartGate, WriteRoute, Verify, Advance, Start, TickTyped,
     TickPlaces, storeVars, hostVars, requestVars, historyVars
<1>13. ASSUME NEW r \in Resources, Age(r) PROVE TickTyped'
  BY <1>13 DEF Age, TickTyped, TickPlaces, storeVars, hostVars, requestVars, historyVars
<1>14. ASSUME NEW c \in Containers, Wedge(c) PROVE TickTyped'
  BY <1>14 DEF Wedge, TickTyped, TickPlaces, storeVars, hostVars, requestVars, historyVars
<1>15. CASE UNCHANGED deployerVars
  BY <1>15 DEF deployerVars, TickTyped, TickPlaces, storeVars, hostVars, requestVars, historyVars
<1> QED BY <1>1, <1>2, <1>3, <1>4, <1>5, <1>6, <1>7, <1>8, <1>9, <1>10, <1>11, <1>12, <1>13,
   <1>14, <1>15 DEF DeployerNext, RouteStep, WorkStep, TickStep


\* A step forgets no work, no target and no disturbance, and only the write that
\* begins a deploy makes its handler wait.
Onward ==
  /\ \A d \in Deploys : /\ work[d] # "none" => work'[d] # "none"
                        /\ target[d] # None => target'[d] = target[d]
                        /\ route'[d] = "await" => route[d] = "await" \/ PreWrite(d)
  /\ lost \subseteq lost' /\ disturbed \subseteq disturbed'

LEMMA GoesOn ==
  ASSUME DeployerInv, [DeployerNext]_deployerVars
  PROVE  Onward
<1> USE DeployerAssumption DEF DeployerInv
<1>1. ASSUME NEW d \in Deploys, NEW r \in Wants[d], RequestCensus(d, r) PROVE Onward
  <2>1. route[d] = "idle" /\ target[d] = None /\ target' = [target EXCEPT ![d] = r]
        /\ route' = [route EXCEPT ![d] = "census"]
    BY <1>1 DEF RequestCensus, Begun, BegunRequests
  <2> QED BY <1>1, <2>1 DEF RequestCensus, Onward, RequestTyped
<1>2. ASSUME NEW d \in Deploys, Admit(d) PROVE Onward
  BY <1>2 DEF Admit, Onward, RequestTyped, storeVars, hostVars, requestVars, historyVars
<1>3. ASSUME NEW d \in Deploys, Refuse(d) PROVE Onward
  BY <1>3 DEF Refuse, Fault, Onward, RequestTyped, storeVars, hostVars, requestVars, historyVars
<1>4. ASSUME NEW d \in Deploys, PreWrite(d) PROVE Onward
  BY <1>4 DEF PreWrite, Put, NextVersion, Begin, Release, Fault, Onward, RequestTyped, storeVars,
     hostVars, requestVars, historyVars
<1>5. ASSUME NEW d \in Deploys, PostWrite(d) PROVE Onward
  BY <1>5 DEF PostWrite, Put, NextVersion, Release, Fault, Onward, RequestTyped, storeVars,
     hostVars, requestVars, historyVars
<1>6. ASSUME NEW d \in Deploys, Deadline(d) PROVE Onward
  BY <1>6 DEF Deadline, Settle, Onward, RequestTyped, storeVars, hostVars, requestVars,
     historyVars
<1>7. ASSUME NEW d \in Deploys, WorkFails(d) PROVE Onward
  BY <1>7 DEF WorkFails, Settle, Working, Onward, RequestTyped, storeVars, hostVars, requestVars,
     historyVars
<1>8. ASSUME NEW d \in Deploys,
              Prepare(d) \/ ClearPair(d) \/ EnsurePairNetwork(d) \/ StartHandler(d) \/
                 StartGate(d) \/ WriteRoute(d)
      PROVE  Onward
  <2>1. (\A e \in Deploys : work[e] # "none" => work'[e] # "none")
        /\ UNCHANGED <<requestVars, historyVars>>
    BY <1>8 DEF Advance, Prepare, ClearPair, EnsurePairNetwork, StartHandler, StartGate, WriteRoute,
              RequestTyped
  <2> QED BY <2>1 DEF requestVars, historyVars, Onward
<1>9. ASSUME NEW d \in Deploys, Verify(d) PROVE Onward
  BY <1>9 DEF Verify, Settle, Onward, RequestTyped, storeVars, hostVars, requestVars, historyVars
<1>10. CASE RunawayQuarantine
  BY <1>10 DEF RunawayQuarantine, Quarantine, Put, Fault, Onward, RequestTyped, storeVars,
     hostVars, requestVars, historyVars
<1>11. ASSUME NEW r \in Resources, StaleQuarantine(r) PROVE Onward
  BY <1>11 DEF StaleQuarantine, Quarantine, Put, Fault, Onward, RequestTyped, storeVars, hostVars,
     requestVars, historyVars
<1>12. CASE Crash
  BY <1>12 DEF Crash, NoTick, Fault, Working, Onward, RequestTyped, storeVars, hostVars,
     requestVars, historyVars
<1>13. CASE TickList \/ ReapRunaway \/ StaleList \/ DesiredList \/ ReapOrphanPairNetworks
  BY <1>13 DEF TickList, ReapRunaway, StaleList, DesiredList, ReapOrphanPairNetworks, Onward,
     RequestTyped, storeVars, hostVars, requestVars, historyVars
<1>14. ASSUME NEW c \in Containers, RunawayRead(c) \/ ReapOrphan(c) \/ Wedge(c) PROVE Onward
  BY <1>14 DEF RunawayRead, ReapOrphan, Wedge, Onward, RequestTyped, storeVars, hostVars,
     requestVars, historyVars
<1>15. ASSUME NEW r \in Resources, Age(r) PROVE Onward
  BY <1>15 DEF Age, Onward, RequestTyped, storeVars, hostVars, requestVars, historyVars
<1>16. CASE UNCHANGED deployerVars
  BY <1>16 DEF deployerVars, Onward, RequestTyped, storeVars, hostVars, requestVars, historyVars
<1> QED BY <1>1, <1>2, <1>3, <1>4, <1>5, <1>6, <1>7, <1>8, <1>9, <1>10, <1>11, <1>12, <1>13,
   <1>14, <1>15, <1>16 DEF DeployerNext, RouteStep, WorkStep, TickStep

LEMMA RequestsBegun ==
  ASSUME DeployerInv, [DeployerNext]_deployerVars
  PROVE  BegunRequests'
<1> USE DeployerAssumption DEF DeployerInv
<1>1. ASSUME NEW d \in Deploys, NEW r \in Wants[d], RequestCensus(d, r) PROVE BegunRequests'
  BY <1>1 DEF RequestCensus, Begun, BegunRequests, RequestTyped, storeVars, hostVars, requestVars,
     historyVars
<1>2. ASSUME NEW d \in Deploys, Admit(d) PROVE BegunRequests'
  BY <1>2 DEF Admit, Begun, BegunRequests, RequestTyped, storeVars, hostVars, requestVars,
     historyVars
<1>3. ASSUME NEW d \in Deploys, Refuse(d) PROVE BegunRequests'
  BY <1>3 DEF Refuse, Fault, Begun, BegunRequests, RequestTyped, storeVars, hostVars, requestVars,
     historyVars
<1>4. ASSUME NEW d \in Deploys, PreWrite(d) PROVE BegunRequests'
  BY <1>4 DEF PreWrite, Put, NextVersion, Begin, Release, Fault, Begun, BegunRequests,
     RequestTyped, storeVars, hostVars, requestVars, historyVars
<1>5. ASSUME NEW d \in Deploys, PostWrite(d) PROVE BegunRequests'
  BY <1>5 DEF PostWrite, Put, NextVersion, Release, Fault, Begun, BegunRequests, RequestTyped,
     storeVars, hostVars, requestVars, historyVars
<1>6. ASSUME NEW d \in Deploys, Deadline(d) PROVE BegunRequests'
  BY <1>6 DEF Deadline, Settle, Begun, BegunRequests, RequestTyped, storeVars, hostVars,
     requestVars, historyVars
<1>7. ASSUME NEW d \in Deploys, WorkFails(d) PROVE BegunRequests'
  BY <1>7 DEF WorkFails, Settle, Working, Begun, BegunRequests, RequestTyped, storeVars, hostVars,
     requestVars, historyVars
<1>8. ASSUME NEW d \in Deploys,
              Prepare(d) \/ ClearPair(d) \/ EnsurePairNetwork(d) \/ StartHandler(d) \/
                 StartGate(d) \/ WriteRoute(d)
      PROVE  BegunRequests'
  BY <1>8 DEF Prepare, Advance, ClearPair, EnsurePairNetwork, StartHandler, Start, StartGate,
     WriteRoute, Begun, BegunRequests, RequestTyped, storeVars, hostVars, requestVars, historyVars
<1>9. ASSUME NEW d \in Deploys, Verify(d) PROVE BegunRequests'
  BY <1>9 DEF Verify, Settle, Begun, BegunRequests, RequestTyped, storeVars, hostVars,
     requestVars, historyVars
<1>10. CASE Crash
  BY <1>10 DEF Crash, NoTick, Fault, Working, Begun, BegunRequests, RequestTyped, storeVars,
     hostVars, requestVars, historyVars
<1>11. CASE TickList \/ RunawayQuarantine \/ ReapRunaway \/ StaleList \/ DesiredList \/
   ReapOrphanPairNetworks
  BY <1>11 DEF TickList, RunawayQuarantine, ReapRunaway, StaleList, DesiredList,
     ReapOrphanPairNetworks, Begun, BegunRequests, RequestTyped, storeVars, hostVars, requestVars,
     historyVars
<1>12. ASSUME NEW c \in Containers,
              RunawayRead(c) \/ ReapOrphan(c) \/ Wedge(c)
      PROVE  BegunRequests'
  BY <1>12 DEF RunawayRead, ReapOrphan, Wedge, Begun, BegunRequests, RequestTyped, storeVars,
     hostVars, requestVars, historyVars
<1>13. ASSUME NEW r \in Resources, StaleQuarantine(r) \/ Age(r) PROVE BegunRequests'
  BY <1>13 DEF StaleQuarantine, Age, Begun, BegunRequests, RequestTyped, storeVars, hostVars,
     requestVars, historyVars
<1>14. CASE UNCHANGED deployerVars
  BY <1>14 DEF deployerVars, Begun, BegunRequests, RequestTyped, storeVars, hostVars, requestVars,
     historyVars
<1> QED BY <1>1, <1>2, <1>3, <1>4, <1>5, <1>6, <1>7, <1>8, <1>9, <1>10, <1>11, <1>12, <1>13, <1>14
   DEF DeployerNext, RouteStep, WorkStep, TickStep

LEMMA LostBegun ==
  ASSUME DeployerInv, [DeployerNext]_deployerVars
  PROVE  BegunLost'
<1> USE DeployerAssumption DEF DeployerInv
<1>1. ASSUME NEW d \in Deploys, PreWrite(d) PROVE BegunLost'
  BY <1>1 DEF PreWrite, Put, NextVersion, Begin, Release, Fault, BegunLost, Begun, BegunRequests,
     RequestTyped, storeVars, hostVars, requestVars, historyVars
<1>2. ASSUME NEW d \in Deploys, WorkFails(d) PROVE BegunLost'
  BY <1>2 DEF WorkFails, Settle, Working, BegunLost, Begun, BegunRequests, RequestTyped,
     storeVars, hostVars, requestVars, historyVars
<1>3. ASSUME NEW d \in Deploys,
              Prepare(d) \/ ClearPair(d) \/ EnsurePairNetwork(d) \/ StartHandler(d) \/
                 StartGate(d) \/ WriteRoute(d)
      PROVE  BegunLost'
  BY <1>3 DEF Prepare, Advance, ClearPair, EnsurePairNetwork, StartHandler, Start, StartGate,
     WriteRoute, BegunLost, Begun, BegunRequests, RequestTyped, storeVars, hostVars, requestVars,
     historyVars
<1>4. ASSUME NEW d \in Deploys, Verify(d) PROVE BegunLost'
  BY <1>4 DEF Verify, Settle, BegunLost, Begun, BegunRequests, RequestTyped, storeVars, hostVars,
     requestVars, historyVars
<1>5. CASE RunawayQuarantine
  BY <1>5 DEF RunawayQuarantine, Quarantine, Put, Fault, BegunLost, Begun, BegunRequests,
     RequestTyped, storeVars, hostVars, requestVars, historyVars
<1>6. ASSUME NEW r \in Resources, StaleQuarantine(r) PROVE BegunLost'
  BY <1>6 DEF StaleQuarantine, Quarantine, Put, Fault, BegunLost, Begun, BegunRequests,
     RequestTyped, storeVars, hostVars, requestVars, historyVars
<1>7. ASSUME NEW d \in Deploys, NEW r \in Wants[d], RequestCensus(d, r) PROVE BegunLost'
  BY <1>7 DEF RequestCensus, BegunLost, Begun, BegunRequests, RequestTyped, storeVars, hostVars,
     requestVars, historyVars
<1>8. CASE Crash
  BY <1>8 DEF Crash, NoTick, Fault, Working, BegunLost, Begun, BegunRequests, RequestTyped,
     storeVars, hostVars, requestVars, historyVars
<1>9. ASSUME NEW d \in Deploys,
              Admit(d) \/ Refuse(d) \/ PostWrite(d) \/ Deadline(d)
      PROVE  BegunLost'
  BY <1>9 DEF Admit, Refuse, PostWrite, Deadline, BegunLost, Begun, BegunRequests, RequestTyped,
     storeVars, hostVars, requestVars, historyVars
<1>10. CASE TickList \/ ReapRunaway \/ StaleList \/ DesiredList \/ ReapOrphanPairNetworks
  BY <1>10 DEF TickList, ReapRunaway, StaleList, DesiredList, ReapOrphanPairNetworks, BegunLost,
     Begun, BegunRequests, RequestTyped, storeVars, hostVars, requestVars, historyVars
<1>11. ASSUME NEW c \in Containers, RunawayRead(c) \/ ReapOrphan(c) \/ Wedge(c) PROVE BegunLost'
  BY <1>11 DEF RunawayRead, ReapOrphan, Wedge, BegunLost, Begun, BegunRequests, RequestTyped,
     storeVars, hostVars, requestVars, historyVars
<1>12. ASSUME NEW r \in Resources, Age(r) PROVE BegunLost'
  BY <1>12 DEF Age, BegunLost, Begun, BegunRequests, RequestTyped, storeVars, hostVars,
     requestVars, historyVars
<1>13. CASE UNCHANGED deployerVars
  BY <1>13 DEF deployerVars, BegunLost, Begun, BegunRequests, RequestTyped, storeVars, hostVars,
     requestVars, historyVars
<1> QED BY <1>1, <1>2, <1>3, <1>4, <1>5, <1>6, <1>7, <1>8, <1>9, <1>10, <1>11, <1>12, <1>13 DEF
   DeployerNext, RouteStep, WorkStep, TickStep

LEMMA StillHolds ==
  ASSUME DeployerInv, [DeployerNext]_deployerVars
  PROVE  Holds'
<1> USE DeployerAssumption DEF DeployerInv
<1>1. ASSUME NEW d \in Deploys, NEW r \in Wants[d], RequestCensus(d, r) PROVE Holds'
  BY <1>1 DEF RequestCensus, Begun, Holds, RequestTyped, Pending, storeVars, hostVars,
     requestVars, historyVars
<1>2. ASSUME NEW d \in Deploys, Admit(d) PROVE Holds'
  BY <1>2 DEF Admit, Begun, Holds, RequestTyped, Pending, storeVars, hostVars, requestVars,
     historyVars
<1>3. ASSUME NEW d \in Deploys, Refuse(d) PROVE Holds'
  BY <1>3 DEF Refuse, Fault, Begun, Holds, RequestTyped, Pending, storeVars, hostVars,
     requestVars, historyVars
<1>4. ASSUME NEW d \in Deploys, PreWrite(d) PROVE Holds'
  BY <1>4 DEF PreWrite, Put, NextVersion, Begin, Release, Fault, Begun, Holds, RequestTyped,
     Pending, storeVars, hostVars, requestVars, historyVars
<1>5. ASSUME NEW d \in Deploys, PostWrite(d) PROVE Holds'
  BY <1>5 DEF PostWrite, Put, NextVersion, Release, Fault, Begun, Holds, RequestTyped, Pending,
     storeVars, hostVars, requestVars, historyVars
<1>6. ASSUME NEW d \in Deploys, Deadline(d) PROVE Holds'
  BY <1>6 DEF Deadline, Settle, Begun, Holds, RequestTyped, Pending, storeVars, hostVars,
     requestVars, historyVars
<1>7. ASSUME NEW d \in Deploys, WorkFails(d) PROVE Holds'
  BY <1>7 DEF WorkFails, Settle, Working, Begun, Holds, RequestTyped, Pending, storeVars,
     hostVars, requestVars, historyVars
<1>8. ASSUME NEW d \in Deploys, Verify(d) PROVE Holds'
  BY <1>8 DEF Verify, Settle, Begun, Holds, RequestTyped, Pending, storeVars, hostVars,
     requestVars, historyVars
<1>9. CASE Crash
  BY <1>9 DEF Crash, NoTick, Fault, Working, Begun, Holds, RequestTyped, Pending, storeVars,
     hostVars, requestVars, historyVars
<1>10. ASSUME NEW d \in Deploys,
              Prepare(d) \/ ClearPair(d) \/ EnsurePairNetwork(d) \/ StartHandler(d) \/
                 StartGate(d) \/ WriteRoute(d)
      PROVE  Holds'
  BY <1>10 DEF Prepare, Advance, ClearPair, EnsurePairNetwork, StartHandler, Start, StartGate,
     WriteRoute, Begun, Holds, RequestTyped, Pending, storeVars, hostVars, requestVars,
     historyVars
<1>11. CASE TickList \/ RunawayQuarantine \/ ReapRunaway \/ StaleList \/ DesiredList \/
   ReapOrphanPairNetworks
  BY <1>11 DEF TickList, RunawayQuarantine, ReapRunaway, StaleList, DesiredList,
     ReapOrphanPairNetworks, Begun, Holds, RequestTyped, Pending, storeVars, hostVars,
     requestVars, historyVars
<1>12. ASSUME NEW c \in Containers, RunawayRead(c) \/ ReapOrphan(c) \/ Wedge(c) PROVE Holds'
  BY <1>12 DEF RunawayRead, ReapOrphan, Wedge, Begun, Holds, RequestTyped, Pending, storeVars,
     hostVars, requestVars, historyVars
<1>13. ASSUME NEW r \in Resources, StaleQuarantine(r) \/ Age(r) PROVE Holds'
  BY <1>13 DEF StaleQuarantine, Age, Begun, Holds, RequestTyped, Pending, storeVars, hostVars,
     requestVars, historyVars
<1>14. CASE UNCHANGED deployerVars
  BY <1>14 DEF deployerVars, Begun, Holds, RequestTyped, Pending, storeVars, hostVars,
     requestVars, historyVars
<1> QED BY <1>1, <1>2, <1>3, <1>4, <1>5, <1>6, <1>7, <1>8, <1>9, <1>10, <1>11, <1>12, <1>13, <1>14
   DEF DeployerNext, RouteStep, WorkStep, TickStep


LEMMA HostsBegun ==
  ASSUME DeployerInv, [DeployerNext]_deployerVars
  PROVE  BegunHosts'
<1> USE DeployerAssumption DEF DeployerInv
<1>a. \A d \in Deploys : work[d] # "none" => work'[d] # "none"
  BY GoesOn DEF Onward
<1>b. \A c \in Containers : c[1] \in Deploys
  BY DEF Containers
<1>c. up \cup tick.seen \cup tick.todo \cup tick.cur \in SUBSET Containers
  BY DEF HostTyped, TickTyped
<1>1. ASSUME NEW d \in Deploys, StartHandler(d) PROVE BegunHosts'
  <2>1. work'[d] # "none" /\ up' = up \cup {<<d, "handler">>} /\ tick' = tick
    BY <1>1 DEF StartHandler, Advance, Start, RequestTyped
  <2> QED BY <1>a, <1>b, <1>c, <2>1 DEF Begun, BegunHosts
<1>2. ASSUME NEW d \in Deploys, StartGate(d) PROVE BegunHosts'
  <2>1. work'[d] # "none" /\ up' = up \cup {<<d, "gate">>} /\ tick' = tick
    BY <1>2 DEF StartGate, Advance, Start, RequestTyped
  <2> QED BY <1>a, <1>b, <1>c, <2>1 DEF Begun, BegunHosts
<1>3. ASSUME NEW d \in Deploys, ClearPair(d) PROVE BegunHosts'
  <2>1. up' \subseteq up /\ tick' = tick
    BY <1>3 DEF ClearPair, Advance
  <2> QED BY <1>a, <1>b, <1>c, <2>1 DEF Begun, BegunHosts
<1>4. CASE TickList
  <2>1. up' = up /\ tick'.seen \cup tick'.todo \cup tick'.cur \subseteq up \cup tick.seen \cup tick.todo \cup tick.cur
    BY <1>4 DEF TickList, NoTick, TickTyped, HostTyped, hostVars
  <2> QED BY <1>a, <1>b, <1>c, <2>1 DEF Begun, BegunHosts
<1>5. ASSUME NEW c \in Containers, RunawayRead(c) PROVE BegunHosts'
  <2>1. up' = up /\ tick'.seen \cup tick'.todo \cup tick'.cur \subseteq up \cup tick.seen \cup tick.todo \cup tick.cur
    BY <1>5 DEF RunawayRead, TickTyped, HostTyped, hostVars
  <2> QED BY <1>a, <1>b, <1>c, <2>1 DEF Begun, BegunHosts
<1>6. CASE RunawayQuarantine
  <2>1. up' = up /\ tick'.seen \cup tick'.todo \cup tick'.cur \subseteq up \cup tick.seen \cup tick.todo \cup tick.cur
    BY <1>6 DEF RunawayQuarantine, TickTyped, HostTyped, hostVars
  <2> QED BY <1>a, <1>b, <1>c, <2>1 DEF Begun, BegunHosts
<1>7. CASE StaleList
  <2>1. up' = up /\ tick'.seen \cup tick'.todo \cup tick'.cur \subseteq up \cup tick.seen \cup tick.todo \cup tick.cur
    BY <1>7 DEF StaleList, TickTyped, HostTyped, hostVars
  <2> QED BY <1>a, <1>b, <1>c, <2>1 DEF Begun, BegunHosts
<1>8. ASSUME NEW r \in Resources, StaleQuarantine(r) PROVE BegunHosts'
  <2>1. up' = up /\ tick'.seen \cup tick'.todo \cup tick'.cur \subseteq up \cup tick.seen \cup tick.todo \cup tick.cur
    BY <1>8 DEF StaleQuarantine, TickTyped, HostTyped, hostVars
  <2> QED BY <1>a, <1>b, <1>c, <2>1 DEF Begun, BegunHosts
<1>9. CASE DesiredList
  <2>1. up' = up /\ tick'.seen \cup tick'.todo \cup tick'.cur \subseteq up \cup tick.seen \cup tick.todo \cup tick.cur
    BY <1>9 DEF DesiredList, TickTyped, HostTyped, hostVars
  <2> QED BY <1>a, <1>b, <1>c, <2>1 DEF Begun, BegunHosts
<1>10. CASE ReapOrphanPairNetworks
  <2>1. up' = up /\ tick'.seen \cup tick'.todo \cup tick'.cur \subseteq up \cup tick.seen \cup tick.todo \cup tick.cur
    BY <1>10 DEF ReapOrphanPairNetworks, NoTick, TickTyped, HostTyped, hostVars
  <2> QED BY <1>a, <1>b, <1>c, <2>1 DEF Begun, BegunHosts
<1>11. CASE Crash
  <2>1. up' = up /\ tick'.seen \cup tick'.todo \cup tick'.cur \subseteq up \cup tick.seen \cup tick.todo \cup tick.cur
    BY <1>11 DEF Crash, NoTick, TickTyped, HostTyped, hostVars
  <2> QED BY <1>a, <1>b, <1>c, <2>1 DEF Begun, BegunHosts
<1>12. CASE ReapRunaway
  <2>1. up' \subseteq up
    BY <1>12 DEF ReapRunaway, ReapStep, Reap
  <2>2. tick'.seen \cup tick'.todo \cup tick'.cur \subseteq tick.seen \cup tick.todo \cup tick.cur
    BY <1>12 DEF ReapRunaway, TickTyped
  <2> QED BY <1>a, <1>b, <1>c, <2>1, <2>2 DEF Begun, BegunHosts
<1>13. ASSUME NEW c \in Containers, ReapOrphan(c) PROVE BegunHosts'
  <2>1. up' \subseteq up
    BY <1>13 DEF ReapOrphan, ReapStep, Reap
  <2>2. tick'.seen \cup tick'.todo \cup tick'.cur \subseteq tick.seen \cup tick.todo \cup tick.cur
    BY <1>13 DEF ReapOrphan, TickTyped
  <2> QED BY <1>a, <1>b, <1>c, <2>1, <2>2 DEF Begun, BegunHosts
<1>14. ASSUME NEW d \in Deploys, NEW r \in Wants[d], RequestCensus(d, r) PROVE BegunHosts'
  BY <1>14, <1>a, <1>b, <1>c DEF RequestCensus, Begun, BegunHosts, storeVars, hostVars,
     requestVars, historyVars
<1>15. ASSUME NEW d \in Deploys,
              Admit(d) \/ Refuse(d) \/ PreWrite(d) \/ PostWrite(d) \/ Deadline(d) \/ WorkFails(d)
                 \/ Prepare(d) \/ EnsurePairNetwork(d) \/ WriteRoute(d) \/ Verify(d)
      PROVE  BegunHosts'
  BY <1>15, <1>a, <1>b, <1>c DEF Admit, Refuse, PreWrite, PostWrite, Deadline, WorkFails, Prepare,
     EnsurePairNetwork, WriteRoute, Verify, Advance, Begun, BegunHosts, storeVars, hostVars,
     requestVars, historyVars
<1>16. ASSUME NEW r \in Resources, Age(r) PROVE BegunHosts'
  BY <1>16, <1>a, <1>b, <1>c DEF Age, Begun, BegunHosts, storeVars, hostVars, requestVars,
     historyVars
<1>17. ASSUME NEW c \in Containers, Wedge(c) PROVE BegunHosts'
  BY <1>17, <1>a, <1>b, <1>c DEF Wedge, Begun, BegunHosts, storeVars, hostVars, requestVars,
     historyVars
<1>18. CASE UNCHANGED deployerVars
  BY <1>18, <1>a, <1>b, <1>c DEF deployerVars, Begun, BegunHosts, storeVars, hostVars,
     requestVars, historyVars
<1> QED BY <1>1, <1>2, <1>3, <1>4, <1>5, <1>6, <1>7, <1>8, <1>9, <1>10, <1>11, <1>12, <1>13,
   <1>14, <1>15, <1>16, <1>17, <1>18 DEF DeployerNext, RouteStep, WorkStep, TickStep

\* A slug that has an owner keeps it.
OwnersStay ==
  \A s \in Slugs : slugOwner[s] # None => slugOwner'[s] = slugOwner[s]

LEMMA PutKeeps ==
  ASSUME DeployerInv, NEW r \in Resources, NEW rec, Put(r, rec), SlugFree(r)
  PROVE  OwnersStay /\ Owns(r)'
<1>1. SlugOf[r] \in Slugs /\ slugOwner[SlugOf[r]] \in {None, r}
  BY DeployerAssumption DEF SlugFree
<1> QED BY <1>1 DEF DeployerInv, OwnersStay, Owns, Put, StoreTyped

\* A quarantine puts a record of a resource that owns its slug.
LEMMA QuarantineOwned ==
  ASSUME DeployerInv, NEW r \in DOMAIN tick.rows, tick.pc \in {"quarantine", "stale"},
         Quarantine(r, tick.rows[r])
  PROVE  r \in Resources /\ SlugFree(r)
         /\ Put(r, [tick.rows[r] EXCEPT !.status = "failed"])
<1>1. r \in Resources
  BY RowTyped DEF DeployerInv, TickTyped
<1> QED BY <1>1 DEF DeployerInv, Claims, RowsOwn, Owns, SlugFree, Quarantine

LEMMA OwnersStayPut ==
  ASSUME DeployerInv, [DeployerNext]_deployerVars
  PROVE  OwnersStay
<1> USE DeployerAssumption DEF DeployerInv
<1>1. ASSUME NEW d \in Deploys, PreWrite(d) PROVE OwnersStay
  <2>1. target[d] \in Resources
    BY <1>1 DEF PreWrite, PostWrite, Begun, BegunRequests, RequestTyped
  <2> QED BY <1>1, <2>1, PutKeeps DEF PreWrite, PostWrite, OwnersStay, storeVars
<1>2. ASSUME NEW d \in Deploys, PostWrite(d) PROVE OwnersStay
  <2>1. target[d] \in Resources
    BY <1>2 DEF PreWrite, PostWrite, Begun, BegunRequests, RequestTyped
  <2> QED BY <1>2, <2>1, PutKeeps DEF PreWrite, PostWrite, OwnersStay, storeVars
<1>3. CASE RunawayQuarantine
  BY <1>3, QuarantineOwned, PutKeeps DEF RunawayQuarantine, OwnersStay, storeVars
<1>4. ASSUME NEW r \in Resources, StaleQuarantine(r) PROVE OwnersStay
  BY <1>4, QuarantineOwned, PutKeeps DEF StaleQuarantine, OwnersStay, storeVars
<1>5. ASSUME NEW r \in Resources, Age(r) PROVE OwnersStay
  BY <1>5 DEF Age, OwnersStay, storeVars, hostVars, requestVars, historyVars
<1>6. ASSUME NEW d \in Deploys, NEW r \in Wants[d], RequestCensus(d, r) PROVE OwnersStay
  BY <1>6 DEF RequestCensus, OwnersStay, storeVars, hostVars, requestVars, historyVars
<1>7. ASSUME NEW d \in Deploys,
              Admit(d) \/ Refuse(d) \/ Deadline(d) \/ WorkFails(d) \/ Prepare(d) \/ ClearPair(d)
                 \/ EnsurePairNetwork(d) \/ StartHandler(d) \/ StartGate(d) \/ WriteRoute(d) \/
                 Verify(d)
      PROVE  OwnersStay
  BY <1>7 DEF Admit, Refuse, Deadline, WorkFails, Prepare, ClearPair, EnsurePairNetwork,
     StartHandler, StartGate, WriteRoute, Verify, Advance, Start, OwnersStay, storeVars, hostVars,
     requestVars, historyVars
<1>8. CASE TickList \/ ReapRunaway \/ StaleList \/ DesiredList \/ ReapOrphanPairNetworks \/ Crash
  BY <1>8 DEF TickList, ReapRunaway, StaleList, DesiredList, ReapOrphanPairNetworks, Crash,
     OwnersStay, storeVars, hostVars, requestVars, historyVars
<1>9. ASSUME NEW c \in Containers, RunawayRead(c) \/ ReapOrphan(c) \/ Wedge(c) PROVE OwnersStay
  BY <1>9 DEF RunawayRead, ReapOrphan, Wedge, OwnersStay, storeVars, hostVars, requestVars,
     historyVars
<1>10. CASE UNCHANGED deployerVars
  BY <1>10 DEF deployerVars, OwnersStay, storeVars, hostVars, requestVars, historyVars
<1> QED BY <1>1, <1>2, <1>3, <1>4, <1>5, <1>6, <1>7, <1>8, <1>9, <1>10 DEF DeployerNext,
   RouteStep, WorkStep, TickStep


\* What a put of record r leaves: the others keep their records, and r owns its slug.
LEMMA PutOwns ==
  ASSUME DeployerInv, NEW r \in Resources, NEW rec, Put(r, rec), SlugFree(r)
  PROVE  RecordsOwn'
<1>1. OwnersStay /\ Owns(r)'
  BY PutKeeps
<1>2. ASSUME NEW q \in Resources, q # r, record'[q].status # "none" \/ q \in aged'
      PROVE  Owns(q)'
  <2>1. Owns(q) /\ SlugOf[q] \in Slugs /\ q # None
    BY <1>2, DeployerAssumption DEF DeployerInv, Claims, RecordsOwn, Put, StoreTyped
  <2> QED BY <1>1, <2>1 DEF OwnersStay, Owns
<1> QED BY <1>1, <1>2 DEF RecordsOwn

LEMMA RecordsStillOwn ==
  ASSUME DeployerInv, [DeployerNext]_deployerVars
  PROVE  RecordsOwn'
<1> USE DeployerAssumption DEF DeployerInv
<1>1. ASSUME NEW d \in Deploys, PreWrite(d) PROVE RecordsOwn'
  <2>1. target[d] \in Resources
    BY <1>1 DEF PreWrite, PostWrite, Begun, BegunRequests, RequestTyped
  <2>2. CASE UNCHANGED storeVars
    BY <2>2 DEF storeVars, Claims, RecordsOwn, Owns
  <2> QED BY <1>1, <2>1, <2>2, PutOwns DEF PreWrite, PostWrite
<1>2. ASSUME NEW d \in Deploys, PostWrite(d) PROVE RecordsOwn'
  <2>1. target[d] \in Resources
    BY <1>2 DEF PreWrite, PostWrite, Begun, BegunRequests, RequestTyped
  <2>2. CASE UNCHANGED storeVars
    BY <2>2 DEF storeVars, Claims, RecordsOwn, Owns
  <2> QED BY <1>2, <2>1, <2>2, PutOwns DEF PreWrite, PostWrite
<1>3. CASE RunawayQuarantine
  <2>1. CASE UNCHANGED storeVars
    BY <2>1 DEF storeVars, Claims, RecordsOwn, Owns
  <2> QED BY <1>3, <2>1, QuarantineOwned, PutOwns DEF RunawayQuarantine
<1>4. ASSUME NEW r \in Resources, StaleQuarantine(r) PROVE RecordsOwn'
  <2>1. CASE UNCHANGED storeVars
    BY <2>1 DEF storeVars, Claims, RecordsOwn, Owns
  <2> QED BY <1>4, <2>1, QuarantineOwned, PutOwns DEF StaleQuarantine
<1>5. ASSUME NEW r \in Resources, Age(r) PROVE RecordsOwn'
  BY <1>5 DEF Age, Claims, RecordsOwn, Owns, storeVars, hostVars, requestVars, historyVars
<1>6. ASSUME NEW d \in Deploys, NEW r \in Wants[d], RequestCensus(d, r) PROVE RecordsOwn'
  BY <1>6 DEF RequestCensus, Claims, RecordsOwn, Owns, storeVars, hostVars, requestVars,
     historyVars
<1>7. ASSUME NEW d \in Deploys,
              Admit(d) \/ Refuse(d) \/ Deadline(d) \/ WorkFails(d) \/ Prepare(d) \/ ClearPair(d)
                 \/ EnsurePairNetwork(d) \/ StartHandler(d) \/ StartGate(d) \/ WriteRoute(d) \/
                 Verify(d)
      PROVE  RecordsOwn'
  BY <1>7 DEF Admit, Refuse, Deadline, WorkFails, Prepare, ClearPair, EnsurePairNetwork,
     StartHandler, StartGate, WriteRoute, Verify, Advance, Start, Claims, RecordsOwn, Owns,
     storeVars, hostVars, requestVars, historyVars
<1>8. CASE TickList \/ ReapRunaway \/ StaleList \/ DesiredList \/ ReapOrphanPairNetworks \/ Crash
  BY <1>8 DEF TickList, ReapRunaway, StaleList, DesiredList, ReapOrphanPairNetworks, Crash,
     Claims, RecordsOwn, Owns, storeVars, hostVars, requestVars, historyVars
<1>9. ASSUME NEW c \in Containers, RunawayRead(c) \/ ReapOrphan(c) \/ Wedge(c) PROVE RecordsOwn'
  BY <1>9 DEF RunawayRead, ReapOrphan, Wedge, Claims, RecordsOwn, Owns, storeVars, hostVars,
     requestVars, historyVars
<1>10. CASE UNCHANGED deployerVars
  BY <1>10 DEF deployerVars, Claims, RecordsOwn, Owns, storeVars, hostVars, requestVars,
     historyVars
<1> QED BY <1>1, <1>2, <1>3, <1>4, <1>5, <1>6, <1>7, <1>8, <1>9, <1>10 DEF DeployerNext,
   RouteStep, WorkStep, TickStep

LEMMA RowsStillOwn ==
  ASSUME DeployerInv, [DeployerNext]_deployerVars
  PROVE  RowsOwn'
<1> USE DeployerAssumption DEF DeployerInv
<1>a. OwnersStay /\ \A r \in Resources : Owns(r) => Owns(r)'
  BY OwnersStayPut DEF OwnersStay, Owns
<1>b. DOMAIN tick.rows \in SUBSET Resources
  BY RowTyped DEF TickTyped
<1>1. CASE TickList
  <2>1. tick'.pc \notin {"quarantine", "stale"}
    BY <1>1 DEF TickList, NoTick, TickTyped
  <2> QED BY <2>1 DEF RowsOwn
<1>2. ASSUME NEW c \in Containers, RunawayRead(c) PROVE RowsOwn'
  <2>1. c \in tick.todo /\ work[c[1]] # "none" /\ c[1] \in Deploys
    BY <1>2 DEF RunawayRead, Begun, BegunHosts, Containers
  <2>2. ResourceOf(c) \in Resources
    BY <2>1, WorkTarget DEF ResourceOf
  <2>3. /\ tick'.rows = Rows({ResourceOf(c)}) /\ DOMAIN tick'.rows = {ResourceOf(c)}
        /\ tick'.pc # "stale" /\ (tick'.pc = "quarantine" => record[ResourceOf(c)].status # "none")
    BY <1>2, <2>2, RowsAre DEF RunawayRead, TickTyped
  <2> QED BY <1>a, <2>2, <2>3 DEF Claims, RecordsOwn, RowsOwn
<1>3. CASE RunawayQuarantine
  <2>1. tick'.pc \notin {"quarantine", "stale"}
    BY <1>3 DEF RunawayQuarantine, NoTick, TickTyped
  <2> QED BY <2>1 DEF RowsOwn
<1>4. CASE ReapRunaway
  <2>1. tick'.pc \notin {"quarantine", "stale"}
    BY <1>4 DEF ReapRunaway, NoTick, TickTyped
  <2> QED BY <2>1 DEF RowsOwn
<1>5. CASE StaleList
  <2>1. DOMAIN tick'.rows = aged /\ aged \in SUBSET Resources
    BY <1>5, RowsAre DEF StaleList, TickTyped, StoreTyped
  <2> QED BY <1>a, <2>1 DEF Claims, RecordsOwn, RowsOwn
<1>6. ASSUME NEW r \in Resources, StaleQuarantine(r) PROVE RowsOwn'
  <2>1. DOMAIN tick'.rows \subseteq DOMAIN tick.rows /\ tick.pc = "stale"
    BY <1>6 DEF StaleQuarantine, TickTyped
  <2> QED BY <1>a, <1>b, <2>1 DEF Claims, RowsOwn
<1>7. CASE DesiredList
  <2>1. tick'.pc \notin {"quarantine", "stale"}
    BY <1>7 DEF DesiredList, NoTick, TickTyped
  <2> QED BY <2>1 DEF RowsOwn
<1>8. ASSUME NEW c \in Containers, ReapOrphan(c) PROVE RowsOwn'
  <2>1. tick'.pc = tick.pc /\ tick'.rows = tick.rows
    BY <1>8 DEF ReapOrphan, TickTyped
  <2> QED BY <1>a, <1>b, <2>1 DEF Claims, RowsOwn
<1>9. CASE ReapOrphanPairNetworks
  <2>1. tick'.pc \notin {"quarantine", "stale"}
    BY <1>9 DEF ReapOrphanPairNetworks, NoTick, TickTyped
  <2> QED BY <2>1 DEF RowsOwn
<1>10. CASE Crash
  <2>1. tick'.pc \notin {"quarantine", "stale"}
    BY <1>10 DEF Crash, NoTick, TickTyped
  <2> QED BY <2>1 DEF RowsOwn
<1>11. ASSUME NEW d \in Deploys, NEW r \in Wants[d], RequestCensus(d, r) PROVE RowsOwn'
  BY <1>11, <1>a, <1>b DEF RequestCensus, Claims, RowsOwn, storeVars, hostVars, requestVars,
     historyVars
<1>12. ASSUME NEW d \in Deploys,
              Admit(d) \/ Refuse(d) \/ PreWrite(d) \/ PostWrite(d) \/ Deadline(d) \/ WorkFails(d)
                 \/ Prepare(d) \/ ClearPair(d) \/ EnsurePairNetwork(d) \/ StartHandler(d) \/
                 StartGate(d) \/ WriteRoute(d) \/ Verify(d)
      PROVE  RowsOwn'
  BY <1>12, <1>a, <1>b DEF Admit, Refuse, PreWrite, PostWrite, Deadline, WorkFails, Prepare,
     ClearPair, EnsurePairNetwork, StartHandler, StartGate, WriteRoute, Verify, Advance, Start,
     Claims, RowsOwn, storeVars, hostVars, requestVars, historyVars
<1>13. ASSUME NEW r \in Resources, Age(r) PROVE RowsOwn'
  BY <1>13, <1>a, <1>b DEF Age, Claims, RowsOwn, storeVars, hostVars, requestVars, historyVars
<1>14. ASSUME NEW c \in Containers, Wedge(c) PROVE RowsOwn'
  BY <1>14, <1>a, <1>b DEF Wedge, Claims, RowsOwn, storeVars, hostVars, requestVars, historyVars
<1>15. CASE UNCHANGED deployerVars
  BY <1>15, <1>a, <1>b DEF deployerVars, Claims, RowsOwn, storeVars, hostVars, requestVars,
     historyVars
<1> QED BY <1>1, <1>2, <1>3, <1>4, <1>5, <1>6, <1>7, <1>8, <1>9, <1>10, <1>11, <1>12, <1>13,
   <1>14, <1>15 DEF DeployerNext, RouteStep, WorkStep, TickStep

LEMMA WorkStillOwns ==
  ASSUME DeployerInv, [DeployerNext]_deployerVars
  PROVE  WorkOwns'
<1> USE DeployerAssumption DEF DeployerInv
<1>a. OwnersStay /\ \A r \in Resources : Owns(r) => Owns(r)'
  BY OwnersStayPut DEF OwnersStay, Owns
<1>b. /\ \A d \in Deploys : work[d] # "none" => target[d] \in Resources
      /\ lost \subseteq lost' /\ \A d \in Deploys : target[d] # None => target'[d] = target[d]
  BY WorkTarget, GoesOn DEF Onward
<1>c. ASSUME \A d \in Deploys : work'[d] # "none" => work[d] # "none" PROVE WorkOwns'
  BY <1>a, <1>b, <1>c, DeployerAssumption DEF Claims, WorkOwns
<1>1. ASSUME NEW d \in Deploys, PreWrite(d) PROVE WorkOwns'
  <2>1. target[d] \in Resources /\ target' = target
    BY <1>1 DEF PreWrite, Begun, BegunRequests, RequestTyped
  <2>2. CASE SlugFree(target[d]) /\ Put(target[d], NextVersion(d, "deploying")) /\ Begin(d)
    <3>1. Owns(target[d])'
      BY <2>1, <2>2, PutKeeps
    <3>2. \A e \in Deploys : e # d => work'[e] = work[e]
      BY <2>2 DEF Begin, RequestTyped
    <3> QED BY <1>a, <1>b, <2>1, <3>1, <3>2 DEF Claims, WorkOwns
  <2>3. CASE UNCHANGED work
    BY <1>c, <2>3
  <2>4. CASE Begin(d) /\ lost' = lost \cup {d}
    <3>1. \A e \in Deploys : e # d => work'[e] = work[e]
      BY <2>4 DEF Begin, RequestTyped
    <3> QED BY <1>a, <1>b, <2>1, <2>4, <3>1 DEF Claims, WorkOwns
  <2> QED BY <1>1, <2>2, <2>3, <2>4 DEF PreWrite
<1>2. ASSUME NEW d \in Deploys, WorkFails(d) PROVE WorkOwns'
  BY <1>2, <1>c DEF WorkFails, Working, RequestTyped
<1>3. ASSUME NEW d \in Deploys,
              Prepare(d) \/ ClearPair(d) \/ EnsurePairNetwork(d) \/ StartHandler(d) \/
                 StartGate(d) \/ WriteRoute(d)
      PROVE  WorkOwns'
  BY <1>3, <1>c DEF Prepare, ClearPair, EnsurePairNetwork, StartHandler, StartGate, WriteRoute,
                 Advance, RequestTyped
<1>4. ASSUME NEW d \in Deploys, Verify(d) PROVE WorkOwns'
  BY <1>4, <1>c DEF Verify, RequestTyped
<1>5. CASE Crash
  BY <1>5, <1>c DEF Crash, Working, RequestTyped
<1>6. ASSUME NEW d \in Deploys, NEW r \in Wants[d], RequestCensus(d, r) PROVE WorkOwns'
  BY <1>6, <1>c DEF RequestCensus, RequestTyped, storeVars, hostVars, requestVars, historyVars
<1>7. ASSUME NEW d \in Deploys,
              Admit(d) \/ Refuse(d) \/ PostWrite(d) \/ Deadline(d)
      PROVE  WorkOwns'
  BY <1>7, <1>c DEF Admit, Refuse, PostWrite, Deadline, RequestTyped, storeVars, hostVars,
     requestVars, historyVars
<1>8. CASE TickList \/ RunawayQuarantine \/ ReapRunaway \/ StaleList \/ DesiredList \/
   ReapOrphanPairNetworks
  BY <1>8, <1>c DEF TickList, RunawayQuarantine, ReapRunaway, StaleList, DesiredList,
     ReapOrphanPairNetworks, RequestTyped, storeVars, hostVars, requestVars, historyVars
<1>9. ASSUME NEW c \in Containers, RunawayRead(c) \/ ReapOrphan(c) \/ Wedge(c) PROVE WorkOwns'
  BY <1>9, <1>c DEF RunawayRead, ReapOrphan, Wedge, RequestTyped, storeVars, hostVars,
     requestVars, historyVars
<1>10. ASSUME NEW r \in Resources, StaleQuarantine(r) \/ Age(r) PROVE WorkOwns'
  BY <1>10, <1>c DEF StaleQuarantine, Age, RequestTyped, storeVars, hostVars, requestVars,
     historyVars
<1>11. CASE UNCHANGED deployerVars
  BY <1>11, <1>c DEF deployerVars, RequestTyped, storeVars, hostVars, requestVars, historyVars
<1> QED BY <1>1, <1>2, <1>3, <1>4, <1>5, <1>6, <1>7, <1>8, <1>9, <1>10, <1>11 DEF DeployerNext,
   RouteStep, WorkStep, TickStep

LEMMA ContainersIsolated ==
  ASSUME HostTyped', BegunHosts', WorkOwns'
  PROVE  (\A c \in up : c[1] \in lost \/ slugOwner[Slug(c[1])] = ResourceOf(c))'
<1> SUFFICES ASSUME NEW c \in up', c[1] \notin lost'
             PROVE  slugOwner'[Slug(c[1])'] = ResourceOf(c)'
  OBVIOUS
<1>1. c[1] \in Deploys /\ work'[c[1]] # "none"
  BY DEF HostTyped, Containers, BegunHosts
<1> QED BY <1>1 DEF WorkOwns, Owns, Slug, ResourceOf

\* The networks: of a slug's owner, or of a deploy that lost its write.
NetworksOwned ==
  \A s \in Slugs : net[s] \in {None, slugOwner[s]} \/ \E d \in lost : target[d] = net[s]

LEMMA NetworksStayOwned ==
  ASSUME DeployerInv, [DeployerNext]_deployerVars
  PROVE  NetworksOwned'
<1> USE DeployerAssumption DEF DeployerInv
<1>a. OwnersStay
  BY OwnersStayPut
<1>b. lost \subseteq lost' /\ \A d \in lost : target'[d] = target[d]
  BY GoesOn, WorkTarget, DeployerAssumption DEF Onward, Begun, BegunLost, RequestTyped
<1>c. ASSUME \A s \in Slugs : net'[s] \in {None, net[s]} PROVE NetworksOwned'
  BY <1>a, <1>b, <1>c DEF Isolated, NetworksOwned, OwnersStay
<1>1. ASSUME NEW d \in Deploys, EnsurePairNetwork(d) PROVE NetworksOwned'
  <2>1. target[d] \in Resources /\ Slug(d) \in Slugs
    BY <1>1, WorkTarget DEF EnsurePairNetwork, Advance
  <2>2. /\ net' = [net EXCEPT ![Slug(d)] = target[d]] /\ target' = target
        /\ slugOwner' = slugOwner /\ lost' = lost
    BY <1>1 DEF EnsurePairNetwork, Advance, storeVars, requestVars, historyVars
  <2>3. d \in lost \/ slugOwner[Slug(d)] = target[d]
    BY <1>1 DEF EnsurePairNetwork, Advance, Claims, WorkOwns, Owns, Slug
  <2> QED BY <2>1, <2>2, <2>3 DEF Isolated, NetworksOwned, HostTyped
<1>2. CASE ReapRunaway
  BY <1>2, <1>c DEF ReapRunaway, ReapStep, Reap, HostTyped
<1>3. ASSUME NEW c \in Containers, ReapOrphan(c) PROVE NetworksOwned'
  BY <1>3, <1>c DEF ReapOrphan, ReapStep, Reap, HostTyped
<1>4. CASE ReapOrphanPairNetworks
  BY <1>4, <1>c DEF ReapOrphanPairNetworks, HostTyped
<1>5. ASSUME NEW d \in Deploys, NEW r \in Wants[d], RequestCensus(d, r) PROVE NetworksOwned'
  <2>1. UNCHANGED net
    BY <1>5 DEF RequestCensus, storeVars, hostVars, requestVars, historyVars
  <2> QED BY <2>1, <1>c
<1>6. ASSUME NEW d \in Deploys,
              Admit(d) \/ Refuse(d) \/ PreWrite(d) \/ PostWrite(d) \/ Deadline(d) \/ WorkFails(d)
                 \/ Verify(d)
      PROVE  NetworksOwned'
  <2>1. UNCHANGED net
    BY <1>6 DEF Admit, Refuse, PreWrite, PostWrite, Deadline, WorkFails, Verify, storeVars,
       hostVars, requestVars, historyVars
  <2> QED BY <2>1, <1>c
<1>7. ASSUME NEW d \in Deploys,
              Prepare(d) \/ ClearPair(d) \/ StartHandler(d) \/ StartGate(d) \/ WriteRoute(d)
      PROVE  NetworksOwned'
  <2>1. UNCHANGED net
    BY <1>7 DEF Prepare, ClearPair, StartHandler, StartGate, WriteRoute, Advance, Start, storeVars,
       hostVars, requestVars, historyVars
  <2> QED BY <2>1, <1>c
<1>8. CASE TickList \/ RunawayQuarantine \/ StaleList \/ DesiredList \/ Crash
  <2>1. UNCHANGED net
    BY <1>8 DEF TickList, RunawayQuarantine, StaleList, DesiredList, Crash, storeVars, hostVars,
       requestVars, historyVars
  <2> QED BY <2>1, <1>c
<1>9. ASSUME NEW c \in Containers, RunawayRead(c) \/ Wedge(c) PROVE NetworksOwned'
  <2>1. UNCHANGED net
    BY <1>9 DEF RunawayRead, Wedge, storeVars, hostVars, requestVars, historyVars
  <2> QED BY <2>1, <1>c
<1>10. ASSUME NEW r \in Resources, StaleQuarantine(r) \/ Age(r) PROVE NetworksOwned'
  <2>1. UNCHANGED net
    BY <1>10 DEF StaleQuarantine, Age, storeVars, hostVars, requestVars, historyVars
  <2> QED BY <2>1, <1>c
<1>11. CASE UNCHANGED deployerVars
  BY <1>11, <1>c DEF deployerVars, NetworksOwned, storeVars, hostVars, requestVars, historyVars
<1> QED BY <1>1, <1>2, <1>3, <1>4, <1>5, <1>6, <1>7, <1>8, <1>9, <1>10, <1>11 DEF DeployerNext,
   RouteStep, WorkStep, TickStep


\* A handler moves from its admission to its answer and never back.
RouteOnward ==
  \A d \in Deploys : /\ route[d] \in {"await", "post", "answered"} =>
                          route'[d] \in {"await", "post", "answered"}
                     /\ route[d] = "answered" => route'[d] = "answered"

LEMMA RoutesGoOn ==
  ASSUME DeployerInv, [DeployerNext]_deployerVars
  PROVE  RouteOnward
<1> USE DeployerAssumption DEF DeployerInv
<1>1. ASSUME NEW d \in Deploys, NEW r \in Wants[d], RequestCensus(d, r) PROVE RouteOnward
  BY <1>1 DEF RequestCensus, RouteOnward, RequestTyped, storeVars, hostVars, requestVars,
     historyVars
<1>2. ASSUME NEW d \in Deploys, Admit(d) PROVE RouteOnward
  BY <1>2 DEF Admit, RouteOnward, RequestTyped, storeVars, hostVars, requestVars, historyVars
<1>3. ASSUME NEW d \in Deploys, Refuse(d) PROVE RouteOnward
  BY <1>3 DEF Refuse, Fault, RouteOnward, RequestTyped, storeVars, hostVars, requestVars,
     historyVars
<1>4. ASSUME NEW d \in Deploys, PreWrite(d) PROVE RouteOnward
  BY <1>4 DEF PreWrite, Put, NextVersion, Begin, Release, Fault, RouteOnward, RequestTyped,
     storeVars, hostVars, requestVars, historyVars
<1>5. ASSUME NEW d \in Deploys, PostWrite(d) PROVE RouteOnward
  BY <1>5 DEF PostWrite, Put, NextVersion, Release, Fault, RouteOnward, RequestTyped, storeVars,
     hostVars, requestVars, historyVars
<1>6. ASSUME NEW d \in Deploys, Deadline(d) PROVE RouteOnward
  BY <1>6 DEF Deadline, Settle, RouteOnward, RequestTyped, storeVars, hostVars, requestVars,
     historyVars
<1>7. ASSUME NEW d \in Deploys, WorkFails(d) PROVE RouteOnward
  BY <1>7 DEF WorkFails, Settle, Working, RouteOnward, RequestTyped, storeVars, hostVars,
     requestVars, historyVars
<1>8. ASSUME NEW d \in Deploys,
              Prepare(d) \/ ClearPair(d) \/ EnsurePairNetwork(d) \/ StartHandler(d) \/
                 StartGate(d) \/ WriteRoute(d)
      PROVE  RouteOnward
  BY <1>8 DEF Prepare, ClearPair, EnsurePairNetwork, StartHandler, StartGate, WriteRoute, Advance,
                 requestVars, RouteOnward
<1>9. ASSUME NEW d \in Deploys, Verify(d) PROVE RouteOnward
  BY <1>9 DEF Verify, Settle, RouteOnward, RequestTyped, storeVars, hostVars, requestVars,
     historyVars
<1>10. CASE Crash
  BY <1>10 DEF Crash, NoTick, Fault, Working, RouteOnward, RequestTyped, storeVars, hostVars,
     requestVars, historyVars
<1>11. CASE TickList \/ RunawayQuarantine \/ ReapRunaway \/ StaleList \/ DesiredList \/
   ReapOrphanPairNetworks
  BY <1>11 DEF TickList, RunawayQuarantine, ReapRunaway, StaleList, DesiredList,
     ReapOrphanPairNetworks, RouteOnward, RequestTyped, storeVars, hostVars, requestVars,
     historyVars
<1>12. ASSUME NEW c \in Containers, RunawayRead(c) \/ ReapOrphan(c) \/ Wedge(c) PROVE RouteOnward
  BY <1>12 DEF RunawayRead, ReapOrphan, Wedge, RouteOnward, RequestTyped, storeVars, hostVars,
     requestVars, historyVars
<1>13. ASSUME NEW r \in Resources, StaleQuarantine(r) \/ Age(r) PROVE RouteOnward
  BY <1>13 DEF StaleQuarantine, Age, RouteOnward, RequestTyped, storeVars, hostVars, requestVars,
     historyVars
<1>14. CASE UNCHANGED deployerVars
  BY <1>14 DEF deployerVars, RouteOnward, RequestTyped, storeVars, hostVars, requestVars,
     historyVars
<1> QED BY <1>1, <1>2, <1>3, <1>4, <1>5, <1>6, <1>7, <1>8, <1>9, <1>10, <1>11, <1>12, <1>13, <1>14
   DEF DeployerNext, RouteStep, WorkStep, TickStep

LEMMA PutsCount ==
  ASSUME DeployerInv, [DeployerNext]_deployerVars
  PROVE  /\ Puts \in Nat /\ Puts' \in Nat /\ Puts <= Puts'
         /\ \A d \in Deploys : route[d] = "pre" /\ route'[d] = "await" => Puts + 1 <= Puts'
         /\ \A d \in Deploys : route[d] = "post" /\ route'[d] = "answered" => Puts + 1 <= Puts'
<1> DEFINE A == {d \in Deploys : route[d] \in {"await", "post", "answered"}}
           B == {d \in Deploys : route[d] = "answered"}
<1>1. /\ IsFiniteSet(A) /\ IsFiniteSet(B) /\ IsFiniteSet(A') /\ IsFiniteSet(B')
      /\ Cardinality(A) \in Nat /\ Cardinality(B) \in Nat
      /\ Cardinality(A') \in Nat /\ Cardinality(B') \in Nat
  BY DeployerAssumption, FS_Subset, FS_CardinalityType
<1>2. A \subseteq A' /\ B \subseteq B'
  BY RoutesGoOn DEF RouteOnward
<1>3. Cardinality(A) <= Cardinality(A') /\ Cardinality(B) <= Cardinality(B')
  BY <1>1, <1>2, FS_Subset
<1>4. ASSUME NEW S, NEW T, IsFiniteSet(S), IsFiniteSet(T), S \subseteq T, NEW x \in T, x \notin S
      PROVE  Cardinality(S) + 1 <= Cardinality(T)
  <2>1. Cardinality(S \cup {x}) = Cardinality(S) + 1 /\ S \cup {x} \subseteq T
    BY <1>4, FS_AddElement
  <2> QED BY <1>4, <2>1, FS_Subset
<1>5. Puts = Cardinality(A) + Cardinality(B) /\ Puts' = Cardinality(A') + Cardinality(B')
  BY DEF Puts
<1>6. ASSUME NEW d \in Deploys, route[d] = "pre", route'[d] = "await" PROVE Puts + 1 <= Puts'
  <2>1. d \in A' /\ d \notin A
    BY <1>6
  <2>2. Cardinality(A) + 1 <= Cardinality(A')
    BY <1>1, <1>2, <1>4, <2>1
  <2> HIDE DEF A, B
  <2> QED BY <1>1, <1>3, <1>5, <2>2
<1>7. ASSUME NEW d \in Deploys, route[d] = "post", route'[d] = "answered" PROVE Puts + 1 <= Puts'
  <2>1. d \in B' /\ d \notin B
    BY <1>7
  <2>2. Cardinality(B) + 1 <= Cardinality(B')
    BY <1>1, <1>2, <1>4, <2>1
  <2> HIDE DEF A, B
  <2> QED BY <1>1, <1>3, <1>5, <2>2
<1> HIDE DEF A, B
<1>8. Puts \in Nat /\ Puts' \in Nat /\ Puts <= Puts'
  BY <1>1, <1>3, <1>5
<1> QED BY <1>6, <1>7, <1>8

LEMMA VersionsStayBounded ==
  ASSUME DeployerInv, [DeployerNext]_deployerVars
  PROVE  VersionsBounded'
<1> USE DeployerAssumption DEF DeployerInv
<1>a. Puts \in Nat /\ Puts' \in Nat /\ Puts <= Puts'
  BY PutsCount
<1>e. /\ \A d \in Deploys : route[d] = "pre" /\ route'[d] = "await" => Puts + 1 <= Puts'
      /\ \A d \in Deploys : route[d] = "post" /\ route'[d] = "answered" => Puts + 1 <= Puts'
  BY PutsCount
<1>b. /\ \A r \in Resources : record[r].version \in Nat /\ record[r].version <= Puts'
      /\ \A r \in DOMAIN tick.rows : tick.rows[r].version \in Nat /\ tick.rows[r].version <= Puts'
  <2>1. /\ \A r \in Resources : record[r].version \in Nat
        /\ \A r \in DOMAIN tick.rows : tick.rows[r].version \in Nat
    BY RowTyped DEF StoreTyped, TickTyped
  <2> QED BY <1>a, <2>1 DEF VersionsBounded
<1>c. ASSUME NEW r \in Resources, NEW rec, Put(r, rec), rec.version <= Puts', tick'.rows = tick.rows
      PROVE  VersionsBounded'
  BY <1>b, <1>c DEF Put, StoreTyped, VersionsBounded
<1>d. ASSUME NEW r \in DOMAIN tick.rows, Quarantine(r, tick.rows[r])
      PROVE  \A q \in Resources : record'[q].version <= Puts'
  <2> DEFINE row == [tick.rows[r] EXCEPT !.status = "failed"]
  <2>1. row.version = tick.rows[r].version /\ r \in Resources
    BY RowTyped DEF TickTyped
  <2>2. record' = [record EXCEPT ![r] = row]
    BY <1>d DEF Quarantine, Put
  <2> HIDE DEF row
  <2> QED BY <1>b, <2>1, <2>2 DEF StoreTyped
<1>1. ASSUME NEW d \in Deploys, PreWrite(d) PROVE VersionsBounded'
  <2>1. target[d] \in Resources /\ tick' = tick
    BY <1>1 DEF PreWrite, Begun, BegunRequests, RequestTyped
  <2>2. CASE UNCHANGED storeVars
    BY <1>b, <2>1, <2>2 DEF storeVars, VersionsBounded
  <2>3. CASE Put(target[d], NextVersion(d, "deploying")) /\ (Begin(d))
    <3>1. route[d] = "pre" /\ route'[d] = "await"
      BY <1>1, <2>3 DEF PreWrite, Begin, Release, RequestTyped
    <3>2. Puts + 1 <= Puts'
      BY <3>1, <1>e
    <3>3. NextVersion(d, "deploying").version = record[target[d]].version + 1
      BY DEF NextVersion
    <3>4. record[target[d]].version \in Nat /\ record[target[d]].version <= Puts
      BY <2>1 DEF StoreTyped, VersionsBounded
    <3>5. NextVersion(d, "deploying").version <= Puts'
      BY <1>a, <3>2, <3>3, <3>4
    <3> QED BY <1>c, <2>1, <2>3, <3>5
  <2> QED BY <1>1, <2>2, <2>3 DEF PreWrite
<1>2. ASSUME NEW d \in Deploys, PostWrite(d) PROVE VersionsBounded'
  <2>1. target[d] \in Resources /\ tick' = tick
    BY <1>2 DEF PostWrite, Begun, BegunRequests, RequestTyped
  <2>2. CASE UNCHANGED storeVars
    BY <1>b, <2>1, <2>2 DEF storeVars, VersionsBounded
  <2>3. CASE Put(target[d], NextVersion(d, outcome[d])) /\ (Release(d))
    <3>1. route[d] = "post" /\ route'[d] = "answered"
      BY <1>2, <2>3 DEF PostWrite, Begin, Release, RequestTyped
    <3>2. Puts + 1 <= Puts'
      BY <3>1, <1>e
    <3>3. NextVersion(d, outcome[d]).version = record[target[d]].version + 1
      BY DEF NextVersion
    <3>4. record[target[d]].version \in Nat /\ record[target[d]].version <= Puts
      BY <2>1 DEF StoreTyped, VersionsBounded
    <3>5. NextVersion(d, outcome[d]).version <= Puts'
      BY <1>a, <3>2, <3>3, <3>4
    <3> QED BY <1>c, <2>1, <2>3, <3>5
  <2> QED BY <1>2, <2>2, <2>3 DEF PostWrite
<1>3. CASE TickList
  <2>1. DOMAIN tick'.rows = {} /\ record' = record
    BY <1>3, NoRows DEF TickList, NoTick, TickTyped, storeVars
  <2> QED BY <1>b, <2>1 DEF VersionsBounded
<1>4. ASSUME NEW c \in Containers, RunawayRead(c) PROVE VersionsBounded'
  <2>1. c \in tick.todo /\ work[c[1]] # "none" /\ c[1] \in Deploys
    BY <1>4 DEF RunawayRead, Begun, BegunHosts, Containers
  <2>2. {ResourceOf(c)} \in SUBSET Resources
    BY <2>1, WorkTarget DEF ResourceOf
  <2>3. tick'.rows = Rows({ResourceOf(c)}) /\ record' = record
    BY <1>4 DEF RunawayRead, TickTyped, storeVars
  <2> QED BY <1>b, <2>2, <2>3, RowsAre DEF VersionsBounded
<1>5. CASE RunawayQuarantine
  <2>1. DOMAIN tick'.rows = {}
    BY <1>5, NoRows DEF RunawayQuarantine, TickTyped
  <2>2. CASE UNCHANGED storeVars
    BY <1>b, <2>1, <2>2 DEF storeVars, VersionsBounded
  <2> QED BY <1>5, <1>d, <2>1, <2>2 DEF RunawayQuarantine, VersionsBounded
<1>6. CASE ReapRunaway
  <2>1. DOMAIN tick'.rows = {} /\ record' = record
    BY <1>6, NoRows DEF ReapRunaway, NoTick, TickTyped, storeVars
  <2> QED BY <1>b, <2>1 DEF VersionsBounded
<1>7. CASE StaleList
  <2>1. tick'.rows = Rows(aged) /\ record' = record /\ aged \in SUBSET Resources
    BY <1>7 DEF StaleList, TickTyped, StoreTyped, storeVars
  <2> QED BY <1>b, <2>1, RowsAre DEF VersionsBounded
<1>8. ASSUME NEW r \in Resources, StaleQuarantine(r) PROVE VersionsBounded'
  <2>1. tick'.rows = [q \in DOMAIN tick.rows \ {r} |-> tick.rows[q]] /\ r \in DOMAIN tick.rows
    BY <1>8 DEF StaleQuarantine, TickTyped
  <2>2. \A q \in DOMAIN tick'.rows : tick'.rows[q].version <= Puts'
    BY <1>b, <2>1
  <2>3. CASE UNCHANGED storeVars
    BY <1>b, <2>2, <2>3 DEF storeVars, VersionsBounded
  <2> QED BY <1>8, <1>d, <2>1, <2>2, <2>3 DEF StaleQuarantine, VersionsBounded
<1>9. CASE DesiredList
  <2>1. DOMAIN tick'.rows = {} /\ record' = record
    BY <1>9, NoRows DEF DesiredList, NoTick, TickTyped, storeVars
  <2> QED BY <1>b, <2>1 DEF VersionsBounded
<1>10. ASSUME NEW c \in Containers, ReapOrphan(c) PROVE VersionsBounded'
  <2>1. tick'.rows = tick.rows /\ record' = record
    BY <1>10 DEF ReapOrphan, TickTyped, storeVars
  <2> QED BY <1>b, <2>1 DEF VersionsBounded
<1>11. CASE ReapOrphanPairNetworks
  <2>1. DOMAIN tick'.rows = {} /\ record' = record
    BY <1>11, NoRows DEF ReapOrphanPairNetworks, NoTick, TickTyped, storeVars
  <2> QED BY <1>b, <2>1 DEF VersionsBounded
<1>12. CASE Crash
  <2>1. DOMAIN tick'.rows = {} /\ record' = record
    BY <1>12, NoRows DEF Crash, NoTick, TickTyped, storeVars
  <2> QED BY <1>b, <2>1 DEF VersionsBounded
<1>13. ASSUME NEW d \in Deploys, NEW r \in Wants[d], RequestCensus(d, r) PROVE VersionsBounded'
  <2>1. UNCHANGED <<record, tick>>
    BY <1>13 DEF RequestCensus, storeVars, hostVars, requestVars, historyVars
  <2> QED BY <2>1, <1>b DEF VersionsBounded
<1>14. ASSUME NEW d \in Deploys,
              Admit(d) \/ Refuse(d) \/ Deadline(d) \/ WorkFails(d) \/ Verify(d)
      PROVE  VersionsBounded'
  <2>1. UNCHANGED <<record, tick>>
    BY <1>14 DEF Admit, Refuse, Deadline, WorkFails, Verify, storeVars, hostVars, requestVars,
       historyVars
  <2> QED BY <2>1, <1>b DEF VersionsBounded
<1>15. ASSUME NEW d \in Deploys,
              Prepare(d) \/ ClearPair(d) \/ EnsurePairNetwork(d) \/ StartHandler(d) \/
                 StartGate(d) \/ WriteRoute(d)
      PROVE  VersionsBounded'
  <2>1. UNCHANGED <<record, tick>>
    BY <1>15 DEF Prepare, ClearPair, EnsurePairNetwork, StartHandler, StartGate, WriteRoute, Advance,
       Start, storeVars, hostVars, requestVars, historyVars
  <2> QED BY <2>1, <1>b DEF VersionsBounded
<1>16. ASSUME NEW r \in Resources, Age(r) PROVE VersionsBounded'
  <2>1. UNCHANGED <<record, tick>>
    BY <1>16 DEF Age, storeVars, hostVars, requestVars, historyVars
  <2> QED BY <2>1, <1>b DEF VersionsBounded
<1>17. ASSUME NEW c \in Containers, Wedge(c) PROVE VersionsBounded'
  <2>1. UNCHANGED <<record, tick>>
    BY <1>17 DEF Wedge, storeVars, hostVars, requestVars, historyVars
  <2> QED BY <2>1, <1>b DEF VersionsBounded
<1>18. CASE UNCHANGED deployerVars
  BY <1>18, <1>b DEF deployerVars, VersionsBounded, storeVars, hostVars, requestVars, historyVars
<1> QED BY <1>1, <1>2, <1>3, <1>4, <1>5, <1>6, <1>7, <1>8, <1>9, <1>10, <1>11, <1>12, <1>13,
   <1>14, <1>15, <1>16, <1>17, <1>18 DEF DeployerNext, RouteStep, WorkStep, TickStep


\* Nothing but a request puts a deploy to work, and nothing but the failing
\* write of its record makes one lose it.
NoNewWork ==
  /\ target' = target /\ lost' = lost /\ disturbed \subseteq disturbed'
  /\ \A e \in Deploys : Outstanding(e)' => Outstanding(e)

LEMMA ApartUnlessWork ==
  ASSUME Apart, NoNewWork
  PROVE  Apart'
<1> SUFFICES ASSUME NEW d \in Deploys, d \notin disturbed', NEW e \in Deploys \ {d},
                    Outstanding(d)', Outstanding(e)'
             PROVE  target'[e] # target'[d] /\ ~(e \in lost' /\ Slug(e)' = Slug(d)')
  BY DEF Apart
<1>1. Outstanding(d) /\ Outstanding(e) /\ d \notin disturbed /\ Slug(e)' = Slug(e) /\ Slug(d)' = Slug(d)
  BY DEF NoNewWork, Slug
<1>2. target[e] # target[d] /\ ~(e \in lost /\ Slug(e) = Slug(d))
  BY <1>1 DEF Apart
<1> QED BY <1>1, <1>2 DEF NoNewWork

LEMMA DeploysStayApart ==
  ASSUME DeployerInv, [DeployerNext]_deployerVars
  PROVE  Apart'
<1> USE DeployerAssumption DEF DeployerInv
<1>1. ASSUME NEW d \in Deploys, NEW r \in Wants[d], RequestCensus(d, r) PROVE Apart'
  <2> DEFINE rivals == {e \in Deploys \ {d} : Outstanding(e) /\
                          (target[e] = r \/ (e \in lost /\ Slug(e) = SlugOf[r]))}
  <2>1. /\ target' = [target EXCEPT ![d] = r] /\ route' = [route EXCEPT ![d] = "census"]
        /\ lost' = lost /\ work' = work /\ route[d] = "idle"
        /\ disturbed' = disturbed \cup (IF rivals = {} THEN {} ELSE rivals \cup {d})
    BY <1>1 DEF RequestCensus, historyVars
  <2>2. d \notin lost /\ target'[d] = r
    BY <2>1 DEF Begun, BegunRequests, BegunLost, RequestTyped
  <2>3. \A e \in Deploys \ {d} : /\ Outstanding(e)' = Outstanding(e) /\ target'[e] = target[e]
                                 /\ Slug(e)' = Slug(e)
    BY <2>1 DEF RequestTyped, Outstanding, Working, Slug
  <2>4. Slug(d)' = SlugOf[r]
    BY <2>2 DEF Slug
  <2>5. SUFFICES ASSUME NEW f \in Deploys, f \notin disturbed', NEW e \in Deploys \ {f},
                        Outstanding(f)', Outstanding(e)'
                 PROVE  target'[e] # target'[f] /\ ~(e \in lost' /\ Slug(e)' = Slug(f)')
    BY DEF Apart
  <2>6. f \notin disturbed /\ (f = d => rivals = {}) /\ f \notin rivals
    BY <2>1, <2>5
  <2>7. CASE f = d
    BY <2>1, <2>2, <2>3, <2>4, <2>5, <2>6, <2>7
  <2>8. CASE e = d
    <3>1. Outstanding(f) /\ target[f] # r
      BY <2>3, <2>5, <2>6, <2>8
    <3> QED BY <2>1, <2>2, <2>3, <2>8, <2>5, <3>1
  <2>9. CASE e # d /\ f # d
    BY <2>1, <2>3, <2>5, <2>6, <2>9 DEF Apart
  <2> QED BY <2>7, <2>8, <2>9
<1>2. ASSUME NEW d \in Deploys, PreWrite(d) PROVE Apart'
  <2>1. target' = target /\ disturbed \subseteq disturbed'
    BY <1>2 DEF PreWrite
  <2>2. \A e \in Deploys : Outstanding(e)' => Outstanding(e)
    BY <1>2 DEF PreWrite, Begin, Release, RequestTyped, Outstanding, Working
  <2>3. CASE lost' = lost
    BY <2>1, <2>2, <2>3, ApartUnlessWork DEF NoNewWork
  <2>4. CASE /\ lost' = lost \cup {d}
             /\ disturbed' = disturbed \cup {e \in Deploys : target[e] # None /\ Slug(e) = Slug(d)}
    <3> SUFFICES ASSUME NEW f \in Deploys, f \notin disturbed', NEW e \in Deploys \ {f},
                        Outstanding(f)', Outstanding(e)'
                 PROVE  target'[e] # target'[f] /\ ~(e \in lost' /\ Slug(e)' = Slug(f)')
      BY DEF Apart
    <3>1. Outstanding(f) /\ Outstanding(e) /\ f \notin disturbed
      BY <2>2, <2>4
    <3>2. target[f] # None
      BY <3>1 DEF Begun, BegunRequests, RequestTyped, Outstanding, Working
    <3>3. Slug(f) # Slug(d)
      BY <2>4, <3>2
    <3>4. target[e] # target[f] /\ ~(e \in lost /\ Slug(e) = Slug(f))
      BY <3>1 DEF Apart
    <3> QED BY <2>1, <2>4, <3>3, <3>4 DEF Slug
  <2> QED BY <1>2, <2>3, <2>4 DEF PreWrite
<1>3. ASSUME NEW d \in Deploys, Admit(d) PROVE Apart'
  <2>1. NoNewWork
    BY <1>3 DEF Admit, NoNewWork, Outstanding, Working, RequestTyped, storeVars, hostVars,
       requestVars, historyVars
  <2> QED BY <2>1, ApartUnlessWork
<1>4. ASSUME NEW d \in Deploys, Refuse(d) PROVE Apart'
  <2>1. NoNewWork
    BY <1>4 DEF Refuse, Fault, NoNewWork, Outstanding, Working, RequestTyped, storeVars, hostVars,
       requestVars, historyVars
  <2> QED BY <2>1, ApartUnlessWork
<1>5. ASSUME NEW d \in Deploys, PostWrite(d) PROVE Apart'
  <2>1. NoNewWork
    BY <1>5 DEF PostWrite, Put, NextVersion, Release, Fault, NoNewWork, Outstanding, Working,
       RequestTyped, storeVars, hostVars, requestVars, historyVars
  <2> QED BY <2>1, ApartUnlessWork
<1>6. ASSUME NEW d \in Deploys, Deadline(d) PROVE Apart'
  <2>1. NoNewWork
    BY <1>6 DEF Deadline, Settle, NoNewWork, Outstanding, Working, RequestTyped, storeVars,
       hostVars, requestVars, historyVars
  <2> QED BY <2>1, ApartUnlessWork
<1>7. ASSUME NEW d \in Deploys, WorkFails(d) PROVE Apart'
  <2>1. NoNewWork
    BY <1>7 DEF WorkFails, Settle, Working, NoNewWork, Outstanding, RequestTyped, storeVars,
       hostVars, requestVars, historyVars
  <2> QED BY <2>1, ApartUnlessWork
<1>8. ASSUME NEW d \in Deploys, Prepare(d) PROVE Apart'
  <2>1. NoNewWork
    BY <1>8 DEF Prepare, Advance, NoNewWork, Outstanding, Working, RequestTyped, storeVars,
       hostVars, requestVars, historyVars
  <2> QED BY <2>1, ApartUnlessWork
<1>9. ASSUME NEW d \in Deploys, ClearPair(d) PROVE Apart'
  <2>1. NoNewWork
    BY <1>9 DEF ClearPair, Advance, NoNewWork, Outstanding, Working, RequestTyped, storeVars,
       hostVars, requestVars, historyVars
  <2> QED BY <2>1, ApartUnlessWork
<1>10. ASSUME NEW d \in Deploys, EnsurePairNetwork(d) PROVE Apart'
  <2>1. NoNewWork
    BY <1>10 DEF EnsurePairNetwork, Advance, NoNewWork, Outstanding, Working, RequestTyped,
       storeVars, hostVars, requestVars, historyVars
  <2> QED BY <2>1, ApartUnlessWork
<1>11. ASSUME NEW d \in Deploys, StartHandler(d) PROVE Apart'
  <2>1. NoNewWork
    BY <1>11 DEF StartHandler, Advance, Start, NoNewWork, Outstanding, Working, RequestTyped,
       storeVars, hostVars, requestVars, historyVars
  <2> QED BY <2>1, ApartUnlessWork
<1>12. ASSUME NEW d \in Deploys, StartGate(d) PROVE Apart'
  <2>1. NoNewWork
    BY <1>12 DEF StartGate, Advance, Start, NoNewWork, Outstanding, Working, RequestTyped, storeVars,
       hostVars, requestVars, historyVars
  <2> QED BY <2>1, ApartUnlessWork
<1>13. ASSUME NEW d \in Deploys, WriteRoute(d) PROVE Apart'
  <2>1. NoNewWork
    BY <1>13 DEF WriteRoute, Advance, NoNewWork, Outstanding, Working, RequestTyped, storeVars,
       hostVars, requestVars, historyVars
  <2> QED BY <2>1, ApartUnlessWork
<1>14. ASSUME NEW d \in Deploys, Verify(d) PROVE Apart'
  <2>1. NoNewWork
    BY <1>14 DEF Verify, Settle, NoNewWork, Outstanding, Working, RequestTyped, storeVars, hostVars,
       requestVars, historyVars
  <2> QED BY <2>1, ApartUnlessWork
<1>15. CASE TickList
  <2>1. NoNewWork
    BY <1>15 DEF TickList, NoTick, NoNewWork, Outstanding, Working, RequestTyped, storeVars,
       hostVars, requestVars, historyVars
  <2> QED BY <2>1, ApartUnlessWork
<1>16. CASE RunawayQuarantine
  <2>1. NoNewWork
    BY <1>16 DEF RunawayQuarantine, Quarantine, Put, Fault, NoNewWork, Outstanding, Working,
       RequestTyped, storeVars, hostVars, requestVars, historyVars
  <2> QED BY <2>1, ApartUnlessWork
<1>17. CASE ReapRunaway
  <2>1. NoNewWork
    BY <1>17 DEF ReapRunaway, ReapStep, Reap, Fault, NoNewWork, Outstanding, Working, RequestTyped,
       storeVars, hostVars, requestVars, historyVars
  <2> QED BY <2>1, ApartUnlessWork
<1>18. CASE StaleList
  <2>1. NoNewWork
    BY <1>18 DEF StaleList, Rows, NoNewWork, Outstanding, Working, RequestTyped, storeVars, hostVars,
       requestVars, historyVars
  <2> QED BY <2>1, ApartUnlessWork
<1>19. CASE DesiredList
  <2>1. NoNewWork
    BY <1>19 DEF DesiredList, NoNewWork, Outstanding, Working, RequestTyped, storeVars, hostVars,
       requestVars, historyVars
  <2> QED BY <2>1, ApartUnlessWork
<1>20. CASE ReapOrphanPairNetworks
  <2>1. NoNewWork
    BY <1>20 DEF ReapOrphanPairNetworks, NoTick, NoNewWork, Outstanding, Working, RequestTyped,
       storeVars, hostVars, requestVars, historyVars
  <2> QED BY <2>1, ApartUnlessWork
<1>21. CASE Crash
  <2>1. NoNewWork
    BY <1>21 DEF Crash, NoTick, Fault, Working, NoNewWork, Outstanding, RequestTyped, storeVars,
       hostVars, requestVars, historyVars
  <2> QED BY <2>1, ApartUnlessWork
<1>22. ASSUME NEW c \in Containers, RunawayRead(c) PROVE Apart'
  <2>1. NoNewWork
    BY <1>22 DEF RunawayRead, Rows, NoNewWork, Outstanding, Working, RequestTyped, storeVars,
       hostVars, requestVars, historyVars
  <2> QED BY <2>1, ApartUnlessWork
<1>23. ASSUME NEW c \in Containers, ReapOrphan(c) PROVE Apart'
  <2>1. NoNewWork
    BY <1>23 DEF ReapOrphan, ReapStep, Reap, Fault, NoNewWork, Outstanding, Working, RequestTyped,
       storeVars, hostVars, requestVars, historyVars
  <2> QED BY <2>1, ApartUnlessWork
<1>24. ASSUME NEW r \in Resources, StaleQuarantine(r) PROVE Apart'
  <2>1. NoNewWork
    BY <1>24 DEF StaleQuarantine, Quarantine, Put, Fault, NoNewWork, Outstanding, Working,
       RequestTyped, storeVars, hostVars, requestVars, historyVars
  <2> QED BY <2>1, ApartUnlessWork
<1>25. ASSUME NEW r \in Resources, Age(r) PROVE Apart'
  <2>1. NoNewWork
    BY <1>25 DEF Age, NoNewWork, Outstanding, Working, RequestTyped, storeVars, hostVars,
       requestVars, historyVars
  <2> QED BY <2>1, ApartUnlessWork
<1>26. ASSUME NEW c \in Containers, Wedge(c) PROVE Apart'
  <2>1. NoNewWork
    BY <1>26 DEF Wedge, Fault, NoNewWork, Outstanding, Working, RequestTyped, storeVars, hostVars,
       requestVars, historyVars
  <2> QED BY <2>1, ApartUnlessWork
<1>27. CASE UNCHANGED deployerVars
  BY <1>27 DEF deployerVars, Apart, Outstanding, Working, Slug, requestVars, historyVars,
     storeVars, hostVars, requestVars, historyVars
<1> QED BY <1>1, <1>2, <1>3, <1>4, <1>5, <1>6, <1>7, <1>8, <1>9, <1>10, <1>11, <1>12, <1>13,
   <1>14, <1>15, <1>16, <1>17, <1>18, <1>19, <1>20, <1>21, <1>22, <1>23, <1>24, <1>25, <1>26,
   <1>27 DEF DeployerNext, RouteStep, WorkStep, TickStep


\* What the tick is about to remove, it may: the deploys it listed had begun,
\* and none of them starts to wait again.
ListedStay ==
  /\ tick' = tick /\ disturbed \subseteq disturbed'
  /\ \A d \in Deploys : work[d] # "none" => /\ target'[d] = target[d]
                                            /\ route'[d] = "await" => route[d] = "await"

LEMMA SparedStay ==
  ASSUME DeployerInv, ListedStay
  PROVE  TickSpares'
<1>1. \A c \in tick.cur \cup tick.todo : c[1] \in Deploys /\ work[c[1]] # "none"
  BY DEF DeployerInv, Begun, BegunHosts, TickTyped, Containers
<1>2. \A c \in tick.cur \cup tick.todo : ResourceOf(c)' = ResourceOf(c)
  BY <1>1 DEF ListedStay, ResourceOf
<1>3. \A c \in tick.cur \cup tick.todo : Spared(c) => Spared(c)'
  BY <1>1 DEF ListedStay, Spared
<1> QED BY <1>2, <1>3 DEF DeployerInv, TickSpares, ListedStay

\* A deploy whose record is not deploying is not an intact launch.
LEMMA SparedByRecord ==
  ASSUME DeployerInv, NEW c \in Containers, record[ResourceOf(c)].status # "deploying"
  PROVE  Spared(c)
  BY DEF DeployerInv, LaunchIntact, Spared, ResourceOf, Containers

LEMMA TickStillSpares ==
  ASSUME DeployerInv, [DeployerNext]_deployerVars
  PROVE  TickSpares'
<1> USE DeployerAssumption DEF DeployerInv
<1>1. ASSUME NEW d \in Deploys, NEW r \in Wants[d], RequestCensus(d, r) PROVE TickSpares'
  <2>1. ListedStay
    BY <1>1 DEF RequestCensus, ListedStay, Begun, BegunRequests, RequestTyped, storeVars, hostVars,
       requestVars, historyVars
  <2> QED BY <2>1, SparedStay
<1>2. ASSUME NEW d \in Deploys, Admit(d) PROVE TickSpares'
  <2>1. ListedStay
    BY <1>2 DEF Admit, ListedStay, Begun, BegunRequests, RequestTyped, storeVars, hostVars,
       requestVars, historyVars
  <2> QED BY <2>1, SparedStay
<1>3. ASSUME NEW d \in Deploys, Refuse(d) PROVE TickSpares'
  <2>1. ListedStay
    BY <1>3 DEF Refuse, Fault, ListedStay, Begun, BegunRequests, RequestTyped, storeVars, hostVars,
       requestVars, historyVars
  <2> QED BY <2>1, SparedStay
<1>4. ASSUME NEW d \in Deploys, PreWrite(d) PROVE TickSpares'
  <2>1. ListedStay
    BY <1>4 DEF PreWrite, Put, NextVersion, Begin, Release, Fault, ListedStay, Begun, BegunRequests,
       RequestTyped, storeVars, hostVars, requestVars, historyVars
  <2> QED BY <2>1, SparedStay
<1>5. ASSUME NEW d \in Deploys, PostWrite(d) PROVE TickSpares'
  <2>1. ListedStay
    BY <1>5 DEF PostWrite, Put, NextVersion, Release, Fault, ListedStay, Begun, BegunRequests,
       RequestTyped, storeVars, hostVars, requestVars, historyVars
  <2> QED BY <2>1, SparedStay
<1>6. ASSUME NEW d \in Deploys, Deadline(d) PROVE TickSpares'
  <2>1. ListedStay
    BY <1>6 DEF Deadline, Settle, ListedStay, Begun, BegunRequests, RequestTyped, storeVars,
       hostVars, requestVars, historyVars
  <2> QED BY <2>1, SparedStay
<1>7. ASSUME NEW d \in Deploys, WorkFails(d) PROVE TickSpares'
  <2>1. ListedStay
    BY <1>7 DEF WorkFails, Settle, Working, ListedStay, Begun, BegunRequests, RequestTyped,
       storeVars, hostVars, requestVars, historyVars
  <2> QED BY <2>1, SparedStay
<1>8. ASSUME NEW d \in Deploys, Prepare(d) PROVE TickSpares'
  <2>1. ListedStay
    BY <1>8 DEF Prepare, Advance, ListedStay, Begun, BegunRequests, RequestTyped, storeVars,
       hostVars, requestVars, historyVars
  <2> QED BY <2>1, SparedStay
<1>9. ASSUME NEW d \in Deploys, ClearPair(d) PROVE TickSpares'
  <2>1. ListedStay
    BY <1>9 DEF ClearPair, Advance, ListedStay, Begun, BegunRequests, RequestTyped, storeVars,
       hostVars, requestVars, historyVars
  <2> QED BY <2>1, SparedStay
<1>10. ASSUME NEW d \in Deploys, EnsurePairNetwork(d) PROVE TickSpares'
  <2>1. ListedStay
    BY <1>10 DEF EnsurePairNetwork, Advance, ListedStay, Begun, BegunRequests, RequestTyped,
       storeVars, hostVars, requestVars, historyVars
  <2> QED BY <2>1, SparedStay
<1>11. ASSUME NEW d \in Deploys, StartHandler(d) PROVE TickSpares'
  <2>1. ListedStay
    BY <1>11 DEF StartHandler, Advance, Start, ListedStay, Begun, BegunRequests, RequestTyped,
       storeVars, hostVars, requestVars, historyVars
  <2> QED BY <2>1, SparedStay
<1>12. ASSUME NEW d \in Deploys, StartGate(d) PROVE TickSpares'
  <2>1. ListedStay
    BY <1>12 DEF StartGate, Advance, Start, ListedStay, Begun, BegunRequests, RequestTyped,
       storeVars, hostVars, requestVars, historyVars
  <2> QED BY <2>1, SparedStay
<1>13. ASSUME NEW d \in Deploys, WriteRoute(d) PROVE TickSpares'
  <2>1. ListedStay
    BY <1>13 DEF WriteRoute, Advance, ListedStay, Begun, BegunRequests, RequestTyped, storeVars,
       hostVars, requestVars, historyVars
  <2> QED BY <2>1, SparedStay
<1>14. ASSUME NEW d \in Deploys, Verify(d) PROVE TickSpares'
  <2>1. ListedStay
    BY <1>14 DEF Verify, Settle, ListedStay, Begun, BegunRequests, RequestTyped, storeVars, hostVars,
       requestVars, historyVars
  <2> QED BY <2>1, SparedStay
<1>15. ASSUME NEW r \in Resources, Age(r) PROVE TickSpares'
  <2>1. ListedStay
    BY <1>15 DEF Age, ListedStay, Begun, BegunRequests, RequestTyped, storeVars, hostVars,
       requestVars, historyVars
  <2> QED BY <2>1, SparedStay
<1>16. ASSUME NEW c \in Containers, Wedge(c) PROVE TickSpares'
  <2>1. ListedStay
    BY <1>16 DEF Wedge, Fault, ListedStay, Begun, BegunRequests, RequestTyped, storeVars, hostVars,
       requestVars, historyVars
  <2> QED BY <2>1, SparedStay
<1>17. CASE TickList
  <2>1. tick'.pc = "runaway"
    BY <1>17 DEF TickList, TickTyped, NoTick
  <2> QED BY <2>1 DEF TickSpares
<1>18. ASSUME NEW c \in Containers, RunawayRead(c) PROVE TickSpares'
  <2>1. /\ c \in Containers /\ tick'.cur = {c} /\ tick'.rows = Rows({ResourceOf(c)})
        /\ tick'.pc = IF record[ResourceOf(c)].status \in {"none", "failed"}
                      THEN "reapRunaway" ELSE "quarantine"
        /\ target' = target /\ route' = route /\ disturbed' = disturbed
    BY <1>18 DEF RunawayRead, requestVars, historyVars, TickTyped
  <2>2. ResourceOf(c)' = ResourceOf(c) /\ Spared(c)' = Spared(c) /\ DOMAIN tick'.rows = {ResourceOf(c)}
    BY <2>1 DEF ResourceOf, Spared, Rows
  <2>3. tick'.pc = "reapRunaway" => Spared(c)
    BY <2>1, SparedByRecord
  <2> QED BY <2>1, <2>2, <2>3 DEF TickSpares
<1>19. CASE RunawayQuarantine
  <2>1. CASE Fault /\ tick' = [tick EXCEPT !.pc = "runaway", !.cur = {}, !.rows = <<>>]
    <3>1. tick'.pc = "runaway"
      BY <2>1 DEF TickTyped
    <3> QED BY <3>1 DEF TickSpares
  <2>2. ASSUME NEW r \in DOMAIN tick.rows, Quarantine(r, tick.rows[r]),
               tick' = [tick EXCEPT !.pc = "reapRunaway", !.rows = <<>>]
        PROVE  TickSpares'
    <3>1. tick'.pc = "reapRunaway" /\ tick'.cur = tick.cur /\ tick.pc = "quarantine"
      BY <1>19, <2>2 DEF RunawayQuarantine, TickTyped
    <3>2. \A c \in tick.cur : c[1] \in Deploys /\ target[c[1]] = r
      BY <2>2, <3>1 DEF TickSpares, ResourceOf, TickTyped, Containers
    <3>3. \A c \in tick.cur : c[1] \in disturbed'
      BY <2>2, <3>2 DEF Quarantine
    <3> QED BY <3>1, <3>3 DEF TickSpares, Spared
  <2> QED BY <1>19, <2>1, <2>2 DEF RunawayQuarantine
<1>20. CASE ReapRunaway
  <2>1. tick'.pc = "runaway"
    BY <1>20 DEF ReapRunaway, TickTyped
  <2> QED BY <2>1 DEF TickSpares
<1>21. CASE StaleList
  <2>1. tick'.pc = "stale"
    BY <1>21 DEF StaleList, TickTyped
  <2> QED BY <2>1 DEF TickSpares
<1>22. ASSUME NEW r \in Resources, StaleQuarantine(r) PROVE TickSpares'
  <2>1. tick'.pc = "stale"
    BY <1>22 DEF StaleQuarantine, TickTyped
  <2> QED BY <2>1 DEF TickSpares
<1>23. CASE DesiredList
  <2>1. /\ tick'.pc = "reap" /\ route' = route /\ disturbed' = disturbed
        /\ tick'.todo = {c \in tick.seen \ tick.reaped : ~Active(ResourceOf(c))}
    BY <1>23 DEF DesiredList, requestVars, historyVars, TickTyped
  <2>2. \A c \in tick'.todo : c \in Containers /\ record[ResourceOf(c)].status # "deploying"
    BY <2>1 DEF Active, TickTyped
  <2>3. \A c \in tick'.todo : Spared(c)'
    BY <2>1, <2>2, SparedByRecord DEF Spared
  <2> QED BY <2>1, <2>3 DEF TickSpares
<1>24. ASSUME NEW c \in Containers, ReapOrphan(c) PROVE TickSpares'
  <2>1. /\ tick.pc = "reap" /\ tick'.pc = "reap" /\ route' = route /\ disturbed' = disturbed
        /\ tick'.todo \subseteq tick.todo
    BY <1>24 DEF ReapOrphan, requestVars, historyVars, TickTyped
  <2> QED BY <2>1 DEF TickSpares, Spared
<1>25. CASE ReapOrphanPairNetworks
  <2>1. tick'.pc = "idle"
    BY <1>25 DEF ReapOrphanPairNetworks, TickTyped, NoTick
  <2> QED BY <2>1 DEF TickSpares
<1>26. CASE Crash
  <2>1. tick'.pc = "idle"
    BY <1>26 DEF Crash, TickTyped, NoTick
  <2> QED BY <2>1 DEF TickSpares
<1>27. CASE UNCHANGED deployerVars
  BY <1>27 DEF deployerVars, TickSpares, ListedStay, ResourceOf, Spared, requestVars, historyVars,
     storeVars, hostVars, requestVars, historyVars
<1> QED BY <1>1, <1>2, <1>3, <1>4, <1>5, <1>6, <1>7, <1>8, <1>9, <1>10, <1>11, <1>12, <1>13,
   <1>14, <1>15, <1>16, <1>17, <1>18, <1>19, <1>20, <1>21, <1>22, <1>23, <1>24, <1>25, <1>26,
   <1>27 DEF DeployerNext, RouteStep, WorkStep, TickStep


\* A deploy that waits on had waited for the same resource, and asks for no
\* container it did not ask for before.
WaitsOn(d) ==
  /\ route[d] = "await" /\ target'[d] = target[d] /\ d \notin disturbed
  /\ work'[d] \in {"gate", "route", "verify"} => work[d] \in {"gate", "route", "verify"}
  /\ work'[d] \in {"route", "verify"} => work[d] \in {"route", "verify"}

Waiting == {d \in Deploys : d \notin disturbed' /\ route'[d] = "await"}

LEMMA IntactStay ==
  ASSUME LaunchIntact, NEW d \in Deploys, WaitsOn(d),
         record'[target[d]].status = "deploying" \/ record' = record,
         \A role \in Roles : <<d, role>> \in up => <<d, role>> \in up'
  PROVE  /\ record'[target'[d]].status = "deploying"
         /\ work'[d] \in {"gate", "route", "verify"} => <<d, "handler">> \in up'
         /\ work'[d] \in {"route", "verify"} => <<d, "gate">> \in up'
  BY DEF LaunchIntact, WaitsOn, Roles

\* Two deploys of one slug at once: the one that waits undisturbed is alone.
LEMMA AloneOnSlug ==
  ASSUME DeployerInv, NEW d \in Deploys, NEW e \in Deploys \ {d}, d \notin disturbed,
         route[d] = "await", Outstanding(e), work[d] # "none", work[e] # "none"
  PROVE  Slug(e) # Slug(d)
<1>1. Outstanding(d) /\ d \notin lost
  BY DEF Outstanding, DeployerInv, Begun, BegunLost
<1>2. target[e] # target[d] /\ ~(e \in lost /\ Slug(e) = Slug(d))
  BY <1>1 DEF DeployerInv, Apart
<1>3. Owns(target[d]) /\ (e \notin lost => Owns(target[e]))
  BY <1>1 DEF DeployerInv, Claims, WorkOwns
<1> QED BY <1>2, <1>3 DEF Owns, Slug

LEMMA LaunchStaysIntact ==
  ASSUME DeployerInv, [DeployerNext]_deployerVars
  PROVE  LaunchIntact'
<1> USE DeployerAssumption DEF DeployerInv
<1>a. ASSUME \A d \in Waiting : WaitsOn(d), record' = record, up \subseteq up'
      PROVE  LaunchIntact'
  BY <1>a, IntactStay DEF LaunchIntact, Waiting
<1>b. ASSUME NEW c, c \in Containers, Spared(c), up \ {c} \subseteq up', record' = record,
             \A d \in Waiting : WaitsOn(d)
      PROVE  LaunchIntact'
  <2>1. \A d \in Waiting, role \in Roles : <<d, role>> \in up => <<d, role>> \in up'
    BY <1>b DEF Spared, Waiting, WaitsOn, Containers
  <2> QED BY <1>b, <2>1, IntactStay DEF LaunchIntact, Waiting
<1>c. ASSUME NEW r, NEW row, Quarantine(r, row), up' = up, \A d \in Waiting : WaitsOn(d)
      PROVE  LaunchIntact'
  <2>1. \A d \in Waiting : target[d] # r
    BY <1>c DEF Waiting, Quarantine
  <2>2. \A d \in Waiting : record'[target[d]] = record[target[d]]
    BY <1>c, <2>1 DEF Quarantine, Put, StoreTyped
  <2>3. \A d \in Waiting : record'[target[d]].status = "deploying"
    BY <1>c, <2>2 DEF LaunchIntact, Waiting, WaitsOn
  <2> QED BY <1>c, <2>3, IntactStay DEF LaunchIntact, Waiting
<1>1. ASSUME NEW d \in Deploys, NEW r \in Wants[d], RequestCensus(d, r) PROVE LaunchIntact'
  <2>1. (\A f \in Waiting : WaitsOn(f)) /\ record' = record /\ up' = up
    BY <1>1 DEF RequestCensus, Waiting, WaitsOn, RequestTyped, storeVars, hostVars, requestVars,
       historyVars
  <2> QED BY <2>1, <1>a
<1>2. ASSUME NEW d \in Deploys, Admit(d) PROVE LaunchIntact'
  <2>1. (\A f \in Waiting : WaitsOn(f)) /\ record' = record /\ up' = up
    BY <1>2 DEF Admit, Waiting, WaitsOn, RequestTyped, storeVars, hostVars, requestVars, historyVars
  <2> QED BY <2>1, <1>a
<1>3. ASSUME NEW d \in Deploys, Refuse(d) PROVE LaunchIntact'
  <2>1. (\A f \in Waiting : WaitsOn(f)) /\ record' = record /\ up' = up
    BY <1>3 DEF Refuse, Fault, Waiting, WaitsOn, RequestTyped, storeVars, hostVars, requestVars,
       historyVars
  <2> QED BY <2>1, <1>a
<1>4. ASSUME NEW d \in Deploys, PreWrite(d) PROVE LaunchIntact'
  <2> DEFINE rec == NextVersion(d, "deploying")
  <2>1. route[d] = "pre" /\ up' = up /\ target' = target /\ target[d] \in Resources
    BY <1>4 DEF PreWrite, hostVars, Begun, BegunRequests, RequestTyped
  <2>2. CASE Put(target[d], rec) /\ Begin(d) /\ disturbed' = disturbed
    <3>1. \A f \in Waiting : f # d => WaitsOn(f)
      BY <2>1, <2>2 DEF Waiting, WaitsOn, Begin, RequestTyped
    <3>2. \A f \in Waiting : f # d => record'[target[f]].status = "deploying"
      <4> SUFFICES ASSUME NEW f \in Waiting, f # d PROVE record'[target[f]].status = "deploying"
        OBVIOUS
      <4>1. record[target[f]].status = "deploying"
        BY <3>1 DEF LaunchIntact, Waiting, WaitsOn
      <4>2. rec.status = "deploying"
        BY DEF NextVersion
      <4>3. record' = [record EXCEPT ![target[d]] = rec]
        BY <2>2 DEF Put
      <4> HIDE DEF rec
      <4> QED BY <2>1, <4>1, <4>2, <4>3 DEF StoreTyped
    <3>3. rec.status = "deploying" /\ record'[target[d]] = rec
      BY <2>1, <2>2 DEF NextVersion, Put, StoreTyped
    <3>4. work'[d] = "prepare"
      BY <2>2 DEF Begin, RequestTyped
    <3> HIDE DEF rec
    <3> QED BY <2>1, <3>1, <3>2, <3>3, <3>4, IntactStay DEF LaunchIntact, Waiting
  <2>3. CASE UNCHANGED storeVars /\ Release(d) /\ UNCHANGED <<work, disturbed>>
    <3>1. \A f \in Waiting : WaitsOn(f)
      BY <2>1, <2>3 DEF Waiting, WaitsOn, Release, RequestTyped
    <3> QED BY <2>1, <2>3, <3>1, <1>a DEF storeVars
  <2>4. CASE /\ UNCHANGED storeVars /\ Begin(d)
             /\ disturbed' = disturbed \cup {e \in Deploys : target[e] # None /\ Slug(e) = Slug(d)}
    <3>1. d \in disturbed'
      BY <2>1, <2>4, DeployerAssumption
    <3>2. \A f \in Waiting : WaitsOn(f)
      BY <2>1, <2>4, <3>1 DEF Waiting, WaitsOn, Begin, RequestTyped
    <3> QED BY <2>1, <2>4, <3>2, <1>a DEF storeVars
  <2> QED BY <1>4, <2>2, <2>3, <2>4 DEF PreWrite
<1>5. ASSUME NEW d \in Deploys, PostWrite(d) PROVE LaunchIntact'
  <2>1. /\ route[d] = "post" /\ up' = up /\ target' = target /\ work' = work /\ disturbed' = disturbed
        /\ Release(d)
    BY <1>5 DEF PostWrite, hostVars, historyVars
  <2>2. \A f \in Waiting : WaitsOn(f) /\ f # d
    BY <2>1 DEF Waiting, WaitsOn, Release, RequestTyped
  <2>3. CASE UNCHANGED storeVars
    BY <2>1, <2>2, <2>3, <1>a DEF storeVars
  <2>4. CASE Put(target[d], NextVersion(d, outcome[d]))
    <3>1. \A f \in Waiting : target[f] # target[d]
      <4> SUFFICES ASSUME NEW f \in Waiting PROVE target[f] # target[d]
        OBVIOUS
      <4>1. Outstanding(f) /\ Outstanding(d) /\ f \notin disturbed /\ d \in Deploys \ {f} /\ f \in Deploys
        BY <2>1, <2>2 DEF Outstanding, WaitsOn, Waiting
      <4> QED BY <4>1 DEF Apart
    <3>2. \A f \in Waiting : record'[target[f]] = record[target[f]]
      BY <2>4, <3>1 DEF Put, StoreTyped
    <3>3. \A f \in Waiting : record'[target[f]].status = "deploying"
      BY <2>2, <3>2 DEF LaunchIntact, Waiting, WaitsOn
    <3> QED BY <2>1, <2>2, <3>3, IntactStay DEF LaunchIntact, Waiting
  <2> QED BY <1>5, <2>3, <2>4 DEF PostWrite
<1>6. ASSUME NEW d \in Deploys, Deadline(d) PROVE LaunchIntact'
  <2>1. (\A f \in Waiting : WaitsOn(f)) /\ record' = record /\ up' = up
    BY <1>6 DEF Deadline, Settle, Waiting, WaitsOn, RequestTyped, storeVars, hostVars, requestVars,
       historyVars
  <2> QED BY <2>1, <1>a
<1>7. ASSUME NEW d \in Deploys, WorkFails(d) PROVE LaunchIntact'
  <2>1. (\A f \in Waiting : WaitsOn(f)) /\ record' = record /\ up' = up
    BY <1>7 DEF WorkFails, Settle, Working, Waiting, WaitsOn, RequestTyped, storeVars, hostVars,
       requestVars, historyVars
  <2> QED BY <2>1, <1>a
<1>8. ASSUME NEW d \in Deploys, Prepare(d) PROVE LaunchIntact'
  <2>1. (\A f \in Waiting : WaitsOn(f)) /\ record' = record /\ up' = up
    BY <1>8 DEF Prepare, Advance, Waiting, WaitsOn, RequestTyped, storeVars, hostVars, requestVars,
       historyVars
  <2> QED BY <2>1, <1>a
<1>9. ASSUME NEW d \in Deploys, ClearPair(d) PROVE LaunchIntact'
  <2>1. /\ \A f \in Waiting : WaitsOn(f) /\ (f = d => work'[f] = "net")
        /\ record' = record /\ up' = up \ OnSlug(Slug(d)) /\ work[d] = "clear"
    BY <1>9 DEF ClearPair, Advance, Waiting, WaitsOn, RequestTyped, storeVars, hostVars,
       requestVars, historyVars
  <2>2. ASSUME NEW f \in Waiting, f # d, work[f] \in {"gate", "route", "verify"}, NEW role \in Roles,
               <<f, role>> \in up
        PROVE  <<f, role>> \in up'
    <3>1. Outstanding(d) /\ route[f] = "await" /\ f \notin disturbed /\ f \in Deploys /\ d \in Deploys \ {f}
      BY <2>1, <2>2 DEF Outstanding, Working, WaitsOn, Waiting
    <3>2. Slug(d) # Slug(f)
      BY <2>1, <2>2, <3>1, AloneOnSlug
    <3> QED BY <2>1, <2>2, <3>2 DEF OnSlug, ResourceOf, Slug
  <2>3. ASSUME NEW f \in Waiting
        PROVE  /\ record'[target'[f]].status = "deploying"
               /\ work'[f] \in {"gate", "route", "verify"} => <<f, "handler">> \in up'
               /\ work'[f] \in {"route", "verify"} => <<f, "gate">> \in up'
    <3>1. WaitsOn(f) /\ f \in Deploys /\ record[target[f]].status = "deploying"
      BY <2>1, <2>3 DEF LaunchIntact, WaitsOn, Waiting
    <3>2. CASE work'[f] \notin {"gate", "route", "verify"}
      BY <2>1, <3>1, <3>2 DEF WaitsOn
    <3>3. CASE work'[f] \in {"gate", "route", "verify"}
      <4>1. f # d /\ work[f] \in {"gate", "route", "verify"}
        BY <2>1, <2>3, <3>1, <3>3 DEF WaitsOn
      <4>2. \A role \in Roles : <<f, role>> \in up => <<f, role>> \in up'
        BY <2>2, <2>3, <4>1
      <4> QED BY <2>1, <3>1, <4>2, IntactStay
    <3> QED BY <3>2, <3>3
  <2> QED BY <2>3 DEF LaunchIntact, Waiting
<1>10. ASSUME NEW d \in Deploys, EnsurePairNetwork(d) PROVE LaunchIntact'
  <2>1. (\A f \in Waiting : WaitsOn(f)) /\ record' = record /\ up' = up
    BY <1>10 DEF EnsurePairNetwork, Advance, Waiting, WaitsOn, RequestTyped, storeVars, hostVars,
       requestVars, historyVars
  <2> QED BY <2>1, <1>a
<1>11. ASSUME NEW d \in Deploys, StartHandler(d) PROVE LaunchIntact'
  <2>1. /\ record' = record /\ target' = target /\ route' = route /\ disturbed' = disturbed
        /\ work' = [work EXCEPT ![d] = "gate"] /\ work[d] = "handler" /\ up' = up \cup {<<d, "handler">>}
    BY <1>11 DEF StartHandler, Advance, Start, storeVars, requestVars, historyVars
  <2>2. ASSUME NEW f \in Deploys \ disturbed', route'[f] = "await"
        PROVE  /\ record'[target'[f]].status = "deploying"
               /\ work'[f] \in {"gate", "route", "verify"} => <<f, "handler">> \in up'
               /\ work'[f] \in {"route", "verify"} => <<f, "gate">> \in up'
    <3>1. CASE f = d
      BY <2>1, <2>2, <3>1 DEF LaunchIntact, RequestTyped
    <3>2. CASE f # d
      BY <2>1, <2>2, <3>2 DEF LaunchIntact, RequestTyped
    <3> QED BY <3>1, <3>2
  <2> QED BY <2>2 DEF LaunchIntact
<1>12. ASSUME NEW d \in Deploys, StartGate(d) PROVE LaunchIntact'
  <2>1. /\ record' = record /\ target' = target /\ route' = route /\ disturbed' = disturbed
        /\ work' = [work EXCEPT ![d] = "route"] /\ work[d] = "gate" /\ up' = up \cup {<<d, "gate">>}
    BY <1>12 DEF StartGate, Advance, Start, storeVars, requestVars, historyVars
  <2>2. ASSUME NEW f \in Deploys \ disturbed', route'[f] = "await"
        PROVE  /\ record'[target'[f]].status = "deploying"
               /\ work'[f] \in {"gate", "route", "verify"} => <<f, "handler">> \in up'
               /\ work'[f] \in {"route", "verify"} => <<f, "gate">> \in up'
    <3>1. CASE f = d
      BY <2>1, <2>2, <3>1 DEF LaunchIntact, RequestTyped
    <3>2. CASE f # d
      BY <2>1, <2>2, <3>2 DEF LaunchIntact, RequestTyped
    <3> QED BY <3>1, <3>2
  <2> QED BY <2>2 DEF LaunchIntact
<1>13. ASSUME NEW d \in Deploys, WriteRoute(d) PROVE LaunchIntact'
  <2>1. (\A f \in Waiting : WaitsOn(f)) /\ record' = record /\ up' = up
    BY <1>13 DEF WriteRoute, Advance, Waiting, WaitsOn, RequestTyped, storeVars, hostVars,
       requestVars, historyVars
  <2> QED BY <2>1, <1>a
<1>14. ASSUME NEW d \in Deploys, Verify(d) PROVE LaunchIntact'
  <2>1. (\A f \in Waiting : WaitsOn(f)) /\ record' = record /\ up' = up
    BY <1>14 DEF Verify, Settle, Waiting, WaitsOn, RequestTyped, storeVars, hostVars, requestVars,
       historyVars
  <2> QED BY <2>1, <1>a
<1>15. CASE TickList
  <2>1. (\A f \in Waiting : WaitsOn(f)) /\ record' = record /\ up' = up
    BY <1>15 DEF TickList, NoTick, Waiting, WaitsOn, RequestTyped, storeVars, hostVars, requestVars,
       historyVars
  <2> QED BY <2>1, <1>a
<1>16. CASE RunawayQuarantine
  <2>1. (\A f \in Waiting : WaitsOn(f)) /\ up' = up
    BY <1>16 DEF RunawayQuarantine, Quarantine, Put, Fault, Waiting, WaitsOn, RequestTyped,
       storeVars, hostVars, requestVars, historyVars
  <2>2. CASE UNCHANGED storeVars
    BY <2>1, <2>2, <1>a DEF storeVars
  <2> QED BY <1>16, <1>c, <2>1, <2>2 DEF RunawayQuarantine
<1>17. CASE ReapRunaway
  <2>1. (\A f \in Waiting : WaitsOn(f)) /\ record' = record
    BY <1>17 DEF ReapRunaway, Waiting, WaitsOn, RequestTyped, storeVars, hostVars, requestVars, historyVars
  <2>2. PICK c \in tick.cur : ReapStep(c)
    BY <1>17 DEF ReapRunaway
  <2>3. c \in Containers /\ Spared(c) /\ up \ {c} \subseteq up'
    BY <1>17, <2>2 DEF ReapRunaway, ReapStep, Reap, TickSpares, TickTyped
  <2> QED BY <1>b, <2>1, <2>3
<1>18. CASE StaleList
  <2>1. (\A f \in Waiting : WaitsOn(f)) /\ record' = record /\ up' = up
    BY <1>18 DEF StaleList, Rows, Waiting, WaitsOn, RequestTyped, storeVars, hostVars, requestVars,
       historyVars
  <2> QED BY <2>1, <1>a
<1>19. CASE DesiredList
  <2>1. (\A f \in Waiting : WaitsOn(f)) /\ record' = record /\ up' = up
    BY <1>19 DEF DesiredList, Waiting, WaitsOn, RequestTyped, storeVars, hostVars, requestVars,
       historyVars
  <2> QED BY <2>1, <1>a
<1>20. CASE ReapOrphanPairNetworks
  <2>1. (\A f \in Waiting : WaitsOn(f)) /\ record' = record /\ up' = up
    BY <1>20 DEF ReapOrphanPairNetworks, NoTick, Waiting, WaitsOn, RequestTyped, storeVars, hostVars,
       requestVars, historyVars
  <2> QED BY <2>1, <1>a
<1>21. CASE Crash
  <2>1. (\A f \in Waiting : WaitsOn(f)) /\ record' = record /\ up' = up
    BY <1>21 DEF Crash, NoTick, Fault, Working, Waiting, WaitsOn, RequestTyped, storeVars, hostVars,
       requestVars, historyVars
  <2> QED BY <2>1, <1>a
<1>22. ASSUME NEW c \in Containers, RunawayRead(c) PROVE LaunchIntact'
  <2>1. (\A f \in Waiting : WaitsOn(f)) /\ record' = record /\ up' = up
    BY <1>22 DEF RunawayRead, Rows, Waiting, WaitsOn, RequestTyped, storeVars, hostVars, requestVars,
       historyVars
  <2> QED BY <2>1, <1>a
<1>23. ASSUME NEW c \in Containers, ReapOrphan(c) PROVE LaunchIntact'
  <2>1. (\A f \in Waiting : WaitsOn(f)) /\ record' = record
    BY <1>23 DEF ReapOrphan, Waiting, WaitsOn, RequestTyped, storeVars, hostVars, requestVars, historyVars
  <2>2. Spared(c) /\ up \ {c} \subseteq up'
    BY <1>23 DEF ReapOrphan, ReapStep, Reap, TickSpares
  <2> QED BY <1>b, <2>1, <2>2
<1>24. ASSUME NEW r \in Resources, StaleQuarantine(r) PROVE LaunchIntact'
  <2>1. (\A f \in Waiting : WaitsOn(f)) /\ up' = up
    BY <1>24 DEF StaleQuarantine, Quarantine, Put, Fault, Waiting, WaitsOn, RequestTyped, storeVars,
       hostVars, requestVars, historyVars
  <2>2. CASE UNCHANGED storeVars
    BY <2>1, <2>2, <1>a DEF storeVars
  <2> QED BY <1>24, <1>c, <2>1, <2>2 DEF StaleQuarantine
<1>25. ASSUME NEW r \in Resources, Age(r) PROVE LaunchIntact'
  <2>1. (\A f \in Waiting : WaitsOn(f)) /\ record' = record /\ up' = up
    BY <1>25 DEF Age, Waiting, WaitsOn, RequestTyped, storeVars, hostVars, requestVars, historyVars
  <2> QED BY <2>1, <1>a
<1>26. ASSUME NEW c \in Containers, Wedge(c) PROVE LaunchIntact'
  <2>1. (\A f \in Waiting : WaitsOn(f)) /\ record' = record /\ up' = up
    BY <1>26 DEF Wedge, Fault, Waiting, WaitsOn, RequestTyped, storeVars, hostVars, requestVars,
       historyVars
  <2> QED BY <2>1, <1>a
<1>27. CASE UNCHANGED deployerVars
  BY <1>27, <1>a DEF deployerVars, LaunchIntact, Waiting, WaitsOn, requestVars, historyVars,
     storeVars, hostVars, requestVars, historyVars
<1> QED BY <1>1, <1>2, <1>3, <1>4, <1>5, <1>6, <1>7, <1>8, <1>9, <1>10, <1>11, <1>12, <1>13,
   <1>14, <1>15, <1>16, <1>17, <1>18, <1>19, <1>20, <1>21, <1>22, <1>23, <1>24, <1>25, <1>26,
   <1>27 DEF DeployerNext, RouteStep, WorkStep, TickStep


LEMMA DeployerStart == DeployerInit => DeployerInv
<1> SUFFICES ASSUME DeployerInit PROVE DeployerInv
  OBVIOUS
<1> USE DeployerAssumption DEF DeployerInit, NoTick
<1>1. StoreTyped
  <2>1. NoRecord \in [status : Statuses, version : Nat]
    BY DEF NoRecord, Statuses
  <2> HIDE DEF NoRecord
  <2> QED BY <2>1 DEF StoreTyped
<1>2. HostTyped
  BY DEF HostTyped
<1>3. RequestTyped
  <2>1. 0 \in 0..MaxFaults
    OBVIOUS
  <2> QED BY <2>1 DEF RequestTyped, RoutePlaces, WorkPlaces
<1>4. TickTyped
  BY NoRows DEF TickTyped, TickPlaces
<1>5. Begun
  BY DEF Begun, BegunRequests, BegunHosts, BegunLost, Holds, Pending
<1>6. Claims
  BY DEF Claims, RecordsOwn, RowsOwn, WorkOwns, NoRecord
<1>7. Apart
  BY DEF Apart, Outstanding, Working
<1>8. TickSpares
  BY DEF TickSpares
<1>9. VersionsBounded
  <2>1. {d \in Deploys : route[d] \in {"await", "post", "answered"}} = {}
    OBVIOUS
  <2>2. {d \in Deploys : route[d] = "answered"} = {}
    OBVIOUS
  <2>3. Puts = 0 + 0
    BY <2>1, <2>2, FS_EmptySet, Zenon DEF Puts
  <2>4. DOMAIN tick.rows = {}
    BY NoRows
  <2>5. \A r \in Resources : record[r].version = 0
    BY DEF NoRecord
  <2> HIDE DEF DeployerInit
  <2> QED BY <2>3, <2>4, <2>5 DEF VersionsBounded
<1>10. Isolated
  BY DEF Isolated
<1>11. LaunchIntact
  BY DEF LaunchIntact
<1> QED BY <1>1, <1>2, <1>3, <1>4, <1>5, <1>6, <1>7, <1>8, <1>9, <1>10, <1>11 DEF DeployerInv

LEMMA DeployerStep ==
  ASSUME DeployerInv, [DeployerNext]_deployerVars
  PROVE  DeployerInv'
<1>1. StoreTyped' /\ HostTyped' /\ RequestTyped' /\ TickTyped'
  BY StoreStays, HostStays, RequestStays, TickStays
<1>2. Begun'
  BY RequestsBegun, HostsBegun, LostBegun, StillHolds DEF Begun
<1>3. Claims'
  BY RecordsStillOwn, RowsStillOwn, WorkStillOwns DEF Claims
<1>4. Apart' /\ TickSpares' /\ VersionsBounded' /\ LaunchIntact'
  BY DeploysStayApart, TickStillSpares, VersionsStayBounded, LaunchStaysIntact
<1>5. (\A c \in up : c[1] \in lost \/ slugOwner[Slug(c[1])] = ResourceOf(c))'
  BY <1>1, <1>2, <1>3, ContainersIsolated DEF Begun, Claims
<1>6. Isolated'
  BY <1>5, NetworksStayOwned DEF Isolated, NetworksOwned
<1> QED BY <1>1, <1>2, <1>3, <1>4, <1>6 DEF DeployerInv

LEMMA DeployerInvariant == DeployerInit /\ [][DeployerNext]_deployerVars => []DeployerInv
<1>1. DeployerInv /\ [DeployerNext]_deployerVars => DeployerInv'
  BY DeployerStep
<1> QED BY DeployerStart, <1>1, PTL

LEMMA DeployerHolds ==
  ASSUME DeployerInv
  PROVE  DeployerTypeOK /\ Isolated /\ LaunchIntact
<1> USE DEF DeployerInv
<1>1. Puts <= 2 * Cardinality(Deploys)
  <2> DEFINE A == {d \in Deploys : route[d] \in {"await", "post", "answered"}}
             B == {d \in Deploys : route[d] = "answered"}
  <2>1. /\ Cardinality(A) <= Cardinality(Deploys) /\ Cardinality(B) <= Cardinality(Deploys)
        /\ Cardinality(A) \in Nat /\ Cardinality(B) \in Nat /\ Cardinality(Deploys) \in Nat
    BY DeployerAssumption, FS_Subset, FS_CardinalityType
  <2>2. Puts = Cardinality(A) + Cardinality(B)
    BY DEF Puts
  <2> HIDE DEF A, B
  <2> QED BY <2>1, <2>2
<1>2. Cardinality(Deploys) \in Nat /\ Puts \in Nat
  <2>1. /\ Cardinality({d \in Deploys : route[d] \in {"await", "post", "answered"}}) \in Nat
        /\ Cardinality({d \in Deploys : route[d] = "answered"}) \in Nat
    BY DeployerAssumption, FS_Subset, FS_CardinalityType
  <2> QED BY <2>1, DeployerAssumption, FS_CardinalityType DEF Puts
<1>3. \A r \in Resources : record[r] \in Records
  <2> SUFFICES ASSUME NEW r \in Resources PROVE record[r] \in Records
    OBVIOUS
  <2>1. record[r] \in [status : Statuses, version : Nat] /\ record[r].version <= Puts
    BY DEF StoreTyped, VersionsBounded
  <2>2. record[r].version \in Versions
    BY <1>1, <1>2, <2>1 DEF Versions
  <2> QED BY <2>1, <2>2 DEF Records
<1>4. record \in [Resources -> Records]
  BY <1>3 DEF StoreTyped
<1>5. DeployerTypeOK
  BY <1>4 DEF DeployerTypeOK, StoreTyped, HostTyped, RequestTyped, RoutePlaces, WorkPlaces, Begun,
              Holds
<1> QED BY <1>5

\* The containers and the network of a slug belong to the resource that holds the
\* slug in the store, unless the write that claims it failed and the deploy went
\* on without it: for any number of deploys and resources, any sharing of slugs
\* and any number of faults (store.put, launchResourcePair, the reconcile loop).
THEOREM SlugsIsolated == DeployerSpec => []Isolated
<1>1. DeployerInv => Isolated
  BY DeployerHolds
<1> QED BY DeployerInvariant, <1>1, PTL DEF DeployerSpec

\* While its handler waits for it, the record of an undisturbed deploy says
\* deploying and no tick has removed what it launched (recordDeployment before
\* deployResource; runTick).
THEOREM LaunchesIntact == DeployerSpec => []LaunchIntact
<1>1. DeployerInv => LaunchIntact
  BY DeployerHolds
<1> QED BY DeployerInvariant, <1>1, PTL DEF DeployerSpec


-----------------------------------------------------------------------------
(***************************************************************************)
(* The build stream.  A reader is attached from its first statement to its *)
(* last, so the stream it reads counts a subscriber, and neither the sweep *)
(* nor the eviction takes a stream that counts one.                        *)
(***************************************************************************)
Events  == {"Generate", "stage"}
OpenPcs == {"reading", "parked"}

StreamRecords == [buffer : Seq(Events), done : BOOLEAN, subscribers : Nat,
                  everEmitted : BOOLEAN, expired : BOOLEAN]
BuildRecords  == [pc : {"idle", "refused", "generating", "deploying", "publishing", "finished"},
                  slot : BOOLEAN]
ReaderRecords == [pc : {"idle", "refused", "reading", "parked", "gone"},
                  attached : BOOLEAN, aborted : BOOLEAN, slot : BOOLEAN,
                  sawGenerate : BOOLEAN]

Open(id) == {r \in Readers : ReaderOf[r] = id /\ reader[r].pc \in OpenPcs}

BuildsCounted ==
  /\ build \in [Builds -> BuildRecords]
  /\ \A b \in Builds : build[b].slot => build[b].pc \in {"generating", "deploying", "publishing"}
  /\ inFlight = Cardinality({b \in Builds : build[b].slot})

\* What is true of the map of streams, whichever it is: ss.
MapWhole(ss) ==
  /\ DOMAIN ss \subseteq Watched /\ IsFiniteSet(DOMAIN ss)
  /\ Cardinality(DOMAIN ss) <= MaxStreams
  /\ \A id \in DOMAIN ss : /\ ss[id] \in StreamRecords
                           /\ ss[id].subscribers = Cardinality(Open(id))
  /\ \A r \in Readers : reader[r].attached => ReaderOf[r] \in DOMAIN ss

ReadersCounted ==
  /\ reader \in [Readers -> ReaderRecords]
  /\ openStreams = Cardinality({r \in Readers : reader[r].slot})
  /\ \A r \in Readers : /\ reader[r].attached <=> reader[r].pc \in OpenPcs
                        /\ reader[r].slot => reader[r].pc \in OpenPcs

ChannelInv == MapWhole(streams) /\ ReadersCounted

StreamInv == BuildsCounted /\ ChannelInv

LEMMA WatchedIs ==
  /\ \A r \in Readers : ReaderOf[r] \in Watched
  /\ \A b \in Builds : BuildOf[b] \in Watched
  BY DEF Watched

LEMMA OpenIs ==
  \A id : /\ IsFiniteSet(Open(id)) /\ Cardinality(Open(id)) \in Nat
          /\ Cardinality(Open(id)) <= Cardinality(Readers)
          /\ Cardinality(Open(id)) = 0 <=> Open(id) = {}
<1> TAKE id
<1>1. Open(id) \subseteq Readers /\ IsFiniteSet(Readers)
  BY BuildStreamAssumption DEF Open
<1> QED BY <1>1, FS_Subset, FS_CardinalityType, FS_EmptySet

\* Dropping streams without a subscriber, and adding one nobody has attached to,
\* leaves the map whole.
LEMMA DropKeeps ==
  ASSUME NEW ss, MapWhole(ss), ReadersCounted, NEW ids,
         \A id \in DOMAIN ss \cap ids : ss[id].subscribers = 0
  PROVE  MapWhole(Without(ss, ids)) /\ DOMAIN Without(ss, ids) = DOMAIN ss \ ids
<1>1. /\ DOMAIN Without(ss, ids) = DOMAIN ss \ ids
      /\ \A id \in DOMAIN ss \ ids : Without(ss, ids)[id] = ss[id]
  BY DEF Without
<1>2. /\ IsFiniteSet(DOMAIN ss \ ids)
      /\ Cardinality(DOMAIN ss \ ids) <= Cardinality(DOMAIN ss)
      /\ Cardinality(DOMAIN ss \ ids) \in Nat /\ Cardinality(DOMAIN ss) \in Nat
  BY FS_Subset, FS_CardinalityType DEF MapWhole
<1>3. Cardinality(DOMAIN ss \ ids) <= MaxStreams
  BY <1>2, BuildStreamAssumption DEF MapWhole
<1>4. ASSUME NEW r \in Readers, reader[r].attached PROVE ReaderOf[r] \in DOMAIN ss \ ids
  <2>1. r \in Open(ReaderOf[r])
    BY <1>4 DEF Open, ReadersCounted
  <2>2. Cardinality(Open(ReaderOf[r])) # 0
    BY <2>1, OpenIs
  <2>3. ReaderOf[r] \in DOMAIN ss /\ ss[ReaderOf[r]].subscribers = Cardinality(Open(ReaderOf[r]))
    BY <1>4 DEF MapWhole
  <2> QED BY <2>2, <2>3
<1> QED BY <1>1, <1>2, <1>3, <1>4 DEF MapWhole

LEMMA AddKeeps ==
  ASSUME NEW ss, MapWhole(ss), ReadersCounted, NEW id \in Watched, id \notin DOMAIN ss,
         Cardinality(DOMAIN ss) < MaxStreams
  PROVE  /\ MapWhole(WithNew(ss, id))
         /\ DOMAIN WithNew(ss, id) = DOMAIN ss \cup {id}
<1> DEFINE tt == WithNew(ss, id)
<1>1. /\ DOMAIN tt = DOMAIN ss \cup {id} /\ tt[id] = NewStream
      /\ \A o \in DOMAIN ss : tt[o] = ss[o]
  BY DEF WithNew
<1>2. IsFiniteSet(DOMAIN ss \cup {id}) /\ Cardinality(DOMAIN ss \cup {id}) <= MaxStreams
  <2>1. /\ Cardinality(DOMAIN ss \cup {id}) = Cardinality(DOMAIN ss) + 1
        /\ IsFiniteSet(DOMAIN ss \cup {id}) /\ Cardinality(DOMAIN ss) \in Nat
    BY FS_AddElement, FS_CardinalityType DEF MapWhole
  <2> QED BY <2>1, BuildStreamAssumption
<1>3. Open(id) = {}
  BY DEF MapWhole, ReadersCounted, Open
<1>4. NewStream \in StreamRecords /\ NewStream.subscribers = Cardinality(Open(id))
  <2>1. <<>> \in Seq(Events)
    OBVIOUS
  <2>2. Cardinality(Open(id)) = 0
    BY <1>3, OpenIs
  <2> QED BY <2>1, <2>2 DEF NewStream, StreamRecords
<1> HIDE DEF tt
<1>5. DOMAIN tt \subseteq Watched /\ \A r \in Readers : reader[r].attached => ReaderOf[r] \in DOMAIN tt
  BY <1>1 DEF MapWhole
<1>6. \A o \in DOMAIN tt : tt[o] \in StreamRecords /\ tt[o].subscribers = Cardinality(Open(o))
  BY <1>1, <1>4 DEF MapWhole
<1> QED BY <1>1, <1>2, <1>5, <1>6, Zenon DEF MapWhole, tt

LEMMA SweptWhole ==
  ASSUME ChannelInv
  PROVE  MapWhole(Swept) /\ DOMAIN Swept \subseteq DOMAIN streams
<1> DEFINE ids == {o \in DOMAIN streams : Evictable(streams[o])}
<1>1. \A id \in DOMAIN streams \cap ids : streams[id].subscribers = 0
  BY DEF Evictable
<1>2. Swept = Without(streams, ids)
  BY DEF Swept
<1> HIDE DEF ids
<1>3. MapWhole(streams) /\ ReadersCounted
  BY DEF ChannelInv
<1>4. MapWhole(Without(streams, ids)) /\ DOMAIN Without(streams, ids) = DOMAIN streams \ ids
  BY <1>1, <1>3, DropKeeps
<1> QED BY <1>2, <1>4

\* A map that streamFor may leave has the stream, and every reader's.
LEMMA StreamForWhole ==
  ASSUME ChannelInv, NEW id \in Watched, NEW ss \in StreamFor(id)
  PROVE  /\ MapWhole(ss) /\ id \in DOMAIN ss
         /\ \A r \in Readers : StillAttached(r, ss) <=> reader[r].attached
<1>1. MapWhole(Swept) /\ ReadersCounted
  BY SweptWhole DEF ChannelInv
<1>2. CASE id \in DOMAIN Swept
  BY <1>1, <1>2 DEF StreamFor, StillAttached, MapWhole
<1>3. CASE id \notin DOMAIN Swept /\ Cardinality(DOMAIN Swept) < MaxStreams
  <2>1. ss = WithNew(Swept, id)
    BY <1>3 DEF StreamFor
  <2>2. MapWhole(ss) /\ DOMAIN ss = DOMAIN Swept \cup {id}
    BY <1>1, <1>3, <2>1, AddKeeps
  <2> QED BY <1>1, <2>2 DEF StillAttached, MapWhole
<1>4. CASE id \notin DOMAIN Swept /\ ~(Cardinality(DOMAIN Swept) < MaxStreams)
  <2>1. PICK victim \in DOMAIN Swept : /\ Swept[victim].subscribers = 0
                                       /\ ss = WithNew(Without(Swept, {victim}), id)
    BY <1>4 DEF StreamFor
  <2> DEFINE rest == Without(Swept, {victim})
  <2>2. MapWhole(rest) /\ DOMAIN rest = DOMAIN Swept \ {victim}
    BY <1>1, <2>1, DropKeeps
  <2>3. Cardinality(DOMAIN rest) < MaxStreams
    <3>1. /\ Cardinality(DOMAIN Swept \ {victim}) = Cardinality(DOMAIN Swept) - 1
          /\ Cardinality(DOMAIN Swept) \in Nat /\ Cardinality(DOMAIN Swept) <= MaxStreams
      BY <1>1, <2>1, FS_RemoveElement, FS_CardinalityType DEF MapWhole
    <3> QED BY <2>2, <3>1, BuildStreamAssumption
  <2>4. id \notin DOMAIN rest
    BY <1>4, <2>2
  <2> HIDE DEF rest
  <2>5. ss = WithNew(rest, id)
    BY <2>1 DEF rest
  <2>6. MapWhole(ss) /\ id \in DOMAIN ss
    BY <1>1, <2>2, <2>3, <2>4, <2>5, AddKeeps
  <2> QED BY <1>1, <2>6 DEF StillAttached, MapWhole
<1> QED BY <1>2, <1>3, <1>4

\* The readers once the map changed: nobody is detached, and who is open stays so.
LEMMA ReadersAfterIs ==
  ASSUME ReadersCounted, NEW id, NEW ss,
         \A r \in Readers : StillAttached(r, ss) <=> reader[r].attached
  PROVE  /\ ReadersAfter(id, ss) \in [Readers -> ReaderRecords]
         /\ \A r \in Readers :
              /\ ReadersAfter(id, ss)[r].attached = reader[r].attached
              /\ ReadersAfter(id, ss)[r].slot = reader[r].slot
              /\ ReadersAfter(id, ss)[r].pc \in OpenPcs <=> reader[r].pc \in OpenPcs
<1> SUFFICES ASSUME NEW r \in Readers
             PROVE  /\ ReadersAfter(id, ss)[r] \in ReaderRecords
                    /\ ReadersAfter(id, ss)[r].attached = reader[r].attached
                    /\ ReadersAfter(id, ss)[r].slot = reader[r].slot
                    /\ ReadersAfter(id, ss)[r].pc \in OpenPcs <=> reader[r].pc \in OpenPcs
  BY DEF ReadersAfter
<1> DEFINE att == StillAttached(r, ss)
           pc  == IF att /\ ReaderOf[r] = id /\ reader[r].pc = "parked" THEN "reading"
                  ELSE reader[r].pc
<1>1. ReadersAfter(id, ss)[r] = [reader[r] EXCEPT !.attached = att, !.pc = pc]
  BY DEF ReadersAfter
<1>2. reader[r] \in ReaderRecords /\ (att <=> reader[r].attached)
  BY DEF ReadersCounted
<1>3. att \in BOOLEAN
  BY DEF StillAttached, ReadersCounted, ReaderRecords
<1>4. /\ pc \in {"idle", "refused", "reading", "parked", "gone"}
      /\ pc \in OpenPcs <=> reader[r].pc \in OpenPcs
  BY <1>2 DEF ReaderRecords, OpenPcs
<1>5. att = reader[r].attached
  BY <1>2, <1>3 DEF ReaderRecords
<1> HIDE DEF att, pc
<1>6. /\ ReadersAfter(id, ss)[r] \in ReaderRecords
      /\ ReadersAfter(id, ss)[r].attached = att
      /\ ReadersAfter(id, ss)[r].slot = reader[r].slot
      /\ ReadersAfter(id, ss)[r].pc = pc
  BY <1>1, <1>2, <1>3, <1>4 DEF ReaderRecords
<1> QED BY <1>4, <1>5, <1>6

\* Readers that keep their slots and their places stay counted, whatever they read.
ReadersKeep ==
  /\ reader' \in [Readers -> ReaderRecords] /\ openStreams' = openStreams
  /\ \A r \in Readers : /\ reader'[r].attached <=> reader[r].attached
                        /\ reader'[r].slot <=> reader[r].slot
                        /\ reader'[r].pc \in OpenPcs <=> reader[r].pc \in OpenPcs

LEMMA KeptReaders ==
  ASSUME ReadersCounted, ReadersKeep
  PROVE  ReadersCounted' /\ \A id : Open(id)' = Open(id)
<1>1. {r \in Readers : reader'[r].slot} = {r \in Readers : reader[r].slot}
  BY DEF ReadersKeep
<1>2. \A id : Open(id)' = Open(id)
  BY DEF ReadersKeep, Open
<1> QED BY <1>1, <1>2 DEF ReadersKeep, ReadersCounted

LEMMA KeptMap ==
  ASSUME NEW ss, MapWhole(ss), ReadersCounted, ReadersKeep,
         DOMAIN streams' = DOMAIN ss,
         \A id \in DOMAIN ss : streams'[id] \in StreamRecords /\ streams'[id].subscribers = ss[id].subscribers
  PROVE  ChannelInv'
<1>1. ReadersCounted' /\ \A id : Open(id)' = Open(id)
  BY KeptReaders
<1>2. \A r \in Readers : reader'[r].attached => ReaderOf[r] \in DOMAIN ss
  BY DEF MapWhole, ReadersKeep
<1>3. \A id \in DOMAIN ss : streams'[id] \in StreamRecords
                            /\ streams'[id].subscribers = Cardinality(Open(id)')
  BY <1>1 DEF MapWhole
<1>4. Watched' = Watched /\ MaxStreams' = MaxStreams /\ Readers' = Readers /\ ReaderOf' = ReaderOf
  BY DEF Watched
<1>5. MapWhole(streams)'
  BY <1>2, <1>3 DEF MapWhole
<1> QED BY <1>1, <1>5 DEF ChannelInv

LEMMA SameMap ==
  ASSUME ChannelInv, ReadersKeep, streams' = streams
  PROVE  ChannelInv'
  BY KeptMap DEF ChannelInv, MapWhole

LEMMA SweptMap ==
  ASSUME ChannelInv, ReadersKeep, streams' = Swept
  PROVE  ChannelInv'
<1>1. MapWhole(Swept) /\ ReadersCounted
  BY SweptWhole DEF ChannelInv
<1> QED BY <1>1, KeptMap DEF MapWhole

\* An emit, with or without the completion.
LEMMA EmitKeeps ==
  ASSUME ChannelInv, NEW id \in Watched, NEW events \in Seq(Events), openStreams' = openStreams,
         Emit(id, events) \/ EmitAndComplete(id, events)
  PROVE  ChannelInv'
<1>0. ReadersCounted
  BY DEF ChannelInv
<1>1. CASE Dropped(id)
  <2>1. ReadersKeep
    BY <1>0, <1>1 DEF Dropped, ReadersKeep, ReadersCounted
  <2> QED BY <1>1, <2>1, SweptMap DEF Dropped
<1>2. ASSUME NEW ss \in StreamFor(id), reader' = ReadersAfter(id, ss),
             \/ streams' = [ss EXCEPT ![id].buffer = @ \o events, ![id].everEmitted = TRUE]
             \/ streams' = [ss EXCEPT ![id].buffer = @ \o events, ![id].everEmitted = TRUE,
                                      ![id].done = TRUE]
      PROVE  ChannelInv'
  <2>1. /\ MapWhole(ss) /\ id \in DOMAIN ss
        /\ \A r \in Readers : StillAttached(r, ss) <=> reader[r].attached
    BY StreamForWhole
  <2>2. ReadersKeep
    <3>1. /\ reader' \in [Readers -> ReaderRecords]
          /\ \A r \in Readers : /\ reader'[r].attached = reader[r].attached
                                /\ reader'[r].slot = reader[r].slot
                                /\ reader'[r].pc \in OpenPcs <=> reader[r].pc \in OpenPcs
      BY <1>0, <1>2, <2>1, ReadersAfterIs
    <3> QED BY <3>1 DEF ReadersKeep
  <2>3. ss[id] \in StreamRecords
    BY <2>1 DEF MapWhole
  <2>4. ss[id].buffer \o events \in Seq(Events)
    BY <2>3 DEF StreamRecords
  <2> DEFINE longer == ss[id].buffer \o events
  <2> HIDE DEF longer
  <2>5. /\ DOMAIN streams' = DOMAIN ss
        /\ \A o \in DOMAIN ss \ {id} : streams'[o] = ss[o]
        /\ \/ streams'[id] = [ss[id] EXCEPT !.buffer = longer, !.everEmitted = TRUE]
           \/ streams'[id] = [ss[id] EXCEPT !.buffer = longer, !.everEmitted = TRUE, !.done = TRUE]
    BY <1>2, <2>1 DEF longer
  <2>6. streams'[id] \in StreamRecords /\ streams'[id].subscribers = ss[id].subscribers
    <3>1. longer \in Seq(Events)
      BY <2>4 DEF longer
    <3> QED BY <2>3, <2>5, <3>1 DEF StreamRecords
  <2>7. \A o \in DOMAIN ss : streams'[o] \in StreamRecords
                             /\ streams'[o].subscribers = ss[o].subscribers
    BY <2>1, <2>5, <2>6 DEF MapWhole
  <2> QED BY <1>0, <2>1, <2>2, <2>5, <2>7, KeptMap
<1> QED BY <1>1, <1>2 DEF Emit, EmitAndComplete

\* Counting what one takes or gives back.
LEMMA CountOne ==
  ASSUME NEW S, IsFiniteSet(S), NEW x
  PROVE  /\ Cardinality(S) \in Nat
         /\ x \notin S => Cardinality(S \cup {x}) = Cardinality(S) + 1
         /\ x \in S => Cardinality(S \ {x}) = Cardinality(S) - 1
  BY FS_CardinalityType, FS_AddElement, FS_RemoveElement

\* A build that changes its place, and perhaps gives back its slot.
LEMMA SlotKeeps ==
  ASSUME BuildsCounted, NEW b \in Builds, NEW rec \in BuildRecords,
         build' = [build EXCEPT ![b] = rec],
         rec.slot => rec.pc \in {"generating", "deploying", "publishing"},
         \/ rec.slot = build[b].slot /\ inFlight' = inFlight
         \/ rec.slot /\ ~build[b].slot /\ inFlight' = inFlight + 1
         \/ ~rec.slot /\ build[b].slot /\ inFlight' = inFlight - 1
  PROVE  BuildsCounted'
<1> DEFINE S == {c \in Builds : build[c].slot}
           T == {c \in Builds : build'[c].slot}
<1>1. build' \in [Builds -> BuildRecords] /\ build'[b] = rec
      /\ \A c \in Builds \ {b} : build'[c] = build[c]
  BY DEF BuildsCounted
<1>2. IsFiniteSet(S) /\ inFlight = Cardinality(S)
  BY BuildStreamAssumption, FS_Subset DEF BuildsCounted
<1>3. inFlight' = Cardinality(T)
  <2>1. CASE rec.slot = build[b].slot /\ inFlight' = inFlight
    <3>1. T = S
      BY <1>1, <2>1
    <3> QED BY <1>2, <2>1, <3>1
  <2>2. CASE rec.slot /\ ~build[b].slot /\ inFlight' = inFlight + 1
    <3>1. T = S \cup {b} /\ b \notin S
      BY <1>1, <2>2
    <3> HIDE DEF S, T
    <3> QED BY <1>2, <2>2, <3>1, CountOne
  <2>3. CASE ~rec.slot /\ build[b].slot /\ inFlight' = inFlight - 1
    <3>1. T = S \ {b} /\ b \in S
      BY <1>1, <2>3
    <3> HIDE DEF S, T
    <3> QED BY <1>2, <2>3, <3>1, CountOne
  <2> QED BY <2>1, <2>2, <2>3
<1>4. \A c \in Builds : build'[c].slot => build'[c].pc \in {"generating", "deploying", "publishing"}
  BY <1>1 DEF BuildsCounted
<1> QED BY <1>1, <1>3, <1>4 DEF BuildsCounted

LEMMA BuildsStayCounted ==
  ASSUME BuildsCounted, [BuildStreamNext]_streamVars
  PROVE  BuildsCounted'
<1>a. ASSUME NEW b \in Builds PROVE build[b] \in BuildRecords
  BY DEF BuildsCounted
<1>b. inFlight \in Int
  BY BuildStreamAssumption, FS_Subset, FS_CardinalityType DEF BuildsCounted
<1>1. ASSUME NEW b \in Builds, TooManyBuilds(b) \/ Generated(b) \/ Deployed(b) PROVE BuildsCounted'
  <2>1. PICK pc \in {"refused", "deploying", "publishing"} :
          /\ build' = [build EXCEPT ![b].pc = pc] /\ inFlight' = inFlight
          /\ pc = "refused" => build[b].pc = "idle"
    BY <1>1 DEF TooManyBuilds, Generated, Deployed, BuildTo
  <2> DEFINE rec == [build[b] EXCEPT !.pc = pc]
  <2>2. /\ rec \in BuildRecords /\ rec.slot = build[b].slot /\ rec.pc = pc
        /\ build' = [build EXCEPT ![b] = rec]
    BY <1>a, <2>1 DEF BuildRecords, BuildsCounted
  <2>3. rec.slot => rec.pc \in {"generating", "deploying", "publishing"}
    BY <2>1, <2>2 DEF BuildsCounted
  <2> HIDE DEF rec
  <2> QED BY <2>1, <2>2, <2>3, SlotKeeps
<1>2. ASSUME NEW b \in Builds, Create(b) PROVE BuildsCounted'
  <2> DEFINE rec == [pc |-> "generating", slot |-> TRUE]
  <2>1. /\ rec \in BuildRecords /\ rec.slot /\ rec.pc = "generating"
        /\ build' = [build EXCEPT ![b] = rec] /\ inFlight' = inFlight + 1 /\ ~build[b].slot
    BY <1>2 DEF Create, BuildRecords, BuildsCounted
  <2> HIDE DEF rec
  <2> QED BY <2>1, SlotKeeps
<1>3. ASSUME NEW b \in Builds, GenerateFails(b) \/ DeployFails(b) \/ Published(b)
      PROVE  BuildsCounted'
  <2> DEFINE rec == [pc |-> "finished", slot |-> FALSE]
  <2>1. /\ rec \in BuildRecords /\ ~rec.slot /\ rec.slot \in BOOLEAN
        /\ build' = [build EXCEPT ![b] = rec]
        /\ inFlight' = inFlight - (IF build[b].slot THEN 1 ELSE 0)
    BY <1>3 DEF GenerateFails, DeployFails, Published, Finish, BuildRecords
  <2>2. build[b].slot \in BOOLEAN
    BY <1>a DEF BuildRecords
  <2> HIDE DEF rec
  <2>3. \/ rec.slot = build[b].slot /\ inFlight' = inFlight
        \/ ~rec.slot /\ build[b].slot /\ inFlight' = inFlight - 1
    BY <1>b, <2>1, <2>2
  <2> QED BY <2>1, <2>3, SlotKeeps
<1>4. ASSUME NEW b \in Builds, SlotDeadline(b) PROVE BuildsCounted'
  <2> DEFINE rec == [build[b] EXCEPT !.slot = FALSE]
  <2>1. /\ rec \in BuildRecords /\ ~rec.slot /\ build' = [build EXCEPT ![b] = rec]
        /\ build[b].slot /\ inFlight' = inFlight - 1
    BY <1>4, <1>a DEF SlotDeadline, BuildRecords
  <2> HIDE DEF rec
  <2> QED BY <2>1, SlotKeeps
<1>5. ASSUME UNCHANGED <<build, inFlight>> PROVE BuildsCounted'
  BY <1>5 DEF BuildsCounted
<1>6. ASSUME NEW r \in Readers, Connect(r) \/ ConnectRefused(r) \/ Abort(r) \/ Cancel(r) \/ ReaderStep(r)
      PROVE  BuildsCounted'
  BY <1>5, <1>6 DEF Connect, ConnectRefused, Abort, Cancel, ReaderStep, Read, Park, Leave
<1>7. ASSUME NEW id \in Watched, TtlElapses(id) PROVE BuildsCounted'
  BY <1>5, <1>7 DEF TtlElapses
<1>8. CASE UNCHANGED streamVars
  BY <1>5, <1>8 DEF streamVars
<1> QED BY <1>1, <1>2, <1>3, <1>4, <1>6, <1>7, <1>8 DEF BuildStreamNext, BuildStep

\* A reader connects: one more subscriber of its stream.
LEMMA ConnectKeeps ==
  ASSUME ChannelInv, NEW r \in Readers, Connect(r)
  PROVE  ChannelInv'
<1> DEFINE id == ReaderOf[r]
<1>0. ReadersCounted /\ id \in Watched
  BY WatchedIs DEF ChannelInv
<1>1. PICK ss \in StreamFor(id) :
        /\ streams' = [ss EXCEPT ![id].subscribers = @ + 1]
        /\ reader' = [ReadersAfter("none", ss) EXCEPT
                        ![r].pc = "reading", ![r].slot = TRUE, ![r].attached = TRUE]
  BY DEF Connect
<1>2. /\ MapWhole(ss) /\ id \in DOMAIN ss
      /\ \A q \in Readers : StillAttached(q, ss) <=> reader[q].attached
  BY <1>0, StreamForWhole DEF ChannelInv
<1> DEFINE R == ReadersAfter("none", ss)
<1>3. /\ R \in [Readers -> ReaderRecords]
      /\ \A q \in Readers : /\ R[q].attached = reader[q].attached
                            /\ R[q].slot = reader[q].slot
                            /\ R[q].pc \in OpenPcs <=> reader[q].pc \in OpenPcs
  BY <1>0, <1>2, ReadersAfterIs
<1>4. reader' = [R EXCEPT ![r].pc = "reading", ![r].slot = TRUE, ![r].attached = TRUE]
  BY <1>1
<1>5. reader[r].pc = "idle" /\ openStreams' = openStreams + 1
  BY DEF Connect
<1> HIDE DEF R
<1>6. /\ reader' \in [Readers -> ReaderRecords]
      /\ reader'[r].pc = "reading" /\ reader'[r].slot /\ reader'[r].attached
      /\ \A q \in Readers \ {r} : reader'[q] = R[q]
  <2> DEFINE rec == [R[r] EXCEPT !.pc = "reading", !.slot = TRUE, !.attached = TRUE]
  <2>1. R[r] \in ReaderRecords
    BY <1>3
  <2>2. rec \in ReaderRecords /\ rec.pc = "reading" /\ rec.slot /\ rec.attached
    BY <2>1 DEF ReaderRecords
  <2>3. reader' = [R EXCEPT ![r] = rec]
    BY <1>3, <1>4
  <2> HIDE DEF rec
  <2> QED BY <1>3, <2>2, <2>3
<1>7. ~reader[r].slot /\ r \notin Open(id)
  BY <1>0, <1>5 DEF ReadersCounted, OpenPcs, Open
<1>8. ReadersCounted'
  <2> DEFINE S == {q \in Readers : reader[q].slot}
             T == {q \in Readers : reader'[q].slot}
  <2>1. T = S \cup {r} /\ r \notin S
    BY <1>3, <1>6, <1>7
  <2>2. IsFiniteSet(S) /\ openStreams = Cardinality(S)
    BY <1>0, BuildStreamAssumption, FS_Subset DEF ReadersCounted
  <2>3. openStreams' = Cardinality(T)
    <3> HIDE DEF S, T
    <3> QED BY <1>5, <2>1, <2>2, CountOne
  <2>4. \A q \in Readers : /\ reader'[q].attached <=> reader'[q].pc \in OpenPcs
                           /\ reader'[q].slot => reader'[q].pc \in OpenPcs
    BY <1>0, <1>3, <1>6 DEF ReadersCounted, OpenPcs
  <2> QED BY <1>6, <2>3, <2>4 DEF ReadersCounted
<1>9. /\ Open(id)' = Open(id) \cup {r}
      /\ \A o : o # id => Open(o)' = Open(o)
  BY <1>3, <1>6 DEF Open, OpenPcs
<1>10. Cardinality(Open(id)') = Cardinality(Open(id)) + 1
  BY <1>7, <1>9, OpenIs, CountOne
<1>11. /\ DOMAIN streams' = DOMAIN ss /\ streams'[id] = [ss[id] EXCEPT !.subscribers = @ + 1]
       /\ \A o \in DOMAIN ss \ {id} : streams'[o] = ss[o]
  BY <1>1, <1>2
<1>12. ss[id] \in StreamRecords /\ ss[id].subscribers = Cardinality(Open(id))
  BY <1>2 DEF MapWhole
<1>13. streams'[id] \in StreamRecords /\ streams'[id].subscribers = Cardinality(Open(id)')
  BY <1>10, <1>11, <1>12 DEF StreamRecords
<1>14. \A o \in DOMAIN ss : streams'[o] \in StreamRecords /\ streams'[o].subscribers = Cardinality(Open(o)')
  BY <1>2, <1>9, <1>11, <1>13 DEF MapWhole
<1>15. \A q \in Readers : reader'[q].attached => ReaderOf[q] \in DOMAIN ss
  BY <1>2, <1>3, <1>6 DEF MapWhole
<1>16. MapWhole(streams)'
  BY <1>2, <1>11, <1>14, <1>15 DEF MapWhole, Watched
<1> QED BY <1>8, <1>16 DEF ChannelInv

\* A reader leaves: one subscriber less, and a stream nothing was emitted to goes
\* with its last one.
LEMMA LeaveKeeps ==
  ASSUME ChannelInv, NEW r \in Readers, Leave(r)
  PROVE  ChannelInv'
<1> DEFINE id == ReaderOf[r]
           left == [streams[id] EXCEPT !.subscribers = @ - 1]
<1>0. ReadersCounted /\ MapWhole(streams)
  BY DEF ChannelInv
<1>1. reader[r] \in ReaderRecords /\ reader[r].pc = "reading" /\ reader[r].attached
  BY <1>0 DEF Leave, ReadersCounted, OpenPcs
<1>2. /\ reader' \in [Readers -> ReaderRecords]
      /\ reader'[r].pc = "gone" /\ ~reader'[r].slot /\ ~reader'[r].attached
      /\ \A q \in Readers \ {r} : reader'[q] = reader[q]
  <2> DEFINE rec == [reader[r] EXCEPT !.pc = "gone", !.slot = FALSE, !.attached = FALSE]
  <2>1. rec \in ReaderRecords /\ rec.pc = "gone" /\ ~rec.slot /\ ~rec.attached
    BY <1>1 DEF ReaderRecords
  <2>2. reader' = [reader EXCEPT ![r] = rec]
    BY <1>0 DEF Leave, ReadersCounted
  <2> HIDE DEF rec
  <2> QED BY <1>0, <2>1, <2>2 DEF ReadersCounted
<1>3. /\ id \in DOMAIN streams /\ r \in Open(id)
      /\ streams[id] \in StreamRecords /\ streams[id].subscribers = Cardinality(Open(id))
  BY <1>0, <1>1 DEF MapWhole, Open, OpenPcs
<1>4. ReadersCounted'
  <2> DEFINE S == {q \in Readers : reader[q].slot}
             T == {q \in Readers : reader'[q].slot}
  <2>1. T = S \ {r} /\ (r \in S <=> reader[r].slot)
    BY <1>2
  <2>2. IsFiniteSet(S) /\ openStreams = Cardinality(S) /\ reader[r].slot \in BOOLEAN
    BY <1>0, <1>1, BuildStreamAssumption, FS_Subset DEF ReadersCounted, ReaderRecords
  <2>3. openStreams' = openStreams - (IF reader[r].slot THEN 1 ELSE 0)
    BY DEF Leave
  <2>4. openStreams' = Cardinality(T)
    <3> HIDE DEF S, T
    <3>1. CASE reader[r].slot
      BY <2>1, <2>2, <2>3, <3>1, CountOne
    <3>2. CASE ~reader[r].slot
      <4>1. T = S
        BY <2>1, <3>2
      <4>2. Cardinality(S) \in Nat
        BY <2>2, CountOne
      <4> QED BY <2>2, <2>3, <3>2, <4>1, <4>2
    <3> QED BY <3>1, <3>2
  <2>5. \A q \in Readers : /\ reader'[q].attached <=> reader'[q].pc \in OpenPcs
                           /\ reader'[q].slot => reader'[q].pc \in OpenPcs
    BY <1>0, <1>2 DEF ReadersCounted, OpenPcs
  <2> QED BY <1>2, <2>4, <2>5 DEF ReadersCounted
<1>5. /\ Open(id)' = Open(id) \ {r}
      /\ \A o : o # id => Open(o)' = Open(o)
  BY <1>2 DEF Open, OpenPcs
<1>6. /\ Cardinality(Open(id)') = Cardinality(Open(id)) - 1
      /\ Cardinality(Open(id)') \in Nat /\ Cardinality(Open(id)) \in Nat
  <2>1. IsFiniteSet(Open(id)) /\ Open(id)' \subseteq Open(id)
    BY <1>5, OpenIs
  <2>2. IsFiniteSet(Open(id)')
    BY <2>1, FS_Subset
  <2> QED BY <1>3, <1>5, <2>1, <2>2, CountOne
<1>7. left \in StreamRecords /\ left.subscribers = Cardinality(Open(id)')
  BY <1>3, <1>6 DEF StreamRecords
<1>8. streams' = IF left.subscribers = 0 /\ ~left.everEmitted /\ ~left.done
                 THEN Without(streams, {id}) ELSE [streams EXCEPT ![id] = left]
  BY <1>1 DEF Leave, Detach
<1> HIDE DEF left
<1>9. CASE left.subscribers = 0 /\ streams' = Without(streams, {id})
  <2>1. Open(id)' = {}
    <3>1. IsFiniteSet(Open(id)')
      BY <1>5, OpenIs, FS_Subset
    <3> QED BY <1>7, <1>9, <3>1, FS_EmptySet
  <2>2. /\ DOMAIN streams' = DOMAIN streams \ {id}
        /\ \A o \in DOMAIN streams \ {id} : streams'[o] = streams[o]
    BY <1>9 DEF Without
  <2>3. /\ IsFiniteSet(DOMAIN streams') /\ Cardinality(DOMAIN streams') <= MaxStreams
    <3>1. /\ IsFiniteSet(DOMAIN streams \ {id})
          /\ Cardinality(DOMAIN streams \ {id}) = Cardinality(DOMAIN streams) - 1
          /\ Cardinality(DOMAIN streams) \in Nat /\ Cardinality(DOMAIN streams) <= MaxStreams
      BY <1>0, <1>3, FS_RemoveElement, FS_CardinalityType DEF MapWhole
    <3> QED BY <2>2, <3>1, BuildStreamAssumption
  <2>4. \A o \in DOMAIN streams' : streams'[o] \in StreamRecords
                                   /\ streams'[o].subscribers = Cardinality(Open(o)')
    BY <1>0, <1>5, <2>2 DEF MapWhole
  <2>5. \A q \in Readers : reader'[q].attached => ReaderOf[q] \in DOMAIN streams'
    <3> SUFFICES ASSUME NEW q \in Readers, reader'[q].attached PROVE ReaderOf[q] \in DOMAIN streams'
      OBVIOUS
    <3>1. q # r /\ reader[q].attached /\ reader'[q].pc \in OpenPcs
      BY <1>2, <1>4 DEF ReadersCounted
    <3>2. ReaderOf[q] # id
      BY <2>1, <3>1 DEF Open
    <3> QED BY <1>0, <2>2, <3>1, <3>2 DEF MapWhole
  <2>6. MapWhole(streams)'
    BY <1>0, <2>2, <2>3, <2>4, <2>5 DEF MapWhole, Watched
  <2> QED BY <1>4, <2>6 DEF ChannelInv
<1>10. CASE streams' = [streams EXCEPT ![id] = left]
  <2>1. /\ DOMAIN streams' = DOMAIN streams /\ streams'[id] = left
        /\ \A o \in DOMAIN streams \ {id} : streams'[o] = streams[o]
    BY <1>3, <1>10
  <2>2. \A o \in DOMAIN streams' : streams'[o] \in StreamRecords
                                   /\ streams'[o].subscribers = Cardinality(Open(o)')
    BY <1>0, <1>5, <1>7, <2>1 DEF MapWhole
  <2>3. \A q \in Readers : reader'[q].attached => ReaderOf[q] \in DOMAIN streams'
    BY <1>0, <1>2, <2>1 DEF MapWhole
  <2>4. MapWhole(streams)'
    BY <1>0, <2>1, <2>2, <2>3 DEF MapWhole, Watched
  <2> QED BY <1>4, <2>4 DEF ChannelInv
<1> QED BY <1>8, <1>9, <1>10

LEMMA ChannelStays ==
  ASSUME ChannelInv, [BuildStreamNext]_streamVars
  PROVE  ChannelInv'
<1>a. /\ ReadersCounted /\ MapWhole(streams)
      /\ \A r \in Readers : reader[r] \in ReaderRecords
  BY DEF ChannelInv, ReadersCounted
<1>b. ASSUME NEW r \in Readers, NEW rec \in ReaderRecords, reader' = [reader EXCEPT ![r] = rec],
             rec.attached = reader[r].attached, rec.slot = reader[r].slot,
             rec.pc \in OpenPcs <=> reader[r].pc \in OpenPcs, openStreams' = openStreams
      PROVE  ReadersKeep
  BY <1>a, <1>b DEF ReadersKeep, ReadersCounted
<1>c. <<"Generate">> \in Seq(Events) /\ <<"stage">> \in Seq(Events)
  BY DEF Events
<1>1. ASSUME NEW b \in Builds, TooManyBuilds(b) \/ SlotDeadline(b) PROVE ChannelInv'
  <2>1. streams' = streams /\ reader' = reader /\ openStreams' = openStreams
    BY <1>1 DEF TooManyBuilds, SlotDeadline
  <2>2. ReadersKeep
    BY <1>a, <2>1 DEF ReadersKeep, ReadersCounted
  <2> QED BY <2>1, <2>2, SameMap
<1>2. ASSUME NEW b \in Builds,
             Create(b) \/ GenerateFails(b) \/ Generated(b) \/ DeployFails(b) \/ Deployed(b) \/ Published(b)
      PROVE  ChannelInv'
  <2>1. BuildOf[b] \in Watched /\ openStreams' = openStreams
    BY <1>2, WatchedIs DEF Create, GenerateFails, Generated, DeployFails, Deployed, Published
  <2>2. \/ Emit(BuildOf[b], <<"Generate">>) \/ Emit(BuildOf[b], <<"stage">>)
        \/ EmitAndComplete(BuildOf[b], <<"stage">>)
    BY <1>2 DEF Create, GenerateFails, Generated, DeployFails, Deployed, Published, Finish
  <2> QED BY <1>c, <2>1, <2>2, EmitKeeps
<1>3. ASSUME NEW r \in Readers, Connect(r) \/ Leave(r) PROVE ChannelInv'
  BY <1>3, ConnectKeeps, LeaveKeeps
<1>4. ASSUME NEW r \in Readers, ConnectRefused(r) PROVE ChannelInv'
  <2> DEFINE rec == [reader[r] EXCEPT !.pc = "refused"]
  <2>1. /\ rec \in ReaderRecords /\ rec.attached = reader[r].attached /\ rec.slot = reader[r].slot
        /\ rec.pc \in OpenPcs <=> reader[r].pc \in OpenPcs
        /\ reader' = [reader EXCEPT ![r] = rec] /\ openStreams' = openStreams
    BY <1>4, <1>a DEF ConnectRefused, ReaderRecords, OpenPcs
  <2> HIDE DEF rec
  <2>2. ReadersKeep
    BY <1>b, <2>1
  <2>3. streams' = streams \/ streams' = Swept
    BY <1>4 DEF ConnectRefused
  <2> QED BY <2>2, <2>3, SameMap, SweptMap
<1>5. ASSUME NEW r \in Readers, Abort(r) \/ Park(r) PROVE ChannelInv'
  <2>1. PICK pc \in OpenPcs, ab \in BOOLEAN : reader' = [reader EXCEPT ![r].aborted = ab, ![r].pc = pc]
    <3>1. CASE Abort(r)
      <4>1. reader' = [reader EXCEPT ![r].aborted = TRUE, ![r].pc = "reading"]
        BY <3>1 DEF Abort
      <4> QED BY <4>1 DEF OpenPcs
    <3>2. CASE Park(r)
      <4>1. reader' = [reader EXCEPT ![r].pc = "parked"] /\ reader[r].aborted = FALSE
        BY <1>a, <3>2 DEF Park, ReaderRecords
      <4>2. reader' = [reader EXCEPT ![r].aborted = FALSE, ![r].pc = "parked"]
        BY <1>a, <4>1 DEF ReadersCounted, ReaderRecords
      <4> QED BY <4>2 DEF OpenPcs
    <3> QED BY <1>5, <3>1, <3>2
  <2> DEFINE rec == [reader[r] EXCEPT !.aborted = ab, !.pc = pc]
  <2>2. /\ rec \in ReaderRecords /\ rec.attached = reader[r].attached /\ rec.slot = reader[r].slot
        /\ rec.pc = pc /\ reader' = [reader EXCEPT ![r] = rec]
    BY <1>a, <2>1 DEF ReaderRecords, OpenPcs
  <2>3. reader[r].pc \in OpenPcs /\ openStreams' = openStreams /\ streams' = streams
    BY <1>5 DEF Abort, Park, OpenPcs
  <2> HIDE DEF rec
  <2>4. ReadersKeep
    BY <1>b, <2>1, <2>2, <2>3
  <2> QED BY <2>3, <2>4, SameMap
<1>6. ASSUME NEW r \in Readers, Cancel(r) PROVE ChannelInv'
  <2> DEFINE rec == [reader[r] EXCEPT !.aborted = TRUE, !.slot = FALSE, !.pc = "reading"]
             S == {q \in Readers : reader[q].slot}
             T == {q \in Readers : reader'[q].slot}
  <2>1. /\ rec \in ReaderRecords /\ rec.attached = reader[r].attached /\ ~rec.slot
        /\ rec.pc \in OpenPcs /\ reader' = [reader EXCEPT ![r] = rec]
    BY <1>6, <1>a DEF Cancel, ReaderRecords, OpenPcs
  <2>2. /\ reader[r].pc \in OpenPcs /\ reader[r].slot /\ openStreams' = openStreams - 1
        /\ streams' = streams
    BY <1>6 DEF Cancel, OpenPcs
  <2> HIDE DEF rec
  <2>3. /\ reader' \in [Readers -> ReaderRecords] /\ reader'[r] = rec
        /\ \A q \in Readers \ {r} : reader'[q] = reader[q]
    BY <1>a, <2>1 DEF ReadersCounted
  <2>4. T = S \ {r} /\ r \in S
    BY <2>1, <2>2, <2>3
  <2>5. IsFiniteSet(S) /\ openStreams = Cardinality(S)
    BY <1>a, BuildStreamAssumption, FS_Subset DEF ReadersCounted
  <2>6. openStreams' = Cardinality(T)
    <3> HIDE DEF S, T
    <3> QED BY <2>2, <2>4, <2>5, CountOne
  <2>7. \A q \in Readers : /\ reader'[q].attached <=> reader[q].attached
                           /\ reader'[q].slot => reader[q].slot
                           /\ reader'[q].pc \in OpenPcs <=> reader[q].pc \in OpenPcs
    BY <2>1, <2>2, <2>3
  <2>8. ReadersCounted'
    BY <1>a, <2>3, <2>6, <2>7 DEF ReadersCounted
  <2>9. \A id : Open(id)' = Open(id)
    BY <2>7 DEF Open
  <2>10. MapWhole(streams)'
    BY <1>a, <2>2, <2>7, <2>9 DEF MapWhole, Watched
  <2> QED BY <2>8, <2>10 DEF ChannelInv
<1>7. ASSUME NEW r \in Readers, Read(r) PROVE ChannelInv'
  <2> DEFINE id == ReaderOf[r]
             rest == Tail(streams[id].buffer)
             saw == reader[r].sawGenerate \/ Head(Buffered(r)) = "Generate"
             rec == [reader[r] EXCEPT !.sawGenerate = saw]
  <2>1. reader[r].attached /\ streams[id].buffer # <<>> /\ reader[r].pc = "reading"
    BY <1>7 DEF Read, Buffered
  <2>2. id \in DOMAIN streams /\ streams[id] \in StreamRecords
    BY <1>a, <2>1 DEF MapWhole
  <2>3. rest \in Seq(Events)
    BY <2>1, <2>2 DEF StreamRecords
  <2>4. saw \in BOOLEAN
    BY <1>a DEF ReaderRecords
  <2>5. /\ reader' = [reader EXCEPT ![r].sawGenerate = saw] /\ openStreams' = openStreams
        /\ streams' = [streams EXCEPT ![id].buffer = rest]
    BY <1>7 DEF Read
  <2> HIDE DEF saw, rest
  <2>6. /\ rec \in ReaderRecords /\ rec.attached = reader[r].attached /\ rec.slot = reader[r].slot
        /\ rec.pc = reader[r].pc /\ reader' = [reader EXCEPT ![r] = rec]
    BY <1>a, <2>4, <2>5 DEF ReaderRecords
  <2> HIDE DEF rec
  <2>7. ReadersKeep
    BY <1>b, <2>5, <2>6
  <2>8. /\ DOMAIN streams' = DOMAIN streams /\ streams'[id] = [streams[id] EXCEPT !.buffer = rest]
        /\ \A o \in DOMAIN streams \ {id} : streams'[o] = streams[o]
    BY <2>2, <2>5
  <2>9. streams'[id] \in StreamRecords /\ streams'[id].subscribers = streams[id].subscribers
    BY <2>2, <2>3, <2>8 DEF StreamRecords
  <2>10. \A o \in DOMAIN streams : streams'[o] \in StreamRecords
                                   /\ streams'[o].subscribers = streams[o].subscribers
    BY <1>a, <2>8, <2>9 DEF MapWhole
  <2> QED BY <1>a, <2>7, <2>8, <2>10, KeptMap
<1>8. ASSUME NEW id \in Watched, TtlElapses(id) PROVE ChannelInv'
  <2>1. /\ id \in DOMAIN streams /\ streams[id] \in StreamRecords /\ ReadersKeep
        /\ streams' = [streams EXCEPT ![id].expired = TRUE]
    BY <1>8, <1>a DEF TtlElapses, MapWhole, ReadersKeep, ReadersCounted
  <2>2. /\ DOMAIN streams' = DOMAIN streams /\ streams'[id] = [streams[id] EXCEPT !.expired = TRUE]
        /\ \A o \in DOMAIN streams \ {id} : streams'[o] = streams[o]
    BY <2>1
  <2>3. \A o \in DOMAIN streams : streams'[o] \in StreamRecords
                                  /\ streams'[o].subscribers = streams[o].subscribers
    BY <1>a, <2>1, <2>2 DEF MapWhole, StreamRecords
  <2> QED BY <1>a, <2>1, <2>2, <2>3, KeptMap
<1>9. CASE UNCHANGED streamVars
  <2>1. ReadersKeep /\ streams' = streams
    BY <1>9, <1>a DEF streamVars, ReadersKeep, ReadersCounted
  <2> QED BY <2>1, SameMap
<1> QED BY <1>1, <1>2, <1>3, <1>4, <1>5, <1>6, <1>7, <1>8, <1>9
        DEF BuildStreamNext, BuildStep, ReaderStep

LEMMA StreamStart == BuildStreamInit => StreamInv
<1> SUFFICES ASSUME BuildStreamInit PROVE StreamInv
  OBVIOUS
<1>1. BuildsCounted
  <2>1. {b \in Builds : build[b].slot} = {}
    BY DEF BuildStreamInit
  <2>2. inFlight = Cardinality({b \in Builds : build[b].slot})
    BY <2>1, FS_EmptySet DEF BuildStreamInit
  <2> QED BY <2>2 DEF BuildsCounted, BuildStreamInit, BuildRecords
<1>2. ReadersCounted
  <2>1. {r \in Readers : reader[r].slot} = {}
    BY DEF BuildStreamInit
  <2>2. openStreams = Cardinality({r \in Readers : reader[r].slot})
    BY <2>1, FS_EmptySet DEF BuildStreamInit
  <2> QED BY <2>2 DEF ReadersCounted, BuildStreamInit, ReaderRecords, OpenPcs
<1>3. MapWhole(streams)
  <2>1. DOMAIN streams = {}
    BY DEF BuildStreamInit
  <2>2. IsFiniteSet(DOMAIN streams) /\ Cardinality(DOMAIN streams) <= MaxStreams
    BY <2>1, FS_EmptySet, BuildStreamAssumption
  <2>3. \A r \in Readers : ~reader[r].attached
    BY DEF BuildStreamInit
  <2> QED BY <2>1, <2>2, <2>3 DEF MapWhole
<1> QED BY <1>1, <1>2, <1>3 DEF StreamInv, ChannelInv

LEMMA StreamInvariant == BuildStreamInit /\ [][BuildStreamNext]_streamVars => []StreamInv
<1>1. StreamInv /\ [BuildStreamNext]_streamVars => StreamInv'
  BY BuildsStayCounted, ChannelStays DEF StreamInv
<1> QED BY StreamStart, <1>1, PTL

LEMMA StreamHolds ==
  ASSUME StreamInv
  PROVE  BuildStreamTypeOK /\ ReadersAttached
<1> USE DEF StreamInv, ChannelInv
<1>1. \A id \in DOMAIN streams : streams[id].subscribers \in 0..Cardinality(Readers)
  <2>1. Cardinality(Readers) \in Nat
    BY BuildStreamAssumption, FS_CardinalityType
  <2> QED BY <2>1, OpenIs DEF MapWhole
<1>2. \A id \in DOMAIN streams :
        streams[id] \in [buffer : Seq({"Generate", "stage"}), done : BOOLEAN,
                         subscribers : 0..Cardinality(Readers),
                         everEmitted : BOOLEAN, expired : BOOLEAN]
  <2> SUFFICES ASSUME NEW id \in DOMAIN streams
               PROVE  streams[id] \in [buffer : Seq({"Generate", "stage"}), done : BOOLEAN,
                                       subscribers : 0..Cardinality(Readers),
                                       everEmitted : BOOLEAN, expired : BOOLEAN]
    OBVIOUS
  <2>1. streams[id] \in StreamRecords
    BY DEF MapWhole
  <2> QED BY <1>1, <2>1 DEF StreamRecords, Events
<1>3. BuildStreamTypeOK
  BY <1>2 DEF BuildStreamTypeOK, MapWhole, BuildsCounted, BuildRecords, ReadersCounted, ReaderRecords
<1>4. \A r \in Readers : reader[r].pc \in OpenPcs => /\ reader[r].attached
                                                     /\ ReaderOf[r] \in DOMAIN streams
  BY DEF MapWhole, ReadersCounted
<1>5. \A id \in DOMAIN streams : streams[id].subscribers = Cardinality(Open(id))
  BY DEF MapWhole
<1>6. ReadersAttached
  <2>1. \A r \in UNION {Open(id) : id \in Watched} : /\ reader[r].attached
                                                     /\ ReaderOf[r] \in DOMAIN streams
    BY <1>4 DEF Open
  <2> QED BY <1>5, <2>1, Zenon DEF ReadersAttached, Open, OpenPcs
<1> QED BY <1>3, <1>6

-----------------------------------------------------------------------------
(***************************************************************************)
(* All of them.  Each step is a step of one component or leaves it alone,  *)
(* so each keeps its own invariant.                                        *)
(***************************************************************************)
HostingInv ==
  /\ component \in {"deployer", "orchestrator", "shutdown", "stream", "generation"}
  /\ DeployerInv /\ OrchInv /\ ShutdownInv /\ StreamInv /\ GenInv

LEMMA HostingStart == HostingInit => HostingInv
  BY DeployerStart, OrchStart, ShutdownStart, StreamStart, GenerationStart
     DEF HostingInit, HostingInv

LEMMA HostingStep ==
  ASSUME HostingInv, [HostingNext]_hostingVars
  PROVE  HostingInv'
<1>1. /\ [DeployerNext]_deployerVars /\ [OrchNext]_orchVars /\ [ShutdownNext]_shutdownVars
      /\ [BuildStreamNext]_streamVars /\ [GenerationNext]_genVars
  BY Zenon DEF HostingNext, hostingVars
<1>2. DeployerInv'
  BY <1>1, DeployerStep DEF HostingInv
<1>3. OrchInv'
  BY <1>1, OrchStep DEF HostingInv
<1>4. ShutdownInv'
  BY <1>1, ShutdownTyped, ShutdownOrdered DEF HostingInv, ShutdownInv
<1>5. StreamInv'
  BY <1>1, BuildsStayCounted, ChannelStays DEF HostingInv, StreamInv
<1>6. GenInv'
  BY <1>1, GenerationStep DEF HostingInv
<1>7. component' = component
  BY DEF HostingNext, hostingVars
<1> QED BY <1>2, <1>3, <1>4, <1>5, <1>6, <1>7 DEF HostingInv

\* The components keep their types, no sandbox serves two schedules, a reader
\* stays attached to the stream its resource's builds emit into, and a bundle is
\* accepted only whole, for any deploys, schedules, handlers, builds, readers and
\* attempts (LocalDriver, BuildEventChannel, the generation loop).
THEOREM HostingHolds == HostingSpec => []HostingOK
<1>1. HostingInv /\ [HostingNext]_hostingVars => HostingInv'
  BY HostingStep
<1>2. HostingInv => HostingOK
  <2> SUFFICES ASSUME HostingInv PROVE HostingOK
    OBVIOUS
  <2>1. DeployerTypeOK
    BY DeployerHolds DEF HostingInv
  <2>2. OrchTypeOK /\ SandboxServesOnce
    BY OrchHolds DEF HostingInv
  <2>3. ShutdownTypeOK
    BY DEF HostingInv, ShutdownInv
  <2>4. BuildStreamTypeOK /\ ReadersAttached
    BY StreamHolds DEF HostingInv
  <2>5. GenerationTypeOK /\ AcceptedIsWhole /\ NoHopelessCall
    BY GenerationHolds DEF HostingInv
  <2>6. component \in {"deployer", "orchestrator", "shutdown", "stream", "generation"}
    BY DEF HostingInv
  <2> QED BY <2>1, <2>2, <2>3, <2>4, <2>5, <2>6 DEF HostingOK
<1> QED BY HostingStart, <1>1, <1>2, PTL DEF HostingSpec
=============================================================================
