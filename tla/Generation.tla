----------------------------- MODULE Generation -----------------------------
(***************************************************************************)
(* ClaudeGenerator.generate and the four gates of validateBundle.  An agent*)
(* nobody trusts writes files into a temporary directory; the loop asks it *)
(* for what is missing, validates what it wrote, asks for repairs, starts  *)
(* again in a fresh directory, and hands the best bundle to a caller that  *)
(* validates once more and is the only one to accept it.                   *)
(*                                                                         *)
(* A directory is the required files it lacks, the flaws of the others,    *)
(* and whether it holds a file the contract does not allow (unexpected,    *)
(* too large).  Whatever the prompt says, a call may write anything, but it*)
(* has no tool to delete.  The agent card and the build recipe are written *)
(* by the platform: the agent can not repair them.                         *)
(***************************************************************************)
EXTENDS Naturals, FiniteSets

CONSTANTS ModelFiles,                  \* REQUIRED_MODEL_FILES
          MaxAttempts,                 \* MAX_GENERATION_ATTEMPTS
          MaxRepairs                   \* MAX_VALIDATION_REPAIRS

ASSUME GenerationAssumption == /\ ModelFiles # {}
                               /\ MaxAttempts \in Nat \ {0} /\ MaxRepairs \in Nat

VARIABLES gen,      \* the loop: position, attempt, repairs made
          tmp,      \* the directory of the attempt, {} between attempts
          host,     \* flaws of what the platform writes, for this resource
          bundle,   \* the bundle the attempt assembled, if any
          result    \* none, accepted, rejected, failed (the caller's outcome)

genVars == <<gen, tmp, host, bundle, result>>

\* shape: empty, unparsable or incomplete files.  static: a secret or a
\* forbidden import.  serve: a case misclassified, or no success case.
Flaws == {"shape", "static", "serve"}
\* An invalid card, a prompt that looks like a secret where the card repeats it,
\* an unpinned recipe.
PlatformFlaws == {"card", "prompt", "recipe"}
Directories == [missing : SUBSET ModelFiles, flaws : SUBSET Flaws, alien : BOOLEAN]
FreshDir == [missing |-> ModelFiles, flaws |-> {}, alien |-> FALSE]

GenerationInit ==
  /\ gen = [pc |-> "begin", attempt |-> 0, repairs |-> 0]
  /\ tmp = {} /\ bundle = {} /\ result = "none"
  /\ host \in SUBSET PlatformFlaws

-----------------------------------------------------------------------------
\* The gates.  The first stops at a missing file before it looks at any other.
ShapeGate(d) ==
  IF d.missing # {} THEN {"missing-file"}
  ELSE (d.flaws \cap {"shape"}) \cup (host \cap {"card"})

StaticGate(d) == (d.flaws \cap {"static"}) \cup (host \cap {"prompt"})

BuildSpecGate(d) == host \cap {"recipe"}

\* Runs only on the contract and the cases that the first gate parsed.
ServeGate(d) == IF d.missing # {} \/ "shape" \in d.flaws
                THEN {"skipped-shape-failed"} ELSE d.flaws \cap {"serve"}

Violations(d) == ShapeGate(d) \cup StaticGate(d) \cup BuildSpecGate(d) \cup ServeGate(d)

\* isModelRepairable.  It does not except what the scan finds in the card.
Repairable(vs) == vs \ {"recipe", "skipped-shape-failed", "card"}

-----------------------------------------------------------------------------
BeginAttempt ==
  /\ gen.pc = "begin"
  /\ tmp' = {FreshDir}
  /\ gen' = [gen EXCEPT !.pc = "first", !.attempt = @ + 1, !.repairs = 0]
  /\ bundle' = {}
  /\ UNCHANGED <<host, result>>

\* runAgent: the call for the first pass, for the missing files or for a repair.
AgentWrites ==
  /\ gen.pc \in {"first", "missing", "repair"}
  /\ \E old \in tmp : \E d \in Directories :
       /\ d.missing \subseteq old.missing
       /\ tmp' = {d}
       /\ gen' = [gen EXCEPT !.pc = IF gen.pc = "first" /\ d.missing # {}
                                   THEN "missing" ELSE "assemble"]
  /\ UNCHANGED <<host, bundle, result>>

\* An attempt ends, whether it returns or throws, by removing its directory.
EndAttempt(pc) == tmp' = {} /\ gen' = [gen EXCEPT !.pc = pc]

\* The call, the assembly or the validator throws: a fresh attempt if one is
\* left, else the error reaches the caller.
Throws ==
  IF gen.attempt < MaxAttempts
  THEN EndAttempt("begin") /\ UNCHANGED <<host, bundle, result>>
  ELSE EndAttempt("done") /\ result' = "failed" /\ UNCHANGED <<host, bundle>>

AttemptThrows == gen.pc \in {"first", "missing", "repair", "assemble", "validate"} /\ Throws

\* assembleBundle reads the directory and lays the platform's files over it.
Assemble ==
  /\ gen.pc = "assemble"
  /\ \E d \in tmp :
       IF d.alien THEN Throws
       ELSE /\ bundle' = {d}
            /\ gen' = [gen EXCEPT !.pc = "validate"]
            /\ UNCHANGED <<tmp, host, result>>

\* Pass, or nothing the agent could repair: return.  Else repair, and when the
\* repairs are used up a fresh attempt, or the bundle as it is.
Validate ==
  /\ gen.pc = "validate"
  /\ \E d \in bundle :
       LET vs == Violations(d) IN
       CASE Repairable(vs) = {} -> EndAttempt("hand")
         [] Repairable(vs) # {} /\ gen.repairs < MaxRepairs ->
              /\ gen' = [gen EXCEPT !.repairs = @ + 1, !.pc = "repair"]
              /\ UNCHANGED tmp
         [] OTHER -> EndAttempt(IF gen.attempt < MaxAttempts THEN "begin" ELSE "hand")
  /\ UNCHANGED <<host, bundle, result>>

\* The caller's own validation, before anything is deployed or published.
CallerValidates ==
  /\ gen.pc = "hand"
  /\ \E d \in bundle :
       \/ result' = IF Violations(d) = {} THEN "accepted" ELSE "rejected"
       \/ result' = "failed"
  /\ gen' = [gen EXCEPT !.pc = "done"]
  /\ UNCHANGED <<tmp, host, bundle>>

GenerationNext == \/ BeginAttempt \/ AgentWrites \/ AttemptThrows
                  \/ Assemble \/ Validate \/ CallerValidates

-----------------------------------------------------------------------------
GenerationTypeOK ==
  /\ gen \in [pc : {"begin", "first", "missing", "repair", "assemble", "validate", "hand", "done"},
              attempt : 0 .. MaxAttempts, repairs : 0 .. MaxRepairs]
  /\ tmp \subseteq Directories /\ Cardinality(tmp) <= 1
  /\ bundle \subseteq Directories /\ Cardinality(bundle) <= 1
  /\ host \subseteq PlatformFlaws
  /\ result \in {"none", "accepted", "rejected", "failed"}

\* What is accepted is complete, flawless and built by an unflawed recipe, and
\* a directory of the agent's is left only while its attempt runs
\* (live.ts:330-349, claude-backend.ts:449-461).
AcceptedIsWhole ==
  /\ result = "accepted" => \A d \in bundle : d.missing = {} /\ d.flaws = {} /\ host = {}
  /\ gen.pc \in {"begin", "hand", "done"} => tmp = {}

\* "agent-card.json is platform-overwritten ...; excluding it ... avoids a wasted
\* repair of a file the model does not own" (claude-backend.ts:167-169): files
\* that are right cost no call for a repair.  True unless the scan finds a secret
\* in the prompt, which the card repeats and no call can repair.
NoHopelessCall ==
  gen.pc = "repair" /\ "prompt" \notin host => \A d \in bundle : d.missing # {} \/ d.flaws # {}

\* Whatever the agent writes, generation comes to an end (claude-backend.ts:145-157).
GenerationEnds == <>(gen.pc = "done")
=============================================================================
