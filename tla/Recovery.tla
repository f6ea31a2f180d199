------------------------------ MODULE Recovery ------------------------------
(***************************************************************************)
(* recoverResources: a pass over the gates (sidecars) found on the host.   *)
(* For each it reads the facts of the resource back from the gate's        *)
(* environment, makes sure its handler runs, replaces the gate by the      *)
(* current build with the finalized card, restores the route, waits for    *)
(* the card and publishes it.  A dry run changes nothing.                  *)
(*                                                                         *)
(* The gate's environment is the only place these facts are kept, and the  *)
(* old gate is removed before the new one starts.  Whatever throws ends    *)
(* the resource's part of the pass, and the pass goes on; its process may  *)
(* stop as well.  A card is as good as the resource's: who serves it does. *)
(***************************************************************************)
EXTENDS Naturals, FiniteSets

CONSTANTS Gated,
          Broken,            \* slugs whose gate lacks a required variable
          MaxPasses          \* bound: runs of the script

ASSUME RecoveryAssumption == Broken \subseteq Gated /\ MaxPasses \in Nat

VARIABLES gate,      \* slug -> absent, old (no card in it), carded
          handler,   \* slug -> absent, stopped, running
          routes,    \* slugs with a Traefik file
          listed,    \* slugs the marketplace lists
          pass,      \* the pass: apply, slugs to do, the current one, position
          built,     \* the gate image is built, in this pass
          items,     \* slug -> outcome the pass reports
          passes,
          unstarted  \* history: slugs whose new gate did not start

recoveryVars == <<gate, handler, routes, listed, pass, built, items, passes, unstarted>>

NoPass == [pc |-> "idle", apply |-> FALSE, todo |-> {}, at |-> {}]

RecoveryInit ==
  /\ gate = [s \in Gated |-> "old"]
  /\ handler \in [Gated -> {"absent", "stopped", "running"}]
  /\ routes = {} /\ listed = {} /\ unstarted = {}
  /\ pass = NoPass
  /\ built = FALSE
  /\ items = [s \in Gated |-> "none"]
  /\ passes = 0

\* The secrets and addresses are resolved, and all gates listed, at the start.
PassStarts ==
  /\ pass.pc = "idle" /\ passes < MaxPasses
  /\ passes' = passes + 1
  /\ built' = FALSE
  /\ items' = [s \in Gated |-> "none"]
  /\ \E apply \in BOOLEAN :
       pass' = [pc |-> "next", apply |-> apply, at |-> {},
                todo |-> {s \in Gated : gate[s] # "absent"}]
  /\ UNCHANGED <<gate, handler, routes, listed, unstarted>>

NextGate ==
  /\ pass.pc = "next"
  /\ \/ \E s \in pass.todo :
          pass' = [pass EXCEPT !.at = {s}, !.todo = @ \ {s}, !.pc = "inspect"]
     \/ pass.todo = {} /\ pass' = NoPass
  /\ UNCHANGED <<gate, handler, routes, listed, built, items, passes, unstarted>>

Ends(s, status) ==
  /\ items' = [items EXCEPT ![s] = status]
  /\ pass' = [pass EXCEPT !.at = {}, !.pc = "next"]

GoOn(pc) == pass' = [pass EXCEPT !.pc = pc] /\ UNCHANGED items

InspectGateLenient(s) ==
  /\ pass.pc = "inspect" /\ s \in pass.at
  /\ CASE handler[s] = "absent" -> Ends(s, "skipped")
       [] handler[s] # "absent" /\ ~pass.apply -> Ends(s, "planned")
       [] OTHER -> GoOn("handler")
  /\ UNCHANGED <<gate, handler, routes, listed, built, passes, unstarted>>

\* Inspect the gate, parse its environment, and look at the handler.
InspectGate(s) ==
  /\ pass.pc = "inspect" /\ s \in pass.at
  /\ CASE s \in Broken -> Ends(s, "failed")
       [] s \notin Broken /\ handler[s] = "absent" -> Ends(s, "skipped")
       [] s \notin Broken /\ handler[s] # "absent" /\ ~pass.apply -> Ends(s, "planned")
       [] OTHER -> GoOn("handler")
  /\ UNCHANGED <<gate, handler, routes, listed, built, passes, unstarted>>

RestartHandler(s) ==
  /\ pass.pc = "handler" /\ s \in pass.at
  /\ \/ handler' = [handler EXCEPT ![s] = "running"] /\ GoOn("image")
     \/ handler[s] = "stopped" /\ Ends(s, "failed") /\ UNCHANGED handler
  /\ UNCHANGED <<gate, routes, listed, built, passes, unstarted>>

\* Only the first resource of a pass builds it.
BuildImage(s) ==
  /\ pass.pc = "image" /\ s \in pass.at
  /\ built' = TRUE
  /\ GoOn("remove")
  /\ UNCHANGED <<gate, handler, routes, listed, passes, unstarted>>

\* A removal that fails is taken for a gate that is not there.
RemoveGate(s) ==
  /\ pass.pc = "remove" /\ s \in pass.at
  /\ gate' = [gate EXCEPT ![s] = "absent"] \/ UNCHANGED gate
  /\ GoOn("start")
  /\ UNCHANGED <<handler, routes, listed, built, passes, unstarted>>

\* The name is taken when the old gate is still there.
RecreateGate(s) ==
  /\ pass.pc = "start" /\ s \in pass.at
  /\ gate[s] = "absent"
  /\ gate' = [gate EXCEPT ![s] = "carded"]
  /\ GoOn("route")
  /\ UNCHANGED <<handler, routes, listed, built, passes, unstarted>>

RewriteRoute(s) ==
  /\ pass.pc = "route" /\ s \in pass.at
  /\ routes' = routes \cup {s}
  /\ GoOn("card")
  /\ UNCHANGED <<gate, handler, listed, built, passes, unstarted>>

CardServed(s) == s \in routes /\ gate[s] = "carded"

\* Polled to a deadline; a boot that is too slow fails as well.
AwaitCard(s) ==
  /\ pass.pc = "card" /\ s \in pass.at
  /\ \/ CardServed(s) /\ GoOn("publish")
     \/ Ends(s, "failed")
  /\ UNCHANGED <<gate, handler, routes, listed, built, passes, unstarted>>

\* The answer may be a refusal, or be lost after the marketplace listed it.
RecoverPublish(s) ==
  /\ pass.pc = "publish" /\ s \in pass.at
  /\ \/ listed' = listed \cup {s} /\ (Ends(s, "listed") \/ Ends(s, "failed"))
     \/ Ends(s, "failed") /\ UNCHANGED listed
  /\ UNCHANGED <<gate, handler, routes, built, passes, unstarted>>

Awaiting == {"inspect", "handler", "image", "remove", "start", "route"}

RecoveryThrows(s) ==
  /\ pass.pc \in Awaiting /\ s \in pass.at
  /\ Ends(s, "failed")
  /\ unstarted' = IF pass.pc = "start" THEN unstarted \cup {s} ELSE unstarted
  /\ UNCHANGED <<gate, handler, routes, listed, built, passes>>

ProcessStops ==
  /\ pass.pc # "idle"
  /\ pass' = NoPass
  /\ unstarted' = IF pass.pc = "start" THEN unstarted \cup pass.at ELSE unstarted
  /\ UNCHANGED <<gate, handler, routes, listed, built, items, passes>>

RecoveryNext ==
  \/ PassStarts \/ NextGate \/ ProcessStops
  \/ \E s \in Gated :
       \/ InspectGate(s) \/ RestartHandler(s) \/ BuildImage(s) \/ RemoveGate(s)
       \/ RecreateGate(s) \/ RewriteRoute(s) \/ AwaitCard(s) \/ RecoverPublish(s)
       \/ RecoveryThrows(s)

RecoverySpec == RecoveryInit /\ [][RecoveryNext]_recoveryVars

-----------------------------------------------------------------------------
\* Types.
RecoveryTypeOK ==
  /\ gate \in [Gated -> {"absent", "old", "carded"}]
  /\ handler \in [Gated -> {"absent", "stopped", "running"}]
  /\ routes \cup listed \cup unstarted \cup pass.todo \cup pass.at \subseteq Gated
  /\ Cardinality(pass.at) <= 1 /\ pass.apply \in BOOLEAN
  /\ pass.pc \in {"idle", "next", "card", "publish"} \cup Awaiting
  /\ items \in [Gated -> {"none", "skipped", "planned", "failed", "listed"}]
  /\ built \in BOOLEAN /\ passes \in 0..MaxPasses

(***************************************************************************)
(* Whatever fails, is retried or stops, the facts of a resource are lost   *)
(* only when the new gate did not start after the old one was removed; and *)
(* a resource whose handler is gone, or whose gate is not understood, is   *)
(* not touched (recover-resources.ts:536-674).                             *)
(***************************************************************************)
GatesKept ==
  \A s \in Gated :
    /\ gate[s] = "absent" =>
         s \in unstarted \/ (pass.pc = "start" /\ s \in pass.at)
    /\ handler[s] = "absent" \/ s \in Broken => gate[s] = "old"
    /\ items[s] = "listed" => s \in listed /\ CardServed(s)
=============================================================================
