---------------------------- MODULE Marketplace ----------------------------
(***************************************************************************)
(* Publishing one resource on the marketplace and taking it down again.    *)
(* A publish passes moderation, the bond gate and the first probe, mints   *)
(* an agent identity, reads the bond and the owner, and writes the card    *)
(* and the index record; one step runs from one await to the next, so the  *)
(* publishes and the takedown interleave.  Each step may throw, which ends *)
(* the request and undoes nothing.                                         *)
(*                                                                         *)
(* The chain is the escrow's ResourceRegistry: the deployer registered the *)
(* resource before, or has not yet.  Armed is whether the marketplace has  *)
(* the registries' addresses and the admin key; without them the agent id  *)
(* is a placeholder and no owner is read.  What is bonded is left open: the*)
(* bond gate, if it is switched on, may refuse or not.  A card is          *)
(* represented by the agent id that is written into it.                    *)
(***************************************************************************)
EXTENDS Naturals, FiniteSets

CONSTANTS Publishes,      \* requests POST /resources for the resource
          Claimants,      \* creators a request may claim; it may claim none
          Owner           \* the owner the deployer registers on chain

ASSUME MarketAssumption == IsFiniteSet(Publishes)

Placeholder == 0          \* the deferred agent id, a function of the resource

VARIABLES armed,          \* Armed, fixed at boot
          chain,          \* registered, agent, paused; minted
          pauseTx,        \* the pause transaction sent last: what became of it
          index,          \* the index record of the resource, as a set
          card,           \* the served card, as a set
          queue,          \* publishes in the review queue
          publish,        \* publish -> position and what it has read
          takedown,       \* the takedown's position
          blind,          \* history: claims of publishes that found no creator
          quiet           \* history: nothing was published since a takedown began

marketVars == <<armed, chain, pauseTx, index, card, queue, publish, takedown, blind,
                quiet>>

PublishIdle == [pc |-> "idle", agent |-> Placeholder, creator |-> {}]

MarketInit ==
  /\ armed \in BOOLEAN
  /\ pauseTx = "none"
  /\ \E r \in BOOLEAN :
       chain = [registered |-> r, agent |-> Placeholder, paused |-> FALSE,
                minted |-> 0]
  /\ index = {} /\ card = {} /\ queue = {} /\ blind = {} /\ quiet = FALSE
  /\ publish = [p \in Publishes |-> PublishIdle]
  /\ takedown = "idle"

Goto(p, pc) == publish' = [publish EXCEPT ![p].pc = pc]
\* What a request has read goes with it.
End(p, pc) == publish' = [publish EXCEPT ![p] = [PublishIdle EXCEPT !.pc = pc]]

(***************************************************************************)
(* The gates.                                                              *)
(***************************************************************************)
\* The prompt is allowed, held or blocked, and that is recorded in any case.
RecordDecision(p) ==
  /\ publish[p].pc = "idle"
  /\ Goto(p, "bond") \/ Goto(p, "enqueue") \/ Goto(p, "blocked")
  /\ quiet' = FALSE
  /\ UNCHANGED <<armed, chain, pauseTx, index, card, queue, takedown, blind>>

EnqueueReview(p) ==
  /\ publish[p].pc = "enqueue"
  /\ queue' = queue \cup {p}
  /\ Goto(p, "held")
  /\ UNCHANGED <<armed, chain, pauseTx, index, card, takedown, blind, quiet>>

CheckBond(p) ==
  /\ publish[p].pc = "bond"
  /\ Goto(p, "probe") \/ Goto(p, "rejected")
  /\ UNCHANGED <<armed, chain, pauseTx, index, card, queue, takedown, blind, quiet>>

FirstProbe(p) ==
  /\ publish[p].pc = "probe"
  /\ \/ Goto(p, IF armed THEN "split" ELSE "finalize")
     \/ Goto(p, "unverified")
  /\ UNCHANGED <<armed, chain, pauseTx, index, card, queue, takedown, blind, quiet>>

(***************************************************************************)
(* publishIdentity: getResource (which reverts when nothing is             *)
(* registered), the mint, and the registry update with the new id.         *)
(***************************************************************************)
ReadSplit(p) ==
  /\ publish[p].pc = "split"
  /\ Goto(p, IF chain.registered THEN "mint" ELSE "failed")
  /\ UNCHANGED <<armed, chain, pauseTx, index, card, queue, takedown, blind, quiet>>

MintAgent(p) ==
  /\ publish[p].pc = "mint"
  /\ chain' = [chain EXCEPT !.minted = @ + 1]
  /\ publish' = [publish EXCEPT ![p].pc = "update", ![p].agent = chain.minted + 1]
  /\ UNCHANGED <<armed, pauseTx, index, card, queue, takedown, blind, quiet>>

\* The wait resolves with a reverted update as well; one that throws after the
\* update was mined is the throw of the next step.
UpdateRegistry(p) ==
  /\ publish[p].pc = "update"
  /\ chain' \in {chain, [chain EXCEPT !.agent = publish[p].agent]}
  /\ Goto(p, "finalize")
  /\ UNCHANGED <<armed, pauseTx, index, card, queue, takedown, blind, quiet>>

\* The bond is read, the card finalized, and a card that pays another resource
\* than this one is refused.
Finalize(p) ==
  /\ publish[p].pc = "finalize"
  /\ Goto(p, "owner") \/ End(p, "unverified")
  /\ UNCHANGED <<armed, chain, pauseTx, index, card, queue, takedown, blind, quiet>>

(***************************************************************************)
(* Whose listing it is: the owner on chain, else the creator of the record *)
(* that exists, else the claimed one.  A read that fails counts as none.   *)
(***************************************************************************)
ResolveOwner(p) ==
  /\ publish[p].pc = "owner"
  /\ \E found \in {{}} \cup (IF armed /\ chain.registered THEN {{Owner}} ELSE {}) :
       publish' = [publish EXCEPT ![p].pc = "existing", ![p].creator = found]
  /\ UNCHANGED <<armed, chain, pauseTx, index, card, queue, takedown, blind, quiet>>

\* The creator of a request is optional; nothing read it before.
Claims == {{}} \cup {{c} : c \in Claimants}

BoundCreatorClaimed(p, known, claim) ==
  IF publish[p].creator # {} THEN publish[p].creator ELSE claim

BoundCreator(p, known, claim) ==
  CASE publish[p].creator # {} -> publish[p].creator
    [] publish[p].creator = {} /\ known # {} -> known
    [] OTHER -> claim

\* A record that names no creator is as good as no record.
ReadExisting(p) ==
  /\ publish[p].pc = "existing"
  /\ \E claim \in Claims,
        known \in IF index = {} THEN {{}} ELSE {r.creator : r \in index} :
       /\ publish' = [publish EXCEPT ![p].pc = "card",
                                     ![p].creator = BoundCreator(p, known, claim)]
       /\ blind' = IF known = {} THEN blind \cup {claim} ELSE blind
  /\ UNCHANGED <<armed, chain, pauseTx, index, card, queue, takedown, quiet>>

PutCard(p) ==
  /\ publish[p].pc = "card"
  /\ card' = {publish[p].agent}
  /\ Goto(p, "upsert")
  /\ UNCHANGED <<armed, chain, pauseTx, index, queue, takedown, blind, quiet>>

Upsert(p) ==
  /\ publish[p].pc = "upsert"
  /\ index' = {[creator |-> publish[p].creator, agent |-> publish[p].agent,
                active |-> TRUE]}
  /\ End(p, "listed")
  /\ UNCHANGED <<armed, chain, pauseTx, card, queue, takedown, blind, quiet>>

Ended == {"idle", "blocked", "held", "rejected", "unverified", "failed", "listed"}

PublishThrows(p) ==
  /\ publish[p].pc \notin Ended
  /\ End(p, "failed")
  /\ UNCHANGED <<armed, chain, pauseTx, index, card, queue, takedown, blind, quiet>>

(***************************************************************************)
(* takedown: stop the sandbox, take the record out of discovery, pause the *)
(* resource on chain.  A leg that throws ends the op, and the operator     *)
(* calls it again: every leg is idempotent.                                *)
(***************************************************************************)
StopLeg ==
  /\ takedown \in {"idle", "failed"}
  /\ takedown' \in {"delist", "failed"}
  /\ quiet' = \A p \in Publishes : publish[p].pc \in Ended
  /\ UNCHANGED <<armed, chain, pauseTx, index, card, queue, publish, blind>>

DelistedNever(i) == i

Delisted(i) == {[r EXCEPT !.active = FALSE] : r \in i}

DelistLeg ==
  /\ takedown = "delist"
  /\ \/ index' = Delisted(index) /\ takedown' = "pause"
     \/ takedown' = "failed" /\ UNCHANGED index
  /\ UNCHANGED <<armed, chain, pauseTx, card, queue, publish, blind, quiet>>

\* The registry refuses to pause what is not registered.  What is reported is a
\* broadcast: nobody waits for the receipt, and a lost reply is a failed leg.
PauseLeg ==
  /\ takedown = "pause"
  /\ \/ chain.registered /\ pauseTx' = "sent" /\ takedown' \in {"done", "failed"}
     \/ takedown' = "failed" /\ UNCHANGED pauseTx
  /\ UNCHANGED <<armed, chain, index, card, queue, publish, blind, quiet>>

\* It reverts if the operator's key has lost its role meanwhile.
PauseMined ==
  /\ pauseTx = "sent"
  /\ \/ pauseTx' = "mined" /\ chain' = [chain EXCEPT !.paused = TRUE]
     \/ pauseTx' = "reverted" /\ UNCHANGED chain
  /\ UNCHANGED <<armed, index, card, queue, publish, takedown, blind, quiet>>

(***************************************************************************)
(* The chain's other user: the deployer registers.                         *)
(***************************************************************************)
RegisterResource ==
  /\ ~chain.registered
  /\ chain' = [chain EXCEPT !.registered = TRUE]
  /\ UNCHANGED <<armed, pauseTx, index, card, queue, publish, takedown, blind, quiet>>

MarketNext ==
  \/ \E p \in Publishes :
       \/ RecordDecision(p) \/ EnqueueReview(p) \/ CheckBond(p) \/ FirstProbe(p)
       \/ ReadSplit(p) \/ MintAgent(p) \/ UpdateRegistry(p) \/ Finalize(p)
       \/ ResolveOwner(p) \/ ReadExisting(p) \/ PutCard(p) \/ Upsert(p)
       \/ PublishThrows(p)
  \/ StopLeg \/ DelistLeg \/ PauseLeg \/ PauseMined
  \/ RegisterResource

MarketSpec == MarketInit /\ [][MarketNext]_marketVars

-----------------------------------------------------------------------------
\* Types; a listed resource has its card, and the held publishes are queued.
MarketTypeOK ==
  /\ armed \in BOOLEAN
  /\ pauseTx \in {"none", "sent", "mined", "reverted"}
  /\ chain \in [registered : BOOLEAN, agent : Nat, paused : BOOLEAN,
                minted : 0..Cardinality(Publishes)]
  /\ chain.agent <= chain.minted
  /\ Cardinality(index) <= 1 /\ Cardinality(card) <= 1
  /\ index # {} => card # {}
  /\ queue \subseteq Publishes /\ blind \subseteq Claims
  /\ \A p \in Publishes :
       /\ publish[p].agent \in 0..chain.minted
       /\ publish[p].creator \in Claims \cup {{Owner}}
       /\ publish[p].pc = "held" <=> p \in queue
  /\ takedown \in {"idle", "delist", "pause", "done", "failed"}

(***************************************************************************)
(* Whoever is listed as the creator is the owner on chain, or claimed it in*)
(* a publish that looked for a record before one named a creator: any other*)
(* publish of the same slug, with any claim or none, failing reads and     *)
(* takedowns in between, keeps to the creator it finds                     *)
(* (publish.ts:312-330).  The record may still go back from the owner to   *)
(* such a claim, by a publish that read it before the owner was listed and *)
(* writes it after, and one without a creator goes to the next who claims. *)
(***************************************************************************)
CreatorKept ==
  \A r \in index : r.creator \subseteq {Owner} \/ r.creator \in blind

(***************************************************************************)
(* A takedown that reports success, after whatever retries, and that no    *)
(* publish ran beside or since, leaves the resource out of discovery, and  *)
(* paused on chain unless its pause is still to be mined or reverted       *)
(* (takedown.ts:45-75).                                                    *)
(***************************************************************************)
TakedownComplete ==
  takedown = "done" /\ quiet =>
    /\ \A r \in index : ~r.active
    /\ chain.paused \/ pauseTx \in {"sent", "reverted"}

(***************************************************************************)
(* What comments of the source say and the model refutes (README).         *)
(***************************************************************************)
\* takedown.ts:3-5: a takedown "must leave NO orphan: [...] a killed resource must
\* be delisted + paused".
DocPaused ==
  takedown = "done" /\ quiet /\ pauseTx # "sent" => chain.paused

\* publish.ts:312-314: the listed creator is none that "a slug-colliding second
\* publisher can overwrite".
DocFirstWriter ==
  [][\A r \in index, s \in index' :
       s.creator \subseteq {Owner} \/ s.creator = r.creator]_marketVars

\* identity.ts:85-87: the agent id goes "into BOTH the on-chain ResourceRegistry
\* and the agent card, from a single tokenId so the two can never diverge".
DocIdentity ==
  (card # {} /\ chain.agent # Placeholder
     /\ \A p \in Publishes : publish[p].pc \in Ended)
  => card = {chain.agent}

\* takedown.ts:51-53: "a resource is never left listed-but-killed": once the
\* takedown is done, and nothing is published after it began, it is not listed.
DocTakedown ==
  [][takedown = "done" => \A s \in index' : s.active => s \in index]_marketVars
=============================================================================
