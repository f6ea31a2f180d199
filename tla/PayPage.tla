------------------------------ MODULE PayPage ------------------------------
(***************************************************************************)
(* Those who pay for one call of a resource: the playground of its page,   *)
(* with a wallet that signs a fresh nonce per click; a caller of the same  *)
(* hook that retries what it recorded; and the test runner, which takes the*)
(* cap and the recipient from the agent card it has checked.               *)
(*                                                                         *)
(* The gate and the facilitator behind it charge a nonce at most once, up  *)
(* to its cap, and answer 200 only for a charge; any other answer says     *)
(* nothing, since it may be the settlement's answer that was lost, and a   *)
(* charge may still follow.  A wallet that refuses leaves everything as it *)
(* was: no step.                                                           *)
(***************************************************************************)
EXTENDS Naturals, FiniteSets

CONSTANTS Payers, KindOf,      \* payer -> page, caller or runner
          Bound,               \* the runners that were told the resource
          Nonces, MaxCap,
          MaxIntents           \* bound: calls a payer asks for

ASSUME PayPageAssumption ==
  /\ KindOf \in [Payers -> {"page", "caller", "runner"}]
  /\ Bound \subseteq Payers /\ MaxCap \in Nat \ {0} /\ MaxIntents \in Nat

VARIABLES payer,   \* payer -> position, the quote, the nonce, what it was shown
          auth     \* the authorizations signed: whose, for what, charged how much

payVars == <<payer, auth>>

Recipients == {"asked", "other"}

PayPageInit ==
  /\ payer = [p \in Payers |-> [pc |-> "idle", cap |-> 0, to |-> "asked",
                                nonce |-> {}, intents |-> 0, shown |-> 0]]
  /\ auth = [n \in {} |-> 0]

To(p, pc) == payer' = [payer EXCEPT ![p].pc = pc]

\* The runner fetches the card and pins it: a card that is invalid, names another
\* escrow or token, prices nothing, or pays another resource than the one it was
\* told ends the run before anything is signed.
Discover(p) ==
  /\ KindOf[p] = "runner" /\ payer[p].pc = "idle"
  /\ \/ To(p, "failed")
     \/ \E cap \in 1 .. MaxCap : \E to \in Recipients :
          /\ p \in Bound => to = "asked"
          /\ payer' = [payer EXCEPT ![p].pc = "asking", ![p].cap = cap, ![p].to = to]
  /\ UNCHANGED auth

\* The page's Run button, or a caller: a call without payment.  A new one
\* forgets the nonce of the one before.
Run(p) ==
  /\ KindOf[p] # "runner" /\ payer[p].pc \in {"idle", "done", "quoted"}
  /\ payer[p].intents < MaxIntents
  /\ payer' = [payer EXCEPT ![p].pc = "asking", ![p].intents = @ + 1, ![p].nonce = {},
                 ![p].shown = 0]
  /\ UNCHANGED auth

\* 402 with a quote: the page takes cap and recipient from it, the runner keeps
\* the card's.  Any other answer ends the call unpaid.
Quoted(p) ==
  /\ payer[p].pc = "asking"
  /\ \/ To(p, IF KindOf[p] = "runner" THEN "failed" ELSE "done")
     \/ KindOf[p] = "runner" /\ To(p, "quoted")
     \/ /\ KindOf[p] # "runner"
        /\ \E cap \in 0 .. MaxCap : payer' = [payer EXCEPT ![p].pc = "quoted", ![p].cap = cap]
  /\ UNCHANGED auth

\* Sign a nonce nobody used and submit it.  A cap that is not positive is not
\* signed.
Pay(p) ==
  /\ payer[p].pc = "quoted" /\ payer[p].cap > 0
  /\ KindOf[p] = "caller" => payer[p].nonce = {}
  /\ LET fresh == Nonces \ DOMAIN auth IN
     /\ fresh # {}
     /\ LET n == CHOOSE m \in fresh : TRUE IN
        /\ auth' = [m \in DOMAIN auth \cup {n} |->
                      IF m \in DOMAIN auth THEN auth[m]
                      ELSE [by |-> p, call |-> payer[p].intents, cap |-> payer[p].cap,
                            to |-> payer[p].to, charged |-> 0]]
        /\ payer' = [payer EXCEPT ![p].pc = "sent", ![p].nonce = {n}]

\* The hook's retry: the recorded header again, never a new signature.
Retry(p) ==
  /\ KindOf[p] = "caller" /\ payer[p].pc = "quoted" /\ payer[p].nonce # {}
  /\ To(p, "sent")
  /\ UNCHANGED auth

\* The facilitator charges a header it got, now or later.
ChargeNonce(n) ==
  /\ auth[n].charged = 0
  /\ \E amount \in 1 .. auth[n].cap : auth' = [auth EXCEPT ![n].charged = amount]
  /\ UNCHANGED payer

\* 200 with the receipt of the charge, or without one.
Paid(p) ==
  /\ payer[p].pc = "sent"
  /\ \E n \in payer[p].nonce :
       /\ auth[n].charged > 0
       /\ \E shown \in {0, auth[n].charged} :
            payer' = [payer EXCEPT ![p].pc = "done", ![p].shown = shown]
  /\ UNCHANGED auth

\* Any other answer, or none: the page keeps its paywall up, the runner ends.
NotPaid(p) ==
  /\ payer[p].pc = "sent"
  /\ To(p, IF KindOf[p] = "runner" THEN "failed" ELSE "quoted")
  /\ UNCHANGED auth

PayPageNext ==
  \/ \E p \in Payers : \/ Discover(p) \/ Run(p) \/ Quoted(p) \/ Pay(p)
                       \/ Retry(p) \/ Paid(p) \/ NotPaid(p)
  \/ \E n \in DOMAIN auth : ChargeNonce(n)

PayPageSpec == PayPageInit /\ [][PayPageNext]_payVars

-----------------------------------------------------------------------------
PayPageTypeOK ==
  /\ payer \in [Payers -> [pc : {"idle", "asking", "quoted", "sent", "done", "failed"},
                           cap : 0 .. MaxCap, to : Recipients, nonce : SUBSET Nonces,
                           intents : 0 .. MaxIntents, shown : 0 .. MaxCap]]
  /\ \A n \in DOMAIN auth :
       /\ n \in Nonces
       /\ auth[n] \in [by : Payers, call : 0 .. MaxIntents, cap : 1 .. MaxCap,
                       to : Recipients, charged : 0 .. MaxCap]

ChargesOf(p, call) == {n \in DOMAIN auth : auth[n].by = p /\ auth[n].call = call
                                           /\ auth[n].charged > 0}

\* Who retries what was recorded pays at most once for a call, and so does the
\* runner; a runner that was told the resource pays nobody else; and an amount
\* that is shown is the one charged (usePayPerCall.ts:261-286,
\* test-endpoint.ts:183-267 and :598-669).
PaysOnceWhereAsked ==
  \A p \in Payers :
    /\ KindOf[p] # "page" =>
         \A call \in 0 .. MaxIntents : Cardinality(ChargesOf(p, call)) <= 1
    /\ p \in Bound => \A n \in DOMAIN auth : auth[n].by = p => auth[n].to = "asked"
    /\ payer[p].shown > 0 => \A n \in payer[p].nonce : auth[n].charged = payer[p].shown

\* "Any non-200 ... means the call was NOT paid; rejecting keeps the paywall up
\* for a retry (the SAME header, never a re-sign)" (submit-payment.ts:134-136):
\* one call of the page's is charged once.  The page signs anew.
DocPaidOnce ==
  \A p \in Payers : \A call \in 0 .. MaxIntents : Cardinality(ChargesOf(p, call)) <= 1
=============================================================================
