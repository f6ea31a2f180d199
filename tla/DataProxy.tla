----------------------------- MODULE DataProxy -----------------------------
(***************************************************************************)
(* POST /proxy of the egress proxy, for the containers of one resource: a  *)
(* request passes the quota counter, two looks at what its upstream's name *)
(* resolves to, and is then forwarded over a connection pinned to the      *)
(* addresses of the second look.  Requests overlap, the counter store may  *)
(* throw, and the name is answered for by a DNS the proxy does not control.*)
(***************************************************************************)
EXTENDS Naturals, FiniteSets

CONSTANTS Requests, Listed,         \* the requests; those that pass the checks
                                    \* of token and allowlist
          Credentialed,             \* whose resource has a credential, for the
                                    \* host that is asked for
          Large,                    \* requests over MAX_REQUEST_BYTES
          Addresses, Blocked,       \* what the name may resolve to
          CallBudget, ByteBudget,   \* quotaBudget
          ResponseBytes             \* sizes of an answer

ASSUME DataProxyAssumption ==
  /\ IsFiniteSet(Requests) /\ Listed \subseteq Requests
  /\ Credentialed \subseteq Requests /\ Large \subseteq Requests
  /\ Blocked \subseteq Addresses /\ Blocked # Addresses
  /\ CallBudget \in Nat /\ ByteBudget \in Nat /\ ResponseBytes \subseteq Nat

VARIABLES dns,                      \* the addresses the name resolves to now
          usage,                    \* the resource's counters
          egress,                   \* request -> position
          vetted,                   \* request -> the addresses it may connect to
          connected                 \* request -> where it connected, as a set

proxyVars == <<dns, usage, egress, vetted, connected>>

DataProxyInit ==
  /\ dns \in (SUBSET Addresses) \ {{}}
  /\ usage = [calls |-> 0, bytes |-> 0]
  /\ egress = [r \in Requests |-> "idle"]
  /\ vetted = [r \in Requests |-> {}]
  /\ connected = [r \in Requests |-> {}]

EgressMoves(r, from, to) == egress[r] = from /\ egress' = [egress EXCEPT ![r] = to]

Increment(calls, bytes) ==
  usage' = [calls |-> usage.calls + calls, bytes |-> usage.bytes + bytes]

OverQuota == usage'.calls > CallBudget \/ usage'.bytes > ByteBudget

VerifyToken(r) ==
  /\ IF r \in Listed THEN EgressMoves(r, "idle", "counting")
                     ELSE EgressMoves(r, "idle", "refused")
  /\ UNCHANGED <<dns, usage, vetted, connected>>

CountCallFailOpen(r) ==
  /\ Increment(1, 1)
  /\ EgressMoves(r, "counting", IF OverQuota THEN "refused" ELSE "resolving")
     \/ EgressMoves(r, "counting", "resolving")
  /\ UNCHANGED <<dns, vetted, connected>>

\* A store that throws, before or after it counted the call, denies it as well.
CountCall(r) ==
  /\ \/ /\ Increment(1, 1)
        /\ EgressMoves(r, "counting", IF OverQuota THEN "refused" ELSE "resolving")
     \/ /\ Increment(1, 1) \/ UNCHANGED usage
        /\ EgressMoves(r, "counting", "refused")
  /\ UNCHANGED <<dns, vetted, connected>>

\* Every address the name resolves to has to be acceptable.
NameIsSafe == dns \cap Blocked = {}

\* A call that was counted is refused without a credential, or for its host.
Resolve(r) ==
  /\ EgressMoves(r, "resolving",
       IF r \in Credentialed /\ NameIsSafe THEN "reading" ELSE "refused")
  /\ UNCHANGED <<dns, usage, vetted, connected>>

ReadBody(r) ==
  /\ EgressMoves(r, "reading", IF r \in Large THEN "refused" ELSE "rechecking")
  /\ UNCHANGED <<dns, usage, vetted, connected>>

Recheck(r) ==
  /\ EgressMoves(r, "rechecking", IF NameIsSafe THEN "pinning" ELSE "refused")
  /\ vetted' = [vetted EXCEPT ![r] = IF NameIsSafe THEN dns ELSE {}]
  /\ UNCHANGED <<dns, usage, connected>>

PinToCurrent(r) == dns

\* The addresses the dispatcher's lookup returns.
PinTo(r) == vetted[r]

\* fetch, over the dispatcher, or without one where none could be built.
Forward(r) ==
  /\ \/ /\ EgressMoves(r, "pinning", "forwarded")
        /\ \E a \in PinTo(r) : connected' = [connected EXCEPT ![r] = {a}]
     \/ /\ EgressMoves(r, "pinning", "unpinned")
        /\ \E a \in dns : connected' = [connected EXCEPT ![r] = {a}]
  /\ UNCHANGED <<dns, usage, vetted>>

\* The deadline is disarmed once the headers are in: the body may take forever.
HeadersArrive(r) ==
  /\ \/ EgressMoves(r, "forwarded", "receiving")
     \/ EgressMoves(r, "unpinned", "receiving")
  /\ UNCHANGED <<dns, usage, vetted, connected>>

ForwardFails(r) ==
  /\ \/ EgressMoves(r, "forwarded", "failed")       \* aborted, or unreachable
     \/ EgressMoves(r, "unpinned", "failed")
     \/ EgressMoves(r, "receiving", "failed")       \* too large, or cut off
  /\ UNCHANGED <<dns, usage, vetted, connected>>

\* The body is in; its bytes are counted if the store is there.
MeterAndRelay(r) ==
  /\ EgressMoves(r, "receiving", "relayed")
  /\ \/ \E bytes \in ResponseBytes : Increment(0, bytes)
     \/ UNCHANGED usage
  /\ UNCHANGED <<dns, vetted, connected>>

DnsChanges ==
  /\ dns' \in (SUBSET Addresses) \ {{}}
  /\ dns' # dns
  /\ \E r \in Requests : egress[r] \in {"idle", "counting", "resolving", "reading",
                                        "rechecking", "pinning"}
  /\ UNCHANGED <<usage, egress, vetted, connected>>

DataProxyNext ==
  \/ \E r \in Requests :
       \/ VerifyToken(r) \/ CountCall(r) \/ Resolve(r) \/ ReadBody(r) \/ Recheck(r)
       \/ Forward(r) \/ HeadersArrive(r) \/ ForwardFails(r) \/ MeterAndRelay(r)
  \/ DnsChanges

DataProxySpec == DataProxyInit /\ [][DataProxyNext]_proxyVars

-----------------------------------------------------------------------------
DataProxyTypeOK ==
  /\ dns \subseteq Addresses /\ usage \in [calls : Nat, bytes : Nat]
  /\ egress \in [Requests -> {"idle", "counting", "resolving", "reading", "rechecking",
        "pinning", "forwarded", "unpinned", "receiving", "relayed", "failed", "refused"}]
  /\ vetted \in [Requests -> SUBSET Addresses]
  /\ connected \in [Requests -> SUBSET Addresses]

\* However requests overlap and the store fails, no more of them connect upstream
\* than the call budget of the resource allows (proxy.ts:214-240).
QuotaHolds == Cardinality({r \in Requests : connected[r] # {}}) <= CallBudget

\* A name that changes its answer between the looks and the connection cannot move
\* a pinned connection to a blocked address (proxy.ts:296-320).
ConnectsToChecked ==
  \A r \in Requests :
    egress[r] = "forwarded" => connected[r] \cap Blocked = {}
=============================================================================
