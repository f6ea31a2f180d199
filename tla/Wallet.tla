------------------------------- MODULE Wallet -------------------------------
(***************************************************************************)
(* The forms of the studio by which a wallet moves its own money, and the  *)
(* buyer's SDK that funds an escrow balance.  A form asks the wallet to    *)
(* sign one transaction after another and waits for each receipt through a *)
(* hook that watches one hash at a time; when the last one is mined, the   *)
(* balances on the page are read again.  The wallet's owner may switch to  *)
(* another account at any time, and other parties debit the escrow, slash  *)
(* the bond or let time pass meanwhile.                                    *)
(*                                                                         *)
(* A behaviour is that of one surface: the wallet page, whose withdrawal   *)
(* form is also the earnings card of the dashboard, the bond panel of a    *)
(* resource, or the SDK.                                                   *)
(***************************************************************************)
EXTENDS Naturals, Sequences

CONSTANTS Wallets, BondOwner,     \* the accounts of the browser's wallet
          Fundings, NeededCap,    \* ensureDeposit calls, and what each wants
          Sums, StartUsdc,        \* amounts that are typed; tokens at the start
          MaxFlows, MaxSwitches, MaxElsewhere, MaxHour     \* bounds

ASSUME WalletAssumption ==
  /\ BondOwner \in Wallets /\ NeededCap \in Nat \ {0} /\ Sums \subseteq Nat \ {0}
  /\ StartUsdc \in Nat /\ MaxHour \in Nat \ {0}

VARIABLES surface, account,
          purse,     \* account -> its tokens, allowance to and balance in the escrow
          bond,       \* posted, and when it may leave (0: no request)
          hour,       \* block time
          sent,       \* transactions, in the order they were broadcast
          flow,       \* form -> status shown, position, steps left, amount, hash
          watch,      \* form -> hash watched, hash of the promise that waits
          modal,      \* form -> the amount it asks to confirm, as a set
          view,       \* view -> what the page shows
          underway,      \* reads under way
          epoch,      \* account switches and refreshes so far: a read's key
          panelHour,  \* the time the panel took at its last refresh
          funding,    \* call of the SDK -> position, shortfall
          spent       \* history: what the bounds count, and disturbances

walletVars == <<surface, account, purse, bond, hour, sent, flow, watch, modal,
                view, underway, epoch, panelHour, funding, spent>>
chainVars == <<purse, bond, hour>>
pageVars == <<flow, watch, modal, view, underway, epoch, panelHour>>

Forms == CASE surface = "wallet"    -> {"deposit", "withdraw"}
           [] surface = "panel"     -> {"request", "claim"}
           [] surface = "sdk"       -> {}
Views == CASE surface = "panel" -> {"bond"}
           [] surface = "sdk"   -> {}
           [] OTHER             -> {"escrow"}

\* The transactions of a form's flow.
Steps(f) == CASE f = "deposit" -> <<"approve", "deposit">>
              [] OTHER -> <<f>>

NoFlow == [status |-> "idle", pc |-> "none", ops |-> <<>>, amount |-> 0, hash |-> 0,
           lost |-> FALSE]
Unread(who) == [raw |-> {}, who |-> who, seen |-> {}, loading |-> TRUE]

\* What a read gets from the chain, and the transactions that were mined by then.
Settled == {i \in DOMAIN sent : sent[i].state # "sent"}
EscrowNow(a) == purse[a].escrow
BondNow == bond
Taken(v, who) == [value |-> IF v = "bond" THEN BondNow ELSE EscrowNow(who), seen |-> Settled]
ReadOf(v, who, e) == [view |-> v, who |-> who, epoch |-> e, first |-> Taken(v, who)]

WalletInit ==
  /\ surface \in {"wallet", "panel", "sdk"}
  /\ account = BondOwner
  /\ purse = [a \in Wallets |-> [usdc |-> StartUsdc, allowance |-> 0, escrow |-> 1]]
  /\ bond = [posted |-> TRUE, ends |-> 0] /\ hour = 1 /\ sent = <<>>
  /\ flow = [f \in Forms |-> NoFlow]
  /\ watch = [f \in Forms |-> [hash |-> 0, pending |-> 0]]
  /\ modal = [f \in Forms |-> {}]
  /\ view = [v \in Views |-> Unread(account)]
  /\ underway = {ReadOf(v, account, 0) : v \in Views}
  /\ epoch = 0 /\ panelHour = hour
  /\ funding = [c \in Fundings |-> [pc |-> "idle", short |-> 0]]
  /\ spent = [flows |-> 0, switches |-> 0, elsewhere |-> 0, overlapped |-> FALSE]

-----------------------------------------------------------------------------
(***************************************************************************)
(* The chain.  Transactions of an account are mined in the order of their  *)
(* nonces, which is the order in which they were broadcast.                *)
(***************************************************************************)
Broadcast(op, amount) ==
  sent' = Append(sent, [from |-> account, op |-> op, amount |-> amount, state |-> "sent"])

Accepts(tx) ==
  LET l == purse[tx.from] IN
  CASE tx.op = "approve"  -> TRUE
    [] tx.op = "deposit"  -> l.allowance >= tx.amount /\ l.usdc >= tx.amount
    [] tx.op = "withdraw" -> l.escrow >= tx.amount
    [] tx.op = "request"  -> tx.from = BondOwner
    [] tx.op = "claim"    -> /\ tx.from = BondOwner /\ bond.posted
                             /\ bond.ends # 0 /\ hour >= bond.ends

\* What an accepted transaction does: approve sets the allowance, a deposit
\* takes it and the tokens, a withdrawal returns them.
Executes(tx) ==
  /\ purse' = [purse EXCEPT ![tx.from] =
       CASE tx.op = "approve"  -> [@ EXCEPT !.allowance = tx.amount]
         [] tx.op = "deposit"  -> [usdc |-> @.usdc - tx.amount,
                                   allowance |-> @.allowance - tx.amount,
                                   escrow |-> @.escrow + tx.amount]
         [] tx.op = "withdraw" -> [usdc |-> @.usdc + tx.amount, allowance |-> @.allowance,
                                   escrow |-> @.escrow - tx.amount]
         [] OTHER -> @]
  /\ bond' = CASE tx.op = "request" -> [bond EXCEPT !.ends = hour + 1]
               [] tx.op = "claim"   -> [posted |-> FALSE, ends |-> 0]
               [] OTHER -> bond

MineNext(i) ==
  /\ sent[i].state = "sent"
  /\ \A j \in 1 .. i - 1 : sent[j].from = sent[i].from => j \in Settled
  /\ IF Accepts(sent[i])
     THEN /\ Executes(sent[i])
          /\ sent' = [sent EXCEPT ![i].state = "ok"]
     ELSE sent' = [sent EXCEPT ![i].state = "reverted"] /\ UNCHANGED <<purse, bond>>
  /\ UNCHANGED <<surface, account, hour, pageVars, funding, spent>>

\* A call is debited from an escrow balance, or the bond is slashed whole or
\* topped up, which forgets the request.
Elsewhere ==
  /\ spent.elsewhere < MaxElsewhere
  /\ \/ /\ \E a \in Wallets : /\ purse[a].escrow > 0
                              /\ purse' = [purse EXCEPT ![a].escrow = @ - 1]
        /\ UNCHANGED bond
     \/ /\ surface = "panel"
        /\ bond' \in {[bond EXCEPT !.posted = FALSE], [posted |-> TRUE, ends |-> 0]}
        /\ UNCHANGED purse
  /\ spent' = [spent EXCEPT !.elsewhere = @ + 1]
  /\ UNCHANGED <<surface, account, hour, sent, pageVars, funding>>

\* Only the panel looks at the time.
BlockTime ==
  /\ surface = "panel" /\ hour < MaxHour
  /\ hour' = hour + 1
  /\ UNCHANGED <<surface, account, purse, bond, sent, pageVars, funding, spent>>

-----------------------------------------------------------------------------
(***************************************************************************)
(* What the page shows.  A change of the account or of the refresh token   *)
(* cancels the reads under way and starts others; the page keeps the old   *)
(* value until they land.                                                  *)
(***************************************************************************)
Rekey(who) ==
  /\ epoch' = epoch + 1
  /\ view' = [v \in Views |-> [view[v] EXCEPT !.loading = TRUE]]
  /\ underway' = underway \cup {ReadOf(v, who, epoch + 1) : v \in Views}

\* The panel's bond is keyed by the resource, not by the account.
SwitchAccount(a) ==
  /\ a # account /\ spent.switches < MaxSwitches
  /\ account' = a
  /\ IF surface = "panel" THEN UNCHANGED <<view, underway, epoch>> ELSE Rekey(a)
  /\ spent' = [spent EXCEPT !.switches = @ + 1]
  /\ UNCHANGED <<surface, chainVars, sent, flow, watch, modal, panelHour, funding>>

\* The node answers a read as of its begin or as late as it lands.
Shows(r) ==
  \E g \in {r.first, Taken(r.view, r.who)} :
    view' = [view EXCEPT ![r.view] = [raw |-> {g.value}, who |-> r.who, seen |-> g.seen,
                                      loading |-> FALSE]]

\* A cancelled read shows nothing; one that fails takes the value away.
Lands(r) ==
  /\ underway' = underway \ {r}
  /\ IF r.epoch # epoch THEN UNCHANGED view
     ELSE \/ Shows(r)
          \/ view' = [view EXCEPT ![r.view] = [Unread(r.who) EXCEPT !.loading = FALSE]]

EarningsShown == \E r \in underway : r.view = "escrow" /\ Lands(r)
BondShown     == \E r \in underway : r.view = "bond" /\ Lands(r)

ViewMoves ==
  /\ EarningsShown \/ BondShown
  /\ UNCHANGED <<surface, account, chainVars, sent, flow, watch, modal, epoch,
                 panelHour, funding, spent>>

-----------------------------------------------------------------------------
(***************************************************************************)
(* The forms.                                                              *)
(***************************************************************************)
Confirming(f) == watch[f].hash # 0 /\ flow[f].pc = "mine"

Busy(f) == flow[f].pc = "sign" \/ Confirming(f) \/ flow[f].status = "busy"

\* The panel's two controls share one hook, and so one busy flag.
Free(f) == IF surface = "panel" THEN \A g \in Forms : ~Busy(g) ELSE ~Busy(f)

\* The state of the bond that the panel derives from its last read and the time
\* of its last refresh.
BondState ==
  IF view["bond"].raw = {} THEN "none"
  ELSE LET b == CHOOSE x \in view["bond"].raw : TRUE IN
       CASE ~b.posted -> "none"
         [] b.posted /\ b.ends = 0 -> "active"
         [] b.posted /\ b.ends # 0 /\ panelHour < b.ends -> "cooling-down"
         [] OTHER -> "withdrawable"

Starts(f, amount) ==
  /\ spent.flows < MaxFlows
  /\ spent' = [spent EXCEPT !.flows = @ + 1]
  /\ flow' = [flow EXCEPT ![f] = [NoFlow EXCEPT !.status = "busy", !.pc = "sign",
                                    !.ops = Steps(f), !.amount = amount]]

SubmitDeposit(amount) ==
  /\ "deposit" \in Forms /\ Free("deposit")
  /\ Starts("deposit", amount)
  /\ UNCHANGED <<surface, account, chainVars, sent, watch, modal, view, underway, epoch,
                 panelHour, funding>>

RequestWithdrawal ==
  /\ "request" \in Forms /\ Free("request")
  /\ account = BondOwner /\ BondState = "active"
  /\ Starts("request", 0)
  /\ UNCHANGED <<surface, account, chainVars, sent, watch, modal, view, underway, epoch,
                 panelHour, funding>>

\* Opening the confirmation resets the hook: idle, watching nothing.
Opens(f, amount) ==
  /\ Free(f) /\ modal[f] = {}
  /\ flow' = [flow EXCEPT ![f].status = "idle"]
  /\ watch' = [watch EXCEPT ![f].hash = 0]
  /\ modal' = [modal EXCEPT ![f] = {amount}]

\* An amount above the balance shown cannot be submitted.
OpenWithdraw(amount) ==
  /\ "withdraw" \in Forms
  /\ \E raw \in view["escrow"].raw : amount <= raw
  /\ Opens("withdraw", amount)
  /\ UNCHANGED <<surface, account, chainVars, sent, view, underway, epoch, panelHour,
                 funding, spent>>

OpenClaim ==
  /\ "claim" \in Forms
  /\ account = BondOwner /\ BondState = "withdrawable"
  /\ Opens("claim", 0)
  /\ UNCHANGED <<surface, account, chainVars, sent, view, underway, epoch, panelHour,
                 funding, spent>>

Cancel(f) ==
  /\ modal[f] # {}
  /\ modal' = [modal EXCEPT ![f] = {}]
  /\ UNCHANGED <<surface, account, chainVars, sent, flow, watch, view, underway, epoch,
                 panelHour, funding, spent>>

Confirm(f) ==
  /\ \E amount \in modal[f] : Starts(f, amount)
  /\ modal' = [modal EXCEPT ![f] = {}]
  /\ UNCHANGED <<surface, account, chainVars, sent, watch, view, underway, epoch,
                 panelHour, funding>>

-----------------------------------------------------------------------------
(***************************************************************************)
(* A flow.                                                                 *)
(***************************************************************************)
\* The connected account, whichever it is by now, signs the next transaction;
\* the hook is pointed at its hash and the flow waits.
SignNext(f) ==
  /\ flow[f].pc = "sign"
  /\ Broadcast(Head(flow[f].ops), flow[f].amount)
  /\ flow' = [flow EXCEPT ![f].pc = "mine", ![f].hash = Len(sent) + 1]
  /\ watch' = [watch EXCEPT ![f] = [hash |-> Len(sent) + 1, pending |-> Len(sent) + 1]]
  /\ UNCHANGED <<surface, account, chainVars, modal, view, underway, epoch, panelHour,
                 funding, spent>>

Fails(f, lost) ==
  /\ flow' = [flow EXCEPT ![f].status = "error", ![f].pc = "none", ![f].lost = lost]
  /\ UNCHANGED <<surface, account, chainVars, sent, modal, view, underway, epoch,
                 panelHour, funding, spent>>

\* The owner refuses, or the wallet finds that the call would revert.
Refuse(f) ==
  /\ flow[f].pc = "sign"
  /\ Fails(f, FALSE)
  /\ UNCHANGED watch

\* The effect that settles the promise waiting for the hash it watches.
Watches(f) == watch[f].pending # 0 /\ watch[f].pending = watch[f].hash
Answered(f) == watch' = [watch EXCEPT ![f].pending = 0]

ReceiptRejects(f) ==
  /\ Watches(f) /\ sent[watch[f].hash].state = "reverted"
  /\ Answered(f) /\ Fails(f, FALSE)

\* The node fails to give the receipt, whatever became of the transaction.
ReceiptLost(f) ==
  /\ Watches(f)
  /\ Answered(f) /\ Fails(f, TRUE)

ReceiptOk(f) == Watches(f) /\ sent[watch[f].hash].state = "ok"

\* The next transaction, or the end, which refreshes what the page shows.
Confirmed(f) ==
  /\ ReceiptOk(f) /\ Answered(f)
  /\ IF Len(flow[f].ops) > 1
     THEN /\ flow' = [flow EXCEPT ![f].pc = "sign", ![f].ops = Tail(@)]
          /\ UNCHANGED <<view, underway, epoch, panelHour>>
     ELSE /\ flow' = [flow EXCEPT ![f].pc = "none", ![f].status = "done"]
          /\ Rekey(account) /\ panelHour' = hour
  /\ UNCHANGED <<surface, account, chainVars, sent, modal, funding, spent>>

-----------------------------------------------------------------------------
(***************************************************************************)
(* ensureDeposit of the SDK: read the balance, top up the shortfall, and   *)
(* approve first if the allowance is short.  It waits for no receipt.      *)
(***************************************************************************)
Funds(c, pc, short) == funding' = [funding EXCEPT ![c] = [pc |-> pc, short |-> short]]

Working == \E c \in Fundings : funding[c].pc \in {"short", "approve", "deposit"}

ReadBalance(c) ==
  /\ surface = "sdk" /\ funding[c].pc = "idle"
  /\ IF purse[account].escrow >= NeededCap THEN Funds(c, "done", 0)
     ELSE Funds(c, "short", NeededCap - purse[account].escrow)
  /\ spent' = [spent EXCEPT !.overlapped = @ \/ Working \/ Settled # DOMAIN sent]
  /\ UNCHANGED <<surface, account, chainVars, sent, pageVars>>

ReadAllowance(c) ==
  /\ funding[c].pc = "short"
  /\ Funds(c, IF purse[account].allowance < funding[c].short THEN "approve" ELSE "deposit",
           funding[c].short)
  /\ UNCHANGED <<surface, account, chainVars, sent, pageVars, spent>>

\* Either write may throw, and the call with it.
SubmitFunding(c) ==
  /\ funding[c].pc \in {"approve", "deposit"}
  /\ \/ /\ Broadcast(funding[c].pc, funding[c].short)
        /\ Funds(c, IF funding[c].pc = "approve" THEN "deposit" ELSE "done", funding[c].short)
     \/ Funds(c, "threw", 0) /\ UNCHANGED sent
  /\ UNCHANGED <<surface, account, chainVars, pageVars, spent>>

-----------------------------------------------------------------------------
WalletNext ==
  \/ \E i \in DOMAIN sent : MineNext(i)
  \/ Elsewhere \/ BlockTime
  \/ \E a \in Wallets : surface # "sdk" /\ SwitchAccount(a)
  \/ ViewMoves
  \/ \E amount \in Sums : SubmitDeposit(amount) \/ OpenWithdraw(amount)
  \/ RequestWithdrawal \/ OpenClaim
  \/ \E f \in Forms : \/ Cancel(f) \/ Confirm(f) \/ SignNext(f) \/ Refuse(f)
                      \/ ReceiptRejects(f) \/ ReceiptLost(f) \/ Confirmed(f)
  \/ \E c \in Fundings : ReadBalance(c) \/ ReadAllowance(c) \/ SubmitFunding(c)

WalletSpec == WalletInit /\ [][WalletNext]_walletVars

-----------------------------------------------------------------------------
WalletTypeOK ==
  /\ account \in Wallets /\ hour \in 1 .. MaxHour
  /\ \A a \in Wallets : purse[a] \in [usdc : Nat, allowance : Nat, escrow : Nat]
  /\ \A f \in Forms :
       /\ flow[f].status \in {"idle", "busy", "done", "error"}
       /\ flow[f].pc \in {"none", "sign", "mine"}
       /\ flow[f].hash \in 0 .. Len(sent) /\ watch[f].pending \in 0 .. Len(sent)
  /\ \A r \in underway : r.view \in Views /\ r.who \in Wallets /\ r.epoch <= epoch

\* A value that is not being read again is the connected account's, taken after
\* every transaction that a form reports done (useAccruedEarnings.ts:72-91,
\* wallet.tsx:126-137).
ShownIsCurrent ==
  \A v \in Views : ~view[v].loading /\ view[v].raw # {} =>
    /\ v = "escrow" => view[v].who = account
    /\ \A f \in Forms : flow[f].status = "done" => flow[f].hash \in view[v].seen

\* No flow waits for a receipt that the hook no longer watches
\* (useReceiptWait.ts:46-69).
NobodyWaitsInVain ==
  \A f \in Forms : flow[f].pc = "mine" =>
    watch[f].hash = flow[f].hash /\ watch[f].pending = flow[f].hash

\* Done means that the form's money moved as typed; an error that is not a lost
\* receipt means that it did not (useDeposit.ts:92-120).
ReportsTruth ==
  \A f \in Forms : LET last == Steps(f)[Len(Steps(f))] IN
    /\ flow[f].status = "done" =>
         LET tx == sent[flow[f].hash] IN
         tx.state = "ok" /\ tx.op = last /\ tx.amount = flow[f].amount
    /\ flow[f].status = "error" /\ ~flow[f].lost /\ flow[f].hash # 0 =>
         LET tx == sent[flow[f].hash] IN tx.op = last => tx.state = "reverted"

\* The panel never lets the owner claim too early: what is claimed reverts only
\* when the bond was changed elsewhere or its request was repeated
\* (BondReclaimPanel.tsx:70-86).
ClaimsAreDue ==
  surface = "panel" /\ spent.elsewhere = 0 =>
    \A i \in DOMAIN sent :
      /\ sent[i].op = "claim" /\ sent[i].state = "reverted"
      => \/ sent[i].from # BondOwner
         \/ \E j \in DOMAIN sent : j # i /\ sent[j].op = "claim"
         \/ \E j, k \in DOMAIN sent : j # k /\ {sent[j].op, sent[k].op} = {"request"}

\* Calls that begin with nothing under way leave no more than the cap in escrow
\* (deposit.ts:98-180).
FundedOnce ==
  surface = "sdk" /\ ~spent.overlapped => purse[account].escrow <= NeededCap

WalletOK ==
  ShownIsCurrent /\ NobodyWaitsInVain /\ ReportsTruth /\ ClaimsAreDue /\ FundedOnce

\* "depositing the shortfall ONCE (not per call)" (deposit.ts:92-93): whatever
\* the calls, they leave no more than the cap.  No receipt is waited for, so a
\* call that follows at once deposits the shortfall again.
DocDepositOnce == surface = "sdk" => purse[account].escrow <= NeededCap
=============================================================================
