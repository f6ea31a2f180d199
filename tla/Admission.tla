----------------------------- MODULE Admission -----------------------------
(***************************************************************************)
(* What the studio lets in: fixed-window limiters in front of its public   *)
(* pages and of resource creation, and the memo of marketplace listings    *)
(* that the admitted pages read.  A request is admitted when every window  *)
(* it falls under has room, and only then counted, in all of them at once. *)
(* Denied, it changes nothing, so it is no step.                           *)
(*                                                                         *)
(* A window counts per key (an address, a creator, or one key for all); it *)
(* tracks at most MaxKeys keys, and forgets the oldest for a new one.  The *)
(* memo holds promises: a second page joins a read that is under way.      *)
(***************************************************************************)
EXTENDS Naturals, FiniteSets, Sequences

CONSTANTS Visitors, Criteria, Windows,
          LimitOf, LengthOf, KeyOf,  \* per window: a limit, a length, visitor -> key
          BrowseWindows,             \* the others gate creation
          MaxKeys, MaxMemo, MemoTtl,
          MaxNow, MaxPages, MaxCreates  \* bounds

ASSUME AdmissionAssumption ==
  /\ BrowseWindows \subseteq Windows
  /\ LimitOf \in [Windows -> Nat \ {0}] /\ LengthOf \in [Windows -> Nat \ {0}]
  /\ {MaxKeys, MaxMemo, MemoTtl} \subseteq Nat \ {0}
  /\ {MaxNow, MaxPages, MaxCreates} \subseteq Nat

VARIABLES time,
          counters,    \* window -> key -> start and count, of the keys it tracks
          evicted,    \* history: window -> keys it forgot for another
          admitted,   \* history: window -> key -> when it was admitted, in order
          listing,    \* the listings' version, creations under way, the version
                      \* that readers are promised
          memo,       \* criteria -> the read it holds, and its place in the order
                      \* of the map: the read that took it first
          reads,      \* the reads made: when, from which version on, the outcome
          visitor     \* visitor -> the read it waits for, the version promised

admissionVars == <<time, counters, evicted, admitted, listing, memo, reads, visitor>>

KeysOf(w) == {KeyOf[w][v] : v \in Visitors}

AdmissionInit ==
  /\ time = 0
  /\ counters = [w \in Windows |-> <<>>]
  /\ evicted = [w \in Windows |-> {}]
  /\ admitted = [w \in Windows |-> [k \in KeysOf(w) |-> <<>>]]
  /\ listing = [version |-> 0, creates |-> 0, creating |-> 0, publishing |-> 0, promised |-> 0]
  /\ memo = <<>> /\ reads = <<>>
  /\ visitor = [v \in Visitors |-> [read |-> 0, promised |-> 0]]

-----------------------------------------------------------------------------
\* FixedWindowLimiter
Expired(w, entry) == time - entry.start >= LengthOf[w]

Live(w) == {k \in DOMAIN counters[w] : ~Expired(w, counters[w][k])}

Peek(w, k) == k \in Live(w) => counters[w][k].count < LimitOf[w]

\* What a commit evicts: the expired keys make room, and if that is not enough
\* one of those that started first.
Evictions(w, k) ==
  IF k \in Live(w) \/ Cardinality(Live(w)) < MaxKeys THEN {{}}
  ELSE {{o} : o \in {p \in Live(w) : \A q \in Live(w) :
                                       counters[w][p].start <= counters[w][q].start}}

Counted(w, k, lost) ==
  [q \in (Live(w) \ lost) \cup {k} |->
     IF q # k THEN counters[w][q]
     ELSE [start |-> IF k \in Live(w) THEN counters[w][k].start ELSE time,
           count |-> IF k \in Live(w) THEN counters[w][k].count + 1 ELSE 1]]

\* Every window has room: commit to all of them.
Admit(ws, v) ==
  /\ \A w \in ws : Peek(w, KeyOf[w][v])
  /\ \E lost \in [ws -> SUBSET UNION {KeysOf(w) : w \in ws}] :
       /\ \A w \in ws : lost[w] \in Evictions(w, KeyOf[w][v])
       /\ counters' = [w \in Windows |-> IF w \in ws THEN Counted(w, KeyOf[w][v], lost[w])
                                                       ELSE counters[w]]
       /\ evicted' = [w \in Windows |-> evicted[w] \cup (IF w \in ws THEN lost[w] ELSE {})]
  /\ admitted' = [w \in Windows |-> IF w \in ws
                     THEN [admitted[w] EXCEPT ![KeyOf[w][v]] = Append(@, time)]
                     ELSE admitted[w]]

-----------------------------------------------------------------------------
\* memoListMarketplace
Fresh(c) == time - reads[memo[c].read].at < MemoTtl

\* Full, the memo drops what is stale, and if nothing is its first entry.
Room ==
  LET size == Cardinality(DOMAIN memo)
      kept == {c \in DOMAIN memo : Fresh(c)}
      first == {c \in kept : \A d \in kept : memo[c].place <= memo[d].place}
  IN CASE size < MaxMemo -> DOMAIN memo
       [] size >= MaxMemo /\ Cardinality(kept) < MaxMemo -> kept
       [] OTHER -> kept \ first

\* A key that is set again keeps its place.
Remember(kept, c, read) ==
  [d \in kept \cup {c} |->
     IF d # c THEN memo[d]
     ELSE [read |-> read, place |-> IF c \in kept THEN memo[c].place ELSE read]]

Forgets(lost) == memo' = [c \in DOMAIN memo \ lost |-> memo[c]]

\* A page of a visitor with no page under way: admitted, it joins the read the
\* memo holds while that is fresh, or starts one.
Browse(v) ==
  /\ visitor[v].read = 0
  /\ Admit(BrowseWindows, v)
  /\ \E c \in Criteria :
       IF c \in DOMAIN memo /\ Fresh(c)
       THEN /\ visitor' = [visitor EXCEPT ![v] =
                 [read |-> memo[c].read, promised |-> listing.promised]]
            /\ UNCHANGED <<memo, reads>>
       ELSE /\ Len(reads) < MaxPages
            /\ reads' = Append(reads, [at |-> time, from |-> listing.version,
                                       state |-> "pending", value |-> 0])
            /\ memo' = Remember(Room, c, Len(reads) + 1)
            /\ visitor' = [visitor EXCEPT ![v] =
                 [read |-> Len(reads) + 1, promised |-> listing.promised]]
  /\ UNCHANGED <<time, listing>>

\* The marketplace answers with a version it had while it was asked.
ListingRead(r) ==
  /\ reads[r].state = "pending"
  /\ \E version \in reads[r].from .. listing.version :
       reads' = [reads EXCEPT ![r].state = "ok", ![r].value = version]
  /\ UNCHANGED <<time, counters, evicted, admitted, listing, memo, visitor>>

\* A failed read is forgotten, unless another took its place already.
ListFails(r) ==
  /\ reads[r].state = "pending"
  /\ reads' = [reads EXCEPT ![r].state = "failed"]
  /\ Forgets({c \in DOMAIN memo : memo[c].read = r})
  /\ UNCHANGED <<time, counters, evicted, admitted, listing, visitor>>

\* The page is shown, or its error.
Shown(v) ==
  /\ visitor[v].read # 0 /\ reads[visitor[v].read].state # "pending"
  /\ visitor' = [visitor EXCEPT ![v].read = 0]
  /\ UNCHANGED <<time, counters, evicted, admitted, listing, memo, reads>>

-----------------------------------------------------------------------------
\* CreateGate.check in front of a build that will publish.
Create(v) ==
  /\ listing.creates < MaxCreates
  /\ Admit(Windows \ BrowseWindows, v)
  /\ listing' = [listing EXCEPT !.creates = @ + 1, !.creating = @ + 1]
  /\ UNCHANGED <<time, memo, reads, visitor>>

\* The marketplace has the listing before its answer reaches the studio.
Publish ==
  /\ listing.creating > 0
  /\ listing' = [listing EXCEPT !.version = @ + 1, !.creating = @ - 1, !.publishing = @ + 1]
  /\ UNCHANGED <<time, counters, evicted, admitted, memo, reads, visitor>>

\* invalidateListMemo, after the answer or the error of the publish.
Invalidate ==
  /\ listing.publishing > 0
  /\ Forgets(DOMAIN memo)
  /\ listing' = [listing EXCEPT !.publishing = @ - 1,
                   !.promised = listing.version - (listing.publishing - 1)]
  /\ UNCHANGED <<time, counters, evicted, admitted, reads, visitor>>

\* A failed build clears the memo as well.
BuildFails ==
  /\ listing.creating > 0
  /\ Forgets(DOMAIN memo)
  /\ listing' = [listing EXCEPT !.creating = @ - 1]
  /\ UNCHANGED <<time, counters, evicted, admitted, reads, visitor>>

Pass ==
  /\ time < MaxNow
  /\ time' = time + 1
  /\ UNCHANGED <<counters, evicted, admitted, listing, memo, reads, visitor>>

AdmissionNext ==
  \/ \E v \in Visitors : Browse(v) \/ Shown(v) \/ Create(v)
  \/ \E r \in DOMAIN reads : ListingRead(r) \/ ListFails(r)
  \/ Publish \/ Invalidate \/ BuildFails \/ Pass

-----------------------------------------------------------------------------
AdmissionTypeOK ==
  /\ time \in 0 .. MaxNow
  /\ \A w \in Windows :
       /\ DOMAIN counters[w] \subseteq KeysOf(w) /\ Cardinality(DOMAIN counters[w]) <= MaxKeys
       /\ \A k \in DOMAIN counters[w] :
            counters[w][k].start \in 0 .. time /\ counters[w][k].count \in 1 .. LimitOf[w]
  /\ DOMAIN memo \subseteq Criteria /\ Cardinality(DOMAIN memo) <= MaxMemo
  /\ \A v \in Visitors : visitor[v].read \in 0 .. Len(reads)

\* A key that no window forgot is admitted at most twice its limit in any span
\* of a window's length; where one key stands for everybody that is a ceiling,
\* whatever addresses the requests come from (fixed-window.server.ts:64-72).
AdmissionCeiling ==
  \A w \in Windows : \A k \in KeysOf(w) \ evicted[w] :
    \A i \in DOMAIN admitted[w][k] :
      i > 2 * LimitOf[w] =>
        admitted[w][k][i] - admitted[w][k][i - 2 * LimitOf[w]] >= LengthOf[w]

\* A listing shows on the first page asked for after its publish returned: the
\* memo joins a page to no read that may have missed it
\* (browse.server.ts:144-153, live.ts:470-479).
ListedIsSeen ==
  \A v \in Visitors : LET r == visitor[v].read IN
    r # 0 => /\ r \in 1 .. Len(reads)
             /\ reads[r].state = "ok" => reads[r].value >= visitor[v].promised
=============================================================================
