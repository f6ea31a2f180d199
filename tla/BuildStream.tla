---------------------------- MODULE BuildStream ----------------------------
(***************************************************************************)
(* The studio's build pipeline and the channel that carries its stages to  *)
(* the pages that watch it.  createResource takes a build slot, returns,   *)
(* and runs generate, index, deploy and publish in the background, emitting *)
(* into the stream of its resource; readers connected over SSE share that  *)
(* stream, and each takes its events out of one buffer.                    *)
(*                                                                         *)
(* The streams are capped: one may be evicted to make room, and an emit    *)
(* that finds no room is dropped.  A reader is woken by what is emitted to *)
(* the stream it is attached to, so it matters that this is the mapped one.*)
(* Everything here is one Node process: an action ends at an await.        *)
(***************************************************************************)
EXTENDS Naturals, Sequences, FiniteSets

CONSTANTS Builds, BuildOf,          \* create calls, and the resource of each
          Readers, ReaderOf,        \* SSE connections, and what each watches
          MaxStreams, MaxBuilds,    \* the channel's cap, the slot pool's
          MaxReaders                \* SSE_MAX_CONCURRENT_GLOBAL

ASSUME BuildStreamAssumption ==
  /\ IsFiniteSet(Builds) /\ IsFiniteSet(Readers)
  /\ MaxStreams \in Nat \ {0} /\ MaxBuilds \in Nat /\ MaxReaders \in Nat

Watched == {BuildOf[b] : b \in Builds} \union {ReaderOf[r] : r \in Readers}

VARIABLES streams,                  \* the map from a resource to its stream
          build,                    \* create call -> position, holds a slot
          reader,                   \* connection -> position, its stream, ...
          inFlight, openStreams     \* the two admission counters

streamVars == <<streams, build, reader, inFlight, openStreams>>

NewStream == [buffer |-> <<>>, done |-> FALSE, subscribers |-> 0,
              everEmitted |-> FALSE, expired |-> FALSE]

BuildStreamInit ==
  /\ streams = <<>>
  /\ build = [b \in Builds |-> [pc |-> "idle", slot |-> FALSE]]
  /\ reader = [r \in Readers |-> [pc |-> "idle", attached |-> FALSE, aborted |-> FALSE,
                                  slot |-> FALSE, sawGenerate |-> FALSE]]
  /\ inFlight = 0 /\ openStreams = 0

(***************************************************************************)
(* The channel.  Evictable says which streams the lazy sweep drops.        *)
(***************************************************************************)
EvictableWhileRead(s) == s.done /\ s.expired

Evictable(s) == s.subscribers = 0 /\ s.done /\ s.expired

Without(ss, ids) == [id \in DOMAIN ss \ ids |-> ss[id]]

Swept == Without(streams, {id \in DOMAIN streams : Evictable(streams[id])})

WithNew(ss, id) ==
  [o \in DOMAIN ss \cup {id} |-> IF o = id THEN NewStream ELSE ss[o]]

\* streamFor: the maps it may leave; none when it is at capacity.  The code
\* evicts the oldest stream without a reader, the model any of them.
StreamFor(id) ==
  IF id \in DOMAIN Swept THEN {Swept}
  ELSE IF Cardinality(DOMAIN Swept) < MaxStreams THEN {WithNew(Swept, id)}
  ELSE {WithNew(Without(Swept, {victim}), id) : victim \in
          {other \in DOMAIN Swept : Swept[other].subscribers = 0}}

\* The readers once the map is ss: one parked on the stream that was accessed
\* wakes, one whose stream left the map is attached to nothing any more.
StillAttached(r, ss) ==
  reader[r].attached /\ ReaderOf[r] \in DOMAIN Swept \cap DOMAIN ss

ReadersAfter(id, ss) ==
  [r \in Readers |->
     [reader[r] EXCEPT
        !.attached = StillAttached(r, ss),
        !.pc = IF StillAttached(r, ss) /\ ReaderOf[r] = id /\ reader[r].pc = "parked"
               THEN "reading" ELSE reader[r].pc]]

\* emit; at capacity the event is dropped, though the sweep has run.
Dropped(id) ==
  /\ StreamFor(id) = {}
  /\ streams' = Swept
  /\ UNCHANGED reader

Emit(id, events) ==
  \/ Dropped(id)
  \/ \E ss \in StreamFor(id) :
       /\ streams' = [ss EXCEPT ![id].buffer = @ \o events, ![id].everEmitted = TRUE]
       /\ reader' = ReadersAfter(id, ss)

\* The emits of a build's last turn and complete, which is dropped alike.
EmitAndComplete(id, events) ==
  \/ Dropped(id)
  \/ \E ss \in StreamFor(id) :
       /\ streams' = [ss EXCEPT ![id].buffer = @ \o events, ![id].everEmitted = TRUE,
                                ![id].done = TRUE]
       /\ reader' = ReadersAfter(id, ss)

\* The deadline of a complete stream passes.
TtlElapses(id) ==
  /\ id \in DOMAIN streams /\ streams[id].done /\ ~streams[id].expired
  /\ streams' = [streams EXCEPT ![id].expired = TRUE]
  /\ UNCHANGED <<build, reader, inFlight, openStreams>>

(***************************************************************************)
(* createResource.                                                         *)
(***************************************************************************)
BuildTo(b, pc) == build' = [build EXCEPT ![b].pc = pc]

TooManyBuilds(b) ==
  /\ build[b].pc = "idle" /\ inFlight >= MaxBuilds
  /\ BuildTo(b, "refused")
  /\ UNCHANGED <<streams, reader, inFlight, openStreams>>

Create(b) ==
  /\ build[b].pc = "idle" /\ inFlight < MaxBuilds
  /\ inFlight' = inFlight + 1
  /\ build' = [build EXCEPT ![b] = [pc |-> "generating", slot |-> TRUE]]
  /\ Emit(BuildOf[b], <<"Generate">>)
  /\ UNCHANGED openStreams

FinishSilently(b, events) ==
  /\ Emit(BuildOf[b], events)
  /\ build' = [build EXCEPT ![b] = [pc |-> "finished", slot |-> FALSE]]
  /\ inFlight' = inFlight - (IF build[b].slot THEN 1 ELSE 0)

\* The finally of the pipeline: complete the stream, free the slot.
Finish(b, events) ==
  /\ EmitAndComplete(BuildOf[b], events)
  /\ build' = [build EXCEPT ![b] = [pc |-> "finished", slot |-> FALSE]]
  /\ inFlight' = inFlight - (IF build[b].slot THEN 1 ELSE 0)

\* generate or validate throws, or the bundle fails a gate.
GenerateFails(b) ==
  /\ build[b].pc = "generating"
  /\ Finish(b, <<"stage">>)
  /\ UNCHANGED openStreams

Generated(b) ==
  /\ build[b].pc = "generating"
  /\ BuildTo(b, "deploying")
  /\ Emit(BuildOf[b], <<"stage">>)
  /\ UNCHANGED <<inFlight, openStreams>>

DeployFails(b) ==
  /\ build[b].pc = "deploying"
  /\ Finish(b, <<"stage">>)
  /\ UNCHANGED openStreams

\* The deployer's events, relayed; then the listing is posted.
Deployed(b) ==
  /\ build[b].pc = "deploying"
  /\ BuildTo(b, "publishing")
  /\ Emit(BuildOf[b], <<"stage">>)
  /\ UNCHANGED <<inFlight, openStreams>>

\* A refused listing does not stop the resource from going live.
Published(b) ==
  /\ build[b].pc = "publishing"
  /\ Finish(b, <<"stage">>)
  /\ UNCHANGED openStreams

\* The slot's deadline frees it under a build that still runs.
SlotDeadline(b) ==
  /\ build[b].slot
  /\ build' = [build EXCEPT ![b].slot = FALSE]
  /\ inFlight' = inFlight - 1
  /\ UNCHANGED <<streams, reader, openStreams>>

(***************************************************************************)
(* The SSE route and its reader.                                           *)
(***************************************************************************)
\* One tick from the counters to the generator's first statement.
Connect(r) ==
  LET id == ReaderOf[r]
  IN /\ reader[r].pc = "idle" /\ openStreams < MaxReaders
     /\ \E ss \in StreamFor(id) :
          /\ streams' = [ss EXCEPT ![id].subscribers = @ + 1]
          /\ reader' = [ReadersAfter("none", ss) EXCEPT
                          ![r].pc = "reading", ![r].slot = TRUE, ![r].attached = TRUE]
     /\ openStreams' = openStreams + 1
     /\ UNCHANGED <<build, inFlight>>

\* 429 at the concurrency cap, 503 when the channel has no room.
ConnectRefused(r) ==
  /\ reader[r].pc = "idle"
  /\ reader' = [reader EXCEPT ![r].pc = "refused"]
  /\ \/ openStreams >= MaxReaders /\ UNCHANGED streams
     \/ /\ openStreams < MaxReaders /\ StreamFor(ReaderOf[r]) = {}
        /\ streams' = Swept
  /\ UNCHANGED <<build, inFlight, openStreams>>

\* The client goes away, or the maximum lifetime elapses: the wake races it.
Abort(r) ==
  /\ reader[r].pc \in {"reading", "parked"} /\ ~reader[r].aborted
  /\ reader' = [reader EXCEPT ![r].aborted = TRUE, ![r].pc = "reading"]
  /\ UNCHANGED <<streams, build, inFlight, openStreams>>

\* The consumer cancels: the slot is freed before the reader returns.
Cancel(r) ==
  /\ reader[r].pc \in {"reading", "parked"} /\ reader[r].slot
  /\ openStreams' = openStreams - 1
  /\ reader' = [reader EXCEPT ![r].aborted = TRUE, ![r].slot = FALSE,
                              ![r].pc = "reading"]
  /\ UNCHANGED <<streams, build, inFlight>>

\* A stream detached from the map holds nothing more for its reader.
Buffered(r) == IF reader[r].attached THEN streams[ReaderOf[r]].buffer ELSE <<>>

Read(r) ==
  /\ reader[r].pc = "reading" /\ ~reader[r].aborted /\ Buffered(r) # <<>>
  /\ streams' = [streams EXCEPT ![ReaderOf[r]].buffer = Tail(@)]
  /\ reader' = [reader EXCEPT ![r].sawGenerate = @ \/ Head(Buffered(r)) = "Generate"]
  /\ UNCHANGED <<build, inFlight, openStreams>>

Park(r) ==
  /\ reader[r].pc = "reading" /\ ~reader[r].aborted /\ Buffered(r) = <<>>
  /\ ~(reader[r].attached /\ streams[ReaderOf[r]].done)
  /\ reader' = [reader EXCEPT ![r].pc = "parked"]
  /\ UNCHANGED <<streams, build, inFlight, openStreams>>

\* A stream nothing was ever emitted to goes with its last reader.
Detach(id) ==
  LET left == [streams[id] EXCEPT !.subscribers = @ - 1]
  IN streams' = IF left.subscribers = 0 /\ ~left.everEmitted /\ ~left.done
                THEN Without(streams, {id}) ELSE [streams EXCEPT ![id] = left]

Leave(r) ==
  LET id == ReaderOf[r]
  IN /\ reader[r].pc = "reading"
     /\ \/ reader[r].aborted
        \/ reader[r].attached /\ Buffered(r) = <<>> /\ streams[id].done
     /\ IF reader[r].attached THEN Detach(id) ELSE UNCHANGED streams
     /\ openStreams' = openStreams - (IF reader[r].slot THEN 1 ELSE 0)
     /\ reader' = [reader EXCEPT ![r].pc = "gone", ![r].slot = FALSE, ![r].attached = FALSE]
     /\ UNCHANGED <<build, inFlight>>

BuildStep(b) ==
  \/ Create(b) \/ TooManyBuilds(b) \/ GenerateFails(b) \/ Generated(b)
  \/ DeployFails(b) \/ Deployed(b) \/ Published(b)

ReaderStep(r) == Read(r) \/ Park(r) \/ Leave(r)

BuildStreamNext ==
  \/ \E b \in Builds : BuildStep(b) \/ SlotDeadline(b)
  \/ \E r \in Readers : \/ Connect(r) \/ ConnectRefused(r)
                        \/ Abort(r) \/ Cancel(r) \/ ReaderStep(r)
  \/ \E id \in Watched : TtlElapses(id)

\* The generator, the deployer and the marketplace answer, and the event
\* loop runs what is ready.  Nothing is assumed of clients and timers.
BuildStreamFairness ==
  /\ \A b \in Builds : WF_streamVars(BuildStep(b))
  /\ \A r \in Readers : WF_streamVars(ReaderStep(r))

BuildStreamSpec ==
  BuildStreamInit /\ [][BuildStreamNext]_streamVars /\ BuildStreamFairness

-----------------------------------------------------------------------------
\* Types; the counters agree with who holds what they count.
BuildStreamTypeOK ==
  /\ DOMAIN streams \subseteq Watched
  /\ \A id \in DOMAIN streams :
       streams[id] \in [buffer : Seq({"Generate", "stage"}), done : BOOLEAN,
                        subscribers : 0..Cardinality(Readers),
                        everEmitted : BOOLEAN, expired : BOOLEAN]
  /\ build \in [Builds -> [pc : {"idle", "refused", "generating", "deploying",
                                 "publishing", "finished"}, slot : BOOLEAN]]
  /\ reader \in [Readers -> [pc : {"idle", "refused", "reading", "parked", "gone"},
                             attached : BOOLEAN, aborted : BOOLEAN, slot : BOOLEAN,
                             sawGenerate : BOOLEAN]]
  /\ inFlight = Cardinality({b \in Builds : build[b].slot})
  /\ openStreams = Cardinality({r \in Readers : reader[r].slot})
  /\ Cardinality(DOMAIN streams) <= MaxStreams

\* Whatever is evicted, an open reader stays attached to the stream that its
\* resource's builds emit into, and is counted as one of its subscribers.
ReadersAttached ==
  LET open(id) == {r \in Readers : /\ ReaderOf[r] = id
                                   /\ reader[r].pc \in {"reading", "parked"}}
  IN /\ \A r \in UNION {open(id) : id \in Watched} :
          reader[r].attached /\ ReaderOf[r] \in DOMAIN streams
     /\ \A id \in DOMAIN streams : streams[id].subscribers = Cardinality(open(id))

\* A page that watches a build is released when the build ends, however it
\* ends, without the help of its lifetime timer: the finally's complete
\* reaches the stream the page is attached to.
ReadersReturn ==
  \A b \in Builds, r \in Readers :
    BuildOf[b] = ReaderOf[r] =>
      (/\ build[b].pc \in {"generating", "deploying", "publishing"}
       /\ reader[r].pc \in {"reading", "parked"}) ~> reader[r].pc = "gone"

\* build-channel.ts:23-24: a complete stream is kept for ten minutes, "keeping
\* late-reload replay working".  So where no stream is ever evicted, a reader
\* served to the end of its stream has seen the Generate stage.
ReloadReplays ==
  \A r \in Readers :
    reader[r].pc = "gone" /\ ~reader[r].aborted => reader[r].sawGenerate
=============================================================================
