-------------------------------- MODULE SwapLab --------------------------------
(***************************************************************************)
(* experiments/trt_swap_client/app.py: SwapLab's queue of frames, its batch  *)
(* loop and composition, and the two kinds of clients: SwapVideoTrack, whose *)
(* mailbox holds the camera's latest frame, and the WebSocket handler, which *)
(* takes one frame at a time.  Frames are numbered as they are submitted.     *)
(*                                                                          *)
(* Abstractions.  A future's result reaches its waiters in the step that     *)
(* sets it: they are suspended in submit() and nothing is done between.  The  *)
(* jobs of a group are composed in one step; groups are of different streams  *)
(* and touch nothing of each other but the detector's clones.  recv's pacing, *)
(* metrics, enrollment and the file of --input-video, which submits like a    *)
(* socket, are left out.                                                      *)
(***************************************************************************)
EXTENDS Naturals, Sequences, SequencesExt

CONSTANTS
    Clients,      \* SwapVideoTracks and sockets
    Sockets,      \* the clients that are WebSocket handlers
    StreamOf,     \* the StreamState of each client: a peer's tracks share one
    MaxQueue,     \* settings.max_queue
    MaxBatch,     \* settings.max_batch
    MaxFrames     \* bound: frames submitted

ASSUME SwapLabAssumption ==
    /\ Sockets \subseteq Clients
    /\ MaxBatch \in Nat \ {0} /\ MaxQueue \in Nat /\ MaxBatch <= MaxQueue    \* main()
    /\ MaxFrames \in Nat
    /\ \A c \in Sockets, d \in Clients : StreamOf[c] = StreamOf[d] => c = d

VARIABLES
    client,       \* "idle" or "waiting" in submit; "gone": no more frames
    awaited,      \* the job whose future the client awaits
    asked,        \* the frame the client submitted last
    pending,      \* self.queue
    batch,        \* the jobs of the batch loop
    loop,         \* where the batch loop is
    composed,     \* the newest frame each stream's tracker has seen
    sent          \* frames submitted so far

labVars == <<client, awaited, asked, pending, batch, loop, composed, sent>>
clientVars == <<client, awaited, asked, sent>>

Streams == {StreamOf[c] : c \in Clients}

\* FrameJob; "done" when its future was cancelled.
Job(n, s) == [id |-> n, stream |-> s, frame |-> n, done |-> FALSE]

Line == batch \o pending
Waiters(ids) == {c \in Clients : client[c] = "waiting" /\ awaited[c] \in ids}
Ids(jobs) == {jobs[k].id : k \in DOMAIN jobs}

LabTypeOK ==
    /\ client \in [Clients -> {"idle", "waiting", "gone"}]
    /\ awaited \in [Clients -> 0..MaxFrames] /\ asked \in [Clients -> 0..MaxFrames]
    /\ Len(pending) <= MaxQueue /\ Len(batch) <= MaxBatch
    /\ \A k \in DOMAIN Line :
          Line[k] \in [id : 1..MaxFrames, stream : Streams, frame : 1..MaxFrames, done : BOOLEAN]
    /\ loop \in {"waiting", "gathering", "predicting", "composing", "closed"}
    /\ composed \in [Streams -> 0..MaxFrames]
    /\ sent \in 0..MaxFrames

LabInit ==
    /\ client = [c \in Clients |-> "idle"]
    /\ awaited = [c \in Clients |-> 0] /\ asked = [c \in Clients |-> 0]
    /\ pending = <<>> /\ batch = <<>>
    /\ loop = "waiting"
    /\ composed = [s \in Streams |-> 0]
    /\ sent = 0

-----------------------------------------------------------------------------
(* The clients.                                                                *)

\* Futures are resolved: "again" go on with their next frame; "ended" were
\* told something else than a result or a RuntimeError, and are over.
Resumed(again, ended) ==
    /\ client' = [c \in Clients |-> IF c \in ended THEN "gone"
                                    ELSE IF c \in again THEN "idle" ELSE client[c]]
    /\ awaited' = [c \in Clients |-> IF c \in again \cup ended THEN 0 ELSE awaited[c]]
    /\ asked' = [c \in Clients |-> IF c \in again \cup ended THEN 0 ELSE asked[c]]
    /\ UNCHANGED sent

\* The jobs, the one of that id with its future cancelled.
Cancelled(jobs, id) == [k \in DOMAIN jobs |-> [jobs[k] EXCEPT !.done = @ \/ jobs[k].id = id]]

\* The track stops with its peer: its worker is cancelled, and with it the
\* future it awaits, which another track of the stream may await too.
TrackStops(c) ==
    /\ client[c] # "gone" /\ c \notin Sockets
    /\ Resumed({}, {c} \cup Waiters({awaited[c]}))
    /\ pending' = Cancelled(pending, awaited[c])
    /\ batch' = Cancelled(batch, awaited[c])
    /\ UNCHANGED <<loop, composed>>

\* The handler ends: its client has disconnected, which it only notices when
\* it receives or sends.
SocketEnds(c) ==
    /\ c \in Sockets /\ client[c] = "idle"
    /\ Resumed({}, {c})
    /\ UNCHANGED <<pending, batch, loop, composed>>

-----------------------------------------------------------------------------
(* submit                                                                      *)

\* The track's worker takes the latest frame from its mailbox, where the
\* camera's next one may have replaced it; a socket reads its next message.
Submits(c) ==
    /\ client[c] = "idle"
    /\ sent < MaxFrames
    /\ sent' = sent + 1
    /\ UNCHANGED <<batch, loop, composed>>

Awaits(c, id, dropped) ==
    /\ client' = [d \in Clients |-> IF d = c THEN "waiting"
                                    ELSE IF d \in dropped THEN "idle" ELSE client[d]]
    /\ awaited' = [d \in Clients |-> IF d = c THEN id ELSE IF d \in dropped THEN 0 ELSE awaited[d]]
    /\ asked' = [d \in Clients |-> IF d = c THEN sent' ELSE IF d \in dropped THEN 0 ELSE asked[d]]

OfStream(s) == {k \in DOMAIN pending : pending[k].stream = s}

\* Mutant of Newest: the oldest job of the stream.
Oldest(ks) == CHOOSE k \in ks : \A j \in ks : k <= j

\* _find_pending_job_index
Newest(ks) == CHOOSE k \in ks : \A j \in ks : j <= k

Enqueued(c) ==
    /\ Submits(c)
    /\ Len(pending) < MaxQueue
    /\ pending' = Append(pending, Job(sent', StreamOf[c]))
    /\ Awaits(c, sent', {})

\* The queue is full: the newest pending job of the stream gets the frame and
\* a second waiter, unless its future has been cancelled.
Coalesced(c) ==
    /\ Submits(c)
    /\ Len(pending) = MaxQueue /\ OfStream(StreamOf[c]) # {}
    /\ LET k == Newest(OfStream(StreamOf[c])) IN
          /\ pending' = [pending EXCEPT ![k] = [@ EXCEPT !.frame = sent']]
          /\ IF pending[k].done
             THEN client' = [client EXCEPT ![c] = "gone"] /\ UNCHANGED <<awaited, asked>>
             ELSE Awaits(c, pending[k].id, {})

\* Mutant of Evicted: the evicted job's future is left as it is.
EvictedQuietly(c) ==
    /\ Submits(c)
    /\ Len(pending) = MaxQueue /\ OfStream(StreamOf[c]) = {}
    /\ pending' = Append(Tail(pending), Job(sent', StreamOf[c]))
    /\ Awaits(c, sent', {})

\* Otherwise the oldest job goes, with a RuntimeError for whoever awaits it.
Evicted(c) ==
    /\ Submits(c)
    /\ Len(pending) = MaxQueue /\ OfStream(StreamOf[c]) = {}
    /\ pending' = Append(Tail(pending), Job(sent', StreamOf[c]))
    /\ Awaits(c, sent', Waiters({Head(pending).id}))

ClientSteps(c) ==
    \/ TrackStops(c) \/ SocketEnds(c)
    \/ Enqueued(c) \/ Coalesced(c) \/ Evicted(c)

-----------------------------------------------------------------------------
(* _batch_loop                                                                 *)

\* Only a backlog is waited for.
TakeFirst ==
    /\ loop = "waiting" /\ pending # <<>>
    /\ batch' = <<Head(pending)>>
    /\ pending' = Tail(pending)
    /\ loop' = IF MaxBatch > 1 /\ pending' # <<>> THEN "gathering" ELSE "predicting"
    /\ UNCHANGED <<clientVars, composed>>

Gather ==
    /\ loop = "gathering" /\ pending # <<>>
    /\ batch' = Append(batch, Head(pending))
    /\ pending' = Tail(pending)
    /\ loop' = IF Len(batch') < MaxBatch THEN "gathering" ELSE "predicting"
    /\ UNCHANGED <<clientVars, composed>>

\* batch_wait_ms is over.
GatherEnds ==
    /\ loop = "gathering"
    /\ loop' = "predicting"
    /\ UNCHANGED <<clientVars, pending, batch, composed>>

\* The futures of all jobs are done; those of "failed" by an error, which is
\* a RuntimeError or ends whoever gets it.
Answered(failed) ==
    /\ \E ended \in {{}, Waiters(failed)} : Resumed(Waiters(Ids(batch)) \ ended, ended)
    /\ batch' = <<>>
    /\ loop' = "waiting"
    /\ UNCHANGED pending

PredictFails ==
    /\ loop = "predicting"
    /\ Answered(Ids(batch))
    /\ UNCHANGED composed

\* _group_job_indices: one group per stream.
Groups == {batch[k].stream : k \in DOMAIN batch}

\* The tracker of each stream is given the batch's first n frames in order.
ComposedUpTo(n) ==
    [s \in Streams |-> LET seen == {k \in 1..n : batch[k].stream = s}
                       IN IF seen = {} THEN composed[s] ELSE batch[Newest(seen)].frame]

\* One group is composed on the event loop, and its jobs answered one by one,
\* up to one whose composition fails or whose future was cancelled, which
\* fails it and all that are left.
ComposedAlone ==
    /\ loop = "predicting" /\ Groups = {batch[1].stream}
    /\ \E n \in 0..Len(batch) :
          /\ \A k \in 1..n : ~batch[k].done
          /\ composed' = ComposedUpTo(IF n < Len(batch) THEN n + 1 ELSE n)
          /\ Answered({batch[k].id : k \in (n + 1)..Len(batch)})

\* _compose_groups: the groups run on a pool.
ComposeGroups ==
    /\ loop = "predicting" /\ Groups # {batch[1].stream}
    /\ loop' = "composing"
    /\ composed' = ComposedUpTo(Len(batch))
    /\ UNCHANGED <<clientVars, pending, batch>>

\* Every job is answered for itself, unless its future is done.
GroupsAnswered ==
    /\ loop = "composing"
    /\ \E failed \in SUBSET Ids(batch) : Answered(failed)
    /\ UNCHANGED composed

\* close(): the batch loop is cancelled, whatever it holds.
LabCloses ==
    /\ loop # "closed"
    /\ loop' = "closed"
    /\ batch' = <<>>
    /\ UNCHANGED <<clientVars, pending, composed>>

BatchSteps ==
    \/ TakeFirst \/ Gather \/ GatherEnds
    \/ PredictFails \/ ComposedAlone \/ ComposeGroups \/ GroupsAnswered

LabNext == (\E c \in Clients : ClientSteps(c)) \/ BatchSteps \/ LabCloses

\* The batch loop is a task, and the threads it awaits return.
LabFairness == WF_labVars(BatchSteps)

LabSpec == LabInit /\ [][LabNext]_labVars /\ LabFairness

-----------------------------------------------------------------------------
(* A stream's frames are composed in the order in which they were sent, and    *)
(* whoever waits gets a frame of its own stream that is not older than the one *)
(* it sent (app.py:1998): however jobs were coalesced, evicted, gathered and    *)
(* cancelled, the jobs of a stream stand in order behind what was composed, and *)
(* the job a client awaits is among them.                                       *)
JobsAreInOrder ==
    /\ \A j, k \in DOMAIN Line :
          j < k /\ Line[j].stream = Line[k].stream => Line[j].frame < Line[k].frame
    /\ loop # "composing" =>
          \A k \in DOMAIN Line : composed[Line[k].stream] < Line[k].frame
    /\ loop # "closed" =>
          \A c \in Clients : client[c] = "waiting" =>
              \E k \in DOMAIN Line :
                  /\ Line[k].id = awaited[c] /\ ~Line[k].done
                  /\ Line[k].stream = StreamOf[c] /\ Line[k].frame >= asked[c]

(* Every frame submitted is answered, with a result or an error, as long as the *)
(* batch loop runs: also one that was evicted, shares its job or is composed     *)
(* beside a job that fails (app.py:2032).                                       *)
FramesComeBack ==
    \A c \in Clients : client[c] = "waiting" ~> client[c] # "waiting" \/ loop = "closed"
=============================================================================
