# A verification project for innolive-ai

TLA+ models of this repository: the gRPC AI worker that detects, tracks and
anonymizes faces of live video and of VOD files, its clients, gateways and
pages, and the scripts that start and replace it; TLC runs that check the
models on small instances; and TLAPS proofs for every size of the instance.
Paths are relative to the repository's root (code paths below `src/service/`
are written `service/`, and so on).

    tlc -config Processes.cfg MCProcesses     # check one run
    tlapm RecognitionProofs.tla               # check one module's proofs

PROJECT.json lists the components, the runs, the mutants (for each property a
plausible bug that it catches), the source lines behind every definition, the
hazards and the theorems.

## Inventory

The worker is one asyncio event loop plus thread pools: one thread runs the
model, one AdaFace, a pool composes blurred frames, one thread swaps faces, and
each VOD job hands its disk work to a thread. All the control is in coroutines
of the loop, so *a step of a model is the code between two awaits*, and
everything that can happen while a coroutine is suspended is interleaved: other
handlers, thread results, timers, and the cancellation of the coroutine's own
task (a client that disconnects, a job that is cancelled, the server that
stops). The gateways are built in the same way. In the pages a step is an event
handler; in the shell scripts it is a command.

| component | state it keeps | operations | hard behaviour | correct when |
|---|---|---|---|---|
| Inference lane, `PriorityLane` in `service/runtime.py` | `_held`, two queues of futures | acquire, release, cancellation | grant and wake-up are different steps; cancelled futures linger | one owner; no lost wake-up; live first; FIFO in a class |
| Inference runtime, `RuntimeManager` there | executor queue, `_closed` | infer, self_check, close | cancelling the await does not stop the thread | frames go through the lane only; close strands nobody |
| Sessions and whitelists, `SessionRegistry` in `service/recognition.py` | sessions by id, stream counts, entries, versions | create, delete, append, import, delete entry, acquire, release | an id names another object later; enrollment awaits | counts equal leases; an answer says what was done |
| Recognition, `StreamRecognition` there | a decision per track, pending tokens | process() per frame, close | embeddings answer late, fail, expire; the whitelist changes meanwhile | an approved face is enrolled; approvals stay; no track waits for a lost token |
| AdaFace worker, `service/adaface_model.py` | jobs under way per session | submit, complete, cancel, close | counted up on the loop, down on a thread | capacities hold and are given back |
| Admission, recovery, health, in `ai_processor_server.py` | `_accepting`, `_recovery`, `_failure_generation`, `_stalled_inferences`, health | enter recovery, recover, publish, shut down | failures during recovery; several publishers; shutdown during both | admits on a proven runtime only; comes back or exits |
| Live video service, `ProcessVideo` there | a handler, tracker, recognition and identities per stream | decode, infer, recognize, compose, answer | timeouts and disconnects with shielded work | state outlives the work on it; frames are answered |
| Tracker and mask hold, `service/tracking.py` | tracks, masks | update, record, stabilize, prune, reset | detection gaps; two frame counters | no gap or failure shows a face |
| Face identities, `service/face_presets.py`, `face_anonymization.py` | identity and metadata per track, lazy models | assign, retain, swap | retention over gaps; models that fail | a live track keeps its identity |
| Mosaic, `service/mosaic.py` | polygons, groups, layers of one frame | group, mask, blur, encode | work that is left out must not show | an answer is what the whole frame's blur gives; the protected are opaque |
| Face swap renderers, `service/mobilefaceswap*.py`, `inswapper.py` | conditioned networks in memory, on the device and on disk, transfer buffers | align, condition, forward, paste | faces fail one by one, buffers are reused, pictures are replaced | a swapped face shows its own preset; the others are left to the blur |
| VOD job, `service/vod.py` | segments, `checkpoint.json`, output | run, pause, resume, finalize | crash or cancellation between any two steps; threads that go on | the output is the whole input; the checkpoint is backed |
| VOD job service, `VodProcessorServicer` | records, tasks, watchers | start, watch, pause, cancel, prune, drain, close | RPCs cancelled while they await a task | no task out of reach; watchers hear the end |
| VOD command line, `service/vod_cli.py` | one job | signals, exit codes, `--resume` | killed or signalled at any point, other settings | the exit status can be relied on |
| Worker process, `serve()` | backend, runtime, AdaFace, bundle, servers | start-up, finally block | interrupted at any await, constructors in threads | nothing used after close, nothing left open |
| Launcher, `scripts/run_mobilefaceswap_cuda.sh`, `deploy/*.service` | two children | start, wait, end, restart | traps, exit of either child | both run or both come back |
| Rolling replacement, `deploy/rolling_replace.sh` | two units, drop-ins, the env file | prepare, start, replace, persist, stop | killed anywhere, retries, lost answers, further runs | a worker is always behind the env file; sessions are not cut |
| gRPC client, `grpc_client.py` | window, pending frames | process_video's writer and reader, unary calls | early end, failing source, cancellation | answers match frames in order; no task is left |
| Demo gateway, `server.py` | frame queue, slots, outstanding | WebSocket session, image, session calls | two sources of answers on one socket | windows stay in step; an honest worker is never accused |
| WebRTC gateway, `service/webrtc.py` | peers, latest-frame slot | offer, delete, sweep, fail, close | five closers; offer suspended across close | no track works for a peer that is gone |
| WebRTC page, `web/webrtc.js` | camera, connection, peer id | start, stop | stop at each of start's awaits | the camera is the page's; abandoned peers are released |
| Browser client, `web/app.js` | generation, pending frames, sessions, chosen files | stream, session requests, two forms | callbacks of an older run, answers to an older choice | nothing stale is shown; a delete spares the stream |
| Swap lab, `experiments/trt_swap_client/app.py` | queue, batch, groups | submit, batch loop, swap pass | futures cancelled while batched; three numberings of faces | in order, answered, every face covered by its own |

How they meet: the handlers of `ProcessVideo`, every VOD job and the recovery's
self-check share the runtime through the lane; a failing frame calls into
admission, and admission into the VOD service; handlers lease a session and
give its snapshots to their `StreamRecognition`, which shares AdaFace with the
enrollments; the gateways are clients of the gRPC service, the pages are
clients of the gateways; the launcher owns a worker and a gateway, the rolling
replacement two workers of which one is to serve.

## Modules

### The worker

| module | models | state and code | actions and code |
|---|---|---|---|
| `LaneContract` | what PriorityLane's docstring promises, abstractly | `owner`; `line` who waits; `ahead[t]` who of t's class came before t | Enter, Join, Leave, HandOver |
| `PriorityLane` | class PriorityLane | `held`, `liveWaiters`, `vodWaiters` as in the code; `waiter[t]` is the state of t's future, `pc[t]` where t is, `mustCancel[t]` a cancellation asyncio has not delivered | AcquireNow and AcquireWait are the branches of acquire(); CancelWaiter is Task.cancel(); Release; WakeGranted, WakeCancelled, WakeRevoked are the ways acquire() resumes |
| `InferenceRuntime` | RuntimeManager.infer, self_check, close; extends PriorityLane | `queue`, `running` the one-thread executor, `abandoned` a running frame nobody awaits, `job[t]` t's future, `closed` | InferNow, InferWait, InferGranted, InferRefused (granted after close), StartFrame, FinishFrame, Leave (the finally block), CancelInfer, Close |
| `SessionRegistry` | SessionRegistry, SessionState | `sessions` maps ids to objects, so that a re-created session is another object; `active`, `entries`, `version`, `lease` | one action per method (each runs under the lock) |
| `AdaFaceWorker` | class AdaFaceRuntime | `line` the executor's queue, `job`, `owner`, `inflight`, `byOwner` the counters, `unwanted` wrapped futures that were cancelled | submission, the thread's start and end with its done callback, the loop's cancellation and its delivery one turn later, close |
| `Enrollment` | the session and whitelist calls from the demo gateway over the unary client and the servicer to the registry and AdaFace; extends SessionRegistry and AdaFaceWorker | `at` where a request is, `applied` what it did, `answer` what the gateway said | one step per handler, AddWhitelist with its awaits; deadlines, lost clients, the gateway going down |
| `StreamRecognition` | class StreamRecognition | `tracks` the TrackDecisions, `pending` tokens with results, `enrolled` and `version` the session's snapshot, `gone` the complement of live_track_ids | Frame is process(), made of one operator per stage; ResultArrives, Enroll, DeleteEntry, RejectedFrame, Close |
| `FaceTracks` | StreamTracker and FaceAnonymizationRuntime.process of one stream | `life`, `gap`, `mask` of a track; `identity`, `metadata` with their ages; `extractor`, `renderer` the lazy models | a frame through motion estimation beside inference, tracking, hold, identities, swap or blur; a rejected request; reset |
| `Mosaic` | mosaic_jpeg, mosaic_yuv420p, mosaic_bgr and what they compose | `items` the objects, `listed` how many were looked at, `polygons` those not grouped yet, `group` the one that grows, `groups` the complete ones, `painted` of what each changed pixel is made | the entry points with their refusals; NextObject is a turn of _protected_polygons; NextPolygon, Absorb, Complete are the loop of _group_polygons; Blend, Encode |
| `FaceSwap` | MobileFaceSwap on Paddle and torch, ConditionedModelCache, InSwapper | `weights` the cache on disk, `sources` and `onDevice` those in memory, `rows` the transfer buffers, `prepared`, `models`, `rowErrors`, `results` the lists of a call, `canvas` what the faces show | Prime, Align; FetchHeld, Load, Condition, Save; Forward, Collect, Paste; Swap is InSwapper's loop; RendererFails; Replaced is someone who replaces a picture, Restarts a new process |
| `Admission` | recovery, health and shutdown of the worker | the code's names; `line` and `telling` are `_health_lock`'s queue and what its holder publishes | EnterRecovery, RecoveryStarts, StalledSettled, CheckPasses, RecoveryFails, PublishTurn, PublishDone, PublishCancelled, and serve()'s finally block in four steps |
| `LiveStreams` | ProcessVideo and all it awaits; extends Admission and conjoins its actions | `pc[s]` the await the handler is at, `task[s]` its inference, `worker[s]` its composition, `leased` | one action per resumption; Cancel is the cancellation of the handler at each await |
| `VodPromise` | what a VOD job promises, abstractly | frames that are durable, the published output | Commit, Publish, Discard |
| `VodJob` | class VodJob, and what RPCs, the command line and a crash do to it | `dir`, `file`, `checkpoint`, `output` the disk; `pc`, `request`, `stop`, `segments`, `done` the coroutine; `work` what its thread does, `orphan` what the thread of a cancelled run still does; `state`, `token` the record | Start, Resume/Fresh, ReadFrame, WriteFrame, Pause, SegmentDone, OutputDone, Fail, Cancel, Cleanup, Crash; the steps of a thread, taken by the run's own (Works) or a forgotten one (WorksOn) |
| `VodJobInv` | why VodJob is correct | its inductive invariant, in parts for disk, threads and coroutine | |
| `VodCli` | the process of vod_cli.py; extends VodJob | `process`, `args`, `made` the settings of the checkpoint's job, `exit` | what it does before there is a job, `--resume` with the token it reads, signals, kills, the table of exit codes |
| `VodService` | VodProcessorServicer | `jobs` (`_jobs`), `job` the handles with state, task and events, `watch`, `rpc` the calls under way, `stamped` and `aged` for pruning | start with its shielded future, the task with its done callback, watch, pause, cancel in its two halves, prune, drain, close; Disconnect at any await |
| `WorkerProcess` | serve() and StartupGc | `stage` the await serve() is at, `hands` what its variables name, `alive` what is not closed, `thread` what a constructor still makes, `frozen` the collector | the steps of start-up, each of which may fail or be interrupted, the finally block, a call and a job on it, SIGINT, SIGTERM, SIGKILL |
| `Launcher` | run_mobilefaceswap_cuda.sh under systemd; extends WorkerProcess | `script` its command, `web` the gateway, `status`, `starts`, `wanted` | its commands, its traps, the loop of `kill -0` that watches both children, systemd's restarts |
| `RollingReplace` | rolling_replace.sh | `unit`, `config`, `release` of both units, `env`, `pool` of the media server, `open` sessions, `command` | one action per command that changes something; its death between any two, after which no run follows; a further run after one that ended; the media server's answers |

### Clients and gateways

| module | models | state and code | actions and code |
|---|---|---|---|
| `VideoClient` | VideoProcessorClient.process_video | `slots`, `pending`, `exhausted`, `observed` of its state object; `writer`, `reader` its tasks; `requests`, `responses` the two directions of the call | one step per resumption of the writer and of the generator; cancellation, the finally blocks |
| `GatewaySession` | GrpcWebSocketSession, infer_image and process_jpegs over VideoClient | `gateSlots`, `outstanding`, `lastSequence`, `stop`; `receiver` the second task | receive, refuse, queue; forward, which fails when a result cannot be encoded; run()'s ends; a worker that answers, fails frames, ends early, breaks or answers out of turn |
| `WebRtcGateway` | service/webrtc.py | `peers`, `offer` how far each handler is, `closing` each close_peer, `track` with its slot, `sweeping`, `shutdown` | the offer in its steps, drain and recv, fail, DELETE, state change, sweeper, close |
| `WebRtcDemo` | web/webrtc.js over WebRtcGateway | `stage` where each start() is suspended, `camera`, `stream`, `conn`, `peerId` | start at each await, stop, every failure |
| `BrowserStream` | streaming in class App of web/app.js | `app` the fields; `blobs`, `decodes`, `timers` what can still come back | capture, encode, pump, receive in any order, render, failClosed, completeVideo; a handler is a function from the fields to new ones |
| `BrowserSessions` | its sessions; extends BrowserStream | `known`, `selected`, `stored`, `entriesOf`; `buttons` which of new-session and refresh-whitelist are enabled; `pressed`, `deleting`, `managing`, `asked` how far each handler is and which status it awaits | create, list, delete, ask, enroll, each at its awaits; a handler's finally block, which may enable a button again that another one's lock had disabled |
| `BrowserForms` | its two forms that send files | `picture`, `result`, `visible`; `chosen`, `rows`, `sending` | choose, send, answer or failure, for images and enrollments |
| `SwapLab` | queue, batch loop and clients of the lab | `pending`, `batch`, `loop`, `awaited` the futures | submit with its eviction, the batch loop's awaits, composition in groups, a client that leaves |
| `SwapPass` | InSwapper.apply_many for one frame | `candidates`, `targets`, `prepared`, `fakes`, `canvas` | alignment, preparation, the batched forward and its retry per face, pasting, blur |

`MC*` modules give the instances, `*Proofs` and `QueueFacts` hold theorems.
Five specifications are implemented by more detailed ones:

* `PriorityLane`, and `InferenceRuntime` with its executor, implement
  `LaneContract` under the mapping of their `Contract` instance
  (`LaneImplementsContract`, `RuntimeKeepsContract`, proved): the line of the
  contract is the futures not yet resolved, their order that of the queues, and
  an owner is whoever was granted the lane, noticed or not;
* `VodJob` implements `VodPromise` (`KeepsPromise`, proved): durable frames are those of
  the checkpoint or of the output;
* `VodCli` implements `VodJob` (`CliRunsTheJob`, proved);
* `LiveStreams` implements `Admission` (`StreamsKeepAdmission`, proved), so that
  what is proved of admission with arbitrary failures holds with the handlers;
* `Enrollment` implements `SessionRegistry` (`EnrollmentUsesTheRegistry`, proved).

## Runs

A run takes one specification, or one of several that share no variable: then
`exercise`, chosen by the initial state, says which one moves in a behaviour
while the others stay at their initial states. Their fair actions are enabled
only in their own exercise, so fairness asks nothing of the others. Deadlock is
not checked: clients may stop calling, bounded exercises come to their end, a
worker may be shut down. That something which must go on does go on is what the
temporal properties say.

| run | distinct states | what it asks |
|---|---|---|
| InferenceRuntime | 66 796 | runtime: does the lane keep LaneContract over the executor, does every live frame run, does close strand nobody; lab: are a stream's jobs composed in order and every frame answered; pass: is each face covered by its own synthetic face or blurred |
| LiveStreams | 139 444 | two streams over recovery and shutdown: no state is reset under the work on it, admission opens on a clean runtime, Admission is implemented, frames are answered though the runtime may hang, a closed worker comes back or ends |
| Enrollment | 831 881 (symmetry) | registry: counts equal leases; calls: both AdaFace capacities are exact, an answer says what was done |
| StreamRecognition | 396 687 (symmetry) | recognition: approvals rest on enrolled entries, no track waits for a lost token, approvals stay; faces: identities stay pinned over gaps, no failure of a model shows a face; mosaic: grouped, cropped masks and blurs draw what one of the whole frame draws |
| Gateway | 363 485 | both windows in step, an honest worker is never accused, every session ends with its tasks |
| WebRtc | 363 315 | tracks belong to peers and the camera is the page's (`NothingIsLeftOn`), abandoned peers go |
| Browser | 686 647 | stream: nothing stale is shown, videos end; sessions: a delete spares the stream; forms: what is said of a file is true of it |
| VodService | 309 756 | no task runs out of reach of its record, watchers hear the end, calls are answered |
| Processes | 718 953 | job and command line: whole output and backed checkpoint (`WorkIsNotLost`), VodPromise, exit statuses; renderers: a swapped face shows its own preset's picture, a failed one stays as it came; replacement: a worker is behind the env file, nothing is cut off; worker: an orderly shutdown, the pair comes back |
| LiveStreamsTracker | violation | "Do not release/reset tracker state before shielded GPU work settles" |
| RollingRerun | violation | "done: ... now run $RELEASE_DIR", after a rerun the script asked for |
| WorkerTerm | violation | the worker pauses VOD jobs on "set_accepting(False) / rolling replace / SIGTERM" |

The inductive invariants and the type invariants of the modules that are proved
about are not among the runs' properties, since the proofs settle them for every
instance; each was checked with TLC before it was proved. The same holds of
theorems whose property no run states: `SingleOwner`, `HeldIffOwned`,
`WaitersHaveAnOwner`, `AdmittingMeansSettled`, `LeasedWhitelistIsVersioned`,
`PausedCanResume`, `CommittedIsKept`, `RejectedAreNotEnrolled`,
`PendingIsBounded`, `OrphansAreStalled`, `SubmittedInLane`, `ShortQueue`,
`ImplementsContract`, `SleepersMissNothing`, `CompletedAnswersAll`, `PeersFit`,
`PeersCloseOnce`, `LateAnswersAreNotShown`. `WorkIsNotLost` is `OutputIsTheInput` and `CheckpointIsBacked`,
`NothingIsLeftOn` is `TracksBelongToPeers` and `CameraFollowsThePage`; these are
proved one by one.

### Bounds

* **Runtime:** three live callers (one the cancellable self-check) and two VOD
  callers: two wait behind an owner in the live class, and one VOD frame can be
  abandoned while another owns the lane and a live frame waits. Callers come
  back for ever. **Lab:** three tracks of one peer and a socket, a queue and
  batches of two (`MaxQueue`, `MaxBatch`), five frames (`MaxFrames`): a stream
  has two jobs pending when a third comes, a batch mixes streams, the queue
  overflows. **Pass:** three objects of any kind and two rows a batch.
* **Live streams:** two streams, one composition slot (one waits for the other),
  one stream impatient. `MaxFailures` is three: one starts a recovery, one
  renews it, one meets its end; a stream fails once, so that the bound limits how
  many streams are opened and keeps no frame from failing.
* **Registry:** one id more than places, one entry id more than places, one
  object more than places (a session is re-created while another lives), two
  streams. `MaxVersion` and `MaxObjects` bound the behaviour, not the code; the
  theorems hold for every value. **Calls:** two requests, one stream and one face
  of its, over a queue for two jobs (so one for each owner): a request can meet a
  full queue, a full share of its owner, a session that was deleted, one that is
  another object by now, and a full whitelist.
* **Recognition:** one track at a time, two entries of its person and one of
  another, two places in `_pending`; intervals of one to two frames. Three
  whitelist changes allow enroll, remove and enroll again around one embedding,
  three generations let a track be retired and return twice. Ages stop at the
  longest interval, which is all the code compares them with. **Faces:** two
  faces over two identity keys; the tracker bridges two frames, one rejected
  request is to spare before an identity is dropped, masks are held for one frame
  and metadata lasts two. **Mosaic:** a frame of 26 by 8 pixels with up to three
  objects whose masks are apart, near, touching through a third one, at the
  frame's edge or outside it; every margin and pad, a radius that is refused, and cells of
  one and two pixels. A blur reaches less than the frame's width, or crops would
  never differ from it.
* **Gateway:** three frames over a window of two: a frame waits for a slot while
  one is answered. **WebRTC:** two starts of the page and room for one peer.
* **Browser:** two runs of a page, two frames in flight and four sequences: what
  a run leaves behind meets the next one's frames. A session and the one created
  next; two presses of the two buttons and three handlers of any control under
  way at once (`Presses`, `MaxHandlers`), so that one handler's finally block
  enables what another one has disabled, and one stream around them
  (`SessionRuns`). Three images; four faces chosen two at a time, so that a new list can be
  longer or shorter than the one being sent.
* **VOD service:** two ids, one watcher, two callers, two starts, room for one
  running and no retained job: every limit is met by the second job.
* **VOD job:** five frames in segments of two: a checkpoint can be followed by a
  full, a short and no segment. Four commits are one more than a job needs, so
  that a client can hold the token of an older checkpoint, purge and start over.
  `Liberties` switches two things that clients may not or cannot see ("new over
  old", "start while writing"; see Disagreements); the run takes neither.
  **Command line:** two settings (input, parameters, whitelist).
* **Renderers:** two faces in two frames, two presets of which one has a sum in
  the catalog, one replacement of a picture; buffers, caches and device take one
  each, so that the second face meets the first one's row and puts its network
  out.
* **Replacement:** two releases, two sessions, one retry, three runs. **Worker:**
  two interrupts (the second one in the finally block) and three starts, after
  which systemd gives up.

### Fairness

Every assumption is one of the event loop's, of a timer's or of systemd's.
Clients, users, the network and the GPU owe nothing unless it is said here.

* Runtime: a resolved future's task runs, and the executor's thread works. VOD
  callers may be overtaken for ever. Lab: the batch loop goes on.
* Live streams: ready tasks run, timers fire, composition threads finish,
  `_mosaic_slots` is a FIFO semaphore (strong fairness of TakeSlot). *The runtime
  is not assumed to return*: TaskEnds and LateFrameEnds are unfair.
* Gateway: the steps of the loop's tasks, and a worker that answers or ends.
  `SessionsEnd` starts from a browser that left or a call that ended.
* WebRTC: handlers, closes and the loop's tasks run, and the sweeper comes.
* Browser: encodes and decodes call back, timers fire, frames are rendered, a
  socket opens or fails; the gateway need not answer.
* VOD service: a job's steps, wake-ups of events, writes to watchers that stay,
  and what an RPC awaits.
* Launcher: the script goes on and a gateway that was told to stop ends; the
  worker owes nothing, failures and interrupts come at any time.

### What the models leave out

* Lane: `live_waiting`, `locked`, timing. Admission: `active_streams`, logging;
  `health` is the status of the service's own name, the second of the two `set`
  calls, which may suspend on a watcher, so that publishing takes two steps.
  After `enter_graceful_shutdown` the health service ignores settings. One VOD
  job stands for those request_drain pauses.
* Live streams: the validations that abort a stream are one alternative of
  NextRequest; of a response only whether the stream goes on is kept.
* Enrollment: a job's end and its done callback are one step (the callback runs
  before the loop hears of it); AdaFace closes after the handlers, as in serve().
* Recognition: two embeddings match when they are of one person (threshold
  arithmetic is left out), the tracker never confuses persons nor re-uses a
  number, tracks new in one frame share a generation number, and the reasons why
  an eligible face is not submitted are one alternative, as they all end in
  `_require_fresh_match`.
* Faces: BoT-SORT's association, the geometry and the networks are free choices;
  an identity key stands for gender, age and slot. The stream renders.
* Mosaic: polygons are the boxes of their corners. Opacity and mixtures are kept
  as what they are functions of (a squared distance, the cells that are read), so
  that two pixels agree exactly when they are computed from the same things; the
  order of floating-point sums is left out. The encoder succeeds or is refused.
* Renderers: crops, landmarks and networks succeed or fail face by face, and a
  crop is the face it was cut from. Warm-up, CUDA graphs and image arithmetic are
  left out. A picture is replaced, it never vanishes; two processes that share
  one cache are not modelled.
* VOD job: frames are numbers; decoding, warm-up frames, audio, progress and
  fingerprints are left out (a mismatch is a failure, which may come anywhere, or
  the command line's other settings). Concatenation reads its segments in one
  step; `rmtree` of the segments goes file by file, that of a purge is one step.
  Two muxers that share one `.part` file, and a cleanup during a new run of the
  same directory, are not modelled. The token is computed at the end of the
  warm-up, the code computes it before, which differs only when someone else
  commits in between.
* VOD service: what a job does is its record and the life of its task; its
  disk is VodJob's.
* Worker and launcher: what a call does is that it infers or settles; the script's
  checks of the host are one outcome. Arguments are not state.
* Replacement: after it was killed the script is not run again; a run that is done
  or refused may be followed by another, one that gave up only where `Reruns`
  holds. The media server is external: a replacement moves the pool at once, 200 says that no session is
  left, 202 that some are, anything else is taken for a refusal, and asking
  again continues one. Ports, GPUs and several instances are left out.
* Gateway: frame ids are shifted by one, so that "none" is 0; a refusal is sent
  and the socket closed in one step; sends under the lock are atomic; cancelling
  the writer and awaiting it is one step, as a cancelled writer only closes its
  source.
* WebRTC: aiortc and the stream of results are external; media are whether a
  frame is there. The page's DELETE comes some time or never.
* Browser: after a failure, fields that no one reads before the next start are
  put to one value. Drawing, statistics and layout are left out.
* Lab: a future's result reaches its waiters in the step that sets it; the jobs of
  a group are composed in one step; pacing, metrics, enrollment, the HLS path and
  the page are left out; landmarks found for a box are those of its face.

## Disagreements

Three runs show the code against its own words (`findings` in PROJECT.json quotes
both sides):

* `LiveStreamsTracker`: a client that disconnects while its timed-out frame is in
  `_enter_recovery` makes the handler reset the tracker under the running
  inference.
* `RollingRerun`: run again after it gave up on sessions, the script can move the
  server back to the old release and report success.
* `WorkerTerm`: the worker handles no SIGTERM, so that a launcher's stop loses
  what a VOD job did since its checkpoint. The repository's own
  `reports/architecture-optimization-report.md:137` notes it as well.

The rest was met while modelling; the properties are stated so that they do not
hide it, and say what does hold:

* *Lane.* The docstring (`service/runtime.py:66`) lets a live frame wait for one
  VOD frame. A cancelled VOD frame that still runs frees the lane for another, so
  that a live frame can wait for two.
* *Admission.* A handler that is cancelled while it publishes leaves SERVING on a
  worker that refuses (`HealthFollowsAdmission` in Admission). A VOD job that
  starts after the drain meets the stop of the server (`DrainLeavesNoJob`).
* *Recognition.* An approval names an entry id only (`service/recognition.py:612`):
  an entry that is deleted and imported again under its id with another person's
  face takes over the approval, which `README.md:318` ends with the deletion.
  `RecognitionApproves` therefore assumes that no id names two persons
  (`IdsNameOnePerson`), and so do the run's `Enrollable` entries.
* *Faces.* Identities are kept by `frame_sequence` and tracks by `frame_id`: more
  rejected requests in a gap than retention exceeds the track buffer give a live
  track a new identity (`docs/face-preset-anonymization.md:49`, `:71`). A face
  without a polygon that must be blurred ends the stream with MOSAIC_FAILED.
* *Renderers.* `ConditionedModelCache.save` reads the picture again to name its
  file (`service/mobilefaceswap_torch.py:88`), after `source_model` has read it to
  condition the network (`service/mobilefaceswap.py:401`). For a preset without a
  sum in the catalog, a picture that is replaced in between gets the old one's
  weights filed under the new one's digest, and they are used from then on,
  although the cache is "bound to exact model and source-image hashes" (`:43`).
  `SwapsAreOwn` therefore speaks of the exact picture for catalogued presets only.
* *VOD job.* A start while the thread of a cancelled run still writes
  (`service/vod.py:840`) lets a late commit replace the new run's checkpoint,
  and then "a paused job can resume" (`service/vod.py:6`) is false. A new job over
  an old checkpoint ("new over old", `service/vod.py:691`), which
  `protos/ai_processor.proto:317` forbids and nothing enforces, and a fresh run of
  the command line over one, exit 75 when paused before a commit, yet cannot be
  resumed.
* *VOD service.* `PauseVodJob` awaits the job's task unshielded: a client that
  disconnects cancels the job (`IndependentLifetime` in VodService).
* *Command line.* Whitelist errors other than SystemExit, and errors of VodJob's
  constructor, skip `_close`; OUTPUT_EXISTS is not in the table and exits 1.
* *Worker.* What a constructor makes in a thread whose await was cancelled is
  never closed; a model file that cannot be hashed leaves `_live_instances`
  counted (`service/runtime.py:327`); a failed bind leaves the servicer's
  executors; `VodProcessorServicer.close` swallows a second cancellation.
* *Launcher.* A stop before the traps are set leaves the worker to systemd; the
  180 s wait does not notice a dead worker; `run_local.sh` does not watch it.
* *Replacement.* An answer that is lost after the server moved makes
  `cleanup_slot` stop the unit that serves, while the log (line 170) says that
  the old one does; a server that restarts before `persist_target` goes back to
  the old unit.
* *WebRTC gateway.* An offer suspended before `close()` adds a peer that `close()`
  did not gather (`service/webrtc.py:244`); the sweeper, cancelled within
  `close_peer`, leaves that peer's track running (`:349`).
* *Browser.* The answer to an image is shown beside a newer choice
  (`web/app.js:964`), enrollment rows are found by index (`:1038`) and a finished
  enrollment drops a new choice (`:1239`); `SaysTrue` names these cases: it is
  about choices that do not cross a request, and would not catch an answer beside
  a newer choice. The
  callback of `toBlob` clears the encoding flag of any run (`:1648`). The finally
  blocks of two handlers enable their buttons on `this.running` alone (`:1374`,
  `:1391`), though a start connects or a delete or an enrollment is under way. A
  list or a create that is answered while a session streams may select another
  one (`:1369`, `:1386`); the socket, when it opens, selects the streaming one
  again (`:1189`). A video file can be changed while `start()` is
  suspended.
* *Lab.* `recv` clears `output_ready` before its pacing sleep
  (`app.py:223`), so that a completion during the sleep is sent twice, although
  the comment says "exactly one". Groups that are composed at once share YuNet's
  clones, although the comments say that threads must not. A cancelled future
  that tracks share ends the sibling's worker, a cancelled job fails its batch
  mates, and close() leaves the futures of queued jobs pending.

## Proofs

TLAPS checks every leaf. Constants are arbitrary under the modules' ASSUMEs,
which are as weak as the code's own validation; assumptions beyond those are
written into the theorems and named here.

* `InferenceRuntimeProofs`, with `QueueFacts`, which `EnrollmentProofs` and
  `LiveStreamsProofs` use too
  (what removing, appending and dropping a prefix do to the elements of an
  injective sequence). `SingleOwner`, `HeldIffOwned` and `WaitersHaveAnOwner`
  are not inductive: a release could resolve a future twice, or miss one, if the
  queues were arbitrary. `LaneInv` adds that a task awaits a future exactly
  while it is suspended, that a queue holds suspended tasks once each, and that
  pending futures are in the queue of their class. Release and the revoked
  wake-up share the lemma about `HandOn`. For `LaneContract` the order of a class
  is read off its queue: who joins comes last, leaving and dropping resolved
  entries keep the order of the others, and the future that is resolved is the
  first pending one. The executor adds `RuntimeInv`: what is queued or runs is a
  job that was submitted by the lane's owner and is queued once. A step of the
  runtime is a step of the lane or leaves it alone, except `InferRefused`, which
  releases a lane that was granted after close().
  The lab is in the same module. That a stream's jobs are in order needs where
  they all are (`LabOrder`): each of the two queues holds a stream's frames in
  increasing order, those of the batch come before those still pending, and none
  was composed before; `LabAwaited` says that a client that waits has its job in
  one of them, until the loop closes. A pass over a frame (`PassInv`) needs what
  each stage knows of the numbering before it: candidates are the faces, once
  each, and a synthetic face is that of the candidate its row was prepared from.
  That the rows of the sliced batches are the faces again (`RowsAreTheFaces`, for
  any number of faces and rows) would be an induction over the slices; it is
  proved from the least slice at which the two sequences differ.
* `EnrollmentProofs`. `RegistryInv` adds to the registry's properties that an
  object stands behind one id and that objects not made yet are blank and
  unleased; without it a new session could inherit a count or entries. That
  AdaFace's counters are exact needs that the executor's queue is the queued
  jobs, each once (`LineIsQueued`): otherwise starting one could count another.
  The calls are then an argument of their own: what a request has done follows
  from where it is (`Reliable`), and a step of a call is an operation of the
  registry or none (`CallsAreOperations`), so that the calls refine the registry.
  Cardinalities come from FiniteSetTheorems.
* `LiveStreamsProofs`. `AdmittingMeansSettled` needs `RoundsCoverStalled`: while
  no failure has come since the current round began, everything stalled is among
  what the round waits for, and nothing is stalled once it checks. A step of a
  stream is one of admission's or leaves admission alone (`StreamsKeepAdmission`),
  so that this invariant is the streams' as well. They add `Attended`: what runs
  for a stream has a handler that waits for it and holds its session, or it timed
  out and is stalled; the two properties about state under the work on it follow.
* `RecognitionProofs`. process() is a composition of stages, so the argument is
  one too: `Stage(tracks, pending)` says that every track is in a sound state for
  its decision, that the tracks that wait are exactly those whose token is in
  `pending`, that tokens are distinct and that none is newer than the whitelist;
  and each stage (ageing, expiry, results, invalidation, retirement, new faces,
  scheduling) has a lemma that keeps it. `ProcessStages` puts them together.
  `RejectedAreNotEnrolled` uses that a rejection carries the version it was made
  for; `ApprovalIsKept` goes through the stages once more for the action
  property; `PendingIsBounded` rests on scheduling being the only stage that
  adds a token. `RecognitionApproves` assumes `IdsNameOnePerson`, without which
  it is false (see Disagreements).
  The faces of `FaceTracks` have their proofs there too. `FacesStayCovered` needs
  what stabilize() hands on (`TracksAreObjects`): every matched track, and every
  lost one whose mask is due. `IdentityIsPinned` needs how far the two clocks
  come apart (`UnseenIsGap`): an entry is unseen for at most the track's gap, the
  rejected requests since, and the request under way; the gap is at most
  `track_buffer`.
  The mosaic's theorems are about frames, objects and settings of any size.
  `MosaicInv` follows each outline that was asked for (`Required`) to
  where it is (`Held`): the polygons, the growing group, a complete one. A group
  encloses its members, since the crop it starts with does (`WidenedHolds`) and a
  hull keeps it (`HullHolds`), and complete groups are apart, so that absorbing
  one disturbs none. A mask holds its polygons whatever the pad (`MaskHolds`), and
  each of the three kinds of edge is opaque on the mask (`FeatheredMaskHolds`).
  Layers stay in their crops, so their boxes are apart as well and none is
  written over another's pixels (`BlendKeepsOpaque`). This is
  `AnswersHideTheProtected`.
  `AnswersAreTheWhole` adds that nothing of the saved work shows. `WholeInv` keeps
  that a group's crop has the whole `Reach` of its members (`Roomy`), so of each
  pixel of the whole frame's mask all that is within the margin and one more row
  is in one crop (`Sparse`, `MaskParts`). Dilating then commutes with cutting out
  (`DilatedParts`); a distance up to the margin is found in the crop
  (`TaperedParts`); and the default margin's distance to the first empty pixel,
  measured in what is around the mask, is the same around a part of it, because
  a farther empty pixel can be moved into that part's surroundings without
  getting farther (`NearerAround`, `FeatheredParts`): this is where the row beyond
  the taper is needed. The blur: a crop on the frame's grid with `BlurSupport` on
  each side, cut at the frame's edges, has the very cells a pixel reads at the
  same offsets, clamped and reflected as they are (`CellsAreTheFrames`,
  `ReadsAreTheFrames`), be the box a layer's or the joint one
  (`BlurIsTheFrames`, `JointHolds`).
* `ProcessProofs`. The rolling replacement, for any releases, sessions,
  retries and runs, assuming `~Reruns` (RollingRerun is the counterexample
  without it): between two runs the unit of the env file is the only one that
  runs, so that `active_slot` finds it; within a run each command has its own
  fact about both units; and from the server's "none left" on, no session can
  come to the old unit. The worker under its launcher, for any number of
  interrupts and starts: `Ownership` says what serve()'s variables name at each
  stage, `Service` at which stages calls and jobs can be, and `LeftNothing` what
  a finally block that ended has closed. The VOD job and its command line are
  in the same module, see below.
* `VodAndPageProofs`. A record is processing exactly as long as its task has not
  ended (`StateFollowsTask`), and such a record is neither pruned nor replaced,
  since a start finds its id active (`UnfinishedAreListed`); so live tasks map
  one to one into the ids that `MayStart` counts, which bounds them by
  `vod_max_jobs`. CancelVodJob writes its state when the task has ended
  (`CallsHaveHandles`), and whatever changes a state also makes the revision new
  for every stream (`WatchersKeepUp`), so that no sleeper misses a change.
  The page: `Sound` is what every method of App keeps of its fields, and each
  method has a lemma, so that a handler keeps it whichever methods it calls. A
  page that does not stream has nothing under way; answers may overtake each
  other, but every request sent after the last one answered is in flight
  (`InTurn`); what is rendered, decoded, waiting
  and in flight comes in this order (`Ranked`), and the newest result that was
  not replaced is the last answered. With the timers being those of the requests
  in flight this is `StreamInv`, from which `NothingStaleIsShown` follows for any
  callbacks of older runs. `PageInv` adds the delete that is under way; `LateAnswersHold` is an action
  property of the handlers that wait for a status; and
  `RowsInv` and `PicturesInv` say of which files the rows and pictures of the two
  forms are, as long as no newer choice crossed the request.
* `ProcessProofs`, the VOD job, for `Liberties = {}`, which is needed (see Disagreements). That
  the output is the input needs the whole chain: what the coroutine has counted
  (`Counting`), what is in the file it writes (`OpenFile`), what it has handed to
  its thread (`Finishing`), what a thread relies on before and after the commit,
  while it muxes and after it has published (`ThreadInv`, which must also hold of
  a thread nobody awaits), and that a file the checkpoint lists is whole or gone
  (`OnDisk`). Thread steps are stated of any work, so that they serve for the
  run's thread and for the forgotten one. From the invariant follow the safety
  properties, that commits keep what was committed, and the refinement of
  VodPromise. For the command line (`CliInv`): the token a process asks for is
  the one on disk until it is validated, what the last process said is still
  true while there is no other, and a refusal of a checkpoint that is backed by
  its files can only be of other settings. `VodWorkIsNotLost` is the run's
  property.
  The renderers, for any faces, presets, buffers and caches: what is cached for a
  preset was made for it (`CacheInv`); and in the batch (`BatchInv`) the k-th
  network, row and result are those of the k-th job of the chunk, where a row
  counts only if its forward pass did not fail, since the buffer may still show
  another face. That a crop reaches its own face then rests on faces telling jobs
  apart, and on nothing being pasted before (`Untouched`). InSwapper writes face
  by face, so it has an invariant of its own (`InSwapInv`).
* `GatewayProofs`. A session's queue is frames with at most one end marker behind
  them, which only a receiver that is over has put there (`SessionShape`); its
  frames grow behind the last one the writer took (`FramesAreOrdered`), so that
  the client refuses none. With the phases of the session and the generator
  (`PhasesMeet`) this gives `InStep`: a frame moves along queue, writer, pending
  and hand without changing the concatenation of them, which
  is the session's outstanding list. That an honest worker is not accused needs
  the other half of the circle (`AnswersAreDue`): what is pending are the answers
  on their way back, the requests on their way there and the frame in the
  writer's hand, in this order, and a call that ended well has a writer that is
  done. Algebra of concatenation comes from SequenceTheorems (`MoveOne`,
  `PopConcat`). The WebRTC gateway: `PeersAreOrderly` says at which of its stages
  an offer's peer is listed, being closed or gone; from it follow
  `TracksBelongToPeers`, the capacity and that a peer is closed once. The track
  of a peer that the sweeper was closing when `close()` cancelled it is excepted
  (see Disagreements).
  `CameraFollowsThePage` is inductive with the types, and `NothingIsLeftOnHolds`
  joins the two.

**Only model-checked.** Liveness and everything under fairness, and ENABLED,
which the prover does not reach.

## Not modelled

* The networks and the rest of the pixel processing (`service/frame.py`,
  `visualization.py`, `detection.py`, `scrfd_tensorrt.py`, `adaface_backbones.py`,
  `cuda_capture.py`): numeric code without control. In the models they answer or
  fail.
* `service/webrtc_transport.py`, `webrtc_encoder.py`: a jitter buffer and an
  encoder plugged into aiortc; what they do is about timing and bytes.
* The wire format, its validation and the configuration (`service/protocol.py`,
  `grpc_config.py`, the proto) are stateless, the stubs under `protos/` are
  generated. Refusals of a request appear as outcomes of the handlers.
* Of the runtime: backend selection, loading and warm-up, the detector's
  arithmetic. Of the page: drawing, parsing and layout. Of the lab: the TensorRT
  runner, the HLS client and its page.
* `experiments/face_swap_lab.py`, the benchmarks and the remaining scripts: tools
  beside the system that run once and keep no state.
