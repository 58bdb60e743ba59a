-------------------------------- MODULE VodService --------------------------------
(***************************************************************************)
(* VodProcessorServicer of ai_processor_server.py: the records of VOD jobs, *)
(* the tasks that run them, the streams that watch them and the RPCs that   *)
(* start, pause and cancel them, with clients that disconnect at any await. *)
(*                                                                          *)
(* What a job does to its disk is VodJob; here a job is its record and the  *)
(* life of its task.  A handle (_VodJobHandle) is a number, in the order of *)
(* the starts; an id may get another handle, while RPCs still hold the old. *)
(***************************************************************************)
EXTENDS Naturals, Sequences, FiniteSets

CONSTANTS
    JobIds,          \* job ids that clients use
    Watchers,        \* WatchVodJob streams, one at a time each
    Callers,         \* clients of the other RPCs, one call at a time each
    Patient,         \* watchers and callers that never disconnect
    MaxJobs,         \* vod_max_jobs
    MaxRetained,     \* vod_max_retained_jobs
    MaxStarts        \* bound: handles that are ever made

Handles == 1..MaxStarts
None == 0                          \* no handle

ASSUME ServiceAssumption ==
    /\ IsFiniteSet(JobIds) /\ IsFiniteSet(Watchers) /\ IsFiniteSet(Callers)
    /\ Patient \subseteq Watchers \cup Callers
    /\ MaxJobs \in Nat \ {0}
    /\ MaxRetained \in Nat
    /\ MaxStarts \in Nat

VARIABLES
    jobs,            \* _jobs
    made,            \* handles made so far
    job,             \* the handles: state, task, ...
    stamped,         \* handles in the order of their terminal_at
    aged,            \* the first of these, as many as are past the TTL
    watch,           \* the watch streams
    rpc,             \* the other RPCs under way
    phase            \* of serve()

serviceVars == <<jobs, made, job, stamped, aged, watch, rpc, phase>>

Processing == "processing"
Terminal == {"paused", "done", "failed", "cancelled"}    \* _VOD_TERMINAL
Prunable == Terminal \ {"paused"}                        \* _VOD_PRUNABLE

\* The task: none, created, before its first step, in validate(), in run(),
\* cancelled before its first step (its callback is due), over.
Live == {"new", "validating", "running"}

Handle == [id : JobIds, state : {Processing} \cup Terminal,
           task : Live \cup {"none", "stillborn", "over"},
           stop : BOOLEAN,          \* request_pause was called
           cancelling : BOOLEAN,    \* its task was cancelled
           admitted : BOOLEAN]      \* `started` is resolved

\* _VodJobHandle.  A watcher's `seen` says whether its last_revision is the
\* handle's revision; the handle's `waiters` are the watchers that are waiting.
Watch == [on : Handles \cup {None},
          at : {"no", "sending", "waiting", "woken"},
          seen : BOOLEAN,
          sent : {"none", Processing} \cup Terminal]
Idle == [on |-> None, at |-> "no", seen |-> FALSE, sent |-> "none"]

Calls == {"none", "start", "pause", "cancel", "cleanup"}
NoCall == [op |-> "none", on |-> None]

ServiceTypeOK ==
    /\ jobs \in [JobIds -> 0..made]
    /\ made \in 0..MaxStarts
    /\ job \in [1..made -> Handle]
    /\ stamped \in Seq(1..made)
    /\ aged \in 0..Len(stamped)
    /\ watch \in [Watchers -> Watch]
    /\ rpc \in [Callers -> [op : Calls, on : 0..made]]
    /\ phase \in {"serving", "stopped"}

ServiceInit ==
    /\ jobs = [i \in JobIds |-> None]
    /\ made = 0
    /\ job = << >>
    /\ stamped = << >>
    /\ aged = 0
    /\ watch = [w \in Watchers |-> Idle]
    /\ rpc = [c \in Callers |-> NoCall]
    /\ phase = "serving"

-----------------------------------------------------------------------------
(* Records. *)

IsLive(h) == job[h].task \in Live
Watched(h) == \E w \in Watchers : watch[w].on = h /\ watch[w].at = "waiting"

\* Mutant: the waiters are resolved, but the revision stays.
NotifiedOnly(h) ==
    [w \in Watchers |->
        IF watch[w].on = h /\ watch[w].at = "waiting"
          THEN [watch[w] EXCEPT !.at = "woken"] ELSE watch[w]]

\* _VodJobHandle.notify: a new revision, and every waiter is resolved.
Notified(h) ==
    [w \in Watchers |->
        IF watch[w].on # h THEN watch[w]
        ELSE [watch[w] EXCEPT !.seen = FALSE,
                              !.at = IF @ = "waiting" THEN "woken" ELSE @]]

\* _mark_terminal_if_needed: the first finished state of a handle is stamped.
Stamped(h, state) ==
    IF state \in Prunable /\ \A i \in DOMAIN stamped : stamped[i] # h
      THEN Append(stamped, h) ELSE stamped

\* _prune_jobs over the records js of the handles hs, stamped as in st: drops
\* the finished records past the TTL, then the oldest of those above the cap.
Pruned(js, hs, st) ==
    LET Age(i) == CHOOSE k \in DOMAIN st : st[k] = js[i]
        Finished(ids) == {i \in ids : hs[js[i]].state \in Prunable}
        MayGo(ids) == {i \in Finished(ids) : hs[js[i]].task \notin Live /\ ~Watched(js[i])}
        Held == {i \in JobIds : js[i] # None}
        Kept == Held \ {i \in MayGo(Held) : Age(i) <= aged}
        excess == Cardinality(Finished(Kept)) - MaxRetained
        Evicted == {i \in MayGo(Kept) :
                       Cardinality({k \in MayGo(Kept) : Age(k) < Age(i)}) < excess}
    IN  [i \in JobIds |-> IF i \in Kept \ Evicted THEN js[i] ELSE None]

\* What an RPC finds: each prunes first.
Records == Pruned(jobs, job, stamped)

\* A handle's task is over: _run_job's last block.  Nobody asks any more
\* whether it was to stop.
Ends(h, state) ==
    /\ job' = [job EXCEPT ![h] = [@ EXCEPT !.state = state, !.task = "over",
                                  !.stop = FALSE, !.cancelling = FALSE, !.admitted = TRUE]]
    /\ stamped' = Stamped(h, state)
    /\ watch' = Notified(h)
    /\ UNCHANGED <<made, jobs, aged, rpc, phase>>

-----------------------------------------------------------------------------
(* StartVodJob, and the task it creates. *)

Active == {i \in JobIds : Records[i] # None /\ job[Records[i]].state = Processing}

\* The caller's turn: no call under way, the server answers.
MayCall(c) == phase = "serving" /\ rpc[c] = NoCall

NewHandle(i, state, task, admitted) ==
    [id |-> i, state |-> state, task |-> task, stop |-> FALSE,
     cancelling |-> FALSE, admitted |-> admitted]

\* Room for another job, and none of this id is processing.  A worker that
\* does not accept refuses; when it accepts is Admission's matter.
MayStart(i) == i \notin Active /\ Cardinality(Active) < MaxJobs

StartVodJob(c, i) ==
    /\ MayCall(c)
    /\ MayStart(i)
    /\ made < MaxStarts
    /\ made' = made + 1
    /\ job' = Append(job, NewHandle(i, Processing, "new", FALSE))
    /\ jobs' = Pruned([Records EXCEPT ![i] = made'], job', stamped)
    /\ rpc' = [rpc EXCEPT ![c] = [op |-> "start", on |-> made']]
    /\ UNCHANGED <<stamped, aged, watch, phase>>

\* The whitelist does not resolve: a failed record takes the id's place.
StartWithoutWhitelist(c, i) ==
    /\ MayCall(c)
    /\ MayStart(i)
    /\ made < MaxStarts
    /\ made' = made + 1
    /\ job' = Append(job, NewHandle(i, "failed", "none", TRUE))
    /\ stamped' = Append(stamped, made')
    /\ jobs' = Pruned([Records EXCEPT ![i] = made'], job', stamped')
    /\ UNCHANGED <<aged, watch, rpc, phase>>

\* Calls that only prune: GetVodJob and ListVodJobs, a start that is refused
\* (its configuration, a precondition of VodJob, no room), and a pause or a
\* cancellation of a job the worker does not know.
Prunes ==
    /\ phase = "serving"
    /\ jobs' = Records
    /\ UNCHANGED <<made, job, stamped, aged, watch, rpc, phase>>
GetVodJob == Prunes
ListVodJobs == Prunes
StartRefused == Prunes

FirstStep(h) ==
    /\ job[h].task = "new" /\ ~job[h].cancelling
    /\ job' = [job EXCEPT ![h].task = "validating"]
    /\ UNCHANGED <<jobs, made, stamped, aged, watch, rpc, phase>>

Validated(h) ==
    /\ job[h].task = "validating" /\ ~job[h].cancelling
    /\ job' = [job EXCEPT ![h].task = "running", ![h].admitted = TRUE]
    /\ UNCHANGED <<jobs, made, stamped, aged, watch, rpc, phase>>

Progress(h) ==
    /\ job[h].task = "running" /\ ~job[h].cancelling
    /\ watch' = Notified(h)
    /\ UNCHANGED <<jobs, made, job, stamped, aged, rpc, phase>>

\* run() returns or fails, or validate() fails.
JobEnds(h, state) ==
    /\ ~job[h].cancelling
    /\ \/ job[h].task = "running" /\ state \in {"done", "failed"}
       \/ job[h].task = "running" /\ job[h].stop /\ state = "paused"
       \/ job[h].task = "validating" /\ state = "failed"
    /\ Ends(h, state)

\* CancelledError reaches _run_job.
JobCancelled(h) ==
    /\ job[h].task \in {"validating", "running"} /\ job[h].cancelling
    /\ Ends(h, "cancelled")

\* The task was cancelled before its first step: _run_job never begins ...
NeverBegins(h) ==
    /\ job[h].task = "new" /\ job[h].cancelling
    /\ job' = [job EXCEPT ![h].task = "stillborn"]
    /\ UNCHANGED <<jobs, made, stamped, aged, watch, rpc, phase>>

\* Mutant: no callback, so nobody resolves `started`.
NeverAdmitted(h) ==
    /\ job[h].task = "stillborn"
    /\ job' = [job EXCEPT ![h].state = "cancelled", ![h].task = "over"]
    /\ stamped' = Stamped(h, "cancelled")
    /\ watch' = Notified(h)
    /\ UNCHANGED <<made, jobs, aged, rpc, phase>>

\* ... and its callback, admission_done, finishes the record.
AdmissionDone(h) ==
    /\ job[h].task = "stillborn"
    /\ Ends(h, "cancelled")

-----------------------------------------------------------------------------
(* WatchVodJob. *)

\* The loop, up to its next await: a snapshot is sent when the revision is
\* new, otherwise the stream joins the handle's waiters.
Snapshot(w, h) == [on |-> h, at |-> "sending", seen |-> TRUE, sent |-> job[h].state]

WatchVodJob(w, i) ==
    /\ phase = "serving"
    /\ watch[w].at = "no"
    /\ Records[i] # None
    /\ jobs' = Records
    /\ watch' = [watch EXCEPT ![w] = Snapshot(w, Records[i])]
    /\ UNCHANGED <<made, job, stamped, aged, rpc, phase>>

\* The client has the snapshot: the stream ends on the state it sent.
Sent(w) ==
    /\ watch[w].at = "sending"
    /\ watch' = [watch EXCEPT ![w] =
                    IF @.sent \in Terminal THEN Idle
                    ELSE IF @.seen THEN [@ EXCEPT !.at = "waiting"]
                    ELSE Snapshot(w, @.on)]
    /\ UNCHANGED <<jobs, made, job, stamped, aged, rpc, phase>>

\* Its waiter was resolved; the revision is new.
Woken(w) ==
    /\ watch[w].at = "woken"
    /\ watch' = [watch EXCEPT ![w] = Snapshot(w, @.on)]
    /\ UNCHANGED <<jobs, made, job, stamped, aged, rpc, phase>>

\* The client disconnects, or the server stops.
WatchCancelled(w) ==
    /\ watch[w].at # "no"
    /\ w \notin Patient \/ phase = "stopped"
    /\ watch' = [watch EXCEPT ![w] = Idle]
    /\ UNCHANGED <<jobs, made, job, stamped, aged, rpc, phase>>

-----------------------------------------------------------------------------
(* PauseVodJob, CancelVodJob, and disconnecting from a call. *)

PauseVodJob(c, i) ==
    /\ MayCall(c)
    /\ jobs' = Records
    /\ Records[i] # None
    /\ job[Records[i]].state = Processing
    /\ job' = [job EXCEPT ![Records[i]].stop = TRUE]
    /\ rpc' = [rpc EXCEPT ![c] = [op |-> "pause", on |-> Records[i]]]
    /\ UNCHANGED <<made, stamped, aged, watch, phase>>

\* Mutant: the task is cancelled but not awaited.
CancelAtOnce(c, i) ==
    /\ MayCall(c)
    /\ jobs' = Records
    /\ Records[i] # None
    /\ LET h == Records[i] IN
          /\ job' = [job EXCEPT ![h].cancelling = @ \/ IsLive(h)]
          /\ rpc' = [rpc EXCEPT ![c] = [op |-> "cleanup", on |-> h]]
    /\ UNCHANGED <<made, stamped, aged, watch, phase>>

\* A running task is cancelled and awaited, then the cleanup runs in a thread.
CancelVodJob(c, i) ==
    /\ MayCall(c)
    /\ jobs' = Records
    /\ Records[i] # None
    /\ LET h == Records[i] IN
          /\ job' = [job EXCEPT ![h].cancelling = @ \/ IsLive(h)]
          /\ rpc' = [rpc EXCEPT ![c] = [op |-> "cancel", on |-> h]]
    /\ UNCHANGED <<made, stamped, aged, watch, phase>>

\* The await that a call is at is over.
Answered(c) ==
    /\ \/ rpc[c].op = "start" /\ job[rpc[c].on].admitted
       \/ rpc[c].op = "pause" /\ job[rpc[c].on].task \in {"none", "over"}
    /\ rpc' = [rpc EXCEPT ![c] = NoCall]
    /\ UNCHANGED <<jobs, made, job, stamped, aged, watch, phase>>

CancelCleans(c) ==
    /\ rpc[c].op = "cancel"
    /\ job[rpc[c].on].task \in {"none", "over"}
    /\ rpc' = [rpc EXCEPT ![c].op = "cleanup"]
    /\ UNCHANGED <<jobs, made, job, stamped, aged, watch, phase>>

CancelDone(c) ==
    /\ rpc[c].op = "cleanup"
    /\ LET h == rpc[c].on IN
          /\ job' = [job EXCEPT ![h].state = "cancelled"]
          /\ stamped' = Stamped(h, "cancelled")
          /\ watch' = Notified(h)
    /\ rpc' = [rpc EXCEPT ![c] = NoCall]
    /\ UNCHANGED <<jobs, made, aged, phase>>

\* The client of a call disconnects, or the server stops.  Start cancels a
\* task that was not admitted; Pause awaits the task itself, which so is
\* cancelled with it; Cancel swallows it while it awaits the task, and leaves
\* the record as it is when its cleanup is cut off.
Disconnect(c) ==
    /\ rpc[c] # NoCall
    /\ c \notin Patient \/ phase = "stopped"
    /\ LET h == rpc[c].on
           takesTask == \/ rpc[c].op = "start" /\ ~job[h].admitted
                        \/ rpc[c].op \in {"pause", "cancel"}
       IN  job' = [job EXCEPT ![h].cancelling = @ \/ (takesTask /\ IsLive(h))]
    /\ rpc' = IF rpc[c].op = "cancel" THEN rpc ELSE [rpc EXCEPT ![c] = NoCall]
    /\ UNCHANGED <<jobs, made, stamped, aged, watch, phase>>

-----------------------------------------------------------------------------
(* Time and shutdown. *)

TtlPasses ==
    /\ aged < Len(stamped)
    /\ aged' = aged + 1
    /\ UNCHANGED <<jobs, made, job, stamped, watch, rpc, phase>>

\* request_drain: every job that is processing is asked to pause.
Drain ==
    /\ phase = "serving"
    /\ job' = [h \in DOMAIN job |->
                 IF job[h].state = Processing /\ jobs[job[h].id] = h
                   THEN [job[h] EXCEPT !.stop = TRUE] ELSE job[h]]
    /\ UNCHANGED <<jobs, made, stamped, aged, watch, rpc, phase>>

\* server.stop(): from here on there are no new calls.
ServerStops ==
    /\ phase = "serving"
    /\ phase' = "stopped"
    /\ UNCHANGED <<jobs, made, job, stamped, aged, watch, rpc>>

\* close(), once no call is left: it cancels and awaits one task at a time.
Close(i) ==
    /\ phase = "stopped"
    /\ \A c \in Callers : rpc[c] = NoCall
    /\ jobs[i] # None /\ IsLive(jobs[i])
    /\ \A h \in DOMAIN job : IsLive(h) => ~job[h].cancelling
    /\ job' = [job EXCEPT ![jobs[i]].cancelling = TRUE]
    /\ UNCHANGED <<jobs, made, stamped, aged, watch, rpc, phase>>

JobSteps(h) ==
    \/ FirstStep(h) \/ Validated(h) \/ JobCancelled(h) \/ NeverBegins(h) \/ AdmissionDone(h)
    \/ \E state \in Terminal : JobEnds(h, state)

ServiceNext ==
    \/ \E h \in DOMAIN job : JobSteps(h) \/ Progress(h)
    \/ \E w \in Watchers :
          Sent(w) \/ Woken(w) \/ WatchCancelled(w) \/ \E i \in JobIds : WatchVodJob(w, i)
    \/ \E c \in Callers :
          \/ Answered(c) \/ CancelCleans(c) \/ CancelDone(c) \/ Disconnect(c)
          \/ \E i \in JobIds :
                StartVodJob(c, i) \/ StartWithoutWhitelist(c, i)
                \/ PauseVodJob(c, i) \/ CancelVodJob(c, i)
    \/ GetVodJob \/ ListVodJobs \/ StartRefused \/ TtlPasses \/ Drain \/ ServerStops
    \/ \E i \in JobIds : Close(i)

\* Tasks run and threads end; a job comes to its end, since its input is
\* finite.  Nothing is assumed of clients, except that a patient one reads.
ServiceFairness ==
    /\ \A h \in Handles : WF_serviceVars(h \in DOMAIN job /\ JobSteps(h))
    /\ \A w \in Watchers :
          WF_serviceVars(Woken(w)) /\ (w \in Patient => WF_serviceVars(Sent(w)))
    /\ \A c \in Callers : WF_serviceVars(Answered(c) \/ CancelCleans(c) \/ CancelDone(c))

ServiceSpec == ServiceInit /\ [][ServiceNext]_serviceVars /\ ServiceFairness

-----------------------------------------------------------------------------
(* Properties. *)

\* A task that may still run is the one of its id's record: none is running
\* out of reach of Pause, Cancel, drain and close, or beyond vod_max_jobs
\* (StartVodJob, _prune_jobs, CancelVodJob).
RunningJobsAreListed ==
    /\ \A h \in DOMAIN job : job[h].task \in Live \cup {"stillborn"} =>
          jobs[job[h].id] = h /\ job[h].state = Processing
    /\ Cardinality({h \in DOMAIN job : IsLive(h)}) <= MaxJobs

\* A stream that sleeps has sent the newest revision, and its job is still
\* processing: nothing can be missed between the snapshot, its sending and
\* the wait (WatchVodJob, notify).
SleepersMissNothing ==
    \A w \in Watchers : watch[w].at = "waiting" =>
        watch[w].seen /\ job[watch[w].on].state = Processing

\* A stream whose client stays hears how the job ended, though its record may
\* be pruned or replaced before it is told (WatchVodJob).
WatchersHearTheEnd ==
    \A w \in Watchers \cap Patient :
        watch[w] # Idle ~> watch[w] = Idle \/ phase = "stopped"

\* Every call is answered, or its client has gone: also a start whose task is
\* cancelled before its first step (admission_done).
CallsAreAnswered == \A c \in Callers : rpc[c] # NoCall ~> rpc[c] = NoCall

\* "Once admission completed, the job has the usual independent lifetime":
\* only CancelVodJob and the server's end cancel an admitted job's task.
IndependentLifetime ==
    [][\A h \in DOMAIN job :
         job[h].admitted /\ ~job[h].cancelling /\ job'[h].cancelling
           => \/ phase = "stopped"
              \/ \E c \in Callers : rpc'[c] = [op |-> "cancel", on |-> h]]_serviceVars
=============================================================================
