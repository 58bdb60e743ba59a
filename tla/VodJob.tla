-------------------------------- MODULE VodJob --------------------------------
(***************************************************************************)
(* class VodJob of service/vod.py: the runs of one VOD job over one work    *)
(* directory and one output path, started, paused, cancelled and resumed by *)
(* gRPC clients (VodProcessor) or the command line, and killed at any time. *)
(*                                                                          *)
(* A run is a coroutine; encoding, committing, muxing and removing files    *)
(* run in threads (asyncio.to_thread), which go on when the coroutine that  *)
(* awaits them is cancelled.  Frames are numbers, a segment is the interval *)
(* of frames it holds.  The frames' contents, audio, warm-up and progress   *)
(* figures are left out.                                                    *)
(***************************************************************************)
EXTENDS Naturals, Sequences

CONSTANTS
    Frames,          \* frames of the input
    SegmentFrames,   \* segment_frames
    MaxCommits,      \* bound: checkpoints written
    Liberties,       \* what clients do although they should not: see Start
    NoFile,          \* a segment file that does not exist
    NoCheckpoint,    \* no checkpoint.json
    NoOutput         \* no output file

SegmentIds == 1..Frames
Segment == [first : 0..Frames, count : 1..SegmentFrames]
File == [first : 0..Frames, count : 0..SegmentFrames, whole : BOOLEAN]
Tokens == 0..MaxCommits              \* 0: the empty token
NoToken == 0
Listing == [segments : Seq(Segment), token : Tokens]

ASSUME VodAssumption ==
    /\ Frames \in Nat \ {0}
    /\ SegmentFrames \in Nat \ {0}
    /\ MaxCommits \in Nat
    /\ NoFile \notin File
    /\ NoCheckpoint \notin Listing
    /\ NoOutput \notin Listing
    /\ Liberties \subseteq {"new over old", "start while writing"}

VARIABLES
    dir,             \* the work directory exists
    file,            \* its segment files
    checkpoint,      \* its checkpoint.json
    output,          \* the output file: the segments it was put together from
    commits,         \* checkpoints written so far: no two are the same
    pc,              \* where the run is
    request,         \* resume, checkpoint_token, overwrite_output of the run
    stop,            \* _stop is set
    segments,        \* state.segments
    done,            \* frames_done
    work,            \* what the run's thread does for it
    orphan,          \* what the thread of a cancelled run still does
    state,           \* the job record: state
    token            \*                 and checkpoint_token

disk == <<dir, file, checkpoint, output, commits>>
vodVars == <<disk, pc, request, stop, segments, done, work, orphan, state, token>>

\* The frame after the last of a list of segments: next_segment_start_frame.
EndOf(s) == IF s = <<>> THEN 0 ELSE s[Len(s)].first + s[Len(s)].count

NoWork == [op |-> "none", segments |-> <<>>, token |-> NoToken]

VodInit ==
    /\ dir = FALSE
    /\ file = [i \in SegmentIds |-> NoFile]
    /\ checkpoint = NoCheckpoint
    /\ output = NoOutput
    /\ commits = 0
    /\ pc = "idle"
    /\ request = [resume |-> FALSE, token |-> NoToken, overwrite |-> FALSE]
    /\ stop = FALSE
    /\ segments = <<>>
    /\ done = 0
    /\ work = NoWork
    /\ orphan = NoWork
    /\ state = "unknown"
    /\ token = NoToken

-----------------------------------------------------------------------------
(* A run begins. *)

\* StartVodJob, or the command line.  The worker refuses neither a new job
\* over a checkpoint, which ai_processor.proto forbids, nor a start while the
\* thread of a cancelled run is still writing, which clients cannot see:
\* Liberties says which of the two happen.
Start(resume, its, overwrite) ==
    /\ pc = "idle"
    /\ orphan = NoWork \/ "start while writing" \in Liberties
    /\ resume \/ checkpoint = NoCheckpoint \/ "new over old" \in Liberties
    /\ pc' = "validating"
    /\ request' = [resume |-> resume, token |-> its, overwrite |-> overwrite]
    /\ stop' = FALSE
    /\ state' = "processing"
    /\ token' = NoToken
    /\ UNCHANGED <<disk, segments, done, work, orphan>>

\* The run is over.
End(how) ==
    /\ pc' = "idle"
    /\ state' = how
    /\ work' = NoWork

\* run(): a resume without a token and without a checkpoint starts over.
Resumes == request.resume /\ ~(request.token = NoToken /\ checkpoint = NoCheckpoint)

\* _load_checkpoint, apart from the fingerprints: the token is that of the
\* checkpoint on disk, and the files it lists exist.
Loadable(its) ==
    /\ checkpoint # NoCheckpoint
    /\ checkpoint.token = its
    /\ \A i \in DOMAIN checkpoint.segments : file[i] # NoFile

Resume ==
    /\ pc = "validating"
    /\ output = NoOutput \/ request.overwrite
    /\ Resumes
    /\ Loadable(request.token)
    /\ pc' = "warming"
    /\ segments' = checkpoint.segments
    /\ done' = EndOf(checkpoint.segments)
    /\ UNCHANGED <<disk, request, stop, work, orphan, state, token>>

Fresh ==
    /\ pc = "validating"
    /\ output = NoOutput \/ request.overwrite
    /\ ~Resumes
    /\ pc' = "warming"
    /\ dir' = TRUE
    /\ file' = [i \in SegmentIds |-> NoFile]
    /\ segments' = <<>>
    /\ done' = 0
    /\ UNCHANGED <<checkpoint, output, commits, request, stop, work, orphan, state, token>>

\* Encoder, tracker and decoder are there, the frames before the warm-up are
\* skipped, the tracker is warm; the first progress names the checkpoint.
Warmed ==
    /\ pc = "warming"
    /\ pc' = "running"
    /\ token' = IF segments = <<>> THEN NoToken ELSE checkpoint.token
    /\ UNCHANGED <<disk, request, stop, segments, done, work, orphan, state>>

-----------------------------------------------------------------------------
(* The loop over the frames. *)

Current == Len(segments) + 1                  \* segment_index, counted from 1
SegmentCount == done - EndOf(segments)        \* segment_count

\* PauseVodJob, request_drain, a signal.
RequestPause ==
    /\ pc # "idle"
    /\ stop' = TRUE
    /\ UNCHANGED <<disk, pc, request, segments, done, work, orphan, state, token>>

\* The stop check at the top of the loop: an unfinished segment is dropped.
Pause ==
    /\ pc = "running"
    /\ stop
    /\ End("paused")
    /\ file' = IF SegmentCount = 0 THEN file ELSE [file EXCEPT ![Current] = NoFile]
    /\ UNCHANGED <<dir, checkpoint, output, commits, request, stop, segments, done, orphan, token>>

\* A frame is read; the first of a segment opens its file.
ReadFrame ==
    /\ pc = "running"
    /\ ~stop
    /\ done < Frames
    /\ pc' = "inferring"
    /\ file' = IF SegmentCount = 0
                 THEN [file EXCEPT ![Current] = [first |-> done, count |-> 0, whole |-> FALSE]]
                 ELSE file
    /\ UNCHANGED <<dir, checkpoint, output, commits, request, stop, segments, done, work, orphan,
                   state, token>>

\* _finish_segment in a thread: the segment list is the one it will commit.
FinishSegment(count) ==
    /\ pc' = "working"
    /\ work' = [op |-> "finish", token |-> NoToken,
                segments |-> Append(segments, [first |-> EndOf(segments), count |-> count])]

\* One more frame in the current segment's file, if it has not been removed.
Grown == IF file[Current] = NoFile THEN file ELSE [file EXCEPT ![Current].count = @ + 1]

\* The frame is anonymized and encoded; a full segment is finished.
WriteFrame ==
    /\ pc = "inferring"
    /\ done' = done + 1
    /\ file' = Grown
    /\ IF SegmentCount + 1 >= SegmentFrames
         THEN FinishSegment(SegmentCount + 1)
         ELSE pc' = "running" /\ UNCHANGED work
    /\ UNCHANGED <<dir, checkpoint, output, commits, request, stop, segments, orphan, state, token>>

\* _finalize in a thread.
Finalize(list, its) ==
    /\ pc' = "working"
    /\ work' = [op |-> "mux", segments |-> list, token |-> its]

\* Mutant of EndOfInput: the last segment must be full.
EndOfInputFull ==
    /\ pc = "running"
    /\ ~stop
    /\ done = Frames
    /\ Finalize(segments, token)
    /\ UNCHANGED <<disk, request, stop, segments, done, orphan, state, token>>

\* The decoder has no more frames: the last segment, if any, is finished.
EndOfInput ==
    /\ pc = "running"
    /\ ~stop
    /\ done = Frames
    /\ IF SegmentCount > 0 THEN FinishSegment(SegmentCount) ELSE Finalize(segments, token)
    /\ UNCHANGED <<disk, request, stop, segments, done, orphan, state, token>>

-----------------------------------------------------------------------------
(* The threads: w is the work a thread does, after it is what follows. *)

\* Mutant of Encoded: checkpoint.json is written before ffmpeg has finished.
EncodedLater(w, after) ==
    /\ w.op = "finish"
    /\ dir
    /\ commits < MaxCommits
    /\ commits' = commits + 1
    /\ checkpoint' = [segments |-> w.segments, token |-> commits + 1]
    /\ after = [w EXCEPT !.op = "commit"]
    /\ UNCHANGED <<dir, file, output>>

\* encoder.finish(): the segment's file is a complete MP4.
Encoded(w, after) ==
    /\ w.op = "finish"
    /\ dir
    /\ file[Len(w.segments)] # NoFile
    /\ file' = [file EXCEPT ![Len(w.segments)].whole = TRUE]
    /\ after = [w EXCEPT !.op = "commit"]
    /\ UNCHANGED <<dir, checkpoint, output, commits>>

\* _commit_checkpoint: an atomic replacement of checkpoint.json.
Committed(w, after) ==
    /\ w.op = "commit"
    /\ dir
    /\ commits < MaxCommits
    /\ commits' = commits + 1
    /\ checkpoint' = [segments |-> w.segments, token |-> commits + 1]
    /\ after = [w EXCEPT !.op = "committed", !.token = commits + 1]
    /\ UNCHANGED <<dir, file, output>>

\* ffmpeg puts the segments together; it fails on one that is not complete.
Muxed(w, after) ==
    /\ w.op = "mux"
    /\ w.segments # <<>>
    /\ \A i \in DOMAIN w.segments : file[i] # NoFile /\ file[i].whole
    /\ after = [w EXCEPT !.op = "publish",
                         !.segments = [i \in DOMAIN w.segments |->
                                          [first |-> file[i].first, count |-> file[i].count]]]
    /\ UNCHANGED disk

\* os.replace of the output.
Published(w, after) ==
    /\ w.op = "publish"
    /\ output' = [segments |-> w.segments, token |-> w.token]
    /\ after = [w EXCEPT !.op = "published"]
    /\ UNCHANGED <<dir, file, checkpoint, commits>>

\* rmtree of the segments, file by file.
Removed(w, after) ==
    /\ w.op = "remove"
    /\ \E i \in SegmentIds :
          /\ file[i] # NoFile
          /\ file' = [file EXCEPT ![i] = NoFile]
    /\ after = w
    /\ UNCHANGED <<dir, checkpoint, output, commits>>

AllRemoved(w, after) ==
    /\ w.op = "remove"
    /\ \A i \in SegmentIds : file[i] = NoFile
    /\ after = [w EXCEPT !.op = "removed"]
    /\ UNCHANGED disk

ThreadStep(w, after) ==
    \/ Encoded(w, after)
    \/ Committed(w, after)
    \/ Muxed(w, after)
    \/ Published(w, after)
    \/ Removed(w, after)
    \/ AllRemoved(w, after)

Over(w) == w.op \in {"committed", "published", "removed"}
MayFail(w) == w.op \in {"finish", "commit", "mux", "publish"}

Works ==
    /\ pc = "working"
    /\ ThreadStep(work, work')
    /\ UNCHANGED <<pc, request, stop, segments, done, orphan, state, token>>

\* The thread of a cancelled run goes on; nobody asks for its result.
WorksOn ==
    /\ ThreadStep(orphan, orphan')
    /\ UNCHANGED <<pc, request, stop, segments, done, work, state, token>>

OrphanEnds ==
    /\ Over(orphan) \/ MayFail(orphan)
    /\ orphan' = NoWork
    /\ UNCHANGED <<disk, pc, request, stop, segments, done, work, state, token>>

-----------------------------------------------------------------------------
(* The run goes on with what its thread has done. *)

\* A segment is durable.  One that is not full was the last.
SegmentDone ==
    /\ work.op = "committed"
    /\ segments' = work.segments
    /\ token' = work.token
    /\ IF SegmentCount < SegmentFrames
         THEN Finalize(work.segments, work.token)
         ELSE pc' = "running" /\ work' = NoWork
    /\ UNCHANGED <<disk, request, stop, done, orphan, state>>

\* The output is in place: the segments are removed.
OutputDone ==
    /\ work.op = "published"
    /\ work' = [work EXCEPT !.op = "remove"]
    /\ UNCHANGED <<disk, pc, request, stop, segments, done, orphan, state, token>>

Finished ==
    /\ work.op = "removed"
    /\ End("done")
    /\ UNCHANGED <<disk, request, stop, segments, done, orphan, token>>

\* A VodError or an unexpected one: a refused request or checkpoint, a
\* decoder, encoder, inference or mux failure, a full disk.  What is in the
\* file of an unfinished segment stays there.
Fail ==
    /\ pc \in {"validating", "warming", "running", "inferring"} \/ MayFail(work)
    /\ End("failed")
    /\ UNCHANGED <<disk, request, stop, segments, done, orphan, token>>

\* CancelVodJob, close(), or the disconnection of the client that awaits the
\* run in PauseVodJob: the coroutine ends, its thread does not.
Cancel ==
    /\ pc # "idle"
    /\ orphan = NoWork \/ work = NoWork        \* bound: one thread goes on
    /\ End("cancelled")
    /\ orphan' = IF work = NoWork THEN orphan ELSE IF Over(work) THEN NoWork ELSE work
    /\ UNCHANGED <<disk, request, stop, segments, done, token>>

\* Mutant of Cleanup: the partial output is left to the thread that writes it.
CleanupDirectory(purge) ==
    /\ pc = "idle"
    /\ state # "unknown"
    /\ state' = "cancelled"
    /\ IF purge
         THEN /\ dir' = FALSE
              /\ file' = [i \in SegmentIds |-> NoFile]
              /\ checkpoint' = NoCheckpoint
              /\ UNCHANGED <<output, commits>>
         ELSE UNCHANGED disk
    /\ UNCHANGED <<pc, request, stop, segments, done, work, orphan, token>>

\* _cleanup_cancel: the partial output is deleted, so that a thread that has
\* muxed it cannot put it in place; with purge_work_dir the work directory too.
Cleanup(purge) ==
    /\ pc = "idle"
    /\ state # "unknown"
    /\ state' = "cancelled"
    /\ orphan' = IF orphan.op = "publish" THEN NoWork ELSE orphan
    /\ IF purge
         THEN /\ dir' = FALSE
              /\ file' = [i \in SegmentIds |-> NoFile]
              /\ checkpoint' = NoCheckpoint
              /\ UNCHANGED <<output, commits>>
         ELSE UNCHANGED disk
    /\ UNCHANGED <<pc, request, stop, segments, done, work, token>>

\* The worker is killed: what is on disk is left as it is.
Crash ==
    /\ End("unknown")
    /\ orphan' = NoWork
    /\ stop' = FALSE
    /\ token' = NoToken
    /\ UNCHANGED <<disk, request, segments, done>>

VodNext ==
    \/ \E resume, overwrite \in BOOLEAN, its \in Tokens : Start(resume, its, overwrite)
    \/ Resume
    \/ Fresh
    \/ Warmed
    \/ RequestPause
    \/ Pause
    \/ ReadFrame
    \/ WriteFrame
    \/ EndOfInput
    \/ Works
    \/ WorksOn
    \/ OrphanEnds
    \/ SegmentDone
    \/ OutputDone
    \/ Finished
    \/ Fail
    \/ Cancel
    \/ \E purge \in BOOLEAN : Cleanup(purge)
    \/ Crash

VodSpec == VodInit /\ [][VodNext]_vodVars

-----------------------------------------------------------------------------
(* Properties *)

States == {"unknown", "processing", "paused", "done", "failed", "cancelled"}
Ops == {"none", "finish", "commit", "committed", "mux", "publish", "published", "remove", "removed"}
Work == [op : Ops, segments : Seq(Segment), token : Tokens]

VodTypeOK ==
    /\ dir \in BOOLEAN
    /\ file \in [SegmentIds -> File \cup {NoFile}]
    /\ checkpoint \in Listing \cup {NoCheckpoint}
    /\ output \in Listing \cup {NoOutput}
    /\ commits \in Tokens
    /\ pc \in {"idle", "validating", "warming", "running", "inferring", "working"}
    /\ request \in [resume : BOOLEAN, token : Tokens, overwrite : BOOLEAN]
    /\ stop \in BOOLEAN
    /\ segments \in Seq(Segment)
    /\ done \in 0..Frames
    /\ work \in Work
    /\ orphan \in Work
    /\ state \in States
    /\ token \in Tokens

\* A list of segments holds the frames 0 to EndOf(s) - 1, in order, once each.
InOrder(s) ==
    \A i \in DOMAIN s : s[i].first = IF i = 1 THEN 0 ELSE s[i - 1].first + s[i - 1].count

\* The output is the whole input: however often the job was paused, cancelled,
\* killed and resumed, no frame is missing, doubled or out of order.
OutputIsTheInput ==
    output # NoOutput => InOrder(output.segments) /\ EndOf(output.segments) = Frames

Backs(s) ==
    \A i \in DOMAIN s : file[i] = [first |-> s[i].first, count |-> s[i].count, whole |-> TRUE]

\* The checkpoint is the source of truth: the segments it lists are complete
\* files that hold exactly the frames it says, unless the output has already
\* been made of them.  A crash between a segment and its commit, a retry over
\* a half-written file or a late thread must not break that.
CheckpointIsBacked ==
    checkpoint # NoCheckpoint =>
        \/ InOrder(checkpoint.segments) /\ Backs(checkpoint.segments)
        \/ output # NoOutput /\ output.token = checkpoint.token

\* What a job has done is there: as its checkpoint's segments first, as the
\* output in the end, whatever interrupted it in between (vod.py:741, 856).
WorkIsNotLost == OutputIsTheInput /\ CheckpointIsBacked

\* A paused job can be resumed with the token of its record; one that was
\* paused before its first commit starts over, without a token.
PausedCanResume ==
    state = "paused" =>
        \/ token = NoToken /\ checkpoint = NoCheckpoint
        \/ Loadable(token)

\* Committed segments are kept: as long as the work directory is not purged,
\* every new checkpoint lists the old one's segments and more.
CommittedIsKept ==
    [][checkpoint # NoCheckpoint /\ checkpoint' # NoCheckpoint =>
          /\ Len(checkpoint.segments) <= Len(checkpoint'.segments)
          /\ \A i \in DOMAIN checkpoint.segments :
                checkpoint'.segments[i] = checkpoint.segments[i]]_vodVars

Promise == INSTANCE VodPromise
    WITH durable <- IF checkpoint = NoCheckpoint THEN 0 ELSE EndOf(checkpoint.segments),
         published <- output # NoOutput

\* Through every interruption the job keeps what VodPromise promises: frames
\* become durable in order, and the output appears when all of them are.
KeepsPromise == Promise!PromiseSpec
=============================================================================
