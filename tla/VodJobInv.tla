------------------------------ MODULE VodJobInv ------------------------------
(***************************************************************************)
(* Why VodJob's properties hold when clients take no liberties: an inductive *)
(* invariant, in parts for the disk, for a thread and for the coroutine.     *)
(***************************************************************************)
EXTENDS VodJob

\* A list of segments as the code builds it.  That the i-th begins at frame
\* i - 1 or later bounds its length by the frames it holds.
Sound(s) ==
    /\ InOrder(s)
    /\ \A i \in DOMAIN s : s[i].first >= i - 1
    /\ EndOf(s) <= Frames

FileOf(segment, whole) == [first |-> segment.first, count |-> segment.count, whole |-> whole]

\* The checkpoint lists s and nothing else.
Lists(s) ==
    IF s = <<>> THEN checkpoint = NoCheckpoint
    ELSE checkpoint # NoCheckpoint /\ checkpoint.segments = s

\* s is what the next commit will write: one segment more.
Extends(s) ==
    \E x \in Segment :
        s = Append(IF checkpoint = NoCheckpoint THEN <<>> ELSE checkpoint.segments, x)

CheckpointInv ==
    checkpoint # NoCheckpoint =>
        /\ dir
        /\ checkpoint.segments # <<>>
        /\ Sound(checkpoint.segments)
        /\ \/ Backs(checkpoint.segments)
           \/ output # NoOutput /\ output.token = checkpoint.token

OnDisk ==
    checkpoint # NoCheckpoint =>
        \A i \in DOMAIN checkpoint.segments :
            file[i] \in {NoFile, FileOf(checkpoint.segments[i], TRUE)}

OutputInv == output # NoOutput => Sound(output.segments) /\ EndOf(output.segments) = Frames

DiskInv == CheckpointInv /\ OnDisk /\ OutputInv

(* What a thread relies on until the work directory is purged. *)

BeforeCommit(w) ==
    w.op \in {"finish", "commit"} /\ dir =>
        /\ Extends(w.segments)
        /\ \A i \in 1..(Len(w.segments) - 1) : file[i] = FileOf(w.segments[i], TRUE)
        /\ file[Len(w.segments)] = FileOf(w.segments[Len(w.segments)], w.op = "commit")

AfterCommit(w) ==
    w.op \in {"committed", "mux", "publish"} /\ dir =>
        /\ w.segments # <<>>
        /\ Lists(w.segments)
        /\ checkpoint.token = w.token
        /\ Backs(w.segments)

Muxing(w) ==
    /\ w.op \in {"mux", "publish"} => EndOf(w.segments) = Frames
    /\ w.op = "publish" => dir
    /\ w.op = "mux" /\ ~dir => \A i \in SegmentIds : file[i] = NoFile

AfterPublish(w) ==
    w.op \in {"published", "remove", "removed"} =>
        /\ output # NoOutput
        /\ output.token = w.token
        /\ checkpoint # NoCheckpoint => checkpoint.token = w.token

ThreadInv(w) ==
    /\ w.op = "none" <=> w = NoWork
    /\ Sound(w.segments)
    /\ BeforeCommit(w)
    /\ AfterCommit(w)
    /\ Muxing(w)
    /\ AfterPublish(w)

(* What the coroutine relies on. *)

Turns ==
    /\ pc = "working" <=> work # NoWork
    /\ pc # "idle" => orphan = NoWork
    /\ pc \in {"warming", "running", "inferring", "working"} => dir
    /\ pc = "validating" /\ ~request.resume => checkpoint = NoCheckpoint

InLoop ==
    pc \in {"warming", "running", "inferring"} =>
        /\ Sound(segments)
        /\ Lists(segments)
        /\ Backs(segments)
        /\ done \in EndOf(segments)..Frames

Counting ==
    /\ pc = "warming" => done = EndOf(segments)
    /\ pc \in {"running", "inferring"} =>
          /\ token = IF segments = <<>> THEN NoToken ELSE checkpoint.token
          /\ SegmentCount < SegmentFrames
    /\ pc = "inferring" => done < Frames

OpenFile ==
    pc = "inferring" \/ (pc = "running" /\ SegmentCount > 0) =>
        file[Current] = [first |-> EndOf(segments), count |-> SegmentCount, whole |-> FALSE]

Finishing ==
    work.op \in {"finish", "commit", "committed"} =>
        /\ done > EndOf(segments)
        /\ work.segments = Append(segments, [first |-> EndOf(segments), count |-> SegmentCount])
        /\ SegmentCount < SegmentFrames => done = Frames

AtPause ==
    state = "paused" =>
        /\ pc = "idle"
        /\ orphan = NoWork
        /\ PausedCanResume

RunInv == Turns /\ InLoop /\ Counting /\ OpenFile /\ Finishing /\ AtPause

\* Before its first commit a run leaves no checkpoint, afterwards memory and
\* checkpoint agree; a thread that outlives its run still finds the files and
\* the checkpoint it started from, or no directory at all.
VodInv == VodTypeOK /\ DiskInv /\ ThreadInv(work) /\ ThreadInv(orphan) /\ RunInv
=============================================================================
