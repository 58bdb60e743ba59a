------------------------------- MODULE FaceSwap -------------------------------
(***************************************************************************)
(* The renderers that put synthetic faces into a frame: MobileFaceSwap on      *)
(* Paddle and on torch (service/mobilefaceswap.py, mobilefaceswap_torch.py)     *)
(* and InSwapper (service/inswapper.py), as face_anonymization.process calls    *)
(* them.  A frame's faces drop out one by one while their crops go through      *)
(* buffers that every frame reuses, and the networks they go through are        *)
(* conditioned for a preset's picture, cached in memory and on disk.  The       *)
(* picture is a file: it may be replaced at any time.                           *)
(*                                                                          *)
(* A picture is <<preset, version>>, version 0 the catalog's.  Networks answer  *)
(* or fail face by face; landmarks that match a box are those of its face.      *)
(***************************************************************************)
EXTENDS Naturals, Sequences, FiniteSets, SequencesExt

CONSTANTS
    FaceCount,    \* bound: faces to swap in a frame, in track order
    Presets,      \* bound: presets, each with a picture of its own
    Catalogued,   \* those with a sha256 in the catalog
    Backends,     \* bound: of "inswapper", "paddle", "torch", "required", torch with
                  \* MOBILEFACESWAP_REQUIRE_CACHE, and "uncached", without a cache on disk
    MaxBatch,     \* of the detector's engine
    ChunkRows,    \* rows of the transfer buffers, 8
    SourceSlots,  \* networks or latents in memory, 16 and 64
    DeviceSlots,  \* MOBILEFACESWAP_SOURCE_CACHE_SIZE
    MaxFrames,    \* bound: frames
    MaxEdits      \* bound: replacements of pictures

ASSUME FaceSwapAssumption ==
    /\ Catalogued \subseteq Presets /\ {"failed", "broken"} \cap Presets = {}
    /\ {FaceCount, MaxFrames, MaxEdits} \subseteq Nat
    /\ {MaxBatch, ChunkRows, SourceSlots, DeviceSlots} \subseteq Nat \ {0}

VARIABLES
    engine,
    picture,     \* the version of each preset's file
    weights,     \* conditioned weights on disk: under which picture, for which
    sources,     \* conditioned in memory, the least recently used first
    onDevice,    \* torch_sources, likewise
    frame,       \* number of the frame
    step,
    jobs,        \* mobile_jobs: faces with the presets they get
    rois,        \* roi_points: of the primed faces, whether landmarks matched
    wholeFrame,  \* full_frame: whose landmarks the detections at 640 and 320 gave
    prepared,    \* jobs whose crop is made; with InSwapper, those that are done
    models,      \* of the chunk: pictures, or Failed
    rows,        \* device_output and host_output: what each row shows
    rowErrors,   \* of the chunk's forward passes
    results,     \* of the crops: what they show, or Nobody
    errors,      \* jobs that failed
    canvas       \* what each face shows, Nobody while it is as it came

swapVars == <<engine, picture, weights, sources, onDevice, frame, step, jobs, rois,
              wholeFrame, prepared, models, rows, rowErrors, results, errors, canvas>>
memory == <<sources, onDevice, rows>>
targetVars == <<rois, wholeFrame>>
batch == <<prepared, models, rowErrors, results>>
frameVars == <<frame, jobs, targetVars, prepared, errors, canvas>>

Failed == <<"failed", 0>>
Broken == <<"broken", 0>>
Nobody == [face |-> 0, frame |-> 0, picture |-> Failed]
DiskCache == engine \in {"torch", "required"}
Torch == DiskCache \/ engine = "uncached"
Now(p) == <<p, picture[p]>>
Synthetic(job, for) == [face |-> job.face, frame |-> frame, picture |-> for]

NoTarget == rois' = <<>> /\ wholeFrame' = <<>>
NoBatch == prepared' = <<>> /\ models' = <<>> /\ rowErrors' = <<>> /\ results' = <<>>

\* With a cache on disk, a file is missing, was written by an earlier run, or is
\* damaged.
SwapInit ==
    /\ engine \in Backends
    /\ picture = [p \in Presets |-> 0]
    /\ \E files \in SUBSET (IF DiskCache THEN Presets ELSE {}) : \E damaged \in SUBSET files :
          weights = [d \in {<<p, 0>> : p \in files} |-> IF d[1] \in damaged THEN Broken ELSE d]
    /\ sources = <<>> /\ onDevice = <<>>
    /\ frame = 0 /\ step = "done" /\ jobs = <<>>
    /\ rois = <<>> /\ wholeFrame = <<>> /\ prepared = <<>>
    /\ models = <<>> /\ rowErrors = <<>> /\ results = <<>>
    /\ rows = [k \in 1..ChunkRows |-> Nobody]
    /\ errors = {} /\ canvas = [f \in 1..FaceCount |-> Nobody]

Replaced(p) ==
    /\ SumFunction(picture) < MaxEdits
    /\ picture' = [picture EXCEPT ![p] = @ + 1]
    /\ UNCHANGED <<engine, weights, step, models, rowErrors, results, memory, frameVars>>

\* The process ends: files are renamed into place, so none is half written.
Restarts ==
    /\ frame < MaxFrames
    /\ step' = "done" /\ jobs' = <<>> /\ errors' = {}
    /\ canvas' = [f \in 1..FaceCount |-> Nobody]
    /\ sources' = <<>> /\ onDevice' = <<>>
    /\ rows' = [k \in 1..ChunkRows |-> Nobody]
    /\ NoTarget /\ NoBatch
    /\ UNCHANGED <<engine, picture, weights, frame>>

FrameComes ==
    /\ step = "done" /\ frame < MaxFrames
    /\ frame' = frame + 1
    /\ jobs' \in SeqOf([face : 1..FaceCount, preset : Presets], FaceCount) \ {<<>>}
    /\ \A i, j \in DOMAIN jobs' : i < j => jobs'[i].face < jobs'[j].face
    /\ step' = IF engine = "inswapper" THEN "swapping" ELSE "priming"
    /\ errors' = {} /\ canvas' = [f \in 1..FaceCount |-> Nobody]
    /\ UNCHANGED <<engine, picture, weights, memory, targetVars, batch>>

-----------------------------------------------------------------------------
(* Landmarks and crops, always from the frame as it came.                      *)

Detectable == SUBSET {jobs[i].face : i \in DOMAIN jobs}

\* A batch that fails leaves every face to a detection of its own.
Prime ==
    /\ step = "priming" /\ step' = "aligning"
    /\ \/ MaxBatch > 1 /\ Len(jobs) >= 2
          /\ \E found \in Detectable : rois' = [f \in UNION Detectable |-> f \in found]
       \/ rois' = <<>>
    /\ UNCHANGED <<engine, picture, weights, memory, frame, jobs, wholeFrame, batch, errors,
                   canvas>>

\* Detections of the whole frame that job i adds to those that others made: at
\* 640 and, unless it was found, at 320.
Scans(f) ==
    {seen \in SeqOf(Detectable, 2) :
        IsPrefix(wholeFrame, seen) /\ \A k \in Len(wholeFrame)..(Len(seen) - 1) :
                                         \A j \in 1..k : f \notin seen[j]}
Spotted(f, seen) == \E k \in DOMAIN seen : f \in seen[k]

\* Job i is prepared from its own crop, from a scan, or fails.  The target is not
\* used after the last one.
Align ==
    LET i == Len(prepared) + Cardinality(errors) + 1
        f == jobs[i].face
    IN /\ step = "aligning" /\ i \in DOMAIN jobs
       /\ \E seen \in Scans(f) :
             /\ \/ /\ \/ seen = wholeFrame /\ (f \in DOMAIN rois => rois[f])
                      \/ Spotted(f, seen) /\ (f \in DOMAIN rois => ~rois[f])
                   /\ prepared' = Append(prepared, i) /\ UNCHANGED errors
                \/ errors' = errors \cup {i} /\ UNCHANGED prepared
             /\ IF i < Len(jobs) THEN wholeFrame' = seen /\ UNCHANGED rois ELSE NoTarget
       /\ step' = IF i < Len(jobs) THEN "aligning"
                   ELSE IF prepared' = <<>> THEN "done" ELSE "fetching"
       /\ UNCHANGED <<engine, picture, weights, models, rowErrors, results, memory, frame,
                      jobs, canvas>>

-----------------------------------------------------------------------------
(* The networks of a chunk.                                                    *)

Batched == Torch /\ Len(prepared) > 1
Chunk == SubSeq(prepared, Len(results) + 1,
                Min({Len(prepared), Len(results) + IF Batched THEN ChunkRows ELSE 1}))
Preset == jobs[Chunk[Len(models) + 1]].preset

Held(cache, p) == \E k \in DOMAIN cache : cache[k][1] = p
Place(cache, p) == CHOOSE k \in DOMAIN cache : cache[k][1] = p
Entry(cache, p) == cache[Place(cache, p)]

\* move_to_end, or an insertion that may put the oldest out.
Used(cache, entry, slots) ==
    LET others == IF Held(cache, entry[1]) THEN RemoveAt(cache, Place(cache, entry[1]))
                  ELSE cache
        full == Append(others, entry)
    IN IF Len(full) > slots THEN Tail(full) ELSE full

\* The file's sum is compared with the catalog's, if that has one.
Genuine(p) == p \in Catalogued => picture[p] = 0

Fetched(model) ==
    /\ models' = Append(models, model)
    /\ step' = IF Len(models') < Len(Chunk) THEN "fetching" ELSE "forwarding"

OnDevice(model) == onDevice' = Used(onDevice, model, DeviceSlots) /\ Fetched(model)

FetchHeld ==
    /\ step = "fetching" /\ Torch /\ Held(onDevice, Preset)
    /\ OnDevice(Entry(onDevice, Preset))
    /\ UNCHANGED <<engine, picture, weights, sources, rows, rowErrors, results, frameVars>>

\* ConditionedModelCache.load, if there is a cache: a file that cannot be used is
\* ignored.  The face fails if its picture is not the catalog's, and if the network
\* does not fit on the device or cannot be captured.
Load ==
    /\ step = "fetching" /\ Torch /\ ~Held(onDevice, Preset)
    /\ LET usable == Now(Preset) \in DOMAIN weights /\ weights[Now(Preset)] # Broken IN
          \/ DiskCache /\ Genuine(Preset) /\ usable
             /\ OnDevice(weights[Now(Preset)])
          \/ /\ \/ engine = "torch" /\ Genuine(Preset) /\ ~usable
                \/ engine = "uncached"
             /\ step' = "conditioning" /\ UNCHANGED <<models, onDevice>>
          \/ Fetched(Failed) /\ UNCHANGED onDevice
    /\ UNCHANGED <<engine, picture, weights, sources, rows, rowErrors, results, frameVars>>

\* source_model: the file is read again, and the embedding may be refused.
Condition ==
    /\ \/ step = "fetching" /\ engine = "paddle"
       \/ step = "conditioning"
    /\ \/ /\ \/ Held(sources, Preset)
                /\ sources' = Used(sources, Entry(sources, Preset), SourceSlots)
             \/ ~Held(sources, Preset) /\ Genuine(Preset)
                /\ sources' = Used(sources, Now(Preset), SourceSlots)
          /\ IF Torch THEN step' = "saving" /\ UNCHANGED models
             ELSE Fetched(Last(sources'))
       \/ ~Held(sources, Preset) /\ Fetched(Failed) /\ UNCHANGED sources
    /\ UNCHANGED <<engine, picture, weights, onDevice, rows, rowErrors, results, frameVars>>

\* from_paddle and ConditionedModelCache.save, which reads the file once more;
\* a disk that is full is not an error, a sum that does not match is.  Without a
\* sum in the catalog, the weights of a picture that was replaced since are filed
\* under the new one.
Save ==
    /\ step = "saving"
    /\ \/ /\ DiskCache => Genuine(Preset)
          /\ \/ UNCHANGED weights
             \/ DiskCache
                /\ weights' = [d \in DOMAIN weights \cup {Now(Preset)} |->
                                 IF d = Now(Preset) THEN Last(sources) ELSE weights[d]]
          /\ \/ OnDevice(Last(sources))
             \/ Fetched(Failed) /\ UNCHANGED onDevice
       \/ Fetched(Failed) /\ UNCHANGED <<weights, onDevice>>
    /\ UNCHANGED <<engine, picture, sources, rows, rowErrors, results, frameVars>>

-----------------------------------------------------------------------------
(* The forward passes of a chunk.                                              *)

\* One row; rows[1] also stands for the answer that takes no buffer.
Forward ==
    LET k == Len(rowErrors) + 1
        answer == Synthetic(jobs[Chunk[k]], models[k])
    IN /\ step = "forwarding" /\ k \in DOMAIN Chunk
       /\ \/ /\ models[k] # Failed
             /\ rows' = [rows EXCEPT ![k] = answer]
             /\ rowErrors' = Append(rowErrors, FALSE)
          \/ rowErrors' = Append(rowErrors, TRUE) /\ UNCHANGED rows
       /\ UNCHANGED <<engine, picture, weights, sources, onDevice, step, models, results, frameVars>>

Collected(answers) ==
    /\ step = "forwarding" /\ Len(rowErrors) = Len(Chunk)
    /\ results' = results \o answers
    /\ models' = <<>> /\ rowErrors' = <<>>
    /\ step' = IF Len(results') < Len(prepared) THEN "fetching" ELSE "pasting"
    /\ UNCHANGED <<engine, picture, weights, memory, frameVars>>

\* Mutant of Collect: every row is taken for an answer.
CollectRows == Collected([k \in DOMAIN Chunk |-> rows[k]])

Collect == Collected([k \in DOMAIN Chunk |-> IF rowErrors[k] THEN Nobody ELSE rows[k]])

\* No renderer, no buffers or a failed transfer: the runtime counts every job as
\* failed.
RendererFails ==
    /\ \/ step = "priming"
       \/ Batched /\ step \in {"fetching", "forwarding"}
    /\ step' = "done" /\ errors' = DOMAIN jobs
    /\ NoTarget /\ NoBatch
    /\ UNCHANGED <<engine, picture, weights, memory, frame, jobs, canvas>>

\* paste_back: a crop covers the face it was made from.
PastedOver(good) ==
    [f \in 1..FaceCount |->
        IF \E k \in good : jobs[prepared[k]].face = f
        THEN results[CHOOSE k \in good : jobs[prepared[k]].face = f] ELSE canvas[f]]

\* A crop is checked before the frame is touched.
Paste ==
    /\ step = "pasting" /\ step' = "done"
    /\ \E good \in SUBSET {k \in DOMAIN results : results[k] # Nobody} :
          /\ errors' = DOMAIN jobs \ {prepared[k] : k \in good}
          /\ canvas' = PastedOver(good)
    /\ NoBatch
    /\ UNCHANGED <<engine, picture, weights, memory, frame, jobs, targetVars>>

-----------------------------------------------------------------------------
(* InSwapper: face by face, each detected in what the earlier ones left.        *)

SourceLatent(p) ==
    \/ Held(sources, p) /\ sources' = Used(sources, Entry(sources, p), SourceSlots)
    \/ ~Held(sources, p) /\ Genuine(p) /\ sources' = Used(sources, Now(p), SourceSlots)

Swap ==
    LET i == Len(prepared) + 1
        job == jobs[i]
    IN /\ step = "swapping"
       /\ \/ /\ SourceLatent(job.preset)
             /\ canvas' = [canvas EXCEPT ![job.face] = Synthetic(job, Last(sources'))]
             /\ UNCHANGED errors
          \/ /\ SourceLatent(job.preset) \/ UNCHANGED sources
             /\ errors' = errors \cup {i} /\ UNCHANGED canvas
       /\ IF i < Len(jobs) THEN step' = "swapping" /\ prepared' = Append(prepared, i)
          ELSE step' = "done" /\ prepared' = <<>>
       /\ UNCHANGED <<engine, picture, weights, onDevice, rows, models, rowErrors, results,
                      frame, jobs, targetVars>>

SwapNext ==
    \/ Restarts \/ FrameComes \/ Prime \/ Align
    \/ FetchHeld \/ Load \/ Condition \/ Save
    \/ Forward \/ Collect \/ RendererFails \/ Paste \/ Swap
    \/ \E p \in Presets : Replaced(p)

SwapSpec == SwapInit /\ [][SwapNext]_swapVars

-----------------------------------------------------------------------------
(* Properties                                                                  *)

(* Each face that counts as swapped shows a synthetic face that was made from      *)
(* its own crop of this very frame, with the identity of its own preset, and, if    *)
(* the catalog has a sum for that preset, of the picture with this sum; each        *)
(* other one is as it came, so that the blur covers it (mobilefaceswap.py:458,      *)
(* mobilefaceswap_torch.py:309, face_anonymization.py:269).                         *)
SwapsAreOwn ==
    step = "done" => \A i \in DOMAIN jobs :
        LET shown == canvas[jobs[i].face]
        IN IF i \in errors THEN shown = Nobody
           ELSE /\ shown.face = jobs[i].face /\ shown.frame = frame
                /\ shown.picture[1] = jobs[i].preset
                /\ jobs[i].preset \in Catalogued => shown.picture[2] = 0
=============================================================================
