------------------------------ MODULE MCProcesses ------------------------------
(* Processes that are interrupted, killed and started again, one of five kinds  *)
(* in a behaviour.  "job": five frames in segments of two, two full ones and a   *)
(* short one; four commits let a client hold the token of an older checkpoint    *)
(* and come back after a purge.  "command line": the same job, run by processes  *)
(* with two settings.  "replacement": three runs over two releases, two          *)
(* sessions, and one retry of a request that found sessions on the old worker.   *)
(* "worker": as many starts as systemd allows, or one by hand, interrupted twice. *)
(* "renderer": networks in memory and on disk; two faces, so that one can fail     *)
(* and the other not, in two frames, so that buffers have a past; a preset with a   *)
(* sum in the catalog and one without; a chunk, the device and the memory hold one   *)
(* each, so that every one overflows.                                              *)
EXTENDS VodJobInv, VodCli, RollingReplace, Launcher, FaceSwap

CONSTANTS p1, p2

VARIABLE exercise

MCReleases == {"current", "next"}
MCSettings == {"these", "others"}
MCPresets == {p1, p2}
MCCatalogued == {p1}
MCBackends == {"inswapper", "paddle", "torch", "required", "uncached"}

jobVars == <<vodVars, cliVars>>
processVars == <<workerVars, launcherVars>>
allVars == <<exercise, jobVars, rollingVars, processVars, swapVars>>

MCInit ==
    /\ exercise \in {"job", "command line", "replacement", "worker", "renderer"}
    /\ CliInit /\ RollingInit /\ LauncherInit
    /\ exercise # "command line" => args.settings = "these"
    /\ exercise # "replacement" => env = "n"
    /\ IF exercise = "renderer" THEN SwapInit ELSE SwapInit /\ engine = "paddle"

MCNext ==
    /\ UNCHANGED exercise
    /\ \/ exercise = "job" /\ VodNext /\ UNCHANGED <<cliVars, rollingVars, processVars, swapVars>>
       \/ exercise = "command line" /\ CliNext /\ UNCHANGED <<rollingVars, processVars, swapVars>>
       \/ exercise = "replacement" /\ RollingNext /\ UNCHANGED <<jobVars, processVars, swapVars>>
       \/ exercise = "worker" /\ LauncherNext /\ UNCHANGED <<jobVars, rollingVars, swapVars>>
       \/ exercise = "renderer" /\ SwapNext /\ UNCHANGED <<jobVars, rollingVars, processVars>>

\* The script of a worker goes on only in its own exercise.
MCSpec ==
    /\ MCInit /\ [][MCNext]_allVars
    /\ WF_processVars(exercise = "worker" /\ LauncherSteps)
    /\ WF_processVars(exercise = "worker" /\ web = "stopping" /\ WebEnds)
=============================================================================
