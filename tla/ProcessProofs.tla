----------------------------- MODULE ProcessProofs -----------------------------
(***************************************************************************)
(* Proofs about the processes: how a worker is run, replaced and ended, and  *)
(* the command line with the VOD job that its processes run.                 *)
(*                                                                          *)
(* RollingReplace, for any releases, sessions, retries and runs, as long as  *)
(* the script is not run again after it gave up on sessions.  The argument:  *)
(* between two runs the unit in the env file is the only one that runs, so   *)
(* that active_slot finds it; and from the moment the server answers that    *)
(* none is left, no session can come to the old unit again.                  *)
(*                                                                          *)
(* The worker's process under its launcher, for any number of interrupts and *)
(* starts.  The argument: what serve() owns is known at each stage, the      *)
(* finally block closes it in the opposite order, and calls and jobs live    *)
(* only at stages at which the runtime does.                                 *)
(*                                                                          *)
(* VodJob for every length of the input, of a segment and any number of     *)
(* commits, when clients take no liberties: the inductive invariant VodInv  *)
(* and what follows from it; and the command line, whose processes run the  *)
(* job by VodJob's steps.                                                   *)
(*                                                                          *)
(* FaceSwap for any faces, presets, buffers and caches: networks, rows and   *)
(* results are those of the jobs whose places they have.                     *)
(***************************************************************************)
EXTENDS FaceSwap, RollingReplace, Launcher, VodCli, VodJobInv, QueueFacts, FiniteSetTheorems

-----------------------------------------------------------------------------
(* RollingReplace *)

\* A run that asks and has its answer, or is on its way to the end.
Asked == command \in {"asking", "persist", "stop"}

\* What the script relies on at each of its commands.
ScriptInv ==
    /\ unit[env] = "serving"
    /\ command \in {"idle", "prepare", "done", "refused"} => unit[OtherSlot(env)] = "stopped"
    /\ command \in {"prepare", "start", "waiting", "asking", "persist"} => env = old
    /\ command \in {"asking", "persist"} => unit[new] = "serving"
    /\ command = "stop" => env = new

\* What the server has been asked, and what that says of the old unit.
ServerInv ==
    /\ command \notin {"asking", "died"} => replacement = "none"
    /\ Asked /\ replacement \in {"made", "drained", "remain"} => pool = new
    /\ Asked /\ replacement = "drained" => open[old] = 0
    /\ command \in {"persist", "stop"} => pool = new /\ open[old] = 0

\* Sessions are counted on both units.
WithinSessions == open["n"] + open["nb"] <= MaxSessions

RollingInv == RollingTypeOK /\ WithinSessions /\ ScriptInv /\ ServerInv

LEMMA Slot == \A s \in Slots : /\ OtherSlot(s) \in Slots /\ OtherSlot(s) # s
                               /\ OtherSlot(OtherSlot(s)) = s
  BY DEF Slots, OtherSlot

LEMMA TypeFacts ==
    ASSUME RollingTypeOK
    PROVE  /\ env \in Slots /\ pool \in Slots /\ old \in Slots
           /\ new \in Slots /\ new # old /\ new = OtherSlot(old) /\ OtherSlot(new) = old
           /\ open["n"] \in Nat /\ open["nb"] \in Nat /\ MaxSessions \in Nat
  <1>1. env \in Slots /\ pool \in Slots /\ old \in Slots
    BY DEF RollingTypeOK
  <1>2. "n" \in Slots /\ "nb" \in Slots
    BY DEF Slots
  <1>3. open["n"] \in 0..MaxSessions /\ open["nb"] \in 0..MaxSessions
    BY <1>2 DEF RollingTypeOK
  <1>4. MaxSessions \in Nat
    BY RollingAssumption
  <1> QED
    BY <1>1, <1>3, <1>4, Slot DEF new

LEMMA RollingInitInv == RollingInit => RollingInv
  <1> SUFFICES ASSUME RollingInit PROVE RollingInv
    OBVIOUS
  <1>1. PICK s \in Slots : /\ unit = [u \in Slots |-> IF u = s THEN "serving" ELSE "stopped"]
                           /\ env = s /\ pool = s /\ old = s
    BY DEF RollingInit
  <1>2. RollingTypeOK
    BY <1>1, RollingAssumption DEF RollingInit, RollingTypeOK, Slots
  <1>3. WithinSessions
    BY RollingAssumption DEF RollingInit, WithinSessions, Slots
  <1>4. ScriptInv
    BY <1>1, Slot DEF RollingInit, ScriptInv
  <1>5. ServerInv
    BY DEF RollingInit, ServerInv, Asked
  <1> QED
    BY <1>2, <1>3, <1>4, <1>5 DEF RollingInv

-----------------------------------------------------------------------------
(* Steps of sessions and of the server *)

LEMMA SessionOpensStep ==
    ASSUME RollingInv, SessionOpens
    PROVE  RollingInv'
  <1> USE DEF RollingInv
  <1>1. /\ open["n"] + open["nb"] < MaxSessions /\ pool \in Slots
        /\ open["n"] \in Nat /\ open["nb"] \in Nat /\ MaxSessions \in Nat
        /\ open' = [open EXCEPT ![pool] = @ + 1]
        /\ open \in [Slots -> 0..MaxSessions]
        /\ UNCHANGED <<unitVars, env, pool, replacement, scriptVars>>
    BY TypeFacts DEF SessionOpens, RollingTypeOK
  <1>2. open' \in [Slots -> 0..MaxSessions] /\ WithinSessions'
    <2>1. CASE pool = "n"
      BY <1>1, <2>1 DEF Slots, WithinSessions
    <2>2. CASE pool = "nb"
      BY <1>1, <2>2 DEF Slots, WithinSessions
    <2> QED
      BY <1>1, <2>1, <2>2 DEF Slots
  <1>3. RollingTypeOK'
    BY <1>1, <1>2 DEF RollingTypeOK, unitVars, scriptVars
  <1>4. ScriptInv' /\ new' = new
    BY <1>1 DEF ScriptInv, unitVars, scriptVars, new
  <1>5. ServerInv'
    <2>1. pool = new => open'[old] = open[old]
      BY <1>1, TypeFacts
    <2> QED
      BY <1>1, <1>4, <2>1 DEF ServerInv, Asked, scriptVars
  <1> QED
    BY <1>2, <1>3, <1>4, <1>5

LEMMA SessionLeavesStep ==
    ASSUME RollingInv, NEW s \in Slots, SessionLeaves(s)
    PROVE  RollingInv'
  <1> USE DEF RollingInv
  <1>1. /\ open[s] > 0 /\ pool \in Slots
        /\ open["n"] \in Nat /\ open["nb"] \in Nat /\ MaxSessions \in Nat
        /\ open \in [Slots -> 0..MaxSessions] /\ open["n"] + open["nb"] <= MaxSessions
        /\ UNCHANGED <<unitVars, env, pool, replacement, scriptVars>>
    BY TypeFacts DEF SessionLeaves, RollingTypeOK, WithinSessions
  <1>2. \/ open' = [open EXCEPT ![s] = @ - 1]
        \/ s # pool /\ open' = [open EXCEPT ![s] = @ - 1, ![pool] = @ + 1]
    BY DEF SessionLeaves
  <1>3. open' \in [Slots -> 0..MaxSessions] /\ WithinSessions'
    <2>1. CASE s = "n"
      BY <1>1, <1>2, <2>1 DEF Slots, WithinSessions
    <2>2. CASE s = "nb"
      BY <1>1, <1>2, <2>2 DEF Slots, WithinSessions
    <2> QED
      BY <2>1, <2>2 DEF Slots
  <1>4. RollingTypeOK'
    BY <1>1, <1>3 DEF RollingTypeOK, unitVars, scriptVars
  <1>5. ScriptInv' /\ new' = new
    BY <1>1 DEF ScriptInv, unitVars, scriptVars, new
  <1>6. ServerInv'
    <2>1. pool = new /\ open[old] = 0 => open'[old] = 0
      BY <1>1, <1>2, TypeFacts
    <2> QED
      BY <1>1, <1>5, <2>1 DEF ServerInv, Asked, scriptVars
  <1> QED
    BY <1>3, <1>4, <1>5, <1>6

\* The server moves the pool, refuses, answers; or its answer is lost.
LEMMA ServerStep ==
    ASSUME RollingInv,
           ReplacementMade \/ ReplacementRefused \/ ServerAnswers \/ AnswerLost
    PROVE  RollingInv'
  <1> USE DEF RollingInv, ReplacementMade, ReplacementRefused, ServerAnswers, AnswerLost
  <1>1. /\ UNCHANGED <<unitVars, env, open, scriptVars>> /\ pool' \in {pool, new}
        /\ replacement' \in {"made", "drained", "remain", "refused", "lost"}
        /\ replacement # "none"
        /\ replacement' \in {"drained", "remain"} => replacement = "made" /\ pool' = pool
        /\ replacement' = "made" => pool' = new
        /\ replacement' = "drained" => open[old] = 0
        /\ replacement' \in {"refused", "lost"} => pool' = pool
    OBVIOUS
  <1>2. RollingTypeOK'
    BY <1>1, TypeFacts DEF RollingTypeOK, unitVars, scriptVars
  <1>3. WithinSessions' /\ ScriptInv' /\ new' = new
    BY <1>1 DEF WithinSessions, ScriptInv, unitVars, scriptVars, new
  <1>4. command \in {"asking", "died"}
    BY <1>1 DEF ServerInv
  <1>5. ServerInv'
    BY <1>1, <1>3, <1>4 DEF ServerInv, Asked, scriptVars
  <1> QED
    BY <1>2, <1>3, <1>5

LEMMA UnitServesStep ==
    ASSUME RollingInv, NEW s \in Slots, UnitServes(s)
    PROVE  RollingInv'
  <1> USE DEF RollingInv
  <1>1. /\ unit[s] = "starting" /\ unit' = [unit EXCEPT ![s] = "serving"]
        /\ UNCHANGED <<config, release, env, serverVars, scriptVars>>
    BY DEF UnitServes
  <1>2. RollingTypeOK'
    BY <1>1 DEF RollingTypeOK, serverVars, scriptVars
  <1>3. \A u \in Slots : unit'[u] = IF u = s THEN "serving" ELSE unit[u]
    BY <1>1 DEF RollingTypeOK
  <1>4. new' = new
    BY <1>1 DEF scriptVars, new
  <1>5. WithinSessions' /\ ServerInv'
    BY <1>1, <1>4 DEF WithinSessions, ServerInv, Asked, serverVars, scriptVars
  <1>6. OtherSlot(env) \in Slots
    BY TypeFacts, Slot
  <1>7. ScriptInv'
    BY <1>1, <1>3, <1>4, <1>6, TypeFacts DEF ScriptInv, scriptVars
  <1> QED
    BY <1>2, <1>5, <1>7

-----------------------------------------------------------------------------
(* Steps of the script *)

\* active_slot finds the unit in the env file, since no other one runs.
LEMMA RunStartsStep ==
    ASSUME RollingInv, ~Reruns, RunStarts
    PROVE  RollingInv'
  <1> USE DEF RollingInv
  <1>1. /\ command \in {"idle", "done", "refused"} /\ command' = "prepare"
        /\ runs < MaxRuns /\ runs' = runs + 1 /\ target' \in Releases /\ attempt' = 0
        /\ old' = IF Runs("nb") THEN "nb" ELSE "n"
        /\ UNCHANGED <<unitVars, env, serverVars>>
    BY DEF RunStarts, unitVars, serverVars
  <1>2. old' = env
    BY <1>1, TypeFacts DEF ScriptInv, Runs, Slots, OtherSlot
  <1>3. attempt' \in 0..DrainRetries /\ runs' \in 0..MaxRuns
    <2>1. DrainRetries \in Nat /\ MaxRuns \in Nat /\ runs \in 0..MaxRuns
      BY RollingAssumption DEF RollingTypeOK
    <2> QED
      BY <1>1, <2>1
  <1>4. RollingTypeOK'
    BY <1>1, <1>2, <1>3 DEF RollingTypeOK, unitVars, serverVars
  <1>5. WithinSessions' /\ ScriptInv'
    BY <1>1, <1>2 DEF WithinSessions, ScriptInv, unitVars, serverVars
  <1>6. ServerInv'
    BY <1>1 DEF ServerInv, Asked, serverVars
  <1> QED
    BY <1>4, <1>5, <1>6

\* A command that leaves units, sessions and the env file alone.
LEMMA RunsQuietly ==
    ASSUME RollingInv,
           RunImpossible \/ PrepareSlot \/ Serving \/ Drained \/ SessionsRemain \/ ScriptDies
    PROVE  RollingInv'
  <1> USE DEF RollingInv
  <1>1. /\ UNCHANGED <<unit, release, env, pool, open, target, old, runs>>
        /\ config' \in [Slots -> Releases] /\ attempt' \in 0..DrainRetries
        /\ \/ replacement' = replacement /\ command' = "died"
           \/ /\ replacement' = replacement
              /\ command = "prepare" /\ command' \in {"refused", "start"}
           \/ /\ replacement' = "sent" /\ command = "waiting" /\ command' = "asking"
              /\ unit[new] = "serving"
           \/ /\ replacement = "drained" /\ replacement' = "none"
              /\ command = "asking" /\ command' = "persist"
           \/ /\ replacement = "remain" /\ command = "asking"
              /\ \/ replacement' = "sent" /\ command' = command
                 \/ replacement' = "none" /\ command' = "gave up"
    <2>1. config \in [Slots -> Releases] /\ attempt \in 0..DrainRetries /\ target \in Releases
          /\ DrainRetries \in Nat
      BY RollingAssumption DEF RollingTypeOK
    <2>2. CASE RunImpossible
      BY <2>1, <2>2 DEF RunImpossible, Goes, unitVars, serverVars
    <2>3. CASE PrepareSlot
      BY <2>1, <2>3 DEF PrepareSlot, Goes, serverVars
    <2>4. CASE Serving
      BY <2>1, <2>4 DEF Serving, Goes, unitVars
    <2>5. CASE Drained
      BY <2>1, <2>5 DEF Drained, Goes, unitVars
    <2>6. CASE SessionsRemain
      <3>1. attempt < DrainRetries => attempt + 1 \in 0..DrainRetries
        BY <2>1
      <3> QED
        BY <2>1, <2>6, <3>1 DEF SessionsRemain, unitVars
    <2>7. CASE ScriptDies
      BY <2>1, <2>7 DEF ScriptDies, unitVars, serverVars
    <2> QED
      BY <2>2, <2>3, <2>4, <2>5, <2>6, <2>7
  <1>2. new' = new
    BY <1>1 DEF new
  <1>3. RollingTypeOK'
    BY <1>1 DEF RollingTypeOK
  <1>4. WithinSessions'
    BY <1>1 DEF WithinSessions
  <1>5. ScriptInv'
    BY <1>1, <1>2 DEF ScriptInv
  <1>6. ServerInv'
    BY <1>1, <1>2 DEF ServerInv, Asked
  <1> QED
    BY <1>3, <1>4, <1>5, <1>6

LEMMA StartUnitStep ==
    ASSUME RollingInv, StartUnit
    PROVE  RollingInv'
  <1> USE DEF RollingInv
  <1>1. /\ command = "start" /\ command' = "waiting"
        /\ UNCHANGED <<config, env, serverVars, target, old, attempt, runs>>
        /\ unit' \in [Slots -> {"stopped", "starting", "serving"}]
        /\ release' \in [Slots -> Releases]
        /\ unit' = unit \/ unit' = [unit EXCEPT ![new] = "starting"]
    BY TypeFacts DEF StartUnit, Goes, RollingTypeOK
  <1>2. unit'[env] = "serving"
    BY <1>1, TypeFacts DEF ScriptInv, RollingTypeOK
  <1>3. RollingTypeOK'
    BY <1>1 DEF RollingTypeOK, serverVars
  <1>4. WithinSessions' /\ ServerInv'
    BY <1>1 DEF WithinSessions, ServerInv, Asked, serverVars
  <1>5. ScriptInv'
    BY <1>1, <1>2 DEF ScriptInv
  <1> QED
    BY <1>3, <1>4, <1>5

LEMMA StoppedFacts ==
    ASSUME RollingInv, NEW s \in Slots, Stopped(s)
    PROVE  /\ unit' \in [Slots -> {"stopped", "starting", "serving"}]
           /\ open' \in [Slots -> 0..MaxSessions] /\ WithinSessions'
           /\ unit'[s] = "stopped" /\ \A u \in Slots \ {s} : unit'[u] = unit[u]
           /\ UNCHANGED <<config, release>>
  <1> USE DEF RollingInv, Stopped
  <1>1. unit' \in [Slots -> {"stopped", "starting", "serving"}]
    BY DEF RollingTypeOK
  <1>2. unit'[s] = "stopped" /\ \A u \in Slots \ {s} : unit'[u] = unit[u]
    BY DEF RollingTypeOK
  <1>3. /\ open["n"] \in Nat /\ open["nb"] \in Nat /\ MaxSessions \in Nat
        /\ open \in [Slots -> 0..MaxSessions] /\ open["n"] + open["nb"] <= MaxSessions
    BY TypeFacts DEF RollingTypeOK, WithinSessions
  <1>4. open' \in [Slots -> 0..MaxSessions] /\ WithinSessions'
    <2>1. CASE s = "n"
      BY <1>3, <2>1 DEF Slots, WithinSessions
    <2>2. CASE s = "nb"
      BY <1>3, <2>2 DEF Slots, WithinSessions
    <2> QED
      BY <2>1, <2>2 DEF Slots
  <1> QED
    BY <1>1, <1>2, <1>4

\* cleanup_slot of the new unit: the old one serves on.
LEMMA CleanupSlotStep ==
    ASSUME RollingInv, NeverServes \/ Refused
    PROVE  RollingInv'
  <1> USE DEF RollingInv, NeverServes, Refused, Goes
  <1>1. /\ command \in {"waiting", "asking"} /\ command' = "refused" /\ Stopped(new)
        /\ UNCHANGED <<env, pool, target, old, attempt, runs>> /\ replacement' = "none"
    BY DEF ServerInv
  <1>2. env = old
    BY <1>1 DEF ScriptInv
  <1>3. RollingTypeOK' /\ WithinSessions'
    BY <1>1, StoppedFacts, TypeFacts DEF RollingTypeOK
  <1>4. ScriptInv'
    <2>1. unit'[env] = "serving" /\ unit'[OtherSlot(env)] = "stopped"
      BY <1>1, <1>2, StoppedFacts, TypeFacts DEF ScriptInv
    <2> QED
      BY <1>1, <2>1 DEF ScriptInv
  <1>5. ServerInv'
    BY <1>1 DEF ServerInv, Asked
  <1> QED
    BY <1>3, <1>4, <1>5

LEMMA PersistTargetStep ==
    ASSUME RollingInv, PersistTarget
    PROVE  RollingInv'
  <1> USE DEF RollingInv
  <1>1. /\ command = "persist" /\ command' = "stop" /\ env' = IF env = old THEN new ELSE env
        /\ UNCHANGED <<unitVars, serverVars, target, old, attempt, runs>>
    BY DEF PersistTarget, Goes
  <1>2. env' = new /\ unit[new] = "serving"
    BY <1>1 DEF ScriptInv
  <1>3. RollingTypeOK' /\ new' = new
    BY <1>1, <1>2, TypeFacts DEF RollingTypeOK, unitVars, serverVars, new
  <1>4. WithinSessions'
    BY <1>1 DEF WithinSessions, serverVars
  <1>5. ScriptInv'
    BY <1>1, <1>2, <1>3 DEF ScriptInv, unitVars
  <1>6. ServerInv'
    BY <1>1, <1>3 DEF ServerInv, Asked, serverVars
  <1> QED
    BY <1>3, <1>4, <1>5, <1>6

LEMMA StopOldStep ==
    ASSUME RollingInv, StopOld
    PROVE  RollingInv'
  <1> USE DEF RollingInv
  <1>1. /\ command = "stop" /\ command' = "done" /\ Stopped(old)
        /\ UNCHANGED <<env, pool, replacement, target, old, attempt, runs>>
    BY DEF StopOld, Goes
  <1>2. env = new
    BY <1>1 DEF ScriptInv
  <1>3. RollingTypeOK' /\ WithinSessions'
    BY <1>1, StoppedFacts, TypeFacts DEF RollingTypeOK
  <1>4. ScriptInv'
    <2>1. unit'[env] = "serving" /\ unit'[OtherSlot(env)] = "stopped"
      BY <1>1, <1>2, StoppedFacts, TypeFacts DEF ScriptInv
    <2> QED
      BY <1>1, <2>1 DEF ScriptInv
  <1>5. ServerInv'
    BY <1>1 DEF ServerInv, Asked
  <1> QED
    BY <1>3, <1>4, <1>5

LEMMA RollingStepInv ==
    ASSUME RollingInv, ~Reruns, [RollingNext]_rollingVars
    PROVE  RollingInv'
  <1>1. CASE UNCHANGED rollingVars
    BY <1>1 DEF rollingVars, unitVars, serverVars, scriptVars, RollingInv, RollingTypeOK,
          WithinSessions, ScriptInv, ServerInv, Asked, new
  <1>2. CASE ScriptSteps
    BY <1>2, RunStartsStep, RunsQuietly, StartUnitStep, CleanupSlotStep, PersistTargetStep,
       StopOldStep DEF ScriptSteps
  <1> QED
    BY <1>1, <1>2, SessionOpensStep, SessionLeavesStep, ServerStep, UnitServesStep
       DEF RollingNext

-----------------------------------------------------------------------------
(* What follows from it *)

\* The inductive invariant, for any releases, sessions, retries and runs.
THEOREM RollingInvariant ==
    ASSUME ~Reruns
    PROVE  RollingSpec => []RollingInv
  BY RollingInitInv, RollingStepInv, PTL DEF RollingSpec

\* A media server that starts again at any moment finds a worker that serves
\* behind the port in its env file.
THEOREM RollingRestart ==
    ASSUME ~Reruns
    PROVE  RollingSpec => []RestartFindsAWorker
  <1>1. RollingInv => RestartFindsAWorker
    BY DEF RollingInv, ScriptInv, RestartFindsAWorker
  <1> QED
    BY <1>1, RollingInvariant, PTL

\* Action property: the old unit is stopped when no session is on it and none
\* can come.
THEOREM RollingDrained ==
    ASSUME ~Reruns
    PROVE  RollingSpec => ReplacedIsDrained
  <1>1. RollingInv => [command = "stop" /\ command' = "done"
                         => open[old] = 0 /\ pool # old]_rollingVars
    BY TypeFacts DEF RollingInv, ServerInv
  <1> QED
    BY <1>1, RollingInvariant, PTL DEF RollingSpec, ReplacedIsDrained

-----------------------------------------------------------------------------
(* Launcher and WorkerProcess *)

WithBundle == {"warming", "opening", "starting", "serving",
               "draining", "stopping", "closing jobs", "closing calls"}

\* What serve()'s variables name, and what of it is open.
Ownership ==
    /\ stage \in {"off", "loading"} => alive = {}
    /\ stage = "loading" => hands = {}
    /\ stage \in {"probing", "recognizer"} => hands = {"runtime"} /\ alive = {"runtime"}
    /\ stage \in WithBundle => /\ hands = {"runtime", "adaface", "bundle"}
                               /\ alive = {"runtime", "adaface", "executors"}
    /\ stage = "closing recognizer" => alive \subseteq {"runtime", "adaface"}
    /\ stage = "closing runtime" => alive \subseteq {"runtime"}
    /\ stage = "leaving" /\ ending # "cut short" => alive = {}
    /\ frozen = "ours" => stage \in {"opening", "starting", "serving"}

\* Where calls and jobs can be.
Service ==
    /\ accepting => stage \in {"starting", "serving"}
    /\ up => stage \notin Startup \cup {"off"}
    /\ call # "none" => stage \in {"serving", "draining", "stopping", "closing jobs",
                                   "closing calls"}
    /\ job \in {"running", "asked"} => stage \in {"serving", "draining", "stopping",
                                                  "closing jobs"}

LeftNothing == ended.how \in {"failed", "interrupted"} => ended.left = {}

WorkerInv == Ownership /\ Service /\ LeftNothing

LEMMA WorkerInitInv == WorkerInit => WorkerInv
  <1> SUFFICES ASSUME WorkerInit PROVE WorkerInv
    OBVIOUS
  <1>2. Ownership /\ Service
    BY DEF WorkerInit, Ownership, Service, WithBundle, Startup
  <1>3. LeftNothing
    BY DEF WorkerInit, LeftNothing
  <1> QED
    BY <1>2, <1>3 DEF WorkerInv

LEMMA LaunchStep ==
    ASSUME WorkerInv, NEW background \in BOOLEAN, Launch(background)
    PROVE  WorkerInv'
  <1> USE DEF WorkerInv, Launch
  <1>2. Ownership'
    BY DEF Ownership, WithBundle
  <1>3. Service'
    BY DEF Service, Startup
  <1>4. LeftNothing'
    BY DEF LeftNothing
  <1> QED
    BY <1>2, <1>3, <1>4

\* serve() goes on to the next stage of its start-up.
LEMMA StartupStep ==
    ASSUME WorkerInv,
           RuntimeReady \/ TrackerProbed \/ ServerBuilt \/ FacesWarm \/ Opened \/ Started
    PROVE  WorkerInv'
  <1> USE DEF WorkerInv
  <1>1. ASSUME stage = "loading", stage' = "probing", hands' = {"runtime"}, alive' = {"runtime"},
               UNCHANGED <<frozen, served, ends>>
        PROVE  WorkerInv'
    BY <1>1 DEF served, ends, Ownership, WithBundle, Service, Startup, LeftNothing
  <1>2. ASSUME stage = "probing", stage' = "recognizer", UNCHANGED <<owned, served, ends>>
        PROVE  WorkerInv'
    BY <1>2 DEF owned, served, ends, Ownership, WithBundle, Service, Startup, LeftNothing
  <1>3. ASSUME stage = "recognizer", stage' \in {"warming", "opening"},
               hands' = {"runtime", "adaface", "bundle"},
               alive' = {"runtime", "adaface", "executors"}, UNCHANGED <<frozen, served, ends>>
        PROVE  WorkerInv'
    BY <1>3 DEF served, ends, Ownership, WithBundle, Service, Startup, LeftNothing
  <1>4. ASSUME stage = "warming", stage' = "opening", UNCHANGED <<hands, alive, served, ends>>
        PROVE  WorkerInv'
    BY <1>4 DEF served, ends, Ownership, WithBundle, Service, Startup, LeftNothing
  <1>5. ASSUME stage = "opening", stage' = "starting", UNCHANGED <<owned, up, call, job, ends>>
        PROVE  WorkerInv'
    BY <1>5 DEF owned, ends, Ownership, WithBundle, Service, Startup, LeftNothing
  <1>6. ASSUME stage = "starting", stage' = "serving", UNCHANGED <<owned, accepting, call, job, ends>>
        PROVE  WorkerInv'
    BY <1>6 DEF owned, ends, Ownership, WithBundle, Service, Startup, LeftNothing
  <1> QED
    BY <1>1, <1>2, <1>3, <1>4, <1>5, <1>6
       DEF RuntimeReady, TrackerProbed, ServerBuilt, FacesWarm, Opened, Started

\* Wherever the start-up fails or serve() is interrupted, its finally block
\* begins at the stage that fits what it has been handed.
LEMMA FinallyStep ==
    ASSUME WorkerInv, BindFails \/ StartupFails \/ Interrupt
    PROVE  WorkerInv'
  <1> USE DEF WorkerInv
  <1>1. /\ stage \in Startup \cup {"serving"}
        /\ ending' # "cut short" /\ frozen' # "ours" /\ UNCHANGED <<up, call, ended>>
        /\ \/ /\ stage' = "draining" /\ "bundle" \in hands /\ UNCHANGED <<hands, alive>>
              /\ accepting' = FALSE /\ job' = IF job = "running" THEN "asked" ELSE job
           \/ /\ stage' = "closing recognizer" /\ "bundle" \notin hands
              /\ alive' = alive \/ (stage = "recognizer" /\ alive' = {"runtime", "adaface"})
              /\ UNCHANGED <<accepting, job>>
    <2>1. CASE BindFails
      BY <2>1 DEF BindFails, FinallyBegins, Startup, Ownership
    <2>2. CASE StartupFails
      BY <2>2 DEF StartupFails, FinallyBegins, Startup
    <2>3. CASE Interrupt
      BY <2>3 DEF Interrupt, FinallyBegins, Startup
    <2> QED
      BY <2>1, <2>2, <2>3
  <1>2. "bundle" \in hands => stage \in WithBundle
    <2>1. CASE stage = "loading"
      BY <2>1 DEF Ownership
    <2>2. CASE stage \in {"probing", "recognizer"}
      <3>1. hands = {"runtime"}
        BY <2>2 DEF Ownership
      <3>2. "bundle" \notin {"runtime"}
        OBVIOUS
      <3> QED
        BY <3>1, <3>2
    <2>3. CASE stage \in {"warming", "opening", "starting", "serving"}
      BY <2>3 DEF WithBundle
    <2> QED
      BY <1>1, <2>1, <2>2, <2>3 DEF Startup
  <1>3. "bundle" \notin hands => stage \in {"loading", "probing", "recognizer"}
    BY <1>1 DEF Ownership, Startup, WithBundle
  <1>4. Ownership'
    <2>1. CASE stage' = "draining"
      BY <1>1, <1>2, <2>1 DEF Ownership, WithBundle
    <2>2. CASE stage' = "closing recognizer"
      <3>1. alive' \subseteq {"runtime", "adaface"}
        BY <1>1, <1>3, <2>2 DEF Ownership
      <3> QED
        BY <1>1, <2>2, <3>1 DEF Ownership, WithBundle
    <2> QED
      BY <1>1, <2>1, <2>2
  <1>5. Service'
    <2>1. CASE stage' = "draining"
      <3>1. ~accepting' /\ (up' => up) /\ (call' = call)
        BY <1>1, <2>1
      <3>2. call # "none" => stage = "serving"
        BY <1>1 DEF Service, Startup
      <3> QED
        BY <2>1, <3>1, <3>2 DEF Service, Startup
    <2>2. CASE stage' = "closing recognizer"
      <3>1. stage \in {"loading", "probing", "recognizer"}
        BY <1>1, <1>3, <2>2
      <3>2. ~accepting /\ call = "none" /\ job \notin {"running", "asked"}
        BY <3>1 DEF Service
      <3>3. UNCHANGED <<accepting, call, job>>
        BY <1>1, <2>2
      <3>4. ~accepting' /\ call' = "none" /\ job' \notin {"running", "asked"}
        BY <3>2, <3>3
      <3> QED
        BY <2>2, <3>4 DEF Service, Startup
    <2> QED
      BY <1>1, <2>1, <2>2
  <1>6. LeftNothing'
    BY <1>1 DEF LeftNothing
  <1> QED
    BY <1>4, <1>5, <1>6

\* Calls and jobs come and go.
LEMMA ServiceStep ==
    ASSUME WorkerInv, CallBegins \/ CallEnds \/ JobBegins \/ JobEnds
    PROVE  WorkerInv'
  <1> USE DEF WorkerInv
  <1>1. /\ UNCHANGED <<stage, hands, alive, frozen, accepting, up, ending, ended>>
        /\ call' = call \/ call' = "none" \/ (up /\ accepting /\ call' = "running")
        /\ \/ job' = job \/ job' \notin {"running", "asked"}
           \/ up /\ accepting /\ job' = "running"
    BY DEF CallBegins, CallEnds, JobBegins, JobEnds, worker, owned, ends
  <1>2. up /\ accepting => stage = "serving"
    BY DEF Service, Startup
  <1>3. Ownership' /\ LeftNothing'
    BY <1>1 DEF Ownership, LeftNothing
  <1>4. Service'
    BY <1>1, <1>2 DEF Service
  <1> QED
    BY <1>3, <1>4

\* The finally block goes on.
LEMMA ClosingStep ==
    ASSUME WorkerInv, FinallySteps
    PROVE  WorkerInv'
  <1> USE DEF WorkerInv, Moves
  <1>1. CASE JobsDrained
    BY <1>1 DEF JobsDrained, owned, served, ends, Ownership, WithBundle, Service, Startup, LeftNothing
  <1>2. CASE ServerStops
    BY <1>2 DEF ServerStops, owned, ends, Ownership, WithBundle, Service, Startup, LeftNothing
  <1>3. CASE JobsClosed
    BY <1>3 DEF JobsClosed, owned, ends, Ownership, WithBundle, Service, Startup, LeftNothing
  <1>4. CASE CallsClosed
    BY <1>4 DEF CallsClosed, served, ends, Ownership, WithBundle, Service, Startup, LeftNothing
  <1>5. CASE RecognizerClosed
    BY <1>5 DEF RecognizerClosed, served, ends, Ownership, WithBundle, Service, Startup, LeftNothing
  <1>6. CASE RuntimeClosed
    BY <1>6 DEF RuntimeClosed, served, ends, Ownership, WithBundle, Service, Startup, LeftNothing
  <1>7. CASE Leaves
    <2>1. /\ stage = "leaving" /\ stage' = "off" /\ alive' = {} /\ frozen' = "none"
          /\ accepting' = FALSE /\ up' = FALSE /\ call' = "none" /\ job' = job
          /\ ended' = [how |-> ending, left |-> alive]
      BY <1>7 DEF Leaves, Ownership
    <2>2. ended'.how = ending /\ ended'.left = alive
      BY <2>1
    <2>3. LeftNothing'
      BY <2>1, <2>2 DEF LeftNothing, Ownership
    <2>4. Ownership' /\ Service'
      BY <2>1 DEF Ownership, WithBundle, Service, Startup
    <2> QED
      BY <2>3, <2>4
  <1>8. CASE ThreadEnds
    BY <1>8 DEF ThreadEnds, worker, served, ends, Ownership, Service, LeftNothing
  <1> QED
    BY <1>1, <1>2, <1>3, <1>4, <1>5, <1>6, <1>7, <1>8 DEF FinallySteps

LEMMA InterruptCleanupStep ==
    ASSUME WorkerInv, InterruptCleanup
    PROVE  WorkerInv'
  <1> USE DEF WorkerInv
  <1>1. /\ stage \in Finally /\ call' = "none" /\ job' \notin {"running", "asked"}
        /\ UNCHANGED <<hands, frozen, accepting, up, ended>>
        /\ \/ stage' = stage /\ UNCHANGED <<alive, ending>>
           \/ stage' = "leaving" /\ ending' = "cut short"
    BY DEF InterruptCleanup
  <1>2. frozen # "ours" /\ ~accepting
    BY <1>1 DEF Ownership, Service, Finally
  <1>3. Ownership'
    BY <1>1, <1>2 DEF Ownership, WithBundle, Finally
  <1>4. Service'
    BY <1>1, <1>2 DEF Service, Startup, Finally
  <1>5. LeftNothing'
    BY <1>1 DEF LeftNothing
  <1> QED
    BY <1>3, <1>4, <1>5

LEMMA DiesStep ==
    ASSUME WorkerInv, NEW how \in {"terminated", "killed"}, Dies(how)
    PROVE  WorkerInv'
  <1> USE DEF WorkerInv
  <1>1. /\ stage' = "off" /\ alive' = {} /\ frozen' = "none"
        /\ accepting' = FALSE /\ up' = FALSE /\ call' = "none"
        /\ job' \notin {"running", "asked"} /\ ended' = [how |-> how, left |-> {}]
    BY DEF Dies
  <1>2. Ownership' /\ Service'
    BY <1>1 DEF Ownership, WithBundle, Service, Startup
  <1>3. LeftNothing'
    BY <1>1 DEF LeftNothing
  <1> QED
    BY <1>2, <1>3

LEMMA WorkerStep ==
    ASSUME WorkerInv, WorkerNext
    PROVE  WorkerInv'
  <1>1. CASE StartupSteps
    BY <1>1, StartupStep, FinallyStep DEF StartupSteps
  <1> QED
    BY <1>1, FinallyStep, ServiceStep, ClosingStep, InterruptCleanupStep, DiesStep DEF WorkerNext

\* What the script does to the worker: it starts it, or ends it.
LEMMA LauncherStep ==
    ASSUME WorkerInv, [LauncherNext]_<<workerVars, launcherVars>>
    PROVE  WorkerInv'
  <1>1. CASE UNCHANGED workerVars
    BY <1>1 DEF workerVars, worker, owned, served, ends, WorkerInv, Ownership, Service, LeftNothing
  <1>2. CASE WorkerStarted \/ StartedByHand
    BY <1>2, LaunchStep DEF WorkerStarted, StartedByHand
  <1>3. CASE KillWorker \/ LeftOverDies
    BY <1>3, DiesStep DEF KillWorker, LeftOverDies
  <1>4. CASE WorkerNext
    BY <1>4, WorkerStep
  <1> QED
    BY <1>1, <1>2, <1>3, <1>4 DEF LauncherNext, LauncherSteps, ScriptStarts, ChecksFail, Trapped,
       WebStarts, WaitFails, ChildGone, KillWeb, CleanedUp, WebEnds, Stop

\* What serve() owns at each of its stages, in every reachable state.
THEOREM WorkerInvariant == LauncherSpec => []WorkerInv
  <1>1. LauncherInit => WorkerInv
    BY WorkerInitInv DEF LauncherInit
  <1> QED
    BY <1>1, LauncherStep, PTL DEF LauncherSpec

\* Wherever serve() fails, is interrupted, or is interrupted again: nobody infers
\* on a runtime that is not there, a finally block that came to its end leaves
\* nothing open, and no job is left as if it were running.
THEOREM WorkerShutdown == LauncherSpec => []ShutdownIsOrderly
  <1>1. WorkerInv => ShutdownIsOrderly
    <2> SUFFICES ASSUME WorkerInv PROVE ShutdownIsOrderly
      OBVIOUS
    <2> USE DEF WorkerInv
    <2>1. UsesRuntime => stage \in WithBundle
      BY DEF UsesRuntime, Service, WithBundle
    <2>2. UsesRuntime => "runtime" \in alive
      BY <2>1 DEF Ownership
    <2>3. stage = "off" => job \notin {"running", "asked"}
      BY DEF Service
    <2> QED
      BY <2>2, <2>3 DEF ShutdownIsOrderly, LeftNothing
  <1> QED
    BY <1>1, WorkerInvariant, PTL

-----------------------------------------------------------------------------
(* VodJob *)

LEMMA SegmentParts ==
    ASSUME NEW y \in Segment
    PROVE  y.first \in Nat /\ y.count \in Nat /\ y.count >= 1
  <1>1. /\ y.first \in 0..Frames /\ y.count \in 1..SegmentFrames
        /\ Frames \in Nat /\ SegmentFrames \in Nat
    BY VodAssumption DEF Segment
  <1> QED
    BY <1>1

\* _finish_segment appends one segment where the last one ended: the list
\* stays in order and grows by the segment's frames.
LEMMA AppendKeepsOrder ==
    ASSUME NEW s \in Seq(Segment), Sound(s), NEW x \in Segment,
           x.first = EndOf(s), x.first + x.count <= Frames
    PROVE  /\ Append(s, x) \in Seq(Segment)
           /\ Append(s, x) # <<>>
           /\ Len(Append(s, x)) = Len(s) + 1
           /\ \A i \in 1..Len(s) : Append(s, x)[i] = s[i]
           /\ Append(s, x)[Len(s) + 1] = x
           /\ EndOf(Append(s, x)) = x.first + x.count
           /\ Sound(Append(s, x))
  <1> DEFINE t == Append(s, x)
  <1>1. /\ t \in Seq(Segment)
        /\ t # <<>>
        /\ Len(t) = Len(s) + 1
        /\ \A i \in 1..Len(s) : t[i] = s[i]
        /\ t[Len(s) + 1] = x
        /\ Len(s) \in Nat
    BY AppendProperties, LenProperties
  <1>2. EndOf(t) = x.first + x.count
    BY <1>1 DEF EndOf
  <1>3. DOMAIN t = 1..(Len(s) + 1) /\ DOMAIN s = 1..Len(s)
    BY <1>1, LenProperties
  <1>4. s = <<>> <=> Len(s) = 0
    BY EmptySeq
  <1>5. /\ \A i \in 1..Len(s) : s[i] \in Segment
        /\ x.first \in Nat /\ x.count \in Nat
        /\ \A y \in Segment : y.first \in Nat /\ y.count \in Nat /\ y.count >= 1
    <2>1. \A y \in Segment : y.first \in Nat /\ y.count \in Nat /\ y.count >= 1
      BY SegmentParts
    <2>2. \A i \in 1..Len(s) : s[i] \in Segment
      BY ElementOfSeq
    <2> QED
      BY <2>1, <2>2
  <1>6. \A i \in 1..Len(s) : s[i].first = IF i = 1 THEN 0 ELSE s[i - 1].first + s[i - 1].count
    BY <1>3 DEF Sound, InOrder
  <1>7. InOrder(t)
    <2> SUFFICES ASSUME NEW i \in 1..(Len(s) + 1)
                 PROVE  t[i].first = IF i = 1 THEN 0 ELSE t[i - 1].first + t[i - 1].count
      BY <1>3 DEF InOrder
    <2>1. CASE i \in 1..Len(s)
      <3>1. i # 1 => i - 1 \in 1..Len(s)
        BY <2>1, <1>1
      <3> QED
        BY <2>1, <3>1, <1>1, <1>6
    <2>2. CASE i = Len(s) + 1 /\ Len(s) = 0
      BY <2>2, <1>1, <1>4 DEF EndOf
    <2>3. CASE i = Len(s) + 1 /\ Len(s) # 0
      <3>1. i # 1 /\ i - 1 = Len(s) /\ i - 1 \in 1..Len(s)
        BY <2>3, <1>1
      <3>2. t[i] = x /\ t[i - 1] = s[Len(s)]
        BY <2>3, <3>1, <1>1
      <3>3. x.first = s[Len(s)].first + s[Len(s)].count
        BY <2>3, <1>4 DEF EndOf
      <3> QED
        BY <3>1, <3>2, <3>3
    <2> QED
      BY <2>1, <2>2, <2>3, <1>1
  <1>8. \A i \in 1..(Len(s) + 1) : t[i].first >= i - 1
    <2>1. \A i \in 1..Len(s) : t[i].first >= i - 1
      BY <1>1, <1>3 DEF Sound
    <2>2. x.first >= Len(s)
      <3>1. CASE Len(s) = 0
        BY <3>1, <1>5
      <3>2. CASE Len(s) # 0
        <4>1. Len(s) \in 1..Len(s)
          BY <3>2, <1>1
        <4>2. /\ s[Len(s)].first >= Len(s) - 1
              /\ s[Len(s)].first \in Nat /\ s[Len(s)].count \in Nat
              /\ s[Len(s)].count >= 1
          BY <4>1, <1>3, <1>5 DEF Sound
        <4>3. x.first = s[Len(s)].first + s[Len(s)].count
          BY <3>2, <1>4 DEF EndOf
        <4> QED
          BY <4>2, <4>3, <1>1
      <3> QED
        BY <3>1, <3>2
    <2> QED
      BY <2>1, <2>2, <1>1
  <1> QED
    BY <1>1, <1>2, <1>3, <1>7, <1>8 DEF Sound

\* A list of segments is never longer than the frames it holds.
LEMMA LengthIsBounded ==
    ASSUME NEW s \in Seq(Segment), Sound(s)
    PROVE  /\ EndOf(s) \in 0..Frames
           /\ Len(s) \in Nat
           /\ Len(s) <= EndOf(s)
           /\ DOMAIN s = 1..Len(s)
           /\ DOMAIN s \subseteq SegmentIds
           /\ \A i \in 1..Len(s) : s[i] \in Segment
  <1>1. /\ Len(s) \in Nat
        /\ DOMAIN s = 1..Len(s)
        /\ s = <<>> <=> Len(s) = 0
    BY LenProperties, EmptySeq
  <1>2. \A i \in 1..Len(s) : s[i] \in Segment
    BY ElementOfSeq, <1>1
  <1>0. Frames \in Nat
    BY VodAssumption
  <1>3. CASE Len(s) = 0
    <2>1. EndOf(s) = 0 /\ 1..Len(s) = {}
      BY <1>1, <1>3 DEF EndOf
    <2> QED
      BY <2>1, <1>0, <1>1, <1>2, <1>3
  <1>4. CASE Len(s) # 0
    <2>1. Len(s) \in 1..Len(s)
      BY <1>4, <1>1
    <2>2. /\ s[Len(s)].first \in Nat
          /\ s[Len(s)].count \in Nat
          /\ s[Len(s)].count >= 1
          /\ s[Len(s)].first >= Len(s) - 1
      BY <2>1, <1>1, <1>2, SegmentParts DEF Sound
    <2>3. EndOf(s) = s[Len(s)].first + s[Len(s)].count
      BY <1>4, <1>1 DEF EndOf
    <2>4. EndOf(s) <= Frames
      BY DEF Sound
    <2>5. Len(s) <= EndOf(s) /\ EndOf(s) \in 0..Frames
      BY <2>2, <2>3, <2>4, <1>1, <1>0
    <2>6. 1..Len(s) \subseteq SegmentIds
      BY <2>5, <1>1, <1>0 DEF SegmentIds
    <2> QED
      BY <2>5, <2>6, <1>1, <1>2
  <1> QED
    BY <1>3, <1>4

LEMMA EmptyIsSound ==
    /\ <<>> \in Seq(Segment)
    /\ Sound(<<>>)
    /\ EndOf(<<>>) = 0
    /\ DOMAIN <<>> = {}
  <1>1. <<>> \in Seq(Segment) /\ Len(<<>>) = 0
    BY EmptySeq
  <1>2. DOMAIN <<>> = {}
    BY <1>1, LenProperties
  <1>3. Frames \in Nat
    BY VodAssumption
  <1> QED
    BY <1>1, <1>2, <1>3 DEF Sound, InOrder, EndOf

\* The list a thread has read back from the files is the one it was given.
LEMMA MuxReadsTheList ==
    ASSUME NEW s \in Seq(Segment), Backs(s)
    PROVE  [i \in DOMAIN s |-> [first |-> file[i].first, count |-> file[i].count]] = s
  <1> DEFINE r == [i \in DOMAIN s |-> [first |-> file[i].first, count |-> file[i].count]]
  <1>1. DOMAIN s = 1..Len(s) /\ s \in [1..Len(s) -> Segment]
    BY LenProperties
  <1>2. \A i \in DOMAIN s : r[i] = s[i]
    <2> SUFFICES ASSUME NEW i \in DOMAIN s
                 PROVE  r[i] = s[i]
      OBVIOUS
    <2>1. s[i] \in Segment
      BY <1>1
    <2>2. s[i] = [first |-> s[i].first, count |-> s[i].count]
      BY <2>1 DEF Segment
    <2>3. file[i] = [first |-> s[i].first, count |-> s[i].count, whole |-> TRUE]
      BY DEF Backs
    <2>4. file[i].first = s[i].first /\ file[i].count = s[i].count
      BY <2>3
    <2>5. r[i] = [first |-> file[i].first, count |-> file[i].count]
      OBVIOUS
    <2> QED
      BY <2>2, <2>4, <2>5
  <1> QED
    BY <1>1, <1>2

LEMMA EndIsNat ==
    ASSUME NEW s \in Seq(Segment)
    PROVE  EndOf(s) \in Nat
  <1>1. CASE s = <<>>
    BY <1>1 DEF EndOf
  <1>2. CASE s # <<>>
    <2>1. s[Len(s)] \in Segment
      BY <1>2, EmptySeq, LenProperties, ElementOfSeq
    <2>2. EndOf(s) = s[Len(s)].first + s[Len(s)].count
      BY <1>2 DEF EndOf
    <2> QED
      BY <2>1, <2>2, SegmentParts
  <1> QED
    BY <1>1, <1>2

-----------------------------------------------------------------------------
(* What a thread relies on holds again after each of its steps. *)

LEMMA IdleThread ==
    ASSUME NEW after, after = NoWork
    PROVE  ThreadInv(after)'
  BY EmptyIsSound DEF ThreadInv, BeforeCommit, AfterCommit, Muxing, AfterPublish, NoWork

LEMMA SameThread ==
    ASSUME NEW w, ThreadInv(w), UNCHANGED disk, NEW after, after = w
    PROVE  ThreadInv(after)'
  BY DEF ThreadInv, BeforeCommit, AfterCommit, Muxing, AfterPublish, disk, Extends, Lists, Backs

LEMMA WorkParts ==
    ASSUME NEW w \in Work
    PROVE  w.op \in Ops /\ w.segments \in Seq(Segment) /\ w.token \in Tokens
  BY DEF Work

Listed == IF checkpoint = NoCheckpoint THEN <<>> ELSE checkpoint.segments

LEMMA ListedIsTyped ==
    ASSUME VodTypeOK
    PROVE  Listed \in Seq(Segment)
  BY EmptyIsSound DEF Listed, VodTypeOK, Listing

\* A list that extends the checkpoint's has one segment more.
LEMMA ExtendsParts ==
    ASSUME VodTypeOK, NEW s, Extends(s)
    PROVE  /\ s # <<>>
           /\ s \in Seq(Segment)
           /\ Len(s) = Len(Listed) + 1
           /\ \A i \in 1..Len(Listed) : s[i] = Listed[i]
  <1>1. PICK x \in Segment : s = Append(Listed, x)
    BY DEF Extends, Listed
  <1> QED
    BY <1>1, ListedIsTyped, AppendProperties

\* What EXCEPT does to the record of a segment's file.
LEMMA CompletedFile ==
    ASSUME NEW a, NEW b
    PROVE  [[first |-> a, count |-> b, whole |-> FALSE] EXCEPT !.whole = TRUE]
           = [first |-> a, count |-> b, whole |-> TRUE]
  <1> DEFINE q == [[first |-> a, count |-> b, whole |-> FALSE] EXCEPT !.whole = TRUE]
  <1>1. q \in [first : {a}, count : {b}, whole : {TRUE}]
    OBVIOUS
  <1> HIDE DEF q
  <1>2. q = [first |-> q.first, count |-> q.count, whole |-> q.whole]
    BY <1>1
  <1>3. q.first = a /\ q.count = b /\ q.whole = TRUE
    BY <1>1
  <1> QED
    BY <1>2, <1>3 DEF q

LEMMA GrownFile ==
    ASSUME NEW a, NEW b
    PROVE  [[first |-> a, count |-> b, whole |-> FALSE] EXCEPT !.count = @ + 1]
           = [first |-> a, count |-> b + 1, whole |-> FALSE]
  <1> DEFINE q == [[first |-> a, count |-> b, whole |-> FALSE] EXCEPT !.count = @ + 1]
  <1>1. q \in [first : {a}, count : {b + 1}, whole : {FALSE}]
    OBVIOUS
  <1> HIDE DEF q
  <1>2. q = [first |-> q.first, count |-> q.count, whole |-> q.whole]
    BY <1>1
  <1>3. q.first = a /\ q.count = b + 1 /\ q.whole = FALSE
    BY <1>1
  <1> QED
    BY <1>2, <1>3 DEF q

LEMMA EncodedKeepsThread ==
    ASSUME NEW w \in Work, ThreadInv(w), NEW after, Encoded(w, after), VodTypeOK
    PROVE  after \in Work /\ ThreadInv(after)'
  <1>1. /\ after \in Work
        /\ after.op = "commit"
        /\ after.segments = w.segments
        /\ w.op = "finish"
    BY DEF Encoded, Work, Ops
  <1>2. /\ dir
        /\ dir' = dir
        /\ checkpoint' = checkpoint
        /\ file' = [file EXCEPT ![Len(w.segments)].whole = TRUE]
        /\ file \in [SegmentIds -> File \cup {NoFile}]
    BY DEF Encoded, VodTypeOK
  <1> DEFINE last == Len(w.segments)
  <1>3. /\ Sound(w.segments)
        /\ Extends(w.segments)
        /\ \A i \in 1..(last - 1) : file[i] = FileOf(w.segments[i], TRUE)
        /\ file[last] = FileOf(w.segments[last], FALSE)
    BY <1>1, <1>2 DEF ThreadInv, BeforeCommit
  <1>4. last \in Nat /\ last \in SegmentIds /\ 1..(last - 1) \subseteq SegmentIds \ {last}
    <2>1. w.segments # <<>> /\ w.segments \in Seq(Segment)
      BY <1>3, ExtendsParts
    <2>2. last \in Nat /\ last # 0 /\ last <= EndOf(w.segments) /\ EndOf(w.segments) \in 0..Frames
      BY <2>1, <1>3, LengthIsBounded, EmptySeq
    <2>3. Frames \in Nat
      BY VodAssumption
    <2> HIDE DEF last
    <2> QED
      BY <2>2, <2>3 DEF SegmentIds
  <1>5. file'[last] = FileOf(w.segments[last], TRUE)
    <2>1. file'[last] = [file[last] EXCEPT !.whole = TRUE]
      BY <1>2, <1>4
    <2>2. \A a, b : [[first |-> a, count |-> b, whole |-> FALSE] EXCEPT !.whole = TRUE]
                      = [first |-> a, count |-> b, whole |-> TRUE]
      BY CompletedFile
    <2> HIDE DEF last
    <2>3. file'[last] = [FileOf(w.segments[last], FALSE) EXCEPT !.whole = TRUE]
      BY <2>1, <1>3
    <2> QED
      BY <2>2, <2>3 DEF FileOf
  <1>6. \A i \in 1..(last - 1) : file'[i] = FileOf(w.segments[i], TRUE)
    <2>1. \A i \in SegmentIds \ {last} : file'[i] = file[i]
      BY <1>2
    <2> HIDE DEF last
    <2> QED
      BY <2>1, <1>3, <1>4
  <1>7. Extends(after.segments)'
    BY <1>1, <1>2, <1>3 DEF Extends
  <1>8. BeforeCommit(after)'
    <2>1. Len(after.segments) = last /\ (after.op = "commit") = TRUE
      BY <1>1
    <2> QED
      BY <1>1, <1>5, <1>6, <1>7, <2>1 DEF BeforeCommit
  <1>9. AfterCommit(after)' /\ Muxing(after)' /\ AfterPublish(after)'
    BY <1>1 DEF AfterCommit, Muxing, AfterPublish
  <1> QED
    BY <1>1, <1>3, <1>8, <1>9 DEF ThreadInv, NoWork

\* What Committed's guard and invariant say of the list it writes.
LEMMA CommitIsComplete ==
    ASSUME NEW w \in Work, ThreadInv(w), w.op = "commit", dir
    PROVE  Backs(w.segments) /\ Extends(w.segments) /\ Sound(w.segments)
  <1>1. /\ Sound(w.segments)
        /\ Extends(w.segments)
        /\ \A i \in 1..(Len(w.segments) - 1) : file[i] = FileOf(w.segments[i], TRUE)
        /\ file[Len(w.segments)] = FileOf(w.segments[Len(w.segments)], TRUE)
    BY DEF ThreadInv, BeforeCommit
  <1>2. /\ Len(w.segments) \in Nat
        /\ DOMAIN w.segments = 1..Len(w.segments)
    BY <1>1, WorkParts, LengthIsBounded
  <1>3. \A i \in 1..Len(w.segments) : file[i] = FileOf(w.segments[i], TRUE)
    <2>1. \A i \in 1..Len(w.segments) : i \in 1..(Len(w.segments) - 1) \/ i = Len(w.segments)
      BY <1>2
    <2> QED
      BY <1>1, <2>1
  <1> QED
    BY <1>1, <1>2, <1>3 DEF Backs, FileOf

LEMMA CommittedKeepsThread ==
    ASSUME NEW w \in Work, ThreadInv(w), NEW after, Committed(w, after), VodTypeOK
    PROVE  after \in Work /\ ThreadInv(after)'
  <1>1. /\ after = [w EXCEPT !.op = "committed", !.token = commits + 1]
        /\ commits + 1 \in Tokens
        /\ w.op = "commit"
        /\ dir /\ file' = file
        /\ checkpoint' = [segments |-> w.segments, token |-> commits + 1]
    <2>1. commits + 1 \in Tokens
      <3>1. MaxCommits \in Nat /\ commits \in 0..MaxCommits /\ commits < MaxCommits
        BY VodAssumption DEF Committed, VodTypeOK, Tokens
      <3> QED
        BY <3>1 DEF Tokens
    <2> QED
      BY <2>1 DEF Committed
  <1>2. /\ after \in Work
        /\ after.op = "committed"
        /\ after.segments = w.segments
        /\ after.token = commits + 1
    BY <1>1 DEF Work, Ops
  <1>3. /\ Backs(w.segments)
        /\ Sound(w.segments)
        /\ w.segments # <<>>
    BY <1>1, CommitIsComplete, ExtendsParts
  <1>4. checkpoint' # NoCheckpoint /\ checkpoint'.segments = w.segments /\ checkpoint'.token = commits + 1
    <2>1. checkpoint' \in Listing
      BY <1>1, WorkParts DEF Listing
    <2> QED
      BY <1>1, <2>1, VodAssumption
  <1>5. AfterCommit(after)'
    <2>1. Backs(after.segments)'
      BY <1>1, <1>2, <1>3 DEF Backs
    <2>2. Lists(after.segments)'
      BY <1>2, <1>3, <1>4 DEF Lists
    <2> QED
      BY <1>2, <1>3, <1>4, <2>1, <2>2 DEF AfterCommit
  <1>6. BeforeCommit(after)' /\ Muxing(after)' /\ AfterPublish(after)'
    BY <1>2 DEF BeforeCommit, Muxing, AfterPublish
  <1> QED
    BY <1>2, <1>3, <1>5, <1>6 DEF ThreadInv, NoWork

LEMMA MuxedKeepsThread ==
    ASSUME NEW w \in Work, ThreadInv(w), NEW after, Muxed(w, after), VodTypeOK
    PROVE  after \in Work /\ ThreadInv(after)'
  <1>1. /\ w.op = "mux"
        /\ w.segments # <<>>
        /\ \A i \in DOMAIN w.segments : file[i] # NoFile
        /\ after = [w EXCEPT !.op = "publish",
                             !.segments = [i \in DOMAIN w.segments |->
                                              [first |-> file[i].first, count |-> file[i].count]]]
        /\ UNCHANGED disk
    BY DEF Muxed
  <1>2. Sound(w.segments) /\ EndOf(w.segments) = Frames /\ w.segments \in Seq(Segment)
    BY <1>1, WorkParts DEF ThreadInv, Muxing
  <1>3. dir
    <2>1. 1 \in DOMAIN w.segments /\ DOMAIN w.segments \subseteq SegmentIds
      BY <1>1, <1>2, LengthIsBounded, EmptySeq
    <2> QED
      BY <1>1, <2>1 DEF ThreadInv, Muxing
  <1>4. Lists(w.segments) /\ checkpoint.token = w.token /\ Backs(w.segments)
    BY <1>1, <1>3 DEF ThreadInv, AfterCommit
  <1>5. after = [w EXCEPT !.op = "publish", !.segments = w.segments]
    BY <1>1, <1>2, <1>4, MuxReadsTheList
  <1>6. /\ after \in Work
        /\ after.op = "publish"
        /\ after.segments = w.segments
        /\ after.token = w.token
    BY <1>5 DEF Work, Ops
  <1>7. AfterCommit(after)'
    BY <1>1, <1>4, <1>6 DEF AfterCommit, disk, Lists, Backs
  <1>8. Muxing(after)'
    BY <1>1, <1>2, <1>3, <1>6 DEF Muxing, disk
  <1>9. BeforeCommit(after)' /\ AfterPublish(after)'
    BY <1>6 DEF BeforeCommit, AfterPublish
  <1> QED
    BY <1>2, <1>6, <1>7, <1>8, <1>9 DEF ThreadInv, NoWork

LEMMA PublishedKeepsThread ==
    ASSUME NEW w \in Work, ThreadInv(w), NEW after, Published(w, after), VodTypeOK
    PROVE  after \in Work /\ ThreadInv(after)'
  <1>1. /\ w.op = "publish"
        /\ output' = [segments |-> w.segments, token |-> w.token]
        /\ checkpoint' = checkpoint
        /\ after \in Work
        /\ after.op = "published"
        /\ after.segments = w.segments
        /\ after.token = w.token
    BY DEF Published, Work, Ops
  <1>2. checkpoint.token = w.token /\ Sound(w.segments)
    BY <1>1 DEF ThreadInv, Muxing, AfterCommit
  <1>3. output' # NoOutput /\ output'.token = w.token
    <2>1. output' \in Listing
      BY <1>1, WorkParts DEF Listing
    <2> QED
      BY <1>1, <2>1, VodAssumption
  <1>4. AfterPublish(after)'
    BY <1>1, <1>2, <1>3 DEF AfterPublish
  <1>5. BeforeCommit(after)' /\ AfterCommit(after)' /\ Muxing(after)'
    BY <1>1 DEF BeforeCommit, AfterCommit, Muxing
  <1> QED
    BY <1>1, <1>2, <1>4, <1>5 DEF ThreadInv, NoWork

LEMMA RemovalKeepsThread ==
    ASSUME NEW w \in Work, ThreadInv(w), NEW after, Removed(w, after) \/ AllRemoved(w, after)
    PROVE  after \in Work /\ ThreadInv(after)'
  <1>1. /\ w.op = "remove"
        /\ output' = output /\ checkpoint' = checkpoint
        /\ after \in Work
        /\ after.op \in {"remove", "removed"}
        /\ after.segments = w.segments
        /\ after.token = w.token
    BY DEF Removed, AllRemoved, Work, Ops, disk
  <1>2. AfterPublish(after)'
    BY <1>1 DEF ThreadInv, AfterPublish
  <1>3. BeforeCommit(after)' /\ AfterCommit(after)' /\ Muxing(after)'
    BY <1>1 DEF BeforeCommit, AfterCommit, Muxing
  <1> QED
    BY <1>1, <1>2, <1>3 DEF ThreadInv, NoWork

LEMMA ThreadStepKeepsThread ==
    ASSUME NEW w \in Work, ThreadInv(w), NEW after, ThreadStep(w, after), VodTypeOK
    PROVE  after \in Work /\ ThreadInv(after)'
  BY EncodedKeepsThread, CommittedKeepsThread, MuxedKeepsThread, PublishedKeepsThread,
     RemovalKeepsThread DEF ThreadStep

-----------------------------------------------------------------------------
(* The disk. *)

LEMMA SameDisk ==
    ASSUME DiskInv, UNCHANGED disk
    PROVE  DiskInv'
  BY DEF DiskInv, CheckpointInv, OnDisk, OutputInv, disk, Backs

\* Nothing changes but files that the checkpoint does not list.
LEMMA OtherFiles ==
    ASSUME VodTypeOK, DiskInv, UNCHANGED <<dir, checkpoint, output>>,
           \A i \in SegmentIds : file'[i] = file[i] \/ i > Len(Listed)
    PROVE  DiskInv'
  <1>1. CASE checkpoint = NoCheckpoint
    BY <1>1 DEF DiskInv, CheckpointInv, OnDisk, OutputInv
  <1>2. CASE checkpoint # NoCheckpoint
    <2>1. Listed = checkpoint.segments /\ Sound(Listed) /\ Listed \in Seq(Segment)
      BY <1>2, ListedIsTyped DEF Listed, DiskInv, CheckpointInv
    <2>2. \A i \in DOMAIN checkpoint.segments : i \in SegmentIds /\ i \in Nat /\ i <= Len(Listed)
      BY <2>1, LengthIsBounded
    <2>3. Len(Listed) \in Nat
      BY <2>1, LengthIsBounded
    <2>4. \A i \in DOMAIN checkpoint.segments : file'[i] = file[i]
      BY <2>2, <2>3
    <2>5. OnDisk'
      BY <2>4 DEF DiskInv, OnDisk
    <2>6. CheckpointInv'
      BY <2>4 DEF DiskInv, CheckpointInv, Backs
    <2> QED
      BY <2>5, <2>6 DEF DiskInv, OutputInv
  <1> QED
    BY <1>1, <1>2

LEMMA EncodedKeepsDisk ==
    ASSUME VodTypeOK, DiskInv, NEW w \in Work, ThreadInv(w), NEW after, Encoded(w, after)
    PROVE  DiskInv'
  <1>1. /\ UNCHANGED <<dir, checkpoint, output>>
        /\ file' = [file EXCEPT ![Len(w.segments)].whole = TRUE]
        /\ Extends(w.segments)
        /\ file \in [SegmentIds -> File \cup {NoFile}]
    BY DEF Encoded, ThreadInv, BeforeCommit, VodTypeOK
  <1>2. Len(w.segments) = Len(Listed) + 1 /\ Len(Listed) \in Nat
    BY <1>1, ExtendsParts, ListedIsTyped, LenProperties
  <1>3. \A i \in SegmentIds : file'[i] = file[i] \/ i = Len(w.segments)
    BY <1>1
  <1> QED
    BY <1>1, <1>2, <1>3, OtherFiles

LEMMA CommittedKeepsDisk ==
    ASSUME VodTypeOK, DiskInv, NEW w \in Work, ThreadInv(w), NEW after, Committed(w, after)
    PROVE  DiskInv'
  <1>1. /\ dir /\ dir' = dir /\ file' = file /\ output' = output
        /\ w.op = "commit"
        /\ checkpoint'.segments = w.segments
    BY DEF Committed
  <1>2. Backs(w.segments) /\ Sound(w.segments) /\ w.segments # <<>>
    BY <1>1, CommitIsComplete, ExtendsParts
  <1>3. Backs(checkpoint.segments)'
    BY <1>1, <1>2 DEF Backs
  <1>4. CheckpointInv'
    BY <1>1, <1>2, <1>3 DEF CheckpointInv
  <1>5. OnDisk'
    BY <1>3 DEF OnDisk, Backs, FileOf
  <1> QED
    BY <1>1, <1>4, <1>5 DEF DiskInv, OutputInv

LEMMA PublishedKeepsDisk ==
    ASSUME VodTypeOK, DiskInv, NEW w \in Work, ThreadInv(w), NEW after, Published(w, after)
    PROVE  DiskInv'
  <1>1. /\ UNCHANGED <<dir, checkpoint, file>>
        /\ w.op = "publish"
        /\ output'.segments = w.segments
    BY DEF Published
  <1>2. /\ Backs(w.segments) /\ Lists(w.segments) /\ w.segments # <<>>
        /\ Sound(w.segments) /\ EndOf(w.segments) = Frames
    BY <1>1 DEF ThreadInv, AfterCommit, Muxing
  <1>3. checkpoint.segments = w.segments
    BY <1>2 DEF Lists
  <1>4. CheckpointInv'
    BY <1>1, <1>2, <1>3 DEF DiskInv, CheckpointInv, Backs
  <1>5. OnDisk'
    BY <1>1 DEF DiskInv, OnDisk
  <1>6. OutputInv'
    BY <1>1, <1>2 DEF OutputInv
  <1> QED
    BY <1>4, <1>5, <1>6 DEF DiskInv

\* Files are removed only when the output has been made of them.
LEMMA RemovedKeepsDisk ==
    ASSUME VodTypeOK, DiskInv, NEW w \in Work, ThreadInv(w), NEW after, Removed(w, after)
    PROVE  DiskInv'
  <1>1. /\ UNCHANGED <<dir, checkpoint, output>>
        /\ w.op = "remove"
        /\ \A i \in SegmentIds : file'[i] \in {file[i], NoFile}
    BY DEF Removed, VodTypeOK
  <1>2. checkpoint # NoCheckpoint => output # NoOutput /\ output.token = checkpoint.token
    BY <1>1 DEF ThreadInv, AfterPublish
  <1>3. checkpoint # NoCheckpoint => DOMAIN checkpoint.segments \subseteq SegmentIds
    BY LengthIsBounded DEF DiskInv, CheckpointInv, VodTypeOK, Listing
  <1>4. CheckpointInv'
    BY <1>1, <1>2 DEF DiskInv, CheckpointInv
  <1>5. OnDisk'
    BY <1>1, <1>3 DEF DiskInv, OnDisk
  <1> QED
    BY <1>1, <1>4, <1>5 DEF DiskInv, OutputInv

LEMMA ThreadStepKeepsDisk ==
    ASSUME VodTypeOK, DiskInv, NEW w \in Work, ThreadInv(w), NEW after, ThreadStep(w, after)
    PROVE  DiskInv'
  <1>1. Muxed(w, after) \/ AllRemoved(w, after) => DiskInv'
    BY SameDisk DEF Muxed, AllRemoved
  <1> QED
    BY <1>1, EncodedKeepsDisk, CommittedKeepsDisk, PublishedKeepsDisk, RemovedKeepsDisk
       DEF ThreadStep

DiskTypeOK ==
    /\ dir \in BOOLEAN
    /\ file \in [SegmentIds -> File \cup {NoFile}]
    /\ checkpoint \in Listing \cup {NoCheckpoint}
    /\ output \in Listing \cup {NoOutput}
    /\ commits \in Tokens

LEMMA ThreadStepKeepsTypes ==
    ASSUME VodTypeOK, NEW w \in Work, ThreadInv(w), NEW after, ThreadStep(w, after)
    PROVE  DiskTypeOK'
  <1>0. DiskTypeOK /\ w.segments \in Seq(Segment) /\ w.token \in Tokens
    BY WorkParts DEF VodTypeOK, DiskTypeOK
  <1>1. CASE Encoded(w, after)
    <2>1. file' = [file EXCEPT ![Len(w.segments)].whole = TRUE]
          /\ UNCHANGED <<dir, checkpoint, output, commits>>
          /\ file[Len(w.segments)] # NoFile
      BY <1>1 DEF Encoded
    <2>2. file' \in [SegmentIds -> File \cup {NoFile}]
      <3>1. \A x \in File : [x EXCEPT !.whole = TRUE] \in File
        BY DEF File
      <3>2. file \in [SegmentIds -> File \cup {NoFile}]
        BY <1>0 DEF DiskTypeOK
      <3>3. Len(w.segments) \in SegmentIds => [file[Len(w.segments)] EXCEPT !.whole = TRUE] \in File
        BY <2>1, <3>1, <3>2
      <3> QED
        BY <2>1, <3>2, <3>3
    <2> QED
      BY <1>0, <2>1, <2>2 DEF DiskTypeOK
  <1>2. CASE Committed(w, after)
    <2>1. MaxCommits \in Nat /\ commits \in 0..MaxCommits /\ commits < MaxCommits
      BY <1>0, <1>2, VodAssumption DEF Committed, DiskTypeOK, Tokens
    <2>2. commits + 1 \in Tokens
      BY <2>1 DEF Tokens
    <2> QED
      BY <1>0, <1>2, <2>2 DEF DiskTypeOK, Committed, Listing
  <1>3. CASE Published(w, after)
    BY <1>0, <1>3 DEF DiskTypeOK, Published, Listing
  <1>4. CASE Removed(w, after)
    BY <1>0, <1>4 DEF DiskTypeOK, Removed
  <1>5. CASE Muxed(w, after) \/ AllRemoved(w, after)
    BY <1>0, <1>5 DEF DiskTypeOK, Muxed, AllRemoved, disk
  <1> QED
    BY <1>1, <1>2, <1>3, <1>4, <1>5 DEF ThreadStep

-----------------------------------------------------------------------------
(* The run while it is in its loop over the frames. *)

LEMMA ItsFile ==
    ASSUME NEW y \in Segment, NEW b \in BOOLEAN
    PROVE  FileOf(y, b) \in File /\ FileOf(y, b) # NoFile
  <1>1. FileOf(y, b) \in File
    <2>1. y.first \in 0..Frames /\ y.count \in 1..SegmentFrames /\ SegmentFrames \in Nat
      BY VodAssumption DEF Segment
    <2>2. y.count \in 0..SegmentFrames
      BY <2>1
    <2> QED
      BY <2>1, <2>2 DEF FileOf, File
  <1> QED
    BY <1>1, VodAssumption

LEMMA LoopFacts ==
    ASSUME VodInv, pc \in {"warming", "running", "inferring"}
    PROVE  /\ Listed = segments
           /\ segments \in Seq(Segment) /\ Sound(segments)
           /\ Len(segments) \in Nat
           /\ DOMAIN segments = 1..Len(segments)
           /\ EndOf(segments) \in Nat /\ done \in Nat /\ EndOf(segments) <= done /\ done <= Frames
           /\ DOMAIN segments \subseteq SegmentIds \ {Current}
           /\ done > EndOf(segments) \/ done < Frames => Current \in SegmentIds
           /\ SegmentCount \in Nat
           /\ work = NoWork /\ orphan = NoWork /\ dir
  <1>1. /\ segments \in Seq(Segment) /\ Sound(segments) /\ Lists(segments)
        /\ done \in EndOf(segments)..Frames /\ done \in 0..Frames
        /\ work = NoWork /\ orphan = NoWork /\ dir
    BY DEF VodInv, RunInv, InLoop, Turns, VodTypeOK
  <1>2. /\ Len(segments) \in Nat
        /\ EndOf(segments) \in 0..Frames
        /\ Len(segments) <= EndOf(segments)
        /\ DOMAIN segments = 1..Len(segments)
        /\ DOMAIN segments \subseteq SegmentIds
    BY <1>1, LengthIsBounded
  <1>3. Frames \in Nat
    BY VodAssumption
  <1>4. Listed = segments
    BY <1>1 DEF Lists, Listed
  <1>5. /\ EndOf(segments) \in Nat /\ done \in Nat /\ EndOf(segments) <= done /\ done <= Frames
        /\ SegmentCount \in Nat
    BY <1>1, <1>2, <1>3 DEF SegmentCount
  <1>6. /\ 1..Len(segments) \subseteq SegmentIds \ {Current}
        /\ done > EndOf(segments) \/ done < Frames => Current \in SegmentIds
    BY <1>2, <1>3, <1>5 DEF Current, SegmentIds
  <1> QED
    BY <1>1, <1>2, <1>4, <1>5, <1>6

\* What the loop does to the current file leaves the committed ones alone.
LEMMA CurrentOnly ==
    ASSUME VodInv, pc \in {"warming", "running", "inferring"},
           UNCHANGED <<dir, checkpoint, output>>,
           \A i \in SegmentIds \ {Current} : file'[i] = file[i]
    PROVE  /\ DiskInv'
           /\ Lists(segments) /\ checkpoint' = checkpoint
           /\ \A i \in DOMAIN segments : file'[i] = FileOf(segments[i], TRUE)
  <1>1. Backs(segments) /\ Lists(segments)
    BY DEF VodInv, RunInv, InLoop
  <1>2. \A i \in DOMAIN segments : file'[i] = FileOf(segments[i], TRUE)
    BY <1>1, LoopFacts DEF Backs, FileOf
  <1>3. Current = Len(Listed) + 1 /\ Len(Listed) \in Nat
    BY LoopFacts DEF Current
  <1>4. \A i \in SegmentIds : file'[i] = file[i] \/ i > Len(Listed)
    BY <1>3
  <1>5. DiskInv'
    BY <1>4, OtherFiles DEF VodInv
  <1> QED
    BY <1>1, <1>2, <1>5

-----------------------------------------------------------------------------
(* Every action keeps the invariant. *)

LEMMA EmptyToken == NoToken \in Tokens
  <1>1. MaxCommits \in Nat
    BY VodAssumption
  <1> QED
    BY <1>1 DEF NoToken, Tokens

LEMMA QuietStep ==
    ASSUME VodInv, UNCHANGED <<disk, work, orphan>>
    PROVE  DiskInv' /\ ThreadInv(work)' /\ ThreadInv(orphan)' /\ DiskTypeOK' /\ work' \in Work /\ orphan' \in Work
  <1>1. ThreadInv(work)' /\ ThreadInv(orphan)'
    BY SameThread DEF VodInv
  <1>2. DiskTypeOK' /\ work' \in Work /\ orphan' \in Work
    BY DEF VodInv, VodTypeOK, DiskTypeOK, disk
  <1> QED
    BY <1>1, <1>2, SameDisk DEF VodInv

LEMMA StartKeeps ==
    ASSUME VodInv, Liberties = {}, NEW resume \in BOOLEAN, NEW its \in Tokens,
           NEW overwrite \in BOOLEAN, Start(resume, its, overwrite)
    PROVE  VodInv'
  <1>1. /\ pc = "idle" /\ pc' = "validating"
        /\ work = NoWork /\ work' = NoWork /\ orphan = NoWork /\ orphan' = NoWork
        /\ request' = [resume |-> resume, token |-> its, overwrite |-> overwrite]
        /\ resume \/ checkpoint' = NoCheckpoint
        /\ state' = "processing"
        /\ UNCHANGED <<disk, work, orphan>>
    BY DEF Start, VodInv, RunInv, Turns, disk
  <1>2. VodTypeOK'
    <2>1. DiskTypeOK' /\ work' \in Work /\ orphan' \in Work
      BY <1>1, QuietStep
    <2>0. request' \in [resume : BOOLEAN, token : Tokens, overwrite : BOOLEAN]
      <3>1. request' = [resume |-> resume, token |-> its, overwrite |-> overwrite]
        BY DEF Start
      <3> QED
        BY ONLY <3>1, resume \in BOOLEAN, its \in Tokens, overwrite \in BOOLEAN
    <2>2. /\ pc' = "validating" /\ state' \in States /\ token' \in Tokens /\ stop' \in BOOLEAN
      BY EmptyToken DEF Start, States
    <2>3. segments' \in Seq(Segment) /\ done' \in 0..Frames
      BY DEF Start, VodInv, VodTypeOK
    <2> QED
      BY <2>0, <2>1, <2>2, <2>3 DEF VodTypeOK, DiskTypeOK
  <1>3. RunInv'
    BY <1>1 DEF RunInv, Turns, InLoop, Counting, OpenFile, Finishing, AtPause, NoWork
  <1> QED
    BY <1>1, <1>2, <1>3, QuietStep DEF VodInv

LEMMA ResumeKeeps ==
    ASSUME VodInv, Resume
    PROVE  VodInv'
  <1>1. /\ pc = "validating" /\ pc' = "warming"
        /\ work = NoWork /\ work' = NoWork /\ orphan = NoWork /\ orphan' = NoWork
        /\ checkpoint # NoCheckpoint
        /\ \A i \in DOMAIN checkpoint.segments : file[i] # NoFile
        /\ segments' = checkpoint.segments
        /\ done' = EndOf(checkpoint.segments)
        /\ state' = state
        /\ UNCHANGED <<disk, work, orphan>>
    BY DEF Resume, Loadable, VodInv, RunInv, Turns
  <1>2. /\ dir /\ checkpoint.segments # <<>> /\ Sound(checkpoint.segments)
        /\ checkpoint.segments \in Seq(Segment)
        /\ \A i \in DOMAIN checkpoint.segments : file[i] = FileOf(checkpoint.segments[i], TRUE)
    BY <1>1 DEF VodInv, DiskInv, CheckpointInv, OnDisk, VodTypeOK, Listing
  <1>3. EndOf(checkpoint.segments) \in 0..Frames /\ Frames \in Nat
    BY <1>2, LengthIsBounded, VodAssumption
  <1>4. VodTypeOK'
    BY <1>1, <1>2, <1>3, QuietStep DEF Resume, VodInv, VodTypeOK, DiskTypeOK
  <1>5. InLoop'
    <2>1. Backs(segments)'
      BY <1>1, <1>2 DEF Backs, FileOf, disk
    <2>2. Lists(segments)'
      BY <1>1, <1>2 DEF Lists, disk
    <2>3. (done \in EndOf(segments)..Frames)'
      BY <1>1, <1>3
    <2> QED
      BY <1>1, <1>2, <2>1, <2>2, <2>3 DEF InLoop
  <1>6. Turns' /\ Counting' /\ OpenFile' /\ Finishing' /\ AtPause'
    BY <1>1, <1>2 DEF Turns, Counting, OpenFile, Finishing, AtPause, NoWork, disk, VodInv, RunInv
  <1> QED
    BY <1>1, <1>4, <1>5, <1>6, QuietStep DEF VodInv, RunInv

LEMMA FreshKeeps ==
    ASSUME VodInv, Fresh
    PROVE  VodInv'
  <1>1. /\ pc = "validating" /\ pc' = "warming"
        /\ work = NoWork /\ work' = NoWork /\ orphan = NoWork /\ orphan' = NoWork
        /\ checkpoint = NoCheckpoint /\ checkpoint' = NoCheckpoint
        /\ output' = output
        /\ dir' = TRUE
        /\ file' = [i \in SegmentIds |-> NoFile]
        /\ segments' = <<>>
        /\ done' = 0
        /\ state' = state
    BY DEF Fresh, Resumes, VodInv, RunInv, Turns
  <1>2. <<>> \in Seq(Segment) /\ Sound(<<>>) /\ EndOf(<<>>) = 0 /\ DOMAIN <<>> = {} /\ Frames \in Nat
    BY EmptyIsSound, VodAssumption
  <1>3. VodTypeOK'
    BY <1>1, <1>2 DEF Fresh, VodInv, VodTypeOK
  <1>4. DiskInv'
    BY <1>1 DEF VodInv, DiskInv, CheckpointInv, OnDisk, OutputInv
  <1>5. InLoop'
    <2>1. Backs(segments)' /\ Lists(segments)'
      BY <1>1, <1>2 DEF Backs, Lists
    <2>2. (done \in EndOf(segments)..Frames)'
      BY <1>1, <1>2
    <2> QED
      BY <1>1, <1>2, <2>1, <2>2 DEF InLoop
  <1>6. Turns' /\ Counting' /\ OpenFile' /\ Finishing' /\ AtPause'
    BY <1>1, <1>2 DEF Turns, Counting, OpenFile, Finishing, AtPause, NoWork, VodInv, RunInv
  <1> QED
    BY <1>1, <1>3, <1>4, <1>5, <1>6, IdleThread DEF VodInv, RunInv

LEMMA WarmedKeeps ==
    ASSUME VodInv, Warmed
    PROVE  VodInv'
  <1>1. /\ pc = "warming" /\ pc' = "running"
        /\ done = EndOf(segments)
        /\ token' = IF segments = <<>> THEN NoToken ELSE checkpoint.token
        /\ UNCHANGED <<disk, segments, done, work, orphan, state>>
    BY DEF Warmed, VodInv, RunInv, Counting
  <1>2. EndOf(segments) \in Nat /\ SegmentFrames \in Nat \ {0}
    BY <1>1, LoopFacts, VodAssumption
  <1>3. token' \in Tokens
    <2>1. segments # <<>> => checkpoint \in Listing
      BY <1>1 DEF VodInv, RunInv, InLoop, Lists, VodTypeOK
    <2> QED
      BY <1>1, <2>1, EmptyToken DEF Listing
  <1>4. VodTypeOK'
    BY <1>1, <1>3, QuietStep DEF Warmed, VodInv, VodTypeOK, DiskTypeOK
  <1>5. SegmentCount' = 0
    BY <1>1, <1>2 DEF SegmentCount
  <1>6. Counting' /\ OpenFile'
    BY <1>1, <1>2, <1>5 DEF Counting, OpenFile, disk
  <1>7. InLoop'
    BY <1>1 DEF InLoop, VodInv, RunInv, Lists, Backs, disk
  <1>8. Turns' /\ Finishing' /\ AtPause'
    BY <1>1, LoopFacts DEF Turns, Finishing, AtPause, NoWork, VodInv, RunInv, disk
  <1> QED
    BY <1>1, <1>4, <1>6, <1>7, <1>8, QuietStep DEF VodInv, RunInv

LEMMA RequestPauseKeeps ==
    ASSUME VodInv, RequestPause
    PROVE  VodInv'
  <1>1. VodTypeOK'
    BY QuietStep DEF RequestPause, VodInv, VodTypeOK, DiskTypeOK
  <1>2. Turns' /\ InLoop' /\ Counting'
    BY DEF RequestPause, VodInv, RunInv, Turns, InLoop, Counting, Lists, Backs, SegmentCount, disk
  <1>3. OpenFile' /\ Finishing' /\ AtPause'
    BY DEF RequestPause, VodInv, RunInv, OpenFile, Finishing, AtPause, SegmentCount, Current,
           PausedCanResume, Loadable, disk
  <1> QED
    BY <1>1, <1>2, <1>3, QuietStep DEF RequestPause, VodInv, RunInv

LEMMA PauseKeeps ==
    ASSUME VodInv, Pause
    PROVE  VodInv'
  <1>1. /\ pc = "running" /\ pc' = "idle" /\ state' = "paused"
        /\ work' = NoWork /\ orphan' = orphan /\ orphan = NoWork
        /\ UNCHANGED <<dir, checkpoint, output, commits, segments, done, token>>
        /\ token = IF segments = <<>> THEN NoToken ELSE checkpoint.token
        /\ file' = file \/ (SegmentCount # 0 /\ file' = [file EXCEPT ![Current] = NoFile])
        /\ file \in [SegmentIds -> File \cup {NoFile}]
    BY LoopFacts DEF Pause, End, VodInv, RunInv, Counting, VodTypeOK
  <1>2. file' \in [SegmentIds -> File \cup {NoFile}] /\ \A i \in SegmentIds \ {Current} : file'[i] = file[i]
    BY <1>1
  <1>3. /\ DiskInv'
        /\ Lists(segments)
        /\ \A i \in DOMAIN segments : file'[i] = FileOf(segments[i], TRUE)
    BY <1>1, <1>2, CurrentOnly
  <1>4. \A i \in DOMAIN segments : file'[i] # NoFile
    <2>1. \A i \in DOMAIN segments : segments[i] \in Segment
      BY <1>1, LoopFacts, ElementOfSeq
    <2> QED
      BY <1>3, <2>1, ItsFile
  <1>5. VodTypeOK'
    BY <1>1, <1>2, EmptyIsSound DEF Pause, VodInv, VodTypeOK, States, NoWork
  <1>6. AtPause'
    <2>1. PausedCanResume'
      BY <1>1, <1>3, <1>4 DEF PausedCanResume, Loadable, Lists
    <2> QED
      BY <1>1, <2>1 DEF AtPause
  <1>7. Turns' /\ InLoop' /\ Counting' /\ OpenFile' /\ Finishing'
    BY <1>1 DEF Turns, InLoop, Counting, OpenFile, Finishing, NoWork
  <1> QED
    BY <1>1, <1>3, <1>5, <1>6, <1>7, IdleThread DEF VodInv, RunInv

LEMMA ReadFrameKeeps ==
    ASSUME VodInv, ReadFrame
    PROVE  VodInv'
  <1>1. /\ pc = "running" /\ pc' = "inferring" /\ done < Frames
        /\ work = NoWork /\ work' = NoWork /\ orphan' = NoWork /\ orphan = NoWork
        /\ UNCHANGED <<dir, checkpoint, output, commits, segments, done, token, state>>
        /\ file \in [SegmentIds -> File \cup {NoFile}]
        /\ dir /\ Current \in SegmentIds
        /\ Current' = Current /\ SegmentCount' = SegmentCount
    BY LoopFacts DEF ReadFrame, VodInv, VodTypeOK, Current, SegmentCount
  <1>2. /\ EndOf(segments) \in Nat /\ done \in Nat /\ SegmentCount \in Nat /\ Frames \in Nat
        /\ SegmentFrames \in Nat \ {0}
        /\ done \in 0..Frames /\ 0 \in 0..SegmentFrames
        /\ SegmentCount = 0 => done = EndOf(segments)
    <2>1. /\ EndOf(segments) \in Nat /\ done \in Nat /\ SegmentCount \in Nat /\ Frames \in Nat
          /\ SegmentFrames \in Nat \ {0}
      BY <1>1, LoopFacts, VodAssumption
    <2> QED
      BY <2>1, <1>1 DEF SegmentCount
  <1>3. /\ file' \in [SegmentIds -> File \cup {NoFile}]
        /\ \A i \in SegmentIds \ {Current} : file'[i] = file[i]
        /\ file'[Current] = [first |-> EndOf(segments), count |-> SegmentCount, whole |-> FALSE]
    <2>1. CASE SegmentCount = 0
      <3>1. file' = [file EXCEPT ![Current] = [first |-> done, count |-> 0, whole |-> FALSE]]
        BY <2>1 DEF ReadFrame
      <3>2. [first |-> done, count |-> 0, whole |-> FALSE] \in File
        BY <1>2 DEF File
      <3> QED
        BY <1>1, <1>2, <2>1, <3>1, <3>2
    <2>2. CASE SegmentCount # 0
      <3>1. file' = file
        BY <2>2 DEF ReadFrame
      <3>2. file[Current] = [first |-> EndOf(segments), count |-> SegmentCount, whole |-> FALSE]
        BY <1>1, <1>2, <2>2 DEF VodInv, RunInv, OpenFile
      <3> QED
        BY <3>1, <3>2, <1>1
    <2> QED
      BY <2>1, <2>2
  <1>4. /\ DiskInv' /\ Lists(segments)
        /\ \A i \in DOMAIN segments : file'[i] = FileOf(segments[i], TRUE)
    BY <1>1, <1>3, CurrentOnly
  <1>5. VodTypeOK'
    BY <1>1, <1>3 DEF ReadFrame, VodInv, VodTypeOK
  <1>6. InLoop'
    <2>1. Backs(segments)' /\ Lists(segments)'
      BY <1>1, <1>4 DEF Backs, Lists, FileOf
    <2> QED
      BY <1>1, <2>1 DEF InLoop, VodInv, RunInv
  <1>7. OpenFile'
    BY <1>1, <1>3 DEF OpenFile
  <1>8. Counting'
    BY <1>1 DEF Counting, VodInv, RunInv
  <1>9. Turns' /\ Finishing' /\ AtPause'
    BY <1>1 DEF Turns, Finishing, AtPause, NoWork, VodInv, RunInv
  <1> QED
    BY <1>1, <1>4, <1>5, <1>6, <1>7, <1>8, <1>9, IdleThread DEF VodInv, RunInv

\* The work that _finish_segment is given, by WriteFrame and by EndOfInput.
LEMMA FinishSegmentKeeps ==
    ASSUME VodInv, pc \in {"running", "inferring"},
           NEW count \in 1..SegmentFrames, FinishSegment(count),
           EndOf(segments) + count <= Frames, EndOf(segments) < Frames,
           UNCHANGED <<dir, checkpoint>>,
           \A i \in DOMAIN segments : file'[i] = FileOf(segments[i], TRUE),
           file'[Current] = [first |-> EndOf(segments), count |-> count, whole |-> FALSE]
    PROVE  /\ ThreadInv(work)'
           /\ work' \in Work
           /\ work' # NoWork
           /\ work'.op = "finish"
           /\ work'.segments = Append(segments, [first |-> EndOf(segments), count |-> count])
  <1>a. PICK x : x = [first |-> EndOf(segments), count |-> count]
    OBVIOUS
  <1>b. PICK list : list = Append(segments, x)
    OBVIOUS
  <1>1. work' = [op |-> "finish", token |-> NoToken, segments |-> list]
    BY <1>a, <1>b DEF FinishSegment
  <1>2. /\ segments \in Seq(Segment) /\ Sound(segments) /\ Lists(segments) /\ Listed = segments
        /\ Len(segments) \in Nat /\ DOMAIN segments = 1..Len(segments)
        /\ EndOf(segments) \in 0..Frames /\ dir
    BY LoopFacts, LengthIsBounded DEF VodInv, RunInv, InLoop
  <1>3. x \in Segment /\ x.first = EndOf(segments) /\ x.count = count
    BY <1>2, <1>a DEF Segment
  <1>4. /\ list \in Seq(Segment)
        /\ Len(list) = Len(segments) + 1
        /\ \A i \in 1..Len(segments) : list[i] = segments[i]
        /\ list[Len(segments) + 1] = x
        /\ Sound(list)
    <2>1. x.first + x.count <= Frames
      BY <1>3
    <2> QED
      BY <1>2, <1>3, <1>b, <2>1, AppendKeepsOrder
  <1>5. Extends(list)'
    <2>1. list = Append(Listed, x)
      BY <1>2, <1>b
    <2>2. checkpoint' = checkpoint
      OBVIOUS
    <2> QED
      BY <1>3, <2>1, <2>2 DEF Extends, Listed
  <1>6. file'[Len(list)] = FileOf(list[Len(list)], FALSE)
    BY <1>3, <1>4 DEF FileOf, Current
  <1>7. \A i \in 1..(Len(list) - 1) : file'[i] = FileOf(list[i], TRUE)
    <2>1. 1..(Len(list) - 1) = DOMAIN segments
      BY <1>2, <1>4
    <2> QED
      BY <2>1, <1>2, <1>4
  <1>8. /\ work'.op = "finish" /\ work'.segments = list
        /\ work' \in Work
        /\ work' # NoWork
    BY <1>1, <1>4, EmptyToken DEF Work, Ops, NoWork
  <1>9. BeforeCommit(work)'
    <2>1. (work'.op = "commit") = FALSE
      BY <1>8
    <2> QED
      BY <1>5, <1>6, <1>7, <1>8, <2>1 DEF BeforeCommit
  <1>10. AfterCommit(work)' /\ Muxing(work)' /\ AfterPublish(work)'
    BY <1>8 DEF AfterCommit, Muxing, AfterPublish
  <1>11. ThreadInv(work)'
    BY <1>4, <1>8, <1>9, <1>10 DEF ThreadInv, NoWork
  <1> QED
    BY <1>8, <1>11, <1>a, <1>b

LEMMA WriteFrameKeeps ==
    ASSUME VodInv, WriteFrame
    PROVE  VodInv'
  <1>1. /\ pc = "inferring" /\ done < Frames /\ done' = done + 1
        /\ work = NoWork /\ orphan' = NoWork /\ orphan = NoWork
        /\ UNCHANGED <<dir, checkpoint, output, commits, segments, token, state>>
        /\ file \in [SegmentIds -> File \cup {NoFile}]
        /\ file' = Grown
        /\ dir /\ Current \in SegmentIds
        /\ Current' = Current
        /\ SegmentCount < SegmentFrames
        /\ file[Current] = [first |-> EndOf(segments), count |-> SegmentCount, whole |-> FALSE]
    BY LoopFacts DEF WriteFrame, VodInv, RunInv, Counting, OpenFile, VodTypeOK, Current
  <1>2. /\ EndOf(segments) \in Nat /\ done \in Nat /\ SegmentCount \in Nat /\ Frames \in Nat
        /\ SegmentFrames \in Nat \ {0}
        /\ EndOf(segments) <= done
        /\ EndOf(segments) + SegmentCount = done
        /\ SegmentCount' = SegmentCount + 1
    <2>1. /\ EndOf(segments) \in Nat /\ done \in Nat /\ SegmentCount \in Nat /\ Frames \in Nat
          /\ SegmentFrames \in Nat \ {0} /\ EndOf(segments) <= done
      BY <1>1, LoopFacts, VodAssumption
    <2> QED
      BY <2>1, <1>1 DEF SegmentCount
  <1>3. /\ file' \in [SegmentIds -> File \cup {NoFile}]
        /\ \A i \in SegmentIds \ {Current} : file'[i] = file[i]
        /\ file'[Current] = [first |-> EndOf(segments), count |-> SegmentCount + 1, whole |-> FALSE]
    <2>1. /\ [first |-> EndOf(segments), count |-> SegmentCount, whole |-> FALSE] \in File
          /\ [first |-> EndOf(segments), count |-> SegmentCount + 1, whole |-> FALSE] \in File
      <3>1. /\ EndOf(segments) \in 0..Frames
            /\ SegmentCount \in 0..SegmentFrames /\ SegmentCount + 1 \in 0..SegmentFrames
        BY <1>1, <1>2
      <3> QED
        BY <3>1 DEF File
    <2>2. file[Current] # NoFile
      BY <1>1, <2>1, VodAssumption
    <2>3. file' = [file EXCEPT ![Current] = [first |-> EndOf(segments), count |-> SegmentCount + 1,
                                             whole |-> FALSE]]
      <3>1. file' = [file EXCEPT ![Current] = [file[Current] EXCEPT !.count = @ + 1]]
        BY <1>1, <2>2 DEF Grown
      <3>2. [file[Current] EXCEPT !.count = @ + 1]
            = [first |-> EndOf(segments), count |-> SegmentCount + 1, whole |-> FALSE]
        BY <1>1, GrownFile
      <3> QED
        BY <3>1, <3>2
    <2> QED
      BY <1>1, <2>1, <2>3
  <1>4. /\ DiskInv' /\ Lists(segments)
        /\ \A i \in DOMAIN segments : file'[i] = FileOf(segments[i], TRUE)
    BY <1>1, <1>3, CurrentOnly
  <1>5. done' \in 0..Frames /\ (done \in EndOf(segments)..Frames)'
    BY <1>1, <1>2
  <1>6. CASE SegmentCount + 1 >= SegmentFrames
    <2>1. FinishSegment(SegmentCount + 1) /\ pc' = "working"
      BY <1>6 DEF WriteFrame, FinishSegment
    <2>2. /\ SegmentCount + 1 = SegmentFrames /\ SegmentCount + 1 \in 1..SegmentFrames
          /\ EndOf(segments) + (SegmentCount + 1) <= Frames /\ EndOf(segments) < Frames
      BY <1>1, <1>2, <1>6
    <2>3. /\ ThreadInv(work)' /\ work' \in Work /\ work' # NoWork /\ work'.op = "finish"
          /\ work'.segments = Append(segments, [first |-> EndOf(segments), count |-> SegmentCount + 1])
      BY <1>1, <1>3, <1>4, <2>1, <2>2, FinishSegmentKeeps
    <2>4. VodTypeOK'
      BY <1>1, <1>3, <1>5, <2>1, <2>3 DEF WriteFrame, VodInv, VodTypeOK
    <2>5. Finishing'
      <3>1. (done > EndOf(segments))' /\ ~(SegmentCount' < SegmentFrames)
        BY <1>1, <1>2, <2>2
      <3> QED
        BY <1>1, <1>2, <2>3, <3>1 DEF Finishing
    <2>6. Turns' /\ InLoop' /\ Counting' /\ OpenFile' /\ AtPause'
      BY <1>1, <2>1, <2>3 DEF Turns, InLoop, Counting, OpenFile, AtPause, VodInv, RunInv
    <2> QED
      BY <1>1, <1>4, <2>3, <2>4, <2>5, <2>6, IdleThread DEF VodInv, RunInv
  <1>7. CASE SegmentCount + 1 < SegmentFrames
    <2>1. pc' = "running" /\ work' = NoWork
      BY <1>1, <1>2, <1>7 DEF WriteFrame
    <2>2. VodTypeOK'
      BY <1>1, <1>3, <1>5, <2>1 DEF WriteFrame, VodInv, VodTypeOK
    <2>3. InLoop'
      <3>1. Backs(segments)' /\ Lists(segments)'
        BY <1>1, <1>4 DEF Backs, Lists, FileOf
      <3> QED
        BY <1>1, <1>5, <3>1 DEF InLoop, VodInv, RunInv
    <2>4. Counting'
      BY <1>1, <1>2, <1>7, <2>1 DEF Counting, VodInv, RunInv
    <2>5. OpenFile'
      BY <1>1, <1>2, <1>3 DEF OpenFile
    <2>6. Turns' /\ Finishing' /\ AtPause'
      BY <1>1, <2>1 DEF Turns, Finishing, AtPause, NoWork, VodInv, RunInv
    <2> QED
      BY <1>1, <1>4, <2>1, <2>2, <2>3, <2>4, <2>5, <2>6, IdleThread DEF VodInv, RunInv
  <1> QED
    BY <1>2, <1>6, <1>7

\* The work that _finalize is given, by EndOfInput and by SegmentDone.
LEMMA FinalizeKeeps ==
    ASSUME NEW list \in Seq(Segment), NEW its \in Tokens, Finalize(list, its),
           list # <<>>, Sound(list), EndOf(list) = Frames, dir, Lists(list), Backs(list),
           its = checkpoint.token, UNCHANGED disk
    PROVE  /\ ThreadInv(work)' /\ work' \in Work /\ work' # NoWork /\ work'.op = "mux"
  <1>1. work' = [op |-> "mux", segments |-> list, token |-> its]
    BY DEF Finalize
  <1>2. /\ work' \in Work /\ work' # NoWork
        /\ work'.op = "mux" /\ work'.segments = list /\ work'.token = its
    BY <1>1 DEF Work, Ops, NoWork
  <1>3. AfterCommit(work)'
    BY <1>2 DEF AfterCommit, disk, Lists, Backs
  <1>4. BeforeCommit(work)' /\ Muxing(work)' /\ AfterPublish(work)'
    BY <1>2 DEF BeforeCommit, Muxing, AfterPublish, disk
  <1> QED
    BY <1>2, <1>3, <1>4 DEF ThreadInv, NoWork

LEMMA EndOfInputKeeps ==
    ASSUME VodInv, EndOfInput
    PROVE  VodInv'
  <1>1. /\ pc = "running" /\ done = Frames /\ dir
        /\ work = NoWork /\ orphan' = NoWork /\ orphan = NoWork
        /\ UNCHANGED <<disk, segments, done, token, state>>
        /\ Lists(segments) /\ Backs(segments) /\ Sound(segments)
        /\ token = IF segments = <<>> THEN NoToken ELSE checkpoint.token
        /\ segments \in Seq(Segment) /\ token \in Tokens
        /\ SegmentCount < SegmentFrames
        /\ pc' = "working"
    BY LoopFacts DEF EndOfInput, FinishSegment, Finalize, VodInv, RunInv, InLoop, Counting, VodTypeOK
  <1>2. /\ EndOf(segments) \in Nat /\ done \in Nat /\ SegmentCount \in Nat /\ Frames \in Nat \ {0}
        /\ SegmentFrames \in Nat \ {0}
        /\ EndOf(segments) + SegmentCount = Frames
        /\ SegmentCount' = SegmentCount
    <2>1. /\ EndOf(segments) \in Nat /\ done \in Nat /\ SegmentCount \in Nat /\ Frames \in Nat \ {0}
          /\ SegmentFrames \in Nat \ {0}
      BY <1>1, LoopFacts, VodAssumption
    <2> QED
      BY <2>1, <1>1 DEF SegmentCount
  <1>3. /\ ThreadInv(work)' /\ work' \in Work /\ work' # NoWork /\ Finishing'
    <2>1. CASE SegmentCount > 0
      <3>1. FinishSegment(SegmentCount)
        BY <2>1 DEF EndOfInput
      <3>2. /\ SegmentCount \in 1..SegmentFrames
            /\ EndOf(segments) + SegmentCount <= Frames /\ EndOf(segments) < Frames
        BY <1>1, <1>2, <2>1
      <3>3. /\ \A i \in DOMAIN segments : file'[i] = FileOf(segments[i], TRUE)
            /\ file'[Current] = [first |-> EndOf(segments), count |-> SegmentCount, whole |-> FALSE]
        BY <1>1, <2>1 DEF Backs, FileOf, disk, VodInv, RunInv, OpenFile
      <3>4. /\ ThreadInv(work)' /\ work' \in Work /\ work' # NoWork /\ work'.op = "finish"
            /\ work'.segments = Append(segments, [first |-> EndOf(segments), count |-> SegmentCount])
        BY <1>1, <3>1, <3>2, <3>3, FinishSegmentKeeps DEF disk
      <3>5. Finishing'
        BY <1>1, <1>2, <3>2, <3>4 DEF Finishing
      <3> QED
        BY <3>4, <3>5
    <2>2. CASE SegmentCount = 0
      <3>1. Finalize(segments, token) /\ EndOf(segments) = Frames
        BY <1>2, <2>2 DEF EndOfInput
      <3>2. segments # <<>>
        BY <1>2, <3>1, EmptyIsSound
      <3>3. ThreadInv(work)' /\ work' \in Work /\ work' # NoWork /\ work'.op = "mux"
        BY <1>1, <3>1, <3>2, FinalizeKeeps
      <3>4. Finishing'
        BY <3>3 DEF Finishing
      <3> QED
        BY <3>3, <3>4
    <2> QED
      BY <1>2, <2>1, <2>2
  <1>4. VodTypeOK'
    BY <1>1, <1>3 DEF EndOfInput, VodInv, VodTypeOK, disk
  <1>5. Turns' /\ InLoop' /\ Counting' /\ OpenFile' /\ AtPause'
    BY <1>1, <1>3 DEF Turns, InLoop, Counting, OpenFile, AtPause, VodInv, RunInv, disk
  <1> QED
    BY <1>1, <1>3, <1>4, <1>5, IdleThread, SameDisk DEF VodInv, RunInv

\* While the run waits for its thread.
LEMMA WorkingFacts ==
    ASSUME VodInv, work.op # "none"
    PROVE  pc = "working" /\ orphan = NoWork /\ dir /\ work \in Work /\ ThreadInv(work) /\ state # "paused"
  BY DEF VodInv, VodTypeOK, RunInv, Turns, AtPause, ThreadInv

LEMMA WorksKeeps ==
    ASSUME VodInv, Works
    PROVE  VodInv'
  <1>1. /\ pc = "working" /\ pc' = "working" /\ orphan = NoWork /\ orphan' = NoWork
        /\ work # NoWork /\ work \in Work /\ ThreadInv(work)
        /\ ThreadStep(work, work')
        /\ dir /\ dir' = dir
        /\ state # "paused"
        /\ UNCHANGED <<segments, done, state>>
    BY DEF Works, ThreadStep, Encoded, Committed, Muxed, Published, Removed, AllRemoved, disk,
           VodInv, VodTypeOK, RunInv, Turns, AtPause
  <1>2. /\ work' \in Work /\ ThreadInv(work)' /\ DiskInv' /\ DiskTypeOK'
    BY <1>1, ThreadStepKeepsThread, ThreadStepKeepsDisk, ThreadStepKeepsTypes DEF VodInv
  <1>3. /\ work' # NoWork
        /\ work'.op \in {"commit", "committed"} =>
              work.op \in {"finish", "commit"} /\ work'.segments = work.segments
        /\ work'.op # "finish"
    <2>1. CASE Encoded(work, work')
      BY <1>1, <2>1 DEF Encoded, NoWork, Work
    <2>2. CASE Committed(work, work')
      BY <1>1, <2>2 DEF Committed, NoWork, Work
    <2>3. CASE Muxed(work, work')
      <3>1. work'.op = "publish"
        BY <1>1, <2>3 DEF Muxed, Work
      <3> QED
        BY <3>1 DEF NoWork
    <2>4. CASE Published(work, work') \/ Removed(work, work') \/ AllRemoved(work, work')
      <3>1. work'.op \in {"published", "remove", "removed"}
        BY <1>1, <2>4 DEF Published, Removed, AllRemoved, Work
      <3> QED
        BY <3>1 DEF NoWork
    <2> QED
      BY <1>1, <2>1, <2>2, <2>3, <2>4 DEF ThreadStep
  <1>4. VodTypeOK'
    BY <1>1, <1>2 DEF Works, VodInv, VodTypeOK, DiskTypeOK
  <1>5. Finishing'
    BY <1>1, <1>3 DEF Finishing, SegmentCount, VodInv, RunInv
  <1>6. Turns' /\ InLoop' /\ Counting' /\ OpenFile' /\ AtPause'
    BY <1>1, <1>3 DEF Turns, InLoop, Counting, OpenFile, AtPause
  <1> QED
    BY <1>1, <1>2, <1>4, <1>5, <1>6, IdleThread DEF VodInv, RunInv

LEMMA WorksOnKeeps ==
    ASSUME VodInv, WorksOn
    PROVE  VodInv'
  <1>1. /\ pc = "idle" /\ pc' = "idle" /\ work = NoWork /\ work' = NoWork
        /\ orphan # NoWork /\ orphan \in Work /\ ThreadInv(orphan)
        /\ ThreadStep(orphan, orphan')
        /\ state # "paused"
        /\ UNCHANGED <<segments, done, state>>
    BY DEF WorksOn, ThreadStep, Encoded, Committed, Muxed, Published, Removed, AllRemoved, NoWork,
           VodInv, VodTypeOK, RunInv, Turns, AtPause
  <1>2. /\ orphan' \in Work /\ ThreadInv(orphan)' /\ DiskInv' /\ DiskTypeOK'
    BY <1>1, ThreadStepKeepsThread, ThreadStepKeepsDisk, ThreadStepKeepsTypes DEF VodInv
  <1>3. VodTypeOK'
    BY <1>1, <1>2 DEF WorksOn, VodInv, VodTypeOK, DiskTypeOK
  <1>4. RunInv'
    BY <1>1 DEF RunInv, Turns, InLoop, Counting, OpenFile, Finishing, AtPause, NoWork
  <1> QED
    BY <1>1, <1>2, <1>3, <1>4, IdleThread DEF VodInv

LEMMA SegmentDoneKeeps ==
    ASSUME VodInv, SegmentDone
    PROVE  VodInv'
  <1>1. /\ work.op = "committed"
        /\ pc = "working" /\ orphan = NoWork /\ orphan' = NoWork /\ dir
        /\ work \in Work /\ ThreadInv(work) /\ state # "paused"
        /\ segments' = work.segments /\ token' = work.token
        /\ UNCHANGED <<disk, done, state>>
    BY WorkingFacts DEF SegmentDone
  <1>2. /\ work.segments \in Seq(Segment) /\ work.token \in Tokens
        /\ work.segments # <<>> /\ Lists(work.segments) /\ Backs(work.segments)
        /\ Sound(work.segments)
        /\ checkpoint.token = work.token
    BY <1>1, WorkParts DEF ThreadInv, AfterCommit
  <1>3. /\ EndOf(segments) \in Nat /\ done \in Nat /\ Frames \in Nat /\ SegmentFrames \in Nat \ {0}
        /\ done > EndOf(segments) /\ done <= Frames
        /\ SegmentCount < SegmentFrames => done = Frames
        /\ segments \in Seq(Segment)
    <2>1. done \in 0..Frames /\ Frames \in Nat /\ SegmentFrames \in Nat \ {0} /\ segments \in Seq(Segment)
      BY VodAssumption DEF VodInv, VodTypeOK
    <2> QED
      BY <1>1, <2>1, EndIsNat DEF VodInv, RunInv, Finishing
  <1>4. EndOf(work.segments) = done
    <2>1. PICK x : x = [first |-> EndOf(segments), count |-> SegmentCount]
      OBVIOUS
    <2>2. work.segments = Append(segments, x)
      BY <1>1, <2>1 DEF VodInv, RunInv, Finishing
    <2>3. x.first + x.count = done
      BY <1>3, <2>1 DEF SegmentCount
    <2>4. Len(segments) \in Nat
      BY <1>3, LenProperties
    <2>5. Len(work.segments) = Len(segments) + 1 /\ work.segments[Len(segments) + 1] = x
      BY <1>3, <2>2, <2>4
    <2>6. EndOf(work.segments) = x.first + x.count
      BY <1>2, <2>5 DEF EndOf
    <2> QED
      BY <2>3, <2>6
  <1>5. CASE SegmentCount < SegmentFrames
    <2>1. Finalize(work.segments, work.token) /\ pc' = "working"
      BY <1>5 DEF SegmentDone, Finalize
    <2>2. ThreadInv(work)' /\ work' \in Work /\ work' # NoWork /\ work'.op = "mux"
      BY <1>1, <1>2, <1>3, <1>4, <1>5, <2>1, FinalizeKeeps
    <2>3. VodTypeOK'
      BY <1>1, <1>2, <2>1, <2>2 DEF SegmentDone, VodInv, VodTypeOK, disk
    <2>4. RunInv'
      BY <1>1, <2>1, <2>2 DEF RunInv, Turns, InLoop, Counting, OpenFile, Finishing, AtPause, disk
    <2> QED
      BY <1>1, <2>2, <2>3, <2>4, IdleThread, SameDisk DEF VodInv
  <1>6. CASE ~(SegmentCount < SegmentFrames)
    <2>1. pc' = "running" /\ work' = NoWork
      BY <1>6 DEF SegmentDone
    <2>2. VodTypeOK'
      BY <1>1, <1>2, <2>1, EmptyIsSound, EmptyToken DEF SegmentDone, VodInv, VodTypeOK, disk, Work, Ops, NoWork
    <2>3. InLoop'
      <3>1. Backs(segments)' /\ Lists(segments)'
        BY <1>1, <1>2 DEF Backs, Lists, disk
      <3>2. (done \in EndOf(segments)..Frames)'
        BY <1>1, <1>3, <1>4
      <3> QED
        BY <1>1, <1>2, <3>1, <3>2 DEF InLoop
    <2>4. SegmentCount' = 0
      BY <1>1, <1>3, <1>4 DEF SegmentCount
    <2>5. Counting' /\ OpenFile'
      BY <1>1, <1>2, <1>3, <2>1, <2>4 DEF Counting, OpenFile, disk
    <2>6. Turns' /\ Finishing' /\ AtPause'
      BY <1>1, <2>1 DEF Turns, Finishing, AtPause, NoWork, disk
    <2> QED
      BY <1>1, <2>1, <2>2, <2>3, <2>5, <2>6, IdleThread, SameDisk DEF VodInv, RunInv
  <1> QED
    BY <1>5, <1>6

LEMMA OutputDoneKeeps ==
    ASSUME VodInv, OutputDone
    PROVE  VodInv'
  <1>1. /\ work.op = "published"
        /\ pc = "working" /\ orphan = NoWork /\ orphan' = NoWork /\ dir
        /\ work \in Work /\ ThreadInv(work) /\ state # "paused"
        /\ UNCHANGED <<disk, pc, segments, done, state>>
        /\ work' = [work EXCEPT !.op = "remove"]
    BY WorkingFacts DEF OutputDone
  <1>2. /\ work' \in Work /\ work' # NoWork
        /\ work'.op = "remove" /\ work'.segments = work.segments /\ work'.token = work.token
    BY <1>1 DEF Work, Ops, NoWork
  <1>3. ThreadInv(work)'
    BY <1>1, <1>2 DEF ThreadInv, BeforeCommit, AfterCommit, Muxing, AfterPublish, disk, NoWork
  <1>4. VodTypeOK'
    BY <1>1, <1>2 DEF OutputDone, VodInv, VodTypeOK, disk
  <1>5. RunInv'
    BY <1>1, <1>2 DEF RunInv, Turns, InLoop, Counting, OpenFile, Finishing, AtPause, disk
  <1> QED
    BY <1>1, <1>3, <1>4, <1>5, IdleThread, SameDisk DEF VodInv

\* A run that ends, otherwise than paused, leaves nothing to rely on.
LEMMA EndKeeps ==
    ASSUME VodInv, NEW how \in {"unknown", "done", "failed", "cancelled"}, End(how),
           UNCHANGED <<disk, request, segments, done>>, token' \in Tokens, stop' \in BOOLEAN,
           orphan' \in Work, ThreadInv(orphan)'
    PROVE  VodInv'
  <1>1. pc' = "idle" /\ state' = how /\ work' = NoWork
    BY DEF End
  <1>2. VodTypeOK'
    BY <1>1, EmptyIsSound, EmptyToken DEF VodInv, VodTypeOK, disk, States, Work, Ops, NoWork
  <1>3. RunInv'
    BY <1>1 DEF RunInv, Turns, InLoop, Counting, OpenFile, Finishing, AtPause, NoWork
  <1> QED
    BY <1>1, <1>2, <1>3, IdleThread, SameDisk DEF VodInv

LEMMA IdleIsTyped == NoWork \in Work
  BY EmptyIsSound, EmptyToken DEF Work, Ops, NoWork

LEMMA EndingsKeep ==
    ASSUME VodInv, Finished \/ Fail \/ Cancel \/ Crash
    PROVE  VodInv'
  <1>1. /\ token \in Tokens /\ stop \in BOOLEAN /\ orphan \in Work /\ work \in Work
        /\ ThreadInv(orphan) /\ ThreadInv(work)
    BY DEF VodInv, VodTypeOK
  <1>2. CASE Finished
    <2>1. orphan' = orphan /\ UNCHANGED disk
      BY <1>2 DEF Finished
    <2>2. ThreadInv(orphan)'
      BY <1>1, <2>1, SameThread
    <2> QED
      BY <1>1, <1>2, <2>1, <2>2, EndKeeps DEF Finished
  <1>3. CASE Fail
    <2>1. orphan' = orphan /\ UNCHANGED disk
      BY <1>3 DEF Fail
    <2>2. ThreadInv(orphan)'
      BY <1>1, <2>1, SameThread
    <2> QED
      BY <1>1, <1>3, <2>1, <2>2, EndKeeps DEF Fail
  <1>4. CASE Cancel
    <2>1. UNCHANGED disk /\ orphan' \in {orphan, NoWork, work}
      BY <1>4 DEF Cancel
    <2>2. ThreadInv(orphan)' /\ orphan' \in Work
      BY <1>1, <2>1, SameThread, IdleThread, IdleIsTyped
    <2> QED
      BY <1>1, <1>4, <2>1, <2>2, EndKeeps DEF Cancel
  <1>5. CASE Crash
    <2>1. orphan' = NoWork
      BY <1>5 DEF Crash
    <2> QED
      BY <1>5, <2>1, EndKeeps, IdleThread, IdleIsTyped, EmptyToken DEF Crash
  <1> QED
    BY <1>2, <1>3, <1>4, <1>5

LEMMA OrphanEndsKeeps ==
    ASSUME VodInv, OrphanEnds
    PROVE  VodInv'
  <1>1. /\ orphan # NoWork /\ orphan' = NoWork /\ pc = "idle" /\ pc' = "idle"
        /\ work = NoWork /\ work' = NoWork /\ state # "paused" /\ state' = state
        /\ UNCHANGED disk
    BY DEF OrphanEnds, Over, MayFail, NoWork, VodInv, RunInv, Turns, AtPause
  <1>2. VodTypeOK'
    BY <1>1, IdleIsTyped DEF OrphanEnds, VodInv, VodTypeOK, disk
  <1>3. RunInv'
    BY <1>1 DEF RunInv, Turns, InLoop, Counting, OpenFile, Finishing, AtPause, NoWork
  <1> QED
    BY <1>1, <1>2, <1>3, IdleThread, SameDisk DEF VodInv

LEMMA CleanupKeeps ==
    ASSUME VodInv, NEW purge \in BOOLEAN, Cleanup(purge)
    PROVE  VodInv'
  <1>1. /\ pc = "idle" /\ pc' = "idle" /\ work = NoWork /\ work' = NoWork
        /\ state' = "cancelled" /\ output' = output /\ commits' = commits
        /\ orphan' = (IF orphan.op = "publish" THEN NoWork ELSE orphan)
        /\ orphan \in Work /\ ThreadInv(orphan)
    BY DEF Cleanup, VodInv, VodTypeOK, RunInv, Turns, disk
  <1>2. /\ orphan' \in Work
        /\ orphan' = NoWork \/ (orphan' = orphan /\ orphan.op # "publish")
    BY <1>1, IdleIsTyped
  <1>3. RunInv'
    BY <1>1 DEF RunInv, Turns, InLoop, Counting, OpenFile, Finishing, AtPause, NoWork
  <1>4. CASE UNCHANGED disk
    <2>1. ThreadInv(orphan)'
      BY <1>1, <1>2, <1>4, SameThread, IdleThread
    <2>2. VodTypeOK'
      BY <1>1, <1>2, <1>4 DEF Cleanup, VodInv, VodTypeOK, States, disk
    <2> QED
      BY <1>1, <1>3, <1>4, <2>1, <2>2, SameDisk, IdleThread DEF VodInv
  <1>5. CASE /\ dir' = FALSE
             /\ file' = [i \in SegmentIds |-> NoFile]
             /\ checkpoint' = NoCheckpoint
    <2>1. VodTypeOK'
      BY <1>1, <1>2, <1>5 DEF Cleanup, VodInv, VodTypeOK, States
    <2>2. DiskInv'
      BY <1>1, <1>5 DEF VodInv, DiskInv, CheckpointInv, OnDisk, OutputInv
    <2>3. ThreadInv(orphan)'
      <3>1. CASE orphan' = NoWork
        BY <3>1, IdleThread
      <3>2. CASE orphan' = orphan /\ orphan.op # "publish"
        <4>1. BeforeCommit(orphan)' /\ AfterCommit(orphan)'
          BY <1>5 DEF BeforeCommit, AfterCommit
        <4>2. Muxing(orphan)'
          BY <1>1, <1>5, <3>2 DEF Muxing, ThreadInv
        <4>3. AfterPublish(orphan)'
          BY <1>1, <1>5, <3>2 DEF AfterPublish, ThreadInv
        <4> QED
          BY <1>1, <3>2, <4>1, <4>2, <4>3 DEF ThreadInv
      <3> QED
        BY <1>2, <3>1, <3>2
    <2> QED
      BY <1>1, <1>3, <2>1, <2>2, <2>3, IdleThread DEF VodInv
  <1> QED
    BY <1>4, <1>5 DEF Cleanup

-----------------------------------------------------------------------------
(* The theorems. *)

LEMMA InitEstablishes == VodInit => VodInv
  <1> SUFFICES ASSUME VodInit PROVE VodInv
    OBVIOUS
  <1>1. 0 \in Tokens /\ 0 \in 0..Frames
    <2>1. Frames \in Nat
      BY VodAssumption
    <2> QED
      BY <2>1, EmptyToken DEF NoToken
  <1>2. VodTypeOK
    BY <1>1, IdleIsTyped, EmptyIsSound, EmptyToken DEF VodInit, VodTypeOK, States
  <1>3. DiskInv
    BY DEF VodInit, DiskInv, CheckpointInv, OnDisk, OutputInv
  <1>4. ThreadInv(work) /\ ThreadInv(orphan)
    BY EmptyIsSound DEF VodInit, ThreadInv, BeforeCommit, AfterCommit, Muxing, AfterPublish, NoWork
  <1>5. RunInv
    BY DEF VodInit, RunInv, Turns, InLoop, Counting, OpenFile, Finishing, AtPause, NoWork
  <1> QED
    BY <1>2, <1>3, <1>4, <1>5 DEF VodInv

LEMMA StepKeeps ==
    ASSUME Liberties = {}, VodInv, [VodNext]_vodVars
    PROVE  VodInv'
  <1>1. CASE UNCHANGED vodVars
    <2>1. UNCHANGED <<disk, work, orphan>>
      BY <1>1 DEF vodVars
    <2>2. VodTypeOK'
      BY <1>1 DEF vodVars, disk, VodInv, VodTypeOK
    <2>3. RunInv'
      BY <1>1 DEF vodVars, disk, VodInv, RunInv, Turns, InLoop, Counting, OpenFile, Finishing, AtPause,
                  Lists, Backs, SegmentCount, Current, PausedCanResume, Loadable
    <2> QED
      BY <2>1, <2>2, <2>3, QuietStep DEF VodInv
  <1>2. CASE VodNext
    BY <1>2, StartKeeps, ResumeKeeps, FreshKeeps, WarmedKeeps, RequestPauseKeeps, PauseKeeps,
       ReadFrameKeeps, WriteFrameKeeps, EndOfInputKeeps, WorksKeeps, WorksOnKeeps, OrphanEndsKeeps,
       SegmentDoneKeeps, OutputDoneKeeps, EndingsKeep, CleanupKeeps DEF VodNext
  <1> QED
    BY <1>1, <1>2

\* As long as clients take no liberties, the inductive invariant of a job
\* holds through every pause, cancellation, crash, purge and resume of run()
\* and of the threads it leaves behind.
THEOREM VodInvariant == ASSUME Liberties = {} PROVE VodSpec => []VodInv
  <1>1. VodInit => VodInv
    BY InitEstablishes
  <1>2. VodInv /\ [VodNext]_vodVars => VodInv'
    BY StepKeeps
  <1> QED
    BY <1>1, <1>2, PTL DEF VodSpec

\* Type correctness; with it, no segment is longer than segment_frames and
\* none is numbered beyond the frames of the input.
THEOREM VodTyped == ASSUME Liberties = {} PROVE VodSpec => []VodTypeOK
  <1>1. VodInv => VodTypeOK
    BY DEF VodInv
  <1> QED
    BY <1>1, VodInvariant, PTL

\* What _finalize puts in place is the whole input, in order.
THEOREM VodOutput == ASSUME Liberties = {} PROVE VodSpec => []OutputIsTheInput
  <1>1. VodInv => OutputIsTheInput
    BY DEF VodInv, DiskInv, OutputInv, OutputIsTheInput, Sound
  <1> QED
    BY <1>1, VodInvariant, PTL

\* checkpoint.json lists complete files that hold what it says, or the output
\* has been made of them.
THEOREM VodBacked == ASSUME Liberties = {} PROVE VodSpec => []CheckpointIsBacked
  <1>1. VodInv => CheckpointIsBacked
    BY DEF VodInv, DiskInv, CheckpointInv, CheckpointIsBacked, Sound
  <1> QED
    BY <1>1, VodInvariant, PTL

\* WorkIsNotLost: at any moment what the job has done is on disk, as the segments
\* of the checkpoint or as the output.
THEOREM VodWorkIsNotLost == ASSUME Liberties = {} PROVE VodSpec => []WorkIsNotLost
  BY VodOutput, VodBacked, PTL DEF WorkIsNotLost

\* The token of a paused job's record is the one _load_checkpoint accepts.
THEOREM VodPaused == ASSUME Liberties = {} PROVE VodSpec => []PausedCanResume
  <1>1. VodInv => PausedCanResume
    BY DEF VodInv, RunInv, AtPause, PausedCanResume
  <1> QED
    BY <1>1, VodInvariant, PTL

\* A step changes the checkpoint by a commit of one segment more, or by a purge.
LEMMA CheckpointSteps ==
    ASSUME VodInv, [VodNext]_vodVars
    PROVE  \/ checkpoint' = checkpoint
           \/ checkpoint' = NoCheckpoint /\ output' = output
           \/ /\ Extends(checkpoint'.segments)
              /\ Sound(checkpoint'.segments)
              /\ checkpoint' # NoCheckpoint
              /\ output' = output
  <1>1. ASSUME NEW w \in Work, ThreadInv(w), NEW after, ThreadStep(w, after)
        PROVE  \/ checkpoint' = checkpoint
               \/ /\ Extends(checkpoint'.segments)
                  /\ Sound(checkpoint'.segments)
                  /\ checkpoint' # NoCheckpoint
                  /\ output' = output
    <2>1. CASE Committed(w, after)
      <3>1. w.op = "commit" /\ dir /\ checkpoint'.segments = w.segments /\ output' = output
        BY <2>1 DEF Committed
      <3>2. Extends(w.segments) /\ Sound(w.segments)
        BY <1>1, <3>1, CommitIsComplete
      <3>3. checkpoint' # NoCheckpoint
        <4>1. commits + 1 \in Tokens
          <5>1. MaxCommits \in Nat /\ commits \in 0..MaxCommits /\ commits < MaxCommits
            BY <2>1, VodAssumption DEF Committed, VodInv, VodTypeOK, Tokens
          <5> QED
            BY <5>1 DEF Tokens
        <4>2. checkpoint' \in Listing
          BY <1>1, <2>1, <4>1, WorkParts DEF Committed, Listing
        <4> QED
          BY <4>2, VodAssumption
      <3> QED
        BY <3>1, <3>2, <3>3
    <2>2. CASE ~Committed(w, after)
      BY <1>1, <2>2 DEF ThreadStep, Encoded, Muxed, Published, Removed, AllRemoved, disk
    <2> QED
      BY <2>1, <2>2
  <1>2. CASE Works \/ WorksOn
    BY <1>1, <1>2 DEF Works, WorksOn, VodInv, VodTypeOK
  <1>3. CASE \E purge \in BOOLEAN : Cleanup(purge)
    BY <1>3 DEF Cleanup, disk
  <1>4. CASE UNCHANGED vodVars
    BY <1>4 DEF vodVars, disk
  <1>5. CASE VodNext /\ ~(Works \/ WorksOn) /\ ~(\E purge \in BOOLEAN : Cleanup(purge))
    BY <1>5 DEF VodNext, Start, Resume, Fresh, Warmed, RequestPause, Pause, ReadFrame, WriteFrame,
                EndOfInput, OrphanEnds, SegmentDone, OutputDone, Finished, Fail, Cancel, Crash, disk
  <1> QED
    BY <1>2, <1>3, <1>4, <1>5

\* Committed segments are kept by every later commit, whichever run and
\* whichever thread makes it.
THEOREM VodKept == ASSUME Liberties = {} PROVE VodSpec => CommittedIsKept
  <1> DEFINE Kept == checkpoint # NoCheckpoint /\ checkpoint' # NoCheckpoint =>
                        /\ Len(checkpoint.segments) <= Len(checkpoint'.segments)
                        /\ \A i \in DOMAIN checkpoint.segments :
                              checkpoint'.segments[i] = checkpoint.segments[i]
  <1>1. VodInv /\ [VodNext]_vodVars => Kept
    <2> SUFFICES ASSUME VodInv, [VodNext]_vodVars, checkpoint # NoCheckpoint, checkpoint' # NoCheckpoint
                 PROVE  /\ Len(checkpoint.segments) <= Len(checkpoint'.segments)
                        /\ \A i \in DOMAIN checkpoint.segments :
                              checkpoint'.segments[i] = checkpoint.segments[i]
      OBVIOUS
    <2>1. /\ VodTypeOK /\ Listed = checkpoint.segments
          /\ checkpoint.segments \in Seq(Segment)
          /\ Len(checkpoint.segments) \in Nat
          /\ DOMAIN checkpoint.segments = 1..Len(checkpoint.segments)
      BY ListedIsTyped, LenProperties DEF VodInv, Listed
    <2>2. CASE checkpoint' = checkpoint
      BY <2>1, <2>2
    <2>3. CASE Extends(checkpoint'.segments)
      BY <2>1, <2>3, ExtendsParts
    <2> QED
      BY <2>2, <2>3, CheckpointSteps
  <1> HIDE DEF Kept
  <1>2. VodInv /\ [VodNext]_vodVars => [Kept]_vodVars
    BY <1>1
  <1>3. VodSpec => [][Kept]_vodVars
    BY <1>2, VodInvariant, PTL DEF VodSpec
  <1> QED
    BY <1>3 DEF Kept, CommittedIsKept

\* A longer list holds more frames.
LEMMA ExtendsGrows ==
    ASSUME VodTypeOK, NEW s, Extends(s), Sound(s), Sound(Listed)
    PROVE  EndOf(s) \in (EndOf(Listed) + 1)..Frames
  <1>1. /\ s # <<>> /\ s \in Seq(Segment)
        /\ Len(s) = Len(Listed) + 1
        /\ \A i \in 1..Len(Listed) : s[i] = Listed[i]
        /\ Len(Listed) \in Nat /\ Len(s) \in Nat
        /\ DOMAIN s = 1..Len(s)
        /\ Listed \in Seq(Segment)
        /\ Listed = <<>> <=> Len(Listed) = 0
    BY ExtendsParts, ListedIsTyped, LenProperties, EmptySeq
  <1>2. /\ EndOf(s) = s[Len(s)].first + s[Len(s)].count
        /\ s[Len(s)] \in Segment
    BY <1>1, ElementOfSeq DEF EndOf
  <1>3. s[Len(s)].first = EndOf(Listed)
    <2>1. Len(s) \in DOMAIN s
      BY <1>1
    <2>2. s[Len(s)].first = IF Len(s) = 1 THEN 0 ELSE s[Len(s) - 1].first + s[Len(s) - 1].count
      BY <2>1 DEF Sound, InOrder
    <2>3. CASE Len(Listed) = 0
      BY <1>1, <2>2, <2>3 DEF EndOf
    <2>4. CASE Len(Listed) # 0
      <3>1. Len(s) # 1 /\ Len(s) - 1 = Len(Listed) /\ Len(Listed) \in 1..Len(Listed)
        BY <1>1, <2>4
      <3>2. s[Len(s) - 1] = Listed[Len(Listed)]
        BY <1>1, <3>1
      <3>3. EndOf(Listed) = Listed[Len(Listed)].first + Listed[Len(Listed)].count
        BY <1>1, <2>4 DEF EndOf
      <3> QED
        BY <2>2, <3>1, <3>2, <3>3
    <2> QED
      BY <2>3, <2>4
  <1>4. /\ EndOf(Listed) \in Nat /\ Frames \in Nat /\ EndOf(s) \in Nat /\ EndOf(s) <= Frames
        /\ s[Len(s)].count \in Nat /\ s[Len(s)].count >= 1
    BY <1>1, <1>2, EndIsNat, SegmentParts, VodAssumption DEF Sound
  <1> QED
    BY <1>2, <1>3, <1>4

\* The output appears when the checkpoint lists every frame.
LEMMA OutputSteps ==
    ASSUME VodInv, [VodNext]_vodVars
    PROVE  \/ output' = output
           \/ /\ output' # NoOutput
              /\ checkpoint' = checkpoint
              /\ checkpoint # NoCheckpoint
              /\ EndOf(checkpoint.segments) = Frames
  <1>1. ASSUME NEW w \in Work, ThreadInv(w), NEW after, ThreadStep(w, after)
        PROVE  \/ output' = output
               \/ /\ output' # NoOutput
                  /\ checkpoint' = checkpoint
                  /\ checkpoint # NoCheckpoint
                  /\ EndOf(checkpoint.segments) = Frames
    <2>1. CASE Published(w, after)
      <3>1. /\ w.op = "publish" /\ checkpoint' = checkpoint
            /\ output' = [segments |-> w.segments, token |-> w.token]
        BY <2>1 DEF Published
      <3>2. /\ Lists(w.segments) /\ w.segments # <<>> /\ EndOf(w.segments) = Frames
        BY <1>1, <3>1 DEF ThreadInv, AfterCommit, Muxing
      <3>3. output' \in Listing
        BY <1>1, <3>1, WorkParts DEF Listing
      <3> QED
        BY <3>1, <3>2, <3>3, VodAssumption DEF Lists
    <2>2. CASE ~Published(w, after)
      BY <1>1, <2>2 DEF ThreadStep, Encoded, Committed, Muxed, Removed, AllRemoved, disk
    <2> QED
      BY <2>1, <2>2
  <1>2. CASE Works \/ WorksOn
    BY <1>1, <1>2 DEF Works, WorksOn, VodInv, VodTypeOK
  <1>3. CASE UNCHANGED vodVars
    BY <1>3 DEF vodVars, disk
  <1>4. CASE VodNext /\ ~(Works \/ WorksOn)
    BY <1>4 DEF VodNext, Start, Resume, Fresh, Warmed, RequestPause, Pause, ReadFrame, WriteFrame,
                EndOfInput, OrphanEnds, SegmentDone, OutputDone, Finished, Fail, Cancel, Cleanup, Crash,
                disk
  <1> QED
    BY <1>2, <1>3, <1>4

\* The job implements VodPromise: commits make more frames durable, a purge
\* discards them, and the output is published when all of them are durable.
THEOREM VodKeepsPromise == ASSUME Liberties = {} PROVE VodSpec => KeepsPromise
  <1>1. VodInit => Promise!PromiseInit
    BY DEF VodInit, Promise!PromiseInit
  <1>2. VodInv /\ VodInv' /\ [VodNext]_vodVars => [Promise!PromiseNext]_Promise!promiseVars
    <2> SUFFICES ASSUME VodInv, [VodNext]_vodVars
                 PROVE  [Promise!PromiseNext]_Promise!promiseVars
      OBVIOUS
    <2> DEFINE durable == IF checkpoint = NoCheckpoint THEN 0 ELSE EndOf(checkpoint.segments)
    <2>1. durable = EndOf(Listed) /\ Sound(Listed)
      BY EmptyIsSound DEF Listed, VodInv, DiskInv, CheckpointInv
    <2>2. CASE checkpoint' = checkpoint /\ output' = output
      BY <2>2 DEF Promise!promiseVars
    <2>3. CASE output' # output
      <3>1. durable = Frames /\ durable' = durable /\ output' # NoOutput
        BY <2>3, OutputSteps
      <3> QED
        BY <3>1 DEF Promise!PromiseNext, Promise!Publish
    <2>4. CASE checkpoint' = NoCheckpoint /\ output' = output
      BY <2>4 DEF Promise!PromiseNext, Promise!Discard
    <2>5. CASE /\ Extends(checkpoint'.segments)
               /\ Sound(checkpoint'.segments)
               /\ checkpoint' # NoCheckpoint
               /\ output' = output
      <3>1. durable' \in (durable + 1)..Frames
        BY <2>1, <2>5, ExtendsGrows DEF VodInv
      <3> QED
        BY <2>5, <3>1 DEF Promise!PromiseNext, Promise!Commit
    <2> QED
      BY <2>2, <2>3, <2>4, <2>5, CheckpointSteps
  <1> QED
    BY <1>1, <1>2, VodInvariant, PTL DEF VodSpec, KeepsPromise, Promise!PromiseSpec

-----------------------------------------------------------------------------
(* The command line *)

\* What the job asks for is what the process has read from the disk, where
\* nothing has changed until the request is looked at.
RequestIsOfDisk ==
    process = "job" /\ pc = "validating" =>
        request.token = IF request.resume THEN TokenOnDisk ELSE NoToken

\* What the last process has said, while there is no other.
SaidTruly ==
    process = "none" =>
        /\ exit = EXIT_DONE => output # NoOutput
        /\ exit = EXIT_PAUSED => checkpoint = NoCheckpoint \/ Loadable(checkpoint.token)
        /\ exit = EXIT_CHECKPOINT =>
              checkpoint # NoCheckpoint /\ (args.settings # made \/ Superseded)

CliInv == VodInv /\ args \in Args /\ RequestIsOfDisk /\ SaidTruly

\* A process takes the job's steps or leaves the job alone.
LEMMA CliStepsTheJob ==
    ASSUME VodTypeOK, args \in Args, [CliNext]_<<vodVars, cliVars>>
    PROVE  [VodNext]_vodVars
  <1>1. CASE Invoke \/ RuntimeLoaded \/ WhitelistLoaded \/ UNCHANGED <<vodVars, cliVars>>
    BY <1>1 DEF Invoke, RuntimeLoaded, WhitelistLoaded
  <1>2. CASE StartJob
    <2>1. TokenOnDisk \in Tokens /\ NoToken \in Tokens
      <3>1. NoToken \in Tokens
        <4>1. MaxCommits \in Nat
          BY VodAssumption
        <4> QED
          BY <4>1 DEF Tokens, NoToken
      <3>2. checkpoint # NoCheckpoint => checkpoint.token \in Tokens
        BY DEF VodTypeOK, Listing
      <3> QED
        BY <3>1, <3>2 DEF TokenOnDisk
    <2>2. PICK resume, overwrite \in BOOLEAN, its \in Tokens : Start(resume, its, overwrite)
      <3> DEFINE its == IF args.resume THEN TokenOnDisk ELSE NoToken
      <3>1. Start(args.resume, its, args.overwrite)
        BY <1>2 DEF StartJob
      <3>2. its \in Tokens /\ args.resume \in BOOLEAN /\ args.overwrite \in BOOLEAN
        BY <2>1 DEF Args
      <3> HIDE DEF its
      <3> QED
        BY <3>1, <3>2
    <2> QED
      BY <2>2 DEF VodNext
  <1>3. CASE Signal \/ JobGoesOn
    BY <1>3 DEF Signal, JobGoesOn, VodNext
  <1>4. CASE JobPauses \/ JobDone \/ JobFails \/ Killed
    BY <1>4 DEF JobPauses, JobDone, JobFails, Killed, VodNext
  <1> QED
    BY <1>1, <1>2, <1>3, <1>4 DEF CliNext

\* A checkpoint that is refused as invalid or of another job is there, and is
\* of other settings or has lost segments to an output.
LEMMA RefusedWithReason ==
    ASSUME CliInv, process = "job", pc = "validating", CheckpointRefusal # {}
    PROVE  checkpoint # NoCheckpoint /\ (args.settings # made \/ Superseded)
  <1>1. Resumes /\ request.token = TokenOnDisk
    BY DEF CheckpointRefusal, Resumes, CliInv, RequestIsOfDisk
  <1>2. checkpoint # NoCheckpoint /\ request.token = checkpoint.token
    BY <1>1 DEF Resumes, TokenOnDisk
  <1>3. CASE args.settings # made
    BY <1>2, <1>3
  <1>4. CASE args.settings = made
    <2>1. ~Loadable(request.token)
      BY <1>1, <1>2, <1>4 DEF CheckpointRefusal
    <2>2. PICK i \in DOMAIN checkpoint.segments : file[i] = NoFile
      BY <1>2, <2>1 DEF Loadable
    <2>3. ~Backs(checkpoint.segments)
      <3> DEFINE x == checkpoint.segments[i]
      <3>1. checkpoint.segments \in Seq(Segment)
        BY <1>2 DEF CliInv, VodInv, VodTypeOK, Listing
      <3>2. x \in Segment /\ SegmentFrames \in Nat
        BY <2>2, <3>1, ElementOfSeq, LenProperties, VodAssumption
      <3> HIDE DEF x
      <3>3. FileOf(x, TRUE) \in File
        BY <3>2 DEF FileOf, File, Segment
      <3> QED
        BY <2>2, <3>3, VodAssumption DEF Backs, FileOf, x
    <2> QED
      BY <1>2, <2>3 DEF CliInv, VodInv, DiskInv, CheckpointInv, Superseded
  <1> QED
    BY <1>3, <1>4

LEMMA CliStepInv ==
    ASSUME Liberties = {}, CliInv, [CliNext]_<<vodVars, cliVars>>
    PROVE  CliInv'
  <1>0. VodInv /\ RequestIsOfDisk /\ SaidTruly /\ VodInv' /\ args' \in Args
    <2>1. [VodNext]_vodVars
      BY CliStepsTheJob DEF CliInv, VodInv
    <2>2. args' \in Args
      BY DEF CliInv, CliNext, Invoke, RuntimeLoaded, WhitelistLoaded, StartJob, Signal, JobGoesOn,
             JobPauses, JobDone, JobFails, Killed, Exits, cliVars
    <2> QED
      BY <2>1, <2>2, StepKeeps DEF CliInv
  <1>1. CASE UNCHANGED <<vodVars, cliVars>>
    BY <1>0, <1>1 DEF vodVars, disk, cliVars, CliInv, RequestIsOfDisk, SaidTruly, TokenOnDisk,
                      Loadable, Superseded
  <1>2. CASE Invoke
    <2>1. UNCHANGED vodVars /\ UNCHANGED made /\ process' # "job"
      BY <1>2 DEF Invoke
    <2>2. process' = "none" => exit' = EXIT_ARGS
      BY <1>2 DEF Invoke
    <2> QED
      BY <1>0, <2>1, <2>2
         DEF CliInv, RequestIsOfDisk, SaidTruly, EXIT_ARGS, EXIT_DONE, EXIT_PAUSED, EXIT_CHECKPOINT
  <1>3. CASE RuntimeLoaded \/ WhitelistLoaded
    <2>1. process' # "job" /\ (process' = "none" => exit' \in {EXIT_RUNTIME, EXIT_OTHER})
      BY <1>3 DEF RuntimeLoaded, WhitelistLoaded, Exits
    <2> QED
      BY <1>0, <2>1 DEF CliInv, RequestIsOfDisk, SaidTruly, EXIT_RUNTIME, EXIT_OTHER, EXIT_DONE,
                        EXIT_PAUSED, EXIT_CHECKPOINT
  <1>4. CASE StartJob
    <2>1. /\ process' = "job" /\ checkpoint' = checkpoint
          /\ request' = [resume |-> args.resume,
                         token |-> IF args.resume THEN TokenOnDisk ELSE NoToken,
                         overwrite |-> args.overwrite]
      BY <1>4 DEF StartJob, Start, disk
    <2> QED
      BY <1>0, <2>1 DEF CliInv, RequestIsOfDisk, SaidTruly, TokenOnDisk
  <1>5. CASE Signal
    <2>1. process' = "job" /\ process = "job" /\ UNCHANGED <<pc, request, checkpoint>>
      BY <1>5 DEF Signal, RequestPause, cliVars, disk
    <2> QED
      BY <1>0, <2>1 DEF CliInv, RequestIsOfDisk, SaidTruly, TokenOnDisk
  <1>6. CASE JobGoesOn
    <2>1. process' = "job" /\ process = "job"
      BY <1>6 DEF JobGoesOn
    <2>2. pc' # "validating"
      <3>1. CASE Works \/ OutputDone
        <4>1. pc = "working" /\ pc' = pc
          BY <1>0, <3>1 DEF Works, OutputDone, VodInv, RunInv, Turns, NoWork
        <4> QED
          BY <4>1
      <3>2. CASE Resume \/ Fresh \/ Warmed \/ ReadFrame
        BY <3>2 DEF Resume, Fresh, Warmed, ReadFrame
      <3>3. CASE WriteFrame \/ EndOfInput \/ SegmentDone
        BY <3>3 DEF WriteFrame, EndOfInput, SegmentDone, FinishSegment, Finalize
      <3> QED
        BY <1>6, <3>1, <3>2, <3>3 DEF JobGoesOn
    <2> QED
      BY <1>0, <2>1, <2>2 DEF CliInv, RequestIsOfDisk, SaidTruly
  <1>7. CASE JobPauses
    <2>1. process' = "none" /\ exit' = EXIT_PAUSED /\ state' = "paused"
      BY <1>7 DEF JobPauses, Pause, End, Exits
    <2>2. (checkpoint = NoCheckpoint \/ Loadable(checkpoint.token))'
      <3>1. PausedCanResume'
        BY <1>0, <2>1 DEF VodInv, RunInv, AtPause
      <3> QED
        BY <2>1, <3>1 DEF PausedCanResume, Loadable
    <2> QED
      BY <1>0, <2>1, <2>2 DEF CliInv, RequestIsOfDisk, SaidTruly, EXIT_DONE, EXIT_PAUSED,
                              EXIT_CHECKPOINT
  <1>8. CASE JobDone
    <2>1. process' = "none" /\ exit' = EXIT_DONE /\ work.op = "removed" /\ output' = output
      BY <1>8 DEF JobDone, Finished, Exits, disk
    <2>2. output # NoOutput
      BY <1>0, <2>1 DEF VodInv, ThreadInv, AfterPublish
    <2> QED
      BY <1>0, <2>1, <2>2 DEF CliInv, RequestIsOfDisk, SaidTruly, EXIT_DONE, EXIT_PAUSED,
                              EXIT_CHECKPOINT
  <1>9. CASE JobFails
    <2>1. PICK code \in Failures : Fail /\ Exits(ExitOf(code)) /\ process = "job"
      BY <1>9 DEF JobFails
    <2>2. process' = "none" /\ exit' = ExitOf(code) /\ UNCHANGED <<disk, args, made>>
      BY <2>1 DEF Exits, Fail
    <2>3. exit' # EXIT_DONE /\ exit' # EXIT_PAUSED
      BY <2>2 DEF ExitOf, EXIT_DONE, EXIT_PAUSED, EXIT_INPUT, EXIT_CHECKPOINT, EXIT_ENCODE,
                  EXIT_RUNTIME, EXIT_OTHER
    <2>4. ASSUME exit' = EXIT_CHECKPOINT
          PROVE  pc = "validating" /\ CheckpointRefusal # {}
      <3>1. code \in {"CHECKPOINT_INVALID", "CHECKPOINT_MISMATCH"}
        BY <2>2, <2>4 DEF ExitOf, EXIT_INPUT, EXIT_CHECKPOINT, EXIT_ENCODE, EXIT_RUNTIME, EXIT_OTHER
      <3> QED
        BY <2>1, <3>1 DEF Failures, Refusals
    <2>5. exit' = EXIT_CHECKPOINT =>
             checkpoint # NoCheckpoint /\ (args.settings # made \/ Superseded)
      BY <2>1, <2>4, RefusedWithReason
    <2> QED
      BY <1>0, <2>2, <2>3, <2>5 DEF CliInv, RequestIsOfDisk, SaidTruly, Superseded, disk
  <1>10. CASE Killed
    <2>1. process' = "none" /\ exit' = KILLED
      BY <1>10 DEF Killed, Exits
    <2> QED
      BY <1>0, <2>1 DEF CliInv, RequestIsOfDisk, SaidTruly, KILLED, EXIT_DONE, EXIT_PAUSED,
                        EXIT_CHECKPOINT
  <1> QED
    BY <1>1, <1>2, <1>3, <1>4, <1>5, <1>6, <1>7, <1>8, <1>9, <1>10 DEF CliNext

\* However often its processes are paused, killed, refused and started again,
\* with these settings or others, the command line keeps VodJob's invariant.
THEOREM CliInvariant == ASSUME Liberties = {} PROVE CliSpec => []CliInv
  <1>1. CliInit => CliInv
    <2> SUFFICES ASSUME CliInit PROVE CliInv
      OBVIOUS
    <2>1. VodInv
      BY InitEstablishes DEF CliInit
    <2>2. args \in Args
      BY DEF CliInit, Args
    <2> QED
      BY <2>1, <2>2 DEF CliInit, CliInv, RequestIsOfDisk, SaidTruly, EXIT_ARGS, EXIT_DONE, EXIT_PAUSED,
                  EXIT_CHECKPOINT
  <1> QED
    BY <1>1, CliStepInv, PTL DEF CliSpec

\* Refinement: the command line takes VodJob's steps and no others, so that the
\* theorems about the job hold of its processes.
THEOREM CliRunsTheJob == ASSUME Liberties = {} PROVE CliSpec => VodSpec
  <1>1. CliInit => VodInit
    BY DEF CliInit
  <1>2. CliInv /\ [CliNext]_<<vodVars, cliVars>> => [VodNext]_vodVars
    BY CliStepsTheJob DEF CliInv, VodInv
  <1> QED
    BY <1>1, <1>2, CliInvariant, PTL DEF CliSpec, VodSpec

\* A caller of the command line can go by the exit status: 0 means that the
\* output is there, 75 that the next process may resume, and 4 is never said of
\* a checkpoint that these settings could resume.
THEOREM CliExitTells == ASSUME Liberties = {} PROVE CliSpec => []ExitTells
  <1>1. CliInv => ExitTells
    BY DEF CliInv, SaidTruly, ExitTells, VodInv, RunInv, AtPause, PausedCanResume
  <1> QED
    BY <1>1, CliInvariant, PTL

-----------------------------------------------------------------------------
(* The renderers (FaceSwap).                                                   *)

\* Pictures that may be used, and what a crop can show.
Pictures == {m \in Presets \X Nat : m[1] \in Catalogued => m[2] = 0}
Crops == [face : 0..FaceCount, frame : Nat, picture : Pictures \cup {Failed}]

MadeFor(model, p) == model \in Pictures /\ model[1] = p

IsOwn(shown, i) ==
    /\ shown.face = jobs[i].face /\ shown.frame = frame
    /\ MadeFor(shown.picture, jobs[i].preset)

Untouched == \A f \in 1..FaceCount : canvas[f] = Nobody

\* What is cached for a preset was made for it.
CacheInv ==
    /\ picture \in [Presets -> Nat]
    /\ \A d \in DOMAIN weights : weights[d] = Broken \/ MadeFor(weights[d], d[1])
    /\ sources \in Seq(Pictures) /\ onDevice \in Seq(Pictures)

\* The faces of a frame are told apart.
FrameInv ==
    /\ frame \in Nat
    /\ jobs \in Seq([face : 1..FaceCount, preset : Presets])
    /\ \A i, j \in DOMAIN jobs : i < j => jobs[i].face < jobs[j].face
    /\ DOMAIN canvas = 1..FaceCount /\ rows \in [1..ChunkRows -> Crops]
    /\ step # "done" => jobs # <<>>

Fetching == {"fetching", "conditioning", "saving"}
Chunking == Fetching \cup {"forwarding"}
Batching == Chunking \cup {"pasting"}

\* While nobody is shown: which lists are empty yet, and which job is next.
AlignInv ==
    /\ step \notin Batching => models = <<>> /\ rowErrors = <<>> /\ results = <<>>
    /\ step \in {"done", "priming"} => prepared = <<>>
    /\ step \in {"priming", "aligning"} \cup Batching => Untouched
    /\ step = "priming" => errors = {}
    /\ step \in {"aligning"} \cup Batching => prepared \in Seq(DOMAIN jobs)
    /\ step = "aligning" /\ prepared = <<>> =>
          IsFiniteSet(errors) /\ errors = 1..Cardinality(errors)

\* Networks, rows and results are those of the jobs whose places they have.
BatchInv ==
    /\ step \in Batching =>
          /\ results \in Seq(Crops) /\ Len(results) <= Len(prepared)
          /\ \A k \in 1..Len(results) : results[k] = Nobody \/ IsOwn(results[k], prepared[k])
    /\ step \in Chunking =>
          /\ Len(results) < Len(prepared)
          /\ models \in Seq(Pictures \cup {Failed})
          /\ \A k \in 1..Len(models) :
                models[k] = Failed \/ MadeFor(models[k], jobs[Chunk[k]].preset)
    /\ step \in Fetching => Len(models) < Len(Chunk) /\ rowErrors = <<>>
    /\ step = "saving" => sources # <<>> /\ MadeFor(Last(sources), Preset)
    /\ step = "forwarding" =>
          /\ Len(models) = Len(Chunk)
          /\ rowErrors \in Seq(BOOLEAN) /\ Len(rowErrors) <= Len(Chunk)
          /\ \A k \in 1..Len(rowErrors) : ~rowErrors[k] => IsOwn(rows[k], Chunk[k])

\* InSwapper has come as far as prepared is long.
InSwapInv ==
    step = "swapping" =>
        /\ prepared \in Seq(Nat) /\ Len(prepared) < Len(jobs)
        /\ errors \subseteq 1..Len(prepared)
        /\ \A i \in DOMAIN jobs :
              IF i \in errors \/ i > Len(prepared) THEN canvas[jobs[i].face] = Nobody
              ELSE IsOwn(canvas[jobs[i].face], i)

SwapInv == CacheInv /\ FrameInv /\ AlignInv /\ BatchInv /\ InSwapInv /\ SwapsAreOwn

LEMMA JobsHaveFaces ==
  ASSUME FrameInv
  PROVE  /\ DOMAIN jobs = 1..Len(jobs) /\ Len(jobs) \in Nat
         /\ \A i \in DOMAIN jobs : jobs[i].face \in 1..FaceCount /\ jobs[i].preset \in Presets
<1> DEFINE Job == [face : 1..FaceCount, preset : Presets]
<1>1. jobs \in Seq(Job) /\ jobs \in [1..Len(jobs) -> Job] /\ Len(jobs) \in Nat
  BY LenProperties DEF FrameInv
<1>2. \A i \in DOMAIN jobs : jobs[i] \in Job
  BY <1>1
<1> QED
  BY <1>1, <1>2

\* What is put into a cache is the last of it, and what it holds is good.
LEMMA UsedIsLast ==
  ASSUME NEW cache \in Seq(Pictures), NEW entry \in Pictures, NEW slots \in Nat \ {0}
  PROVE  LET after == Used(cache, entry, slots)
         IN after \in Seq(Pictures) /\ after # <<>> /\ Last(after) = entry
<1> DEFINE others == IF Held(cache, entry[1]) THEN RemoveAt(cache, Place(cache, entry[1]))
                     ELSE cache
           full == Append(others, entry)
<1>1. others \in Seq(Pictures)
  <2>1. CASE Held(cache, entry[1])
    <3> DEFINE i == Place(cache, entry[1])
    <3>1. i \in 1..Len(cache) /\ Len(cache) \in Nat
      BY <2>1, LenProperties DEF Held, Place
    <3>2. SubSeq(cache, 1, i - 1) \in Seq(Pictures)
      <4>1. \A j \in 1..(i - 1) : cache[j] \in Pictures
        BY <3>1, ElementOfSeq
      <4> HIDE DEF i
      <4> QED
        BY <3>1, <4>1, SubSeqProperties
    <3>3. SubSeq(cache, i + 1, Len(cache)) \in Seq(Pictures)
      <4>1. \A j \in (i + 1)..Len(cache) : cache[j] \in Pictures
        BY <3>1, ElementOfSeq
      <4> HIDE DEF i
      <4> QED
        BY <3>1, <4>1, SubSeqProperties
    <3>4. RemoveAt(cache, i) \in Seq(Pictures)
      <4> HIDE DEF i
      <4> QED
        BY <3>2, <3>3, ConcatProperties DEF RemoveAt
    <3> QED
      BY <2>1, <3>4
  <2>2. CASE ~Held(cache, entry[1])
    BY <2>2
  <2> QED
    BY <2>1, <2>2
<1> HIDE DEF others
<1>2. /\ full \in Seq(Pictures) /\ Len(full) = Len(others) + 1 /\ Len(others) \in Nat
      /\ full[Len(full)] = entry
  BY <1>1, AppendProperties, LenProperties
<1>3. Used(cache, entry, slots) = IF Len(full) > slots THEN Tail(full) ELSE full
  BY DEF Used, others
<1> HIDE DEF full
<1>4. full # <<>>
  BY <1>2, EmptySeq
<1>5. CASE Len(full) > slots
  <2>1. Tail(full) \in Seq(Pictures) /\ Len(Tail(full)) = Len(full) - 1
        /\ \A j \in 1..Len(Tail(full)) : Tail(full)[j] = full[j + 1]
    BY <1>2, <1>4, HeadTailProperties
  <2>2. Len(full) - 1 \in Nat \ {0}
    BY <1>2, <1>5
  <2>3. Tail(full)[Len(Tail(full))] = entry
    <3>1. Len(Tail(full)) \in 1..Len(Tail(full)) /\ Len(Tail(full)) + 1 = Len(full)
      BY <1>2, <2>1, <2>2
    <3> QED
      BY <1>2, <2>1, <3>1
  <2>4. Tail(full) # <<>>
    BY <2>1, <2>2, EmptySeq
  <2> QED
    BY <1>3, <1>5, <2>1, <2>3, <2>4 DEF Last
<1>6. CASE ~(Len(full) > slots)
  BY <1>2, <1>3, <1>4, <1>6 DEF Last
<1> QED
  BY <1>5, <1>6

LEMMA EntryIsMadeFor ==
  ASSUME NEW cache \in Seq(Pictures), NEW p, Held(cache, p)
  PROVE  MadeFor(Entry(cache, p), p)
<1>1. Place(cache, p) \in DOMAIN cache /\ cache[Place(cache, p)][1] = p
  BY DEF Held, Place
<1>2. Place(cache, p) \in 1..Len(cache)
  BY <1>1, LenProperties
<1> QED
  BY <1>1, <1>2, ElementOfSeq DEF Entry, MadeFor

\* A picture that passes the check may be used.
LEMMA GenuineIsMadeFor ==
  ASSUME CacheInv, NEW p \in Presets, Genuine(p)
  PROVE  MadeFor(Now(p), p)
BY DEF CacheInv, Genuine, Now, MadeFor, Pictures

LEMMA NobodyIsNone ==
  /\ Nobody \in Crops
  /\ Failed \notin Pictures /\ Broken \notin Pictures
<1>1. Failed \notin Pictures /\ Broken \notin Pictures
  BY FaceSwapAssumption DEF Failed, Broken, Pictures
<1> QED
  BY <1>1, FaceSwapAssumption DEF Nobody, Crops

\* The next elements of a sequence, n of them if there are so many.
NextOf(s, r, n) == SubSeq(s, r + 1, Min({Len(s), r + n}))

LEMMA NextOnes ==
  ASSUME NEW S, NEW s \in Seq(S), NEW r \in Nat, r < Len(s), NEW n \in Nat \ {0}
  PROVE  LET c == NextOf(s, r, n)
         IN /\ c \in Seq(S) /\ Len(c) \in 1..n /\ r + Len(c) <= Len(s)
            /\ \A k \in 1..Len(c) : c[k] = s[r + k] /\ c[k] \in S
<1> DEFINE last == Min({Len(s), r + n})
           c == NextOf(s, r, n)
<1>1. Len(s) \in Nat /\ last = IF Len(s) <= r + n THEN Len(s) ELSE r + n
  BY LenProperties, MinOfTwo
<1> HIDE DEF last
<1>2. last \in (r + 1)..Len(s) /\ last - r \in 1..n
  BY <1>1
<1>3. \A i \in (r + 1)..last : s[i] \in S
  BY <1>1, <1>2, ElementOfSeq
<1>4. /\ c \in Seq(S) /\ Len(c) = last - (r + 1) + 1
      /\ \A k \in 1..(last - (r + 1) + 1) : c[k] = s[(r + 1) + k - 1]
  <2>1. c = SubSeq(s, r + 1, last)
    BY DEF NextOf, last
  <2> QED
    BY <1>2, <1>3, <2>1, SubSeqProperties
<1> HIDE DEF c
<1>5. Len(c) = last - r
  BY <1>2, <1>4
<1>6. \A k \in 1..Len(c) : c[k] = s[r + k] /\ c[k] \in S
  <2> SUFFICES ASSUME NEW k \in 1..Len(c)
               PROVE  c[k] = s[r + k] /\ c[k] \in S
    OBVIOUS
  <2>1. (r + 1) + k - 1 = r + k /\ k \in 1..(last - (r + 1) + 1)
    BY <1>2, <1>4
  <2> QED
    BY <1>4, <2>1, ElementOfSeq
<1>7. c \in Seq(S) /\ Len(c) \in 1..n /\ r + Len(c) <= Len(s)
  BY <1>1, <1>2, <1>4, <1>5
<1> QED
  BY <1>6, <1>7 DEF c

ChunkSize == IF Batched THEN ChunkRows ELSE 1

\* A chunk is the next jobs of prepared, as many as the buffers hold.
LEMMA ChunkIsNext ==
  ASSUME SwapInv, step \in Chunking
  PROVE  /\ Len(prepared) \in Nat /\ Len(results) \in Nat /\ Len(Chunk) \in 1..ChunkRows
         /\ Chunk \in Seq(DOMAIN jobs) /\ Len(results) + Len(Chunk) <= Len(prepared)
         /\ \A k \in 1..Len(Chunk) : /\ Chunk[k] = prepared[Len(results) + k]
                                     /\ Chunk[k] \in DOMAIN jobs
<1>1. prepared \in Seq(DOMAIN jobs) /\ results \in Seq(Crops) /\ Len(results) < Len(prepared)
  BY DEF SwapInv, AlignInv, BatchInv, Batching
<1>2. Len(prepared) \in Nat /\ Len(results) \in Nat
  BY <1>1, LenProperties
<1>3. Chunk = NextOf(prepared, Len(results), ChunkSize)
  BY DEF Chunk, ChunkSize, NextOf
<1>4. ChunkSize \in Nat \ {0} /\ 1..ChunkSize \subseteq 1..ChunkRows
  BY FaceSwapAssumption DEF ChunkSize
<1> QED
  BY <1>1, <1>2, <1>3, <1>4, NextOnes

-----------------------------------------------------------------------------
(* The invariant is kept.                                                      *)

LEMMA SwapInitInv == SwapInit => SwapInv
<1> SUFFICES ASSUME SwapInit PROVE SwapInv
  OBVIOUS
<1>1. /\ sources = <<>> /\ onDevice = <<>> /\ jobs = <<>> /\ prepared = <<>>
      /\ step = "done" /\ DOMAIN jobs = {}
  BY EmptySeq, LenProperties DEF SwapInit
<1>2. CacheInv
  <2>1. <<>> \in Seq(Pictures)
    BY EmptySeq
  <2>2. PICK files \in SUBSET Presets, damaged \in SUBSET Presets :
           weights = [d \in {<<p, 0>> : p \in files} |-> IF d[1] \in damaged THEN Broken ELSE d]
    BY DEF SwapInit
  <2>3. \A d \in DOMAIN weights : weights[d] = Broken \/ MadeFor(weights[d], d[1])
    BY <2>2 DEF MadeFor, Pictures
  <2> QED
    BY <1>1, <2>1, <2>3 DEF CacheInv, SwapInit
<1>3. FrameInv
  <2>1. <<>> \in Seq([face : 1..FaceCount, preset : Presets])
    BY EmptySeq
  <2> QED
    BY <1>1, <2>1, NobodyIsNone DEF FrameInv, SwapInit
<1>4. AlignInv /\ BatchInv /\ InSwapInv /\ SwapsAreOwn
  BY <1>1 DEF SwapInit, AlignInv, BatchInv, InSwapInv, SwapsAreOwn, Batching, Chunking, Fetching
<1> QED
  BY <1>2, <1>3, <1>4 DEF SwapInv

LEMMA ReplacedInv ==
  ASSUME SwapInv, NEW p \in Presets, Replaced(p)
  PROVE  SwapInv'
<1> USE DEF Replaced, memory, frameVars, targetVars
<1>1. CacheInv'
  BY DEF SwapInv, CacheInv
<1>2. FrameInv'
  BY DEF SwapInv, FrameInv
<1>3. AlignInv'
  BY DEF SwapInv, AlignInv, Untouched
<1>4. Chunk' = Chunk /\ Preset' = Preset
  BY DEF Chunk, Preset, Batched, Torch, DiskCache
<1>5. BatchInv'
  BY <1>4 DEF SwapInv, BatchInv, IsOwn
<1>6. InSwapInv'
  BY DEF SwapInv, InSwapInv, IsOwn
<1>7. SwapsAreOwn'
  BY DEF SwapInv, SwapsAreOwn
<1> QED
  BY <1>1, <1>2, <1>3, <1>5, <1>6, <1>7 DEF SwapInv

\* Nothing of a frame is left when the next one comes.
LEMMA EndedInv ==
  ASSUME CacheInv', FrameInv', SwapsAreOwn', step' = "done",
         prepared' = <<>>, models' = <<>>, rowErrors' = <<>>, results' = <<>>
  PROVE  SwapInv'
BY DEF SwapInv, AlignInv, BatchInv, InSwapInv, Batching, Chunking, Fetching

\* A chunk begins while there are jobs without a result.
LEMMA ChunkBegins ==
  ASSUME CacheInv', FrameInv', AlignInv', step' = "fetching",
         prepared' \in Seq(DOMAIN jobs'), results' \in Seq(Crops), Len(results') < Len(prepared'),
         models' = <<>>, rowErrors' = <<>>,
         \A k \in 1..Len(results') : results'[k] = Nobody \/ IsOwn(results[k], prepared[k])'
  PROVE  SwapInv'
<1>1. Len(prepared') \in Nat /\ Len(results') \in Nat
  BY LenProperties
<1>2. Len(Chunk') > 0
  <2>1. Chunk' = NextOf(prepared', Len(results'), ChunkSize')
    BY DEF Chunk, ChunkSize, NextOf
  <2>2. ChunkSize' \in Nat \ {0}
    BY FaceSwapAssumption DEF ChunkSize
  <2>3. Len(Chunk') \in 1..ChunkSize'
    BY <1>1, <2>1, <2>2, NextOnes
  <2> QED
    BY <2>2, <2>3
<1>3. <<>> \in Seq(Pictures \cup {Failed}) /\ Len(<<>>) = 0
  BY EmptySeq
<1>4. BatchInv'
  BY <1>1, <1>2, <1>3 DEF BatchInv, Batching, Chunking, Fetching
<1>5. InSwapInv' /\ SwapsAreOwn'
  BY DEF InSwapInv, SwapsAreOwn
<1> QED
  BY <1>4, <1>5 DEF SwapInv

LEMMA RestartsInv ==
  ASSUME SwapInv, Restarts
  PROVE  SwapInv'
<1>1. <<>> \in Seq(Pictures) /\ <<>> \in Seq([face : 1..FaceCount, preset : Presets])
      /\ DOMAIN jobs' = {}
  BY EmptySeq, LenProperties DEF Restarts
<1>2. CacheInv'
  BY <1>1 DEF Restarts, SwapInv, CacheInv
<1>3. FrameInv'
  BY <1>1, NobodyIsNone DEF Restarts, SwapInv, FrameInv
<1>4. SwapsAreOwn'
  BY <1>1 DEF SwapsAreOwn
<1> QED
  BY <1>2, <1>3, <1>4, EndedInv DEF Restarts, NoBatch

LEMMA FrameComesInv ==
  ASSUME SwapInv, FrameComes
  PROVE  SwapInv'
<1> USE DEF FrameComes, memory, batch, targetVars
<1>1. PICK n \in 0..FaceCount : jobs' \in [1..n -> [face : 1..FaceCount, preset : Presets]]
  BY DEF SeqOf
<1>2. jobs' \in Seq([face : 1..FaceCount, preset : Presets]) /\ DOMAIN jobs' = 1..Len(jobs')
      /\ Len(jobs') \in Nat \ {0}
  <2>1. jobs' \in Seq([face : 1..FaceCount, preset : Presets])
    <3> DEFINE Job == [face : 1..FaceCount, preset : Presets]
    <3>1. n \in Nat /\ jobs' \in [1..n -> Job]
      BY <1>1, FaceSwapAssumption
    <3> HIDE DEF Job
    <3>2. jobs' \in UNION {[1..m -> Job] : m \in Nat}
      BY <3>1
    <3>3. jobs' \in Seq(Job)
      BY <3>2, SeqDef
    <3> QED
      BY <3>3 DEF Job
  <2> QED
    BY <2>1, LenProperties, EmptySeq
<1>3. CacheInv'
  BY DEF SwapInv, CacheInv
<1>4. FrameInv'
  BY <1>2 DEF SwapInv, FrameInv
<1>5. /\ step' \in {"swapping", "priming"} /\ prepared' = <<>> /\ errors' = {}
      /\ models' = <<>> /\ rowErrors' = <<>> /\ results' = <<>>
      /\ canvas' = [f \in 1..FaceCount |-> Nobody]
  BY DEF SwapInv, AlignInv, Batching, Chunking, Fetching
<1>6. AlignInv' /\ BatchInv'
  BY <1>5 DEF AlignInv, BatchInv, Batching, Chunking, Fetching, Untouched
<1>7. InSwapInv'
  <2>1. <<>> \in Seq(Nat) /\ Len(<<>>) = 0
    BY EmptySeq
  <2>2. \A i \in DOMAIN jobs' : i > 0 /\ jobs'[i].face \in 1..FaceCount
    BY <1>1, <1>2
  <2> QED
    BY <1>2, <1>5, <2>1, <2>2 DEF InSwapInv
<1>8. SwapsAreOwn'
  BY <1>5 DEF SwapsAreOwn
<1> QED
  BY <1>3, <1>4, <1>6, <1>7, <1>8 DEF SwapInv

LEMMA PrimeInv ==
  ASSUME SwapInv, Prime
  PROVE  SwapInv'
<1> USE DEF Prime, memory, batch
<1>1. CacheInv' /\ FrameInv'
  BY DEF SwapInv, CacheInv, FrameInv
<1>2. AlignInv'
  <2>1. <<>> \in Seq(DOMAIN jobs) /\ IsFiniteSet({}) /\ {} = 1..Cardinality({})
    BY EmptySeq, FS_EmptySet
  <2> QED
    BY <2>1 DEF SwapInv, AlignInv, Untouched, Batching, Chunking, Fetching
<1>3. BatchInv' /\ InSwapInv' /\ SwapsAreOwn'
  BY DEF BatchInv, InSwapInv, SwapsAreOwn, Batching, Chunking, Fetching
<1> QED
  BY <1>1, <1>2, <1>3 DEF SwapInv

LEMMA RendererFailsInv ==
  ASSUME SwapInv, RendererFails
  PROVE  SwapInv'
<1> USE DEF RendererFails, memory, NoBatch
<1>1. CacheInv' /\ FrameInv'
  BY DEF SwapInv, CacheInv, FrameInv
<1>2. Untouched
  BY DEF SwapInv, AlignInv, Batching, Chunking, Fetching
<1>3. \A i \in DOMAIN jobs : jobs[i].face \in 1..FaceCount
  BY JobsHaveFaces DEF SwapInv
<1>4. SwapsAreOwn'
  BY <1>2, <1>3 DEF SwapsAreOwn, Untouched
<1> QED
  BY <1>1, <1>4, EndedInv

LEMMA AlignKeepsInv ==
  ASSUME SwapInv, Align
  PROVE  SwapInv'
<1> DEFINE i == Len(prepared) + Cardinality(errors) + 1
<1>1. /\ step = "aligning" /\ i \in DOMAIN jobs /\ DOMAIN jobs = 1..Len(jobs)
      /\ prepared \in Seq(DOMAIN jobs) /\ Untouched
      /\ models = <<>> /\ rowErrors = <<>> /\ results = <<>>
  BY LenProperties DEF Align, SwapInv, AlignInv, FrameInv, Batching, Chunking, Fetching
<1>2. /\ \/ prepared' = Append(prepared, i) /\ errors' = errors
         \/ prepared' = prepared /\ errors' = errors \cup {i}
      /\ step' = IF i < Len(jobs) THEN "aligning" ELSE IF prepared' = <<>> THEN "done" ELSE "fetching"
      /\ UNCHANGED <<engine, picture, weights, models, rowErrors, results, memory, frame, jobs, canvas>>
  BY DEF Align
<1> HIDE DEF i
<1> USE DEF memory
<1>3. CacheInv' /\ FrameInv'
  BY <1>1, <1>2 DEF SwapInv, CacheInv, FrameInv
<1>4. /\ prepared' \in Seq(DOMAIN jobs)
      /\ prepared' = <<>> => prepared = <<>> /\ errors' = errors \cup {i}
  <2>1. CASE prepared' = Append(prepared, i)
    BY <1>1, <2>1, AppendProperties
  <2>2. CASE prepared' = prepared /\ errors' = errors \cup {i}
    BY <1>1, <2>2
  <2> QED
    BY <1>2, <2>1, <2>2
<1>5. prepared' = <<>> => /\ IsFiniteSet(errors') /\ errors' = 1..Cardinality(errors')
                          /\ Cardinality(errors') = i
  <2> SUFFICES ASSUME prepared' = <<>>
               PROVE  /\ IsFiniteSet(errors') /\ errors' = 1..Cardinality(errors')
                      /\ Cardinality(errors') = i
    OBVIOUS
  <2>1. prepared = <<>> /\ errors' = errors \cup {i}
    BY <1>4
  <2>2. IsFiniteSet(errors) /\ errors = 1..Cardinality(errors) /\ Cardinality(errors) \in Nat
    BY <1>1, <2>1, FS_CardinalityType DEF SwapInv, AlignInv
  <2>3. i = Cardinality(errors) + 1
    BY <2>1, <2>2, EmptySeq DEF i
  <2>4. errors' = 1..i /\ i \notin errors
    BY <2>1, <2>2, <2>3
  <2>5. IsFiniteSet(errors') /\ Cardinality(errors') = i
    BY <2>1, <2>2, <2>3, <2>4, FS_AddElement
  <2> QED
    BY <2>4, <2>5
<1>6. CASE step' = "done"
  <2>1. prepared' = <<>> /\ ~(i < Len(jobs)) /\ i = Len(jobs)
    <3>1. Len(jobs) \in Nat
      BY JobsHaveFaces DEF SwapInv
    <3> QED
      BY <1>1, <1>2, <1>6, <3>1
  <2>2. \A k \in DOMAIN jobs : jobs[k].face \in 1..FaceCount
    BY JobsHaveFaces DEF SwapInv
  <2>3. SwapsAreOwn'
    BY <1>1, <1>2, <1>5, <2>1, <2>2 DEF SwapsAreOwn, Untouched
  <2> QED
    BY <1>1, <1>2, <1>3, <1>6, <2>1, <2>3, EndedInv
<1>7. CASE step' = "aligning"
  <2>1. AlignInv'
    BY <1>1, <1>2, <1>4, <1>5, <1>7 DEF AlignInv, Untouched, Batching, Chunking, Fetching
  <2>2. BatchInv' /\ InSwapInv' /\ SwapsAreOwn'
    BY <1>7 DEF BatchInv, InSwapInv, SwapsAreOwn, Batching, Chunking, Fetching
  <2> QED
    BY <1>3, <2>1, <2>2 DEF SwapInv
<1>8. CASE step' = "fetching" /\ prepared' # <<>>
  <2>1. AlignInv'
    BY <1>1, <1>2, <1>4, <1>8 DEF AlignInv, Untouched, Batching, Chunking, Fetching
  <2>2. results' = <<>> /\ models' = <<>> /\ rowErrors' = <<>> /\ Len(results') = 0
        /\ Len(models') = 0 /\ Len(prepared') \in Nat \ {0}
    BY <1>1, <1>2, <1>4, <1>8, EmptySeq
  <2>3. results' \in Seq(Crops)
    BY <2>2, EmptySeq
  <2>4. 1..Len(results') = {} /\ Len(results') < Len(prepared')
    BY <2>2
  <2>5. \A k \in 1..Len(results') : results'[k] = Nobody \/ IsOwn(results[k], prepared[k])'
    BY <2>4
  <2>6. prepared' \in Seq(DOMAIN jobs')
    BY <1>2, <1>4
  <2> QED
    BY <1>3, <1>8, <2>1, <2>2, <2>3, <2>4, <2>5, <2>6, ChunkBegins
<1> QED
  BY <1>2, <1>6, <1>7, <1>8

LEMMA PresetIsOne ==
  ASSUME SwapInv, step \in Fetching
  PROVE  Preset \in Presets
<1>1. Len(models) \in Nat /\ Len(models) < Len(Chunk) /\ Len(Chunk) \in Nat
  BY ChunkIsNext, LenProperties DEF SwapInv, BatchInv, Chunking
<1>2. Len(models) + 1 \in 1..Len(Chunk)
  BY <1>1
<1>3. Chunk[Len(models) + 1] \in DOMAIN jobs
  BY <1>2, ChunkIsNext DEF Chunking
<1> QED
  BY <1>3, JobsHaveFaces DEF SwapInv, Preset

\* Steps that leave the frame and its lists alone.
LEMMA SameFrame ==
  ASSUME SwapInv, step \in Chunking, UNCHANGED <<engine, results, frameVars, rows>>,
         step' \in Chunking
  PROVE  /\ FrameInv' /\ AlignInv' /\ InSwapInv' /\ SwapsAreOwn'
         /\ Chunk' = Chunk /\ Len(results') < Len(prepared') /\ results' \in Seq(Crops)
         /\ Len(results') <= Len(prepared')
         /\ \A k \in 1..Len(results') : results'[k] = Nobody \/ IsOwn(results[k], prepared[k])'
<1> USE DEF frameVars, targetVars
<1>1. FrameInv'
  BY DEF SwapInv, FrameInv, Chunking, Fetching
<1>2. AlignInv'
  BY DEF SwapInv, AlignInv, Untouched, Batching, Chunking, Fetching
<1>3. InSwapInv' /\ SwapsAreOwn'
  BY DEF InSwapInv, SwapsAreOwn, Chunking, Fetching
<1>4. Chunk' = Chunk
  BY DEF Chunk, Batched, Torch, DiskCache
<1>5. /\ Len(results) < Len(prepared) /\ results \in Seq(Crops)
      /\ Len(results) <= Len(prepared)
      /\ \A k \in 1..Len(results) : results[k] = Nobody \/ IsOwn(results[k], prepared[k])
  BY DEF SwapInv, BatchInv, Batching
<1>6. \A k \in 1..Len(results') : results'[k] = Nobody \/ IsOwn(results[k], prepared[k])'
  BY <1>5 DEF IsOwn
<1> QED
  BY <1>1, <1>2, <1>3, <1>4, <1>5, <1>6

LEMMA FetchedInv ==
  ASSUME SwapInv, step \in Fetching, CacheInv', NEW m, m = Failed \/ MadeFor(m, Preset),
         Fetched(m), UNCHANGED <<engine, rows, rowErrors, results, frameVars>>
  PROVE  SwapInv'
<1>1. /\ models \in Seq(Pictures \cup {Failed}) /\ Len(models) \in Nat
      /\ Len(models) < Len(Chunk) /\ Len(Chunk) \in Nat /\ rowErrors = <<>>
      /\ \A k \in 1..Len(models) :
            models[k] = Failed \/ MadeFor(models[k], jobs[Chunk[k]].preset)
  BY ChunkIsNext, LenProperties DEF SwapInv, BatchInv, Chunking
<1>2. m \in Pictures \cup {Failed}
  BY DEF MadeFor
<1>3. /\ models' \in Seq(Pictures \cup {Failed}) /\ Len(models') = Len(models) + 1
      /\ models'[Len(models) + 1] = m
      /\ \A k \in 1..Len(models) : models'[k] = models[k]
  BY <1>1, <1>2, AppendProperties DEF Fetched
<1>4. /\ step' \in Chunking /\ step' # "saving"
      /\ step' \in Fetching => Len(models') < Len(Chunk)
      /\ step' = "forwarding" => ~(Len(models') < Len(Chunk))
  BY DEF Fetched, Chunking, Fetching
<1>5. \A k \in 1..Len(models') : models'[k] = Failed \/ MadeFor(models'[k], jobs[Chunk[k]].preset)
  <2> SUFFICES ASSUME NEW k \in 1..Len(models')
               PROVE  models'[k] = Failed \/ MadeFor(models'[k], jobs[Chunk[k]].preset)
    OBVIOUS
  <2>1. k \in 1..Len(models) \/ k = Len(models) + 1
    BY <1>1, <1>3
  <2> QED
    BY <1>1, <1>3, <2>1 DEF Preset
<1>6. /\ FrameInv' /\ AlignInv' /\ InSwapInv' /\ SwapsAreOwn'
      /\ Chunk' = Chunk /\ Len(results') < Len(prepared') /\ results' \in Seq(Crops)
      /\ Len(results') <= Len(prepared')
      /\ \A k \in 1..Len(results') : results'[k] = Nobody \/ IsOwn(results[k], prepared[k])'
  BY <1>4, SameFrame DEF Chunking
<1>7. rowErrors' = <<>> /\ <<>> \in Seq(BOOLEAN) /\ Len(<<>>) = 0 /\ jobs' = jobs
  BY <1>1, EmptySeq DEF frameVars
<1>8. BatchInv'
  BY <1>1, <1>3, <1>4, <1>5, <1>6, <1>7 DEF BatchInv, Chunking, Fetching
<1> QED
  BY <1>6, <1>8 DEF SwapInv

\* A network is being made.
LEMMA MakingInv ==
  ASSUME SwapInv, step \in Fetching, CacheInv', step' \in {"conditioning", "saving"},
         step' = "saving" => sources' # <<>> /\ MadeFor(Last(sources'), Preset),
         UNCHANGED <<engine, rows, rowErrors, results, models, frameVars>>
  PROVE  SwapInv'
<1>1. /\ FrameInv' /\ AlignInv' /\ InSwapInv' /\ SwapsAreOwn'
      /\ Chunk' = Chunk /\ Len(results') < Len(prepared') /\ results' \in Seq(Crops)
      /\ Len(results') <= Len(prepared')
      /\ \A k \in 1..Len(results') : results'[k] = Nobody \/ IsOwn(results[k], prepared[k])'
  BY SameFrame DEF Chunking, Fetching
<1>2. jobs' = jobs /\ Preset' = Preset
  BY <1>1 DEF frameVars, Preset
<1>3. BatchInv'
  BY <1>1, <1>2 DEF SwapInv, BatchInv, Chunking, Fetching
<1> QED
  BY <1>1, <1>3 DEF SwapInv

LEMMA FetchHeldInv ==
  ASSUME SwapInv, FetchHeld
  PROVE  SwapInv'
<1> DEFINE m == Entry(onDevice, Preset)
<1>1. step \in Fetching /\ OnDevice(m) /\ onDevice \in Seq(Pictures)
  BY DEF FetchHeld, Fetching, SwapInv, CacheInv
<1>2. MadeFor(m, Preset)
  BY <1>1, EntryIsMadeFor DEF FetchHeld
<1> HIDE DEF m
<1>3. onDevice' \in Seq(Pictures)
  BY <1>1, <1>2, UsedIsLast, FaceSwapAssumption DEF OnDevice, MadeFor
<1>4. CacheInv'
  BY <1>3 DEF FetchHeld, SwapInv, CacheInv
<1> QED
  BY <1>1, <1>2, <1>4, FetchedInv DEF FetchHeld, OnDevice

LEMMA LoadInv ==
  ASSUME SwapInv, Load
  PROVE  SwapInv'
<1>1. step \in Fetching /\ onDevice \in Seq(Pictures) /\ Preset \in Presets
  BY PresetIsOne DEF Load, Fetching, SwapInv, CacheInv
<1>2. CASE Fetched(Failed) /\ UNCHANGED onDevice
  <2>1. CacheInv'
    BY <1>2 DEF Load, SwapInv, CacheInv
  <2> QED
    BY <1>1, <1>2, <2>1, FetchedInv DEF Load
<1>3. CASE step' = "conditioning" /\ UNCHANGED <<models, onDevice>>
  <2>1. CacheInv'
    BY <1>3 DEF Load, SwapInv, CacheInv
  <2> QED
    BY <1>1, <1>3, <2>1, MakingInv DEF Load
<1>4. CASE /\ Now(Preset) \in DOMAIN weights /\ weights[Now(Preset)] # Broken
           /\ OnDevice(weights[Now(Preset)])
  <2> DEFINE m == weights[Now(Preset)]
  <2>1. MadeFor(m, Preset)
    BY <1>4 DEF SwapInv, CacheInv, Now
  <2> HIDE DEF m
  <2>2. OnDevice(m)
    BY <1>4 DEF m
  <2>3. onDevice' \in Seq(Pictures)
    BY <1>1, <2>1, <2>2, UsedIsLast, FaceSwapAssumption DEF OnDevice, MadeFor
  <2>4. CacheInv'
    BY <2>3 DEF Load, SwapInv, CacheInv
  <2> QED
    BY <1>1, <2>1, <2>2, <2>4, FetchedInv DEF Load, OnDevice
<1> QED
  BY <1>2, <1>3, <1>4 DEF Load

\* What the memory gives for a preset, held or made.
LEMMA SourceIsLast ==
  ASSUME CacheInv, NEW p \in Presets,
         \/ Held(sources, p) /\ sources' = Used(sources, Entry(sources, p), SourceSlots)
         \/ ~Held(sources, p) /\ Genuine(p) /\ sources' = Used(sources, Now(p), SourceSlots)
  PROVE  sources' \in Seq(Pictures) /\ sources' # <<>> /\ MadeFor(Last(sources'), p)
<1>1. sources \in Seq(Pictures)
  BY DEF CacheInv
<1>2. PICK m : MadeFor(m, p) /\ sources' = Used(sources, m, SourceSlots)
  BY <1>1, EntryIsMadeFor, GenuineIsMadeFor
<1>3. m \in Pictures /\ SourceSlots \in Nat \ {0}
  BY <1>2, FaceSwapAssumption DEF MadeFor
<1> QED
  BY <1>1, <1>2, <1>3, UsedIsLast

LEMMA ConditionInv ==
  ASSUME SwapInv, Condition
  PROVE  SwapInv'
<1>1. step \in Fetching /\ Preset \in Presets /\ CacheInv
  BY PresetIsOne DEF Condition, Fetching, SwapInv
<1>2. CASE Fetched(Failed) /\ UNCHANGED sources
  <2>1. CacheInv'
    BY <1>2 DEF Condition, SwapInv, CacheInv
  <2> QED
    BY <1>1, <1>2, <2>1, FetchedInv DEF Condition
<1>3. CASE /\ \/ Held(sources, Preset)
                 /\ sources' = Used(sources, Entry(sources, Preset), SourceSlots)
              \/ /\ ~Held(sources, Preset) /\ Genuine(Preset)
                 /\ sources' = Used(sources, Now(Preset), SourceSlots)
           /\ IF Torch THEN step' = "saving" /\ UNCHANGED models ELSE Fetched(Last(sources'))
  <2>1. sources' \in Seq(Pictures) /\ sources' # <<>> /\ MadeFor(Last(sources'), Preset)
    BY <1>1, <1>3, SourceIsLast
  <2>2. CacheInv'
    BY <2>1 DEF Condition, SwapInv, CacheInv
  <2>3. CASE Torch
    BY <1>1, <1>3, <2>1, <2>2, <2>3, MakingInv DEF Condition
  <2>4. CASE ~Torch
    BY <1>1, <1>3, <2>1, <2>2, <2>4, FetchedInv DEF Condition
  <2> QED
    BY <2>3, <2>4
<1> QED
  BY <1>2, <1>3 DEF Condition

LEMMA SaveInv ==
  ASSUME SwapInv, Save
  PROVE  SwapInv'
<1> DEFINE m == Last(sources)
<1>1. /\ step \in Fetching /\ Preset \in Presets /\ CacheInv
      /\ sources # <<>> /\ MadeFor(m, Preset) /\ onDevice \in Seq(Pictures)
  BY PresetIsOne DEF Save, Fetching, SwapInv, BatchInv, CacheInv
<1> HIDE DEF m
<1>2. \A d \in DOMAIN weights' : weights'[d] = Broken \/ MadeFor(weights'[d], d[1])
  <2>1. CASE UNCHANGED weights
    BY <1>1, <2>1 DEF CacheInv
  <2>2. CASE weights' = [d \in DOMAIN weights \cup {Now(Preset)} |->
                           IF d = Now(Preset) THEN m ELSE weights[d]]
    BY <1>1, <2>2 DEF CacheInv, Now
  <2> QED
    BY <2>1, <2>2 DEF Save, m
<1>3. CASE Fetched(Failed) /\ UNCHANGED onDevice
  <2>1. CacheInv'
    BY <1>2, <1>3 DEF Save, SwapInv, CacheInv
  <2> QED
    BY <1>1, <1>3, <2>1, FetchedInv DEF Save
<1>4. CASE OnDevice(m)
  <2>1. onDevice' \in Seq(Pictures)
    BY <1>1, <1>4, UsedIsLast, FaceSwapAssumption DEF OnDevice, MadeFor
  <2>2. CacheInv'
    BY <1>2, <2>1 DEF Save, SwapInv, CacheInv
  <2> QED
    BY <1>1, <1>4, <2>2, FetchedInv DEF Save, OnDevice
<1> QED
  BY <1>3, <1>4 DEF Save, m

LEMMA ForwardInv ==
  ASSUME SwapInv, Forward
  PROVE  SwapInv'
<1> DEFINE k == Len(rowErrors) + 1
           answer == Synthetic(jobs[Chunk[k]], models[k])
<1>1. /\ step = "forwarding" /\ step' = "forwarding" /\ k \in DOMAIN Chunk
      /\ UNCHANGED <<engine, picture, weights, sources, onDevice, models, results, frameVars>>
      /\ \/ models[k] # Failed /\ rows' = [rows EXCEPT ![k] = answer]
            /\ rowErrors' = Append(rowErrors, FALSE)
         \/ rowErrors' = Append(rowErrors, TRUE) /\ rows' = rows
  BY DEF Forward
<1>2. /\ models \in Seq(Pictures \cup {Failed}) /\ Len(models) = Len(Chunk)
      /\ \A j \in 1..Len(models) : models[j] = Failed \/ MadeFor(models[j], jobs[Chunk[j]].preset)
      /\ rowErrors \in Seq(BOOLEAN) /\ Len(rowErrors) \in Nat
      /\ \A j \in 1..Len(rowErrors) : ~rowErrors[j] => IsOwn(rows[j], Chunk[j])
  BY <1>1, LenProperties DEF SwapInv, BatchInv, Chunking
<1>3. /\ Chunk \in Seq(DOMAIN jobs) /\ Len(Chunk) \in 1..ChunkRows
      /\ \A j \in 1..Len(Chunk) : Chunk[j] \in DOMAIN jobs
  BY <1>1, ChunkIsNext DEF Chunking
<1>4. k \in 1..Len(Chunk) /\ k \in 1..ChunkRows /\ Chunk[k] \in DOMAIN jobs
  <2>1. DOMAIN Chunk = 1..Len(Chunk)
    BY <1>3, LenProperties
  <2> QED
    BY <1>1, <1>3, <2>1, FaceSwapAssumption
<1>5. models[k] # Failed => answer \in Crops /\ IsOwn(answer, Chunk[k])
  <2>1. jobs[Chunk[k]].face \in 1..FaceCount /\ frame \in Nat
    BY <1>4, JobsHaveFaces DEF SwapInv, FrameInv
  <2>2. models[k] # Failed => MadeFor(models[k], jobs[Chunk[k]].preset)
    BY <1>2, <1>4
  <2> HIDE DEF k
  <2> QED
    BY <2>1, <2>2, FaceSwapAssumption DEF Synthetic, Crops, IsOwn, MadeFor
<1> HIDE DEF answer
<1>6. /\ rowErrors' \in Seq(BOOLEAN) /\ Len(rowErrors') = k
      /\ \A j \in 1..Len(rowErrors) : rowErrors'[j] = rowErrors[j]
      /\ ~rowErrors'[k] => models[k] # Failed /\ rows' = [rows EXCEPT ![k] = answer]
      /\ \/ rows' = rows
         \/ models[k] # Failed /\ rows' = [rows EXCEPT ![k] = answer]
  <2>1. PICK e \in BOOLEAN :
           /\ rowErrors' = Append(rowErrors, e)
           /\ ~e => models[k] # Failed /\ rows' = [rows EXCEPT ![k] = answer]
           /\ e => rows' = rows
    BY <1>1, Zenon
  <2>2. /\ rowErrors' \in Seq(BOOLEAN) /\ Len(rowErrors') = Len(rowErrors) + 1
        /\ \A j \in 1..Len(rowErrors) : rowErrors'[j] = rowErrors[j]
        /\ rowErrors'[Len(rowErrors) + 1] = e
    BY <1>2, <2>1, AppendProperties
  <2> QED
    BY <2>1, <2>2
<1>7. rows \in [1..ChunkRows -> Crops] /\ rows' \in [1..ChunkRows -> Crops]
  BY <1>4, <1>5, <1>6 DEF SwapInv, FrameInv
<1>8. \A j \in 1..Len(rowErrors') : ~rowErrors'[j] => IsOwn(rows'[j], Chunk[j])
  <2> SUFFICES ASSUME NEW j \in 1..Len(rowErrors'), ~rowErrors'[j]
               PROVE  IsOwn(rows'[j], Chunk[j])
    OBVIOUS
  <2>1. CASE j = k
    BY <1>4, <1>5, <1>6, <1>7, <2>1
  <2>2. CASE j # k
    <3>1. j \in 1..Len(rowErrors) /\ j \in 1..ChunkRows
      BY <1>2, <1>4, <1>6, <2>2, FaceSwapAssumption
    <3>2. rows'[j] = rows[j]
      BY <1>6, <1>7, <2>2, <3>1
    <3> QED
      BY <1>2, <1>6, <3>1, <3>2
  <2> QED
    BY <2>1, <2>2
<1> HIDE DEF k
<1> USE DEF frameVars, targetVars
<1>9. CacheInv'
  BY <1>1 DEF SwapInv, CacheInv
<1>10. FrameInv'
  BY <1>1, <1>7 DEF SwapInv, FrameInv
<1>11. AlignInv'
  BY <1>1 DEF SwapInv, AlignInv, Untouched, Batching, Chunking, Fetching
<1>12. Chunk' = Chunk
  BY <1>1 DEF Chunk, Batched, Torch, DiskCache
<1>13. /\ results \in Seq(Crops) /\ Len(results) <= Len(prepared) /\ Len(results) < Len(prepared)
       /\ \A j \in 1..Len(results) : results[j] = Nobody \/ IsOwn(results[j], prepared[j])
  BY <1>1 DEF SwapInv, BatchInv, Batching, Chunking
<1>14. /\ \A j \in 1..Len(results') : results'[j] = Nobody \/ IsOwn(results[j], prepared[j])'
       /\ \A j \in 1..Len(rowErrors') : ~rowErrors'[j] => IsOwn(rows[j], Chunk[j])'
  BY <1>1, <1>8, <1>12, <1>13 DEF IsOwn
<1>15. Len(rowErrors') <= Len(Chunk)
  BY <1>4, <1>6
<1>16. BatchInv'
  BY <1>1, <1>2, <1>6, <1>12, <1>13, <1>14, <1>15 DEF BatchInv, Batching, Chunking, Fetching
<1>17. InSwapInv' /\ SwapsAreOwn'
  BY <1>1 DEF InSwapInv, SwapsAreOwn
<1> QED
  BY <1>9, <1>10, <1>11, <1>16, <1>17 DEF SwapInv

LEMMA CollectInv ==
  ASSUME SwapInv, Collect
  PROVE  SwapInv'
<1> DEFINE answers == [k \in DOMAIN Chunk |-> IF rowErrors[k] THEN Nobody ELSE rows[k]]
<1>1. /\ step = "forwarding" /\ Len(rowErrors) = Len(Chunk) /\ results' = results \o answers
      /\ models' = <<>> /\ rowErrors' = <<>>
      /\ step' = IF Len(results') < Len(prepared) THEN "fetching" ELSE "pasting"
      /\ UNCHANGED <<engine, picture, weights, memory, frameVars>>
  BY DEF Collect, Collected
<1>2. /\ Len(Chunk) \in Nat /\ Chunk \in Seq(DOMAIN jobs) /\ DOMAIN Chunk = 1..Len(Chunk)
      /\ 1..Len(Chunk) \subseteq 1..ChunkRows
      /\ Len(results) \in Nat /\ Len(results) + Len(Chunk) <= Len(prepared)
      /\ \A k \in 1..Len(Chunk) : Chunk[k] = prepared[Len(results) + k]
  <2>1. Len(Chunk) \in 1..ChunkRows /\ Chunk \in Seq(DOMAIN jobs) /\ Len(results) \in Nat
        /\ Len(results) + Len(Chunk) <= Len(prepared)
        /\ \A k \in 1..Len(Chunk) : Chunk[k] = prepared[Len(results) + k]
    BY <1>1, ChunkIsNext DEF Chunking
  <2> QED
    BY <2>1, LenProperties, FaceSwapAssumption
<1>3. /\ \A k \in 1..Len(Chunk) : ~rowErrors[k] => IsOwn(rows[k], Chunk[k])
      /\ rows \in [1..ChunkRows -> Crops] /\ results \in Seq(Crops)
      /\ \A k \in 1..Len(results) : results[k] = Nobody \/ IsOwn(results[k], prepared[k])
  BY <1>1 DEF SwapInv, BatchInv, FrameInv, Batching, Chunking
<1>4. answers \in [1..Len(Chunk) -> Crops]
  BY <1>2, <1>3, NobodyIsNone
<1>5. \A k \in 1..Len(Chunk) : answers[k] = Nobody \/ IsOwn(answers[k], prepared[Len(results) + k])
  BY <1>2, <1>3
<1> HIDE DEF answers
<1>6. answers \in Seq(Crops) /\ Len(answers) = Len(Chunk)
  <2>1. answers \in UNION {[1..n -> Crops] : n \in Nat}
    BY <1>2, <1>4
  <2>2. answers \in Seq(Crops)
    BY <2>1, SeqDef
  <2> QED
    BY <1>2, <1>4, <2>2, LenProperties
<1>7. /\ results' \in Seq(Crops) /\ Len(results') = Len(results) + Len(Chunk)
      /\ \A k \in 1..Len(results) + Len(Chunk) :
            results'[k] = IF k <= Len(results) THEN results[k] ELSE answers[k - Len(results)]
  <2>1. /\ results \o answers \in Seq(Crops)
        /\ Len(results \o answers) = Len(results) + Len(answers)
        /\ \A k \in 1..Len(results) + Len(answers) :
              (results \o answers)[k] =
                 IF k <= Len(results) THEN results[k] ELSE answers[k - Len(results)]
    BY <1>3, <1>6, ConcatProperties
  <2> QED
    BY <1>1, <1>6, <2>1
<1>8. \A k \in 1..Len(results') : results'[k] = Nobody \/ IsOwn(results'[k], prepared[k])
  <2> SUFFICES ASSUME NEW k \in 1..Len(results')
               PROVE  results'[k] = Nobody \/ IsOwn(results'[k], prepared[k])
    OBVIOUS
  <2>1. CASE k <= Len(results)
    BY <1>2, <1>3, <1>7, <2>1
  <2>2. CASE ~(k <= Len(results))
    <3>1. k - Len(results) \in 1..Len(Chunk) /\ Len(results) + (k - Len(results)) = k
      BY <1>2, <1>7, <2>2
    <3>2. results'[k] = answers[k - Len(results)]
      BY <1>7, <2>2
    <3> QED
      BY <1>5, <3>1, <3>2
  <2> QED
    BY <2>1, <2>2
<1> USE DEF frameVars, targetVars, memory
<1>9. \A k \in 1..Len(results') : results'[k] = Nobody \/ IsOwn(results[k], prepared[k])'
  BY <1>1, <1>8 DEF IsOwn
<1>10. CacheInv' /\ FrameInv'
  BY <1>1 DEF SwapInv, CacheInv, FrameInv
<1>11. step' \in Batching /\ step' \notin {"done", "swapping", "priming", "aligning"}
  BY <1>1 DEF Batching, Chunking, Fetching
<1>12. Untouched' /\ prepared' \in Seq(DOMAIN jobs')
  BY <1>1 DEF SwapInv, AlignInv, Untouched, Batching, Chunking
<1>13. AlignInv'
  BY <1>11, <1>12 DEF AlignInv
<1>14. Len(results') <= Len(prepared') /\ prepared' = prepared
  BY <1>1, <1>2, <1>7
<1>15. CASE step' = "fetching"
  <2>1. Len(results') < Len(prepared')
    BY <1>1, <1>15
  <2> QED
    BY <1>1, <1>7, <1>9, <1>10, <1>12, <1>13, <1>15, <2>1, ChunkBegins
<1>16. CASE step' = "pasting"
  <2>1. BatchInv' /\ InSwapInv' /\ SwapsAreOwn'
    BY <1>7, <1>9, <1>14, <1>16 DEF BatchInv, InSwapInv, SwapsAreOwn, Chunking, Fetching
  <2> QED
    BY <1>10, <1>13, <2>1 DEF SwapInv
<1> QED
  BY <1>1, <1>15, <1>16

\* Faces tell jobs apart.
LEMMA FacesTellJobs ==
  ASSUME FrameInv, NEW i \in DOMAIN jobs, NEW j \in DOMAIN jobs, jobs[i].face = jobs[j].face
  PROVE  i = j
<1>1. i \in Nat /\ j \in Nat /\ jobs[i].face \in Nat
  BY JobsHaveFaces
<1> QED
  BY <1>1 DEF FrameInv

LEMMA PasteInv ==
  ASSUME SwapInv, Paste
  PROVE  SwapInv'
<1> USE DEF memory, targetVars
<1>1. PICK good \in SUBSET {k \in DOMAIN results : results[k] # Nobody} :
         errors' = DOMAIN jobs \ {prepared[k] : k \in good} /\ canvas' = PastedOver(good)
  BY DEF Paste
<1>2. /\ step = "pasting" /\ step' = "done"
      /\ prepared' = <<>> /\ models' = <<>> /\ rowErrors' = <<>> /\ results' = <<>>
      /\ UNCHANGED <<engine, picture, weights, memory, frame, jobs, targetVars>>
  BY DEF Paste, NoBatch
<1>3. /\ prepared \in Seq(DOMAIN jobs) /\ results \in Seq(Crops) /\ Untouched
      /\ Len(results) <= Len(prepared)
      /\ \A k \in 1..Len(results) : results[k] = Nobody \/ IsOwn(results[k], prepared[k])
  BY <1>2 DEF SwapInv, AlignInv, BatchInv, Batching
<1>4. \A k \in good : prepared[k] \in DOMAIN jobs /\ IsOwn(results[k], prepared[k])
  <2> SUFFICES ASSUME NEW k \in good
               PROVE  prepared[k] \in DOMAIN jobs /\ IsOwn(results[k], prepared[k])
    OBVIOUS
  <2>1. k \in 1..Len(results) /\ results[k] # Nobody
    BY <1>3, LenProperties
  <2>2. k \in 1..Len(prepared)
    BY <1>3, <2>1, LenProperties
  <2> QED
    BY <1>3, <2>1, <2>2, ElementOfSeq
<1>5. CacheInv' /\ FrameInv'
  BY <1>1, <1>2 DEF SwapInv, CacheInv, FrameInv, PastedOver
<1>6. ASSUME NEW i \in DOMAIN jobs
      PROVE  /\ i \in errors' => canvas'[jobs[i].face] = Nobody
             /\ i \notin errors' => IsOwn(canvas'[jobs[i].face], i)
  <2> DEFINE f == jobs[i].face
             of == {k \in good : jobs[prepared[k]].face = f}
  <2>1. f \in 1..FaceCount
    BY JobsHaveFaces DEF SwapInv
  <2>2. \A k \in of : prepared[k] = i
    BY <1>4, FacesTellJobs DEF SwapInv
  <2>3. canvas'[f] = IF \E k \in good : jobs[prepared[k]].face = f
                     THEN results[CHOOSE k \in good : jobs[prepared[k]].face = f] ELSE canvas[f]
    BY <1>1, <2>1 DEF PastedOver
  <2>4. CASE i \in errors'
    <3>1. \A k \in good : prepared[k] # i
      BY <1>1, <2>4
    <3>2. ~\E k \in good : jobs[prepared[k]].face = f
      BY <2>2, <3>1
    <3> QED
      BY <1>3, <2>1, <2>3, <2>4, <3>2 DEF Untouched
  <2>5. CASE i \notin errors'
    <3>1. PICK j \in good : prepared[j] = i
      BY <1>1, <2>5
    <3>2. PICK k \in good : jobs[prepared[k]].face = f /\ canvas'[f] = results[k]
      BY <2>3, <3>1
    <3> QED
      BY <1>4, <2>2, <2>5, <3>2
  <2> QED
    BY <2>4, <2>5
<1>7. SwapsAreOwn'
  BY <1>2, <1>6 DEF SwapsAreOwn, IsOwn, MadeFor, Pictures
<1> QED
  BY <1>2, <1>5, <1>7, EndedInv

LEMMA SwapKeepsInv ==
  ASSUME SwapInv, Swap
  PROVE  SwapInv'
<1> DEFINE i == Len(prepared) + 1
           mine == jobs[i]
<1>1. /\ step = "swapping" /\ prepared \in Seq(Nat) /\ Len(prepared) \in Nat
      /\ Len(prepared) < Len(jobs) /\ errors \subseteq 1..Len(prepared)
      /\ \A j \in DOMAIN jobs :
            /\ j \in errors \/ j > Len(prepared) => canvas[jobs[j].face] = Nobody
            /\ ~(j \in errors \/ j > Len(prepared)) => IsOwn(canvas[jobs[j].face], j)
  BY LenProperties DEF Swap, SwapInv, InSwapInv
<1>2. /\ DOMAIN jobs = 1..Len(jobs) /\ Len(jobs) \in Nat /\ i \in DOMAIN jobs /\ i \notin errors
      /\ mine.face \in 1..FaceCount /\ mine.preset \in Presets
  <2>1. DOMAIN jobs = 1..Len(jobs) /\ Len(jobs) \in Nat
    BY JobsHaveFaces DEF SwapInv
  <2>2. i \in DOMAIN jobs /\ i \notin errors
    BY <1>1, <2>1
  <2> QED
    BY <2>1, <2>2, JobsHaveFaces DEF SwapInv
<1>3. /\ \/ /\ SourceLatent(mine.preset)
            /\ canvas' = [canvas EXCEPT ![mine.face] = Synthetic(mine, Last(sources'))]
            /\ errors' = errors
         \/ /\ SourceLatent(mine.preset) \/ UNCHANGED sources
            /\ errors' = errors \cup {i} /\ canvas' = canvas
      /\ IF i < Len(jobs) THEN step' = "swapping" /\ prepared' = Append(prepared, i)
         ELSE step' = "done" /\ prepared' = <<>>
      /\ UNCHANGED <<engine, picture, weights, onDevice, rows, models, rowErrors, results,
                     frame, jobs, targetVars>>
  BY DEF Swap
<1>4. models = <<>> /\ rowErrors = <<>> /\ results = <<>>
  BY <1>1 DEF SwapInv, AlignInv, Batching, Chunking, Fetching
<1>5. SourceLatent(mine.preset) =>
        sources' \in Seq(Pictures) /\ sources' # <<>> /\ MadeFor(Last(sources'), mine.preset)
  BY <1>2, SourceIsLast DEF SourceLatent, SwapInv
<1> HIDE DEF i, mine
<1>6. CacheInv'
  BY <1>3, <1>5 DEF SwapInv, CacheInv
<1>7. FrameInv'
  BY <1>1, <1>3 DEF SwapInv, FrameInv
<1>8. /\ i \notin errors' => IsOwn(canvas'[mine.face], i)
      /\ i \in errors' => canvas'[mine.face] = Nobody
  <2>1. canvas[mine.face] = Nobody
    BY <1>1, <1>2 DEF i, mine
  <2>2. DOMAIN canvas = 1..FaceCount
    BY DEF SwapInv, FrameInv
  <2> QED
    <3>1. CASE /\ SourceLatent(mine.preset) /\ errors' = errors
               /\ canvas' = [canvas EXCEPT ![mine.face] = Synthetic(mine, Last(sources'))]
      <4>1. canvas'[mine.face] = Synthetic(mine, Last(sources'))
        BY <1>2, <2>2, <3>1
      <4> QED
        BY <1>2, <1>5, <3>1, <4>1 DEF IsOwn, Synthetic, mine
    <3>2. CASE errors' = errors \cup {i} /\ canvas' = canvas
      BY <2>1, <3>2
    <3> QED
      BY <1>3, <3>1, <3>2
<1>9. ASSUME NEW j \in DOMAIN jobs, j # i
      PROVE  canvas'[jobs[j].face] = canvas[jobs[j].face] /\ (j \in errors' <=> j \in errors)
  <2>1. jobs[j].face # mine.face
    BY <1>2, <1>9, FacesTellJobs DEF SwapInv, mine
  <2>2. CASE canvas' = [canvas EXCEPT ![mine.face] = Synthetic(mine, Last(sources'))]
             /\ errors' = errors
    BY <2>1, <2>2, JobsHaveFaces DEF SwapInv, FrameInv
  <2>3. CASE errors' = errors \cup {i} /\ canvas' = canvas
    BY <1>9, <2>3
  <2> QED
    BY <1>3, <2>2, <2>3
<1>10. ASSUME NEW j \in DOMAIN jobs
       PROVE  /\ j \in errors' \/ j > i => canvas'[jobs[j].face] = Nobody
              /\ ~(j \in errors' \/ j > i) => IsOwn(canvas'[jobs[j].face], j)
  <2>1. j \in Nat /\ i \in Nat /\ i = Len(prepared) + 1
    BY <1>2, <1>10 DEF i
  <2>2. CASE j = i
    BY <1>8, <2>1, <2>2 DEF mine
  <2>3. CASE j # i
    <3>1. j > i <=> j > Len(prepared)
      BY <1>1, <2>1, <2>3
    <3> QED
      BY <1>1, <1>9, <1>10, <2>3, <3>1
  <2> QED
    BY <2>2, <2>3
<1>11. errors' \subseteq 1..i
  <2>1. i = Len(prepared) + 1
    BY DEF i
  <2>2. errors' \subseteq errors \cup {i}
    BY <1>3
  <2> QED
    BY <1>1, <2>1, <2>2
<1>12. CASE step' = "swapping"
  <2>1. prepared' = Append(prepared, i) /\ i < Len(jobs) /\ i \in Nat
    BY <1>2, <1>3, <1>12
  <2>2. prepared' \in Seq(Nat) /\ Len(prepared') = i
    BY <1>1, <2>1, AppendProperties DEF i
  <2>3. InSwapInv'
    BY <1>3, <1>10, <1>11, <2>1, <2>2 DEF InSwapInv, IsOwn
  <2>4. AlignInv' /\ BatchInv' /\ SwapsAreOwn'
    BY <1>3, <1>4, <1>12 DEF AlignInv, BatchInv, SwapsAreOwn, Batching, Chunking, Fetching
  <2> QED
    BY <1>6, <1>7, <2>3, <2>4 DEF SwapInv
<1>13. CASE step' = "done"
  <2>1. i = Len(jobs) /\ prepared' = <<>> /\ models' = <<>> /\ rowErrors' = <<>> /\ results' = <<>>
    BY <1>2, <1>3, <1>4, <1>13
  <2>2. \A j \in DOMAIN jobs : ~(j > i)
    BY <1>2, <2>1
  <2>3. SwapsAreOwn'
    BY <1>3, <1>10, <2>2 DEF SwapsAreOwn, IsOwn, MadeFor, Pictures
  <2> QED
    BY <1>6, <1>7, <1>13, <2>1, <2>3, EndedInv
<1> QED
  BY <1>3, <1>12, <1>13

LEMMA SwapNextInv == SwapInv /\ [SwapNext]_swapVars => SwapInv'
<1> SUFFICES ASSUME SwapInv, [SwapNext]_swapVars PROVE SwapInv'
  OBVIOUS
<1>1. CASE SwapNext
  BY <1>1, RestartsInv, FrameComesInv, PrimeInv, AlignKeepsInv, FetchHeldInv, LoadInv,
     ConditionInv, SaveInv, ForwardInv, CollectInv, RendererFailsInv, PasteInv, SwapKeepsInv,
     ReplacedInv DEF SwapNext
<1>2. CASE UNCHANGED swapVars
  <2> USE <1>2 DEF swapVars
  <2>1. CacheInv' /\ FrameInv'
    BY DEF SwapInv, CacheInv, FrameInv
  <2>2. AlignInv'
    BY DEF SwapInv, AlignInv, Untouched
  <2>3. Chunk' = Chunk /\ Preset' = Preset
    BY DEF Chunk, Preset, Batched, Torch, DiskCache
  <2>4. BatchInv'
    BY <2>3 DEF SwapInv, BatchInv, IsOwn
  <2>5. InSwapInv' /\ SwapsAreOwn'
    BY DEF SwapInv, InSwapInv, SwapsAreOwn, IsOwn
  <2> QED
    BY <2>1, <2>2, <2>4, <2>5 DEF SwapInv
<1> QED
  BY <1>1, <1>2

\* Whatever fails, and whichever pictures are replaced meanwhile, a swapped face
\* shows its own preset, of the catalog's picture if that has one, and the others
\* are as they came.
THEOREM SwapsAreOwnHolds == SwapSpec => []SwapsAreOwn
<1>1. SwapInv => SwapsAreOwn
  BY DEF SwapInv
<1> QED
  BY <1>1, SwapInitInv, SwapNextInv, PTL DEF SwapSpec
=============================================================================
