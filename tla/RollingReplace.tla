---------------------------- MODULE RollingReplace ----------------------------
(***************************************************************************)
(* deploy/rolling_replace.sh: an operator's script moves a worker to a new   *)
(* release.  An instance has two systemd units, "n" and "nb".  The script    *)
(* starts the idle unit with the new release, asks the Go media server to    *)
(* use it instead, waits until no session is left on the old unit, rewrites  *)
(* the server's env file and stops the old unit.  It may be killed between   *)
(* any two of its commands, and nothing follows then.  A run that is done or  *)
(* refused may be followed by another, one that gave up on sessions only if   *)
(* Reruns says so.                                                           *)
(*                                                                          *)
(* The media server is not in the repository; it is modelled from what the   *)
(* script expects of it: a replacement moves the pool at once and sessions   *)
(* with their next frames, 200 says that none is left, 202 that some are,    *)
(* and anything else is taken for a refusal.  Asked again for a replacement  *)
(* that it has made, it goes on with it.  One instance; enabled units, ports *)
(* and GPUs are left out.                                                    *)
(***************************************************************************)
EXTENDS Naturals

CONSTANTS
    Releases,       \* release directories
    First,          \* the release that runs at first
    DrainRetries,   \* DRAIN_RETRIES
    MaxSessions,    \* bound: sessions of the media server
    MaxRuns,        \* bound: runs of the script
    Reruns          \* it is run again after it gave up on sessions

ASSUME RollingAssumption ==
    /\ First \in Releases
    /\ {DrainRetries, MaxSessions, MaxRuns} \subseteq Nat

VARIABLES
    unit,       \* "stopped", "starting" or "serving"
    config,     \* the release that each unit's drop-in names
    release,    \* the release that each unit was started from
    env,        \* the unit whose port SERVER_ENV names
    pool,       \* the unit the media server gives new sessions to
    open,       \* sessions on each unit
    command,    \* the script's next command
    target,     \* RELEASE_DIR
    old,        \* the unit to be replaced
    attempt,
    replacement,    \* the script's request to replace: "none", "sent", "made", or its outcome
    runs

unitVars == <<unit, config, release>>
serverVars == <<pool, open, replacement>>
scriptVars == <<command, target, old, attempt, runs>>
rollingVars == <<unitVars, env, serverVars, scriptVars>>

Slots == {"n", "nb"}
OtherSlot(s) == IF s = "n" THEN "nb" ELSE "n"
new == OtherSlot(old)
Runs(s) == unit[s] # "stopped"

RollingInit ==
    /\ \E s \in Slots :
          /\ unit = [u \in Slots |-> IF u = s THEN "serving" ELSE "stopped"]
          /\ env = s /\ pool = s /\ old = s
    /\ config = [u \in Slots |-> First]
    /\ release = [u \in Slots |-> First]
    /\ open = [u \in Slots |-> 0]
    /\ command = "idle" /\ target = First /\ attempt = 0 /\ runs = 0
    /\ replacement = "none"

-----------------------------------------------------------------------------
(* The media server and its sessions *)

SessionOpens ==
    /\ open["n"] + open["nb"] < MaxSessions
    /\ unit[pool] = "serving"
    /\ open' = [open EXCEPT ![pool] = @ + 1]
    /\ UNCHANGED <<unitVars, env, pool, replacement, scriptVars>>

\* A session ends, or goes on with its next frame on the pool's worker.
SessionLeaves(s) ==
    /\ open[s] > 0
    /\ \/ open' = [open EXCEPT ![s] = @ - 1]
       \/ /\ s # pool /\ unit[pool] = "serving"
          /\ open' = [open EXCEPT ![s] = @ - 1, ![pool] = @ + 1]
    /\ UNCHANGED <<unitVars, env, pool, replacement, scriptVars>>

ReplacementMade ==
    /\ replacement = "sent"
    /\ replacement' = "made"
    /\ pool' = new
    /\ UNCHANGED <<unitVars, env, open, scriptVars>>

\* The whitelists cannot be moved: nothing has changed.
ReplacementRefused ==
    /\ replacement = "sent"
    /\ replacement' = "refused"
    /\ UNCHANGED <<unitVars, env, pool, open, scriptVars>>

ServerAnswers ==
    /\ replacement = "made"
    /\ replacement' = IF open[old] = 0 THEN "drained" ELSE "remain"
    /\ UNCHANGED <<unitVars, env, pool, open, scriptVars>>

\* curl gives up after --max-time, or the connection breaks: code 000.
AnswerLost ==
    /\ replacement \in {"sent", "made"}
    /\ replacement' = "lost"
    /\ UNCHANGED <<unitVars, env, pool, open, scriptVars>>

-----------------------------------------------------------------------------
(* The script *)

Goes(from, to) == command = from /\ command' = to

\* replace_instance begins: active_slot prefers the b unit.
RunStarts ==
    /\ command \in {"idle", "done", "refused"} \/ (Reruns /\ command = "gave up")
    /\ runs < MaxRuns
    /\ runs' = runs + 1
    /\ command' = "prepare"
    /\ target' \in Releases
    /\ \E s \in Slots : Runs(s)
    /\ old' = IF Runs("nb") THEN "nb" ELSE "n"
    /\ attempt' = 0
    /\ UNCHANGED <<unitVars, env, serverVars>>

\* Too little GPU memory, or no GRPC_PORT.
RunImpossible ==
    /\ Goes("prepare", "refused")
    /\ UNCHANGED <<unitVars, env, serverVars, target, old, attempt, runs>>

\* prepare_slot, whatever the unit is doing.
PrepareSlot ==
    /\ Goes("prepare", "start")
    /\ config' = [config EXCEPT ![new] = target]
    /\ UNCHANGED <<unit, release, env, serverVars, target, old, attempt, runs>>

\* systemctl start: nothing happens to a unit that runs.
StartUnit ==
    /\ Goes("start", "waiting")
    /\ IF Runs(new)
       THEN UNCHANGED <<unit, release>>
       ELSE /\ unit' = [unit EXCEPT ![new] = "starting"]
            /\ release' = [release EXCEPT ![new] = config[new]]
    /\ UNCHANGED <<config, env, serverVars, target, old, attempt, runs>>

UnitServes(s) ==
    /\ unit[s] = "starting"
    /\ unit' = [unit EXCEPT ![s] = "serving"]
    /\ UNCHANGED <<config, release, env, serverVars, scriptVars>>

\* A unit that is stopped takes its sessions with it.
Stopped(s) ==
    /\ unit' = [unit EXCEPT ![s] = "stopped"]
    /\ open' = [open EXCEPT ![s] = 0]
    /\ UNCHANGED <<config, release>>

\* wait_serving and the first request.
Serving ==
    /\ Goes("waiting", "asking")
    /\ unit[new] = "serving"
    /\ replacement' = "sent"
    /\ UNCHANGED <<unitVars, env, pool, open, target, old, attempt, runs>>

NeverServes ==
    /\ Goes("waiting", "refused")
    /\ unit[new] # "serving"
    /\ Stopped(new)
    /\ UNCHANGED <<env, pool, replacement, target, old, attempt, runs>>

\* Mutant of Drained: 202 ends the attempts, too.
DrainedOrNot ==
    /\ replacement \in {"drained", "remain"}
    /\ Goes("asking", "persist")
    /\ replacement' = "none"
    /\ UNCHANGED <<unitVars, env, pool, open, target, old, attempt, runs>>

\* 200
Drained ==
    /\ replacement = "drained"
    /\ Goes("asking", "persist")
    /\ replacement' = "none"
    /\ UNCHANGED <<unitVars, env, pool, open, target, old, attempt, runs>>

\* 202: asked again after a while, and in the end left to the operator.
SessionsRemain ==
    /\ command = "asking"
    /\ replacement = "remain"
    /\ IF attempt < DrainRetries
       THEN /\ replacement' = "sent"
            /\ attempt' = attempt + 1
            /\ UNCHANGED command
       ELSE /\ replacement' = "none"
            /\ command' = "gave up"
            /\ UNCHANGED attempt
    /\ UNCHANGED <<unitVars, env, pool, open, target, old, runs>>

\* Any other code: cleanup_slot of the new unit.
Refused ==
    /\ replacement \in {"refused", "lost"}
    /\ Goes("asking", "refused")
    /\ replacement' = "none"
    /\ Stopped(new)
    /\ UNCHANGED <<env, pool, target, old, attempt, runs>>

\* Mutant of PersistTarget: the old unit is stopped first.
StopThenPersist ==
    /\ Goes("persist", "stop")
    /\ Stopped(old)
    /\ UNCHANGED <<env, pool, replacement, target, old, attempt, runs>>

\* sed over SERVER_ENV: it finds the old unit's port or changes nothing.
PersistTarget ==
    /\ Goes("persist", "stop")
    /\ env' = IF env = old THEN new ELSE env
    /\ UNCHANGED <<unitVars, serverVars, target, old, attempt, runs>>

\* disable --now
StopOld ==
    /\ Goes("stop", "done")
    /\ Stopped(old)
    /\ UNCHANGED <<env, pool, replacement, target, old, attempt, runs>>

\* The script is killed, or set -e ends it; a request goes on without it.
ScriptDies ==
    /\ command \notin {"idle", "done", "refused", "gave up", "died"}
    /\ command' = "died"
    /\ UNCHANGED <<unitVars, env, serverVars, target, old, attempt, runs>>

ScriptSteps ==
    \/ RunStarts \/ RunImpossible \/ PrepareSlot \/ StartUnit \/ Serving \/ NeverServes
    \/ Drained \/ SessionsRemain \/ Refused \/ PersistTarget \/ StopOld \/ ScriptDies

RollingNext ==
    \/ SessionOpens
    \/ \E s \in Slots : SessionLeaves(s) \/ UnitServes(s)
    \/ ReplacementMade \/ ReplacementRefused \/ ServerAnswers \/ AnswerLost
    \/ ScriptSteps

RollingSpec == RollingInit /\ [][RollingNext]_rollingVars

-----------------------------------------------------------------------------
(* Properties *)

RollingTypeOK ==
    /\ unit \in [Slots -> {"stopped", "starting", "serving"}]
    /\ config \in [Slots -> Releases]
    /\ release \in [Slots -> Releases]
    /\ {env, pool, old} \subseteq Slots
    /\ open \in [Slots -> 0..MaxSessions]
    /\ command \in {"idle", "prepare", "start", "waiting", "asking", "persist", "stop", "done",
               "refused", "gave up", "died"}
    /\ target \in Releases
    /\ attempt \in 0..DrainRetries
    /\ replacement \in {"none", "sent", "made", "drained", "remain", "refused", "lost"}
    /\ runs \in 0..MaxRuns

\* A media server that is started again at any moment finds a worker that
\* serves behind the port in its env file, wherever the script was killed,
\* refused or left without an answer.
RestartFindsAWorker == unit[env] = "serving"

\* README.md: a broadcast that is going on is not cut off.  The unit that is
\* replaced is stopped when no session is on it and none can come, however
\* sessions opened and lingered while the script retried.
ReplacedIsDrained ==
    [][command = "stop" /\ command' = "done" => open[old] = 0 /\ pool # old]_rollingVars

\* The script's last line: "done: ... now run RELEASE_DIR".  What serves after
\* a run that finished is the release it was run with.
FinishedRunsRelease == command = "done" => release[pool] = target
=============================================================================
