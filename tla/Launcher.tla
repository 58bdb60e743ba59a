------------------------------- MODULE Launcher -------------------------------
(***************************************************************************)
(* scripts/run_mobilefaceswap_cuda.sh under systemd: the script checks the    *)
(* host, starts the worker in the background, waits until its health says      *)
(* SERVING, starts the web gateway, and ends both as soon as one of them is    *)
(* gone.  systemd starts it again (Restart=on-failure) until it has failed too *)
(* often, and kills what it leaves (KillMode=control-group).                   *)
(***************************************************************************)
EXTENDS WorkerProcess

CONSTANT StartLimitBurst    \* starts that systemd allows

ASSUME BurstAssumption == StartLimitBurst \in Nat \ {0}

VARIABLES
    script,         \* where the script is, "off" if it does not run
    web,            \* the gateway: "off", "running", or "stopping" after a SIGTERM
    status,         \* the exit status it will have, or had
    starts,         \* starts so far
    wanted          \* the operator has not stopped the service

launcherVars == <<script, web, status, starts, wanted>>

LauncherInit ==
    /\ WorkerInit
    /\ script = "off" /\ web = "off" /\ status = 1 /\ starts = 0 /\ wanted = TRUE

To(from, to) == script = from /\ script' = to

\* systemd, at first or after a failure.
ScriptStarts ==
    /\ To("off", "checking")
    /\ wanted /\ status # 0 /\ starts < StartLimitBurst
    /\ starts' = starts + 1
    /\ UNCHANGED <<workerVars, web, status, wanted>>

\* No CUDA, no engine, a missing file, a port that is taken: set -e.
ChecksFail ==
    /\ To("checking", "off")
    /\ status' = 1
    /\ UNCHANGED <<workerVars, web, starts, wanted>>

\* The worker is started, before the script has its traps.
WorkerStarted ==
    /\ To("checking", "started")
    /\ Launch(TRUE)
    /\ UNCHANGED <<web, status, starts, wanted>>

Trapped ==
    /\ To("started", "waiting")
    /\ UNCHANGED <<workerVars, web, status, starts, wanted>>

\* The health service answers SERVING.
WebStarts ==
    /\ To("waiting", "watching")
    /\ up /\ accepting
    /\ web' = "running"
    /\ UNCHANGED <<workerVars, status, starts, wanted>>

CleansUp(code) == script' = "cleanup" /\ status' = code

\* It never does, within 180 seconds; a worker that is gone is not noticed before.
WaitFails ==
    /\ script = "waiting"
    /\ ~(up /\ accepting)
    /\ CleansUp(1)
    /\ UNCHANGED <<workerVars, web, starts, wanted>>

\* Mutant of OneIsGone: only the gateway is waited for, as in run_local.sh.
GatewayIsGone == web = "off"

OneIsGone == stage = "off" \/ web = "off"

ChildGone ==
    /\ script = "watching"
    /\ OneIsGone
    /\ CleansUp(1)
    /\ UNCHANGED <<workerVars, web, starts, wanted>>

\* The operator stops the service: with the traps the script cleans up, without
\* them it is gone.
Stop ==
    /\ wanted
    /\ script \notin {"off", "cleanup"}
    /\ wanted' = FALSE
    /\ IF script \in {"checking", "started"}
       THEN script' = "off" /\ status' = 0
       ELSE CleansUp(0)
    /\ UNCHANGED <<workerVars, web, starts>>

\* cleanup: both get a SIGTERM, which the worker does not survive.
KillWeb ==
    /\ script = "cleanup"
    /\ web = "running"
    /\ web' = "stopping"
    /\ UNCHANGED <<workerVars, script, status, starts, wanted>>

KillWorker ==
    /\ script = "cleanup"
    /\ Dies("terminated")
    /\ UNCHANGED launcherVars

WebEnds ==
    /\ web # "off"
    /\ web' = "off"
    /\ UNCHANGED <<workerVars, script, status, starts, wanted>>

CleanedUp ==
    /\ To("cleanup", "off")
    /\ stage = "off" /\ web = "off"
    /\ UNCHANGED <<workerVars, web, status, starts, wanted>>

\* The script is gone, its children are not: systemd ends them.
LeftOverDies ==
    /\ script = "off" /\ ignores
    /\ Dies("terminated")
    /\ UNCHANGED launcherVars

\* The worker is started by hand, in a terminal.
StartedByHand ==
    /\ script = "off" /\ starts = 0 /\ ended.how = "none"
    /\ Launch(FALSE)
    /\ wanted' = FALSE
    /\ UNCHANGED <<script, web, status, starts>>

LauncherSteps ==
    \/ ScriptStarts \/ ChecksFail \/ WorkerStarted \/ Trapped \/ WebStarts \/ WaitFails
    \/ ChildGone \/ KillWeb \/ KillWorker \/ CleanedUp

LauncherNext ==
    \/ LauncherSteps \/ WebEnds \/ LeftOverDies \/ Stop \/ StartedByHand
    \/ WorkerNext /\ UNCHANGED launcherVars

LauncherSpec == LauncherInit /\ [][LauncherNext]_<<workerVars, launcherVars>>

\* The script is scheduled, as is systemd, and a gateway that is told to ends.
LauncherFairness ==
    /\ WF_<<workerVars, launcherVars>>(LauncherSteps)
    /\ WF_<<workerVars, launcherVars>>(web = "stopping" /\ WebEnds)

-----------------------------------------------------------------------------
(* Properties *)

LauncherTypeOK ==
    /\ script \in {"off", "checking", "started", "waiting", "watching", "cleanup"}
    /\ web \in {"off", "running", "stopping"}
    /\ status \in 0..1 /\ starts \in 0..StartLimitBurst /\ wanted \in BOOLEAN

Pair == stage = "serving" /\ web = "running"

\* README.md:102: a worker that gives up is started again.  When it or the
\* gateway is gone, wherever that leaves the other, both come back, until the
\* service is stopped or systemd has had enough.
PairComesBack ==
    script = "watching" /\ ~Pair ~> Pair \/ ~wanted \/ starts = StartLimitBurst
=============================================================================
