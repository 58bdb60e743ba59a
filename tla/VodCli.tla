-------------------------------- MODULE VodCli --------------------------------
(***************************************************************************)
(* service/vod_cli.py: a process that runs one VodJob over a work directory   *)
(* and says with its exit status how it went.  A signal pauses the job once    *)
(* there is one, and kills the process before; either way, and after a kill,   *)
(* it is started again with --resume, with the same input, parameters and      *)
(* whitelist or with others, which together are its settings.                  *)
(*                                                                           *)
(* Every step of the job is one of VodJob's; nothing cancels or purges it.     *)
(***************************************************************************)
EXTENDS VodJob

CONSTANT Settings        \* what the fingerprints of a checkpoint tell apart

ASSUME SettingsAssumption == Settings # {}

VARIABLES
    process,             \* "none", "loading", "preparing", "starting" or "job"
    args,                \* what it was called with
    made,                \* the settings of the job that wrote checkpoint.json
    exit                 \* the exit status of the last process

cliVars == <<process, args, made, exit>>

EXIT_DONE == 0
EXIT_OTHER == 1
EXIT_ARGS == 2
EXIT_INPUT == 3
EXIT_CHECKPOINT == 4
EXIT_ENCODE == 5
EXIT_RUNTIME == 6
EXIT_PAUSED == 75
KILLED == 128            \* and the signal's number

\* _EXIT_BY_CODE; one code stands for those that say the input is unusable.
ExitOf(code) ==
    CASE code \in {"INPUT_UNREADABLE", "PATH_OUTSIDE_ROOT"} -> EXIT_INPUT
      [] code \in {"CHECKPOINT_INVALID", "CHECKPOINT_MISMATCH"} -> EXIT_CHECKPOINT
      [] code \in {"DECODER_FAILED", "ENCODER_FAILED", "MUX_FAILED", "DISK_FULL"} -> EXIT_ENCODE
      [] code = "RUNTIME_FAILED" -> EXIT_RUNTIME
      [] OTHER -> EXIT_OTHER

Args == [resume : BOOLEAN, overwrite : BOOLEAN, settings : Settings]

CliInit ==
    /\ VodInit
    /\ process = "none"
    /\ args \in [resume : {FALSE}, overwrite : {FALSE}, settings : Settings]
    /\ made = args.settings
    /\ exit = EXIT_ARGS

Exits(status) == process' = "none" /\ exit' = status /\ UNCHANGED <<args, made>>

-----------------------------------------------------------------------------
(* Up to the job *)

\* parse_args refuses it, or the process begins.  As for StartVodJob, nothing
\* keeps a new job from a work directory with a checkpoint: see Liberties.
Invoke ==
    /\ process = "none"
    /\ \/ UNCHANGED <<process, args>> /\ exit' = EXIT_ARGS
       \/ /\ process' = "loading"
          /\ args' \in Args
          /\ args'.resume \/ checkpoint = NoCheckpoint \/ "new over old" \in Liberties
          /\ UNCHANGED exit
    /\ UNCHANGED <<vodVars, made>>

\* RuntimeManager in a thread: the model is loaded and warm, or it is over.
RuntimeLoaded ==
    /\ process = "loading"
    /\ \/ process' = "preparing" /\ UNCHANGED <<args, made, exit>>
       \/ Exits(EXIT_RUNTIME)
    /\ UNCHANGED vodVars

\* _build_adaface and _load_whitelist; whether they exit (SystemExit) or raise,
\* as VodJob's constructor may, the status is the same.
WhitelistLoaded ==
    /\ process = "preparing"
    /\ \/ process' = "starting" /\ UNCHANGED <<args, made, exit>>
       \/ Exits(EXIT_OTHER)
    /\ UNCHANGED vodVars

\* Mutant of TokenOnDisk: the token the last job has shown, lost with its process.
TokenOfRecord == token

\* read_checkpoint_token: the token is computed from the file itself.
TokenOnDisk == IF checkpoint = NoCheckpoint THEN NoToken ELSE checkpoint.token

\* The signal handlers, the token and the call of validate, in one step.
StartJob ==
    /\ process = "starting"
    /\ Start(args.resume, IF args.resume THEN TokenOnDisk ELSE NoToken, args.overwrite)
    /\ process' = "job"
    /\ UNCHANGED <<args, made, exit>>

-----------------------------------------------------------------------------
(* The job *)

Signal ==
    /\ process = "job"
    /\ RequestPause
    /\ UNCHANGED cliVars

JobGoesOn ==
    /\ process = "job"
    /\ \/ Resume /\ args.settings = made
       \/ Fresh \/ Warmed \/ ReadFrame \/ WriteFrame \/ EndOfInput
       \/ Works \/ SegmentDone \/ OutputDone
    /\ made' = IF checkpoint' = checkpoint THEN made ELSE args.settings
    /\ UNCHANGED <<process, args, exit>>

JobPauses == process = "job" /\ Pause /\ Exits(EXIT_PAUSED)
JobDone == process = "job" /\ Finished /\ Exits(EXIT_DONE)

\* _load_checkpoint, in its order.
CheckpointRefusal ==
    IF ~Resumes THEN {}
    ELSE IF checkpoint = NoCheckpoint THEN {"CHECKPOINT_INVALID"}
    ELSE IF request.token # checkpoint.token \/ args.settings # made THEN {"CHECKPOINT_MISMATCH"}
    ELSE IF ~Loadable(request.token) THEN {"CHECKPOINT_INVALID"}
    ELSE {}

\* _validate_sync and probe_input: paths, size, streams, frame rate, length;
\* then the output; only run() looks at the checkpoint.
Refusals ==
    {"PATH_OUTSIDE_ROOT", "INPUT_UNREADABLE", "INTERNAL"} \cup
    (IF output # NoOutput /\ ~request.overwrite THEN {"OUTPUT_EXISTS"} ELSE CheckpointRefusal)

\* The codes with which a job may fail where it is.
Failures ==
    CASE pc = "validating" -> Refusals
      [] pc = "working" -> {"ENCODER_FAILED", "MUX_FAILED", "DISK_FULL", "INTERNAL"}
      [] OTHER -> {"DECODER_FAILED", "ENCODER_FAILED", "DISK_FULL", "RUNTIME_FAILED", "INTERNAL"}

JobFails ==
    /\ process = "job"
    /\ \E code \in Failures : Fail /\ Exits(ExitOf(code))

\* Killed, or a signal before there is a handler; its threads die with it.
Killed ==
    /\ process # "none"
    /\ Crash
    /\ Exits(KILLED)

CliNext ==
    \/ Invoke \/ RuntimeLoaded \/ WhitelistLoaded \/ StartJob
    \/ Signal \/ JobGoesOn \/ JobPauses \/ JobDone \/ JobFails \/ Killed

CliSpec == CliInit /\ [][CliNext]_<<vodVars, cliVars>>

-----------------------------------------------------------------------------
(* Properties *)

CliTypeOK ==
    /\ process \in {"none", "loading", "preparing", "starting", "job"}
    /\ args \in Args
    /\ made \in Settings
    /\ exit \in {EXIT_DONE, EXIT_OTHER, EXIT_ARGS, EXIT_INPUT, EXIT_CHECKPOINT, EXIT_ENCODE,
                 EXIT_RUNTIME, EXIT_PAUSED, KILLED}

\* The output has been made of the checkpoint that is still there.
Superseded == output # NoOutput /\ output.token = checkpoint.token

\* A caller can go by the exit status, however many processes were paused,
\* killed or refused before: 0 means that the output is there; after 75 the next
\* one may resume; and 4 is never said of a checkpoint that could be resumed
\* with these settings.  A paused job of the worker can be resumed, too, with
\* the token of its record, or without one if nothing was committed.
ExitTells ==
    /\ process = "none" =>
          /\ exit = EXIT_DONE => output # NoOutput
          /\ exit = EXIT_PAUSED => checkpoint = NoCheckpoint \/ Loadable(checkpoint.token)
          /\ exit = EXIT_CHECKPOINT =>
                checkpoint # NoCheckpoint /\ (args.settings # made \/ Superseded)
    /\ PausedCanResume
=============================================================================
