---------------------------- MODULE Application ----------------------------
(***************************************************************************)
(* main and run_application (main.cpp): the command line is parsed, then   *)
(* the mode it asks for runs and its exit code is returned.  A live run    *)
(* builds its parts one after the other, each of which may fail, and runs  *)
(* the I/O context.  A replay is only its exit code here; ReplayCommand    *)
(* is the detail.                                                          *)
(***************************************************************************)
EXTENDS CommandLine, LiveRunLoop

ReplayExits == {"success", "command_line", "input", "processing", "output", "internal"}

VARIABLES stage,      \* what run_live builds next, or where the process is
          exitCode    \* none while it runs

applicationVars == <<lineVars, runVars, stage, exitCode>>

ApplicationInit ==
  /\ LineInit
  /\ LoopInit
  /\ stage = "command_line"
  /\ exitCode = "none"

Exit(code) == stage' = "exited" /\ exitCode' = code

ParseCommandLine ==
  /\ stage = "command_line"
  /\ LineNext
  /\ UNCHANGED <<runVars, stage, exitCode>>

(* Nothing reads the arguments again once the mode is chosen; of the       *)
(* options of a live run only the duration matters from here on.           *)
RunApplication ==
  /\ stage = "command_line"
  /\ parsed # "reading"
  /\ CASE parsed = "help" -> Exit("success") /\ UNCHANGED lineVars
       [] parsed = "replay" -> (\E code \in ReplayExits : Exit(code)) /\ UNCHANGED lineVars
       [] parsed = "live_capture" ->
            /\ stage' = "subscription"
            /\ arguments' = << >>
            /\ given' = {}
            /\ options' = [NoOptions EXCEPT !.duration = options.duration]
            /\ UNCHANGED <<exitCode, pending, parsed>>
       [] OTHER -> Exit("command_line") /\ UNCHANGED lineVars
  /\ UNCHANGED runVars

(* What run_live builds, in its order, and the codes of a failure.  The    *)
(* controller reports apart that it could not start the writer.            *)
BuildOrder == <<"subscription", "utc_date", "outputs", "loop", "controller", "start">>
FailureCodes == [subscription |-> {"internal"}, utc_date |-> {"internal"},
                 outputs |-> {"output"}, loop |-> {"internal"},
                 controller |-> {"output", "internal"}, start |-> {"internal"}]

Build(i) ==
  /\ stage = BuildOrder[i]
  /\ \/ /\ \E code \in FailureCodes[stage] : Exit(code)
        /\ UNCHANGED runVars
     \/ /\ stage # "start"
        /\ stage' = BuildOrder[i + 1]
        /\ UNCHANGED <<runVars, exitCode>>
     \/ /\ stage = "start"
        /\ StartLoop(options.duration # "none")
        /\ stage' = "running"
        /\ UNCHANGED exitCode
  /\ UNCHANGED lineVars

RunLoop(Step) ==
  /\ stage = "running"
  /\ Step
  /\ UNCHANGED <<lineVars, stage, exitCode>>

(* The I/O context has returned.                                           *)
RunLiveReturns ==
  /\ stage = "running"
  /\ RunReturns
  /\ io' = "stopped"
  /\ Exit(IF loopTerminal THEN ExitCode ELSE "internal")
  /\ UNCHANGED <<lineVars, captureVars, waitVars, ready, stopStarted, durationExpired,
                 signalVars, loopError, loopTerminal>>

ApplicationNext ==
  \/ ParseCommandLine
  \/ RunApplication
  \/ \E i \in DOMAIN BuildOrder : Build(i)
  \/ RunLoop(RunNext)
  \/ RunLiveReturns

(* The main thread runs, first through start-up and then the handlers of   *)
(* the I/O context; the clock advances and the controller keeps its        *)
(* promise.  No signal need ever arrive.                                   *)
ApplicationFairness ==
  /\ WF_applicationVars(RunApplication)
  /\ WF_applicationVars(\E i \in DOMAIN BuildOrder : Build(i))
  /\ WF_applicationVars(RunLoop(RunReady))
  /\ WF_applicationVars(RunLoop(DurationExpires))
  /\ WF_applicationVars(RunLoop(stopRequested /\ ControllerEnds))
  /\ WF_applicationVars(RunLiveReturns)

ApplicationSpec ==
  ApplicationInit /\ [][ApplicationNext]_applicationVars /\ ApplicationFairness

-----------------------------------------------------------------------------
(* A command line that was read to its end means one thing or nothing:     *)
(* help is asked for alone, a live run has a venue, distinct symbols and   *)
(* nothing twice, a replay has distinct inputs, an output directory and    *)
(* no option of a live run; the options are the values next to their       *)
(* names, even where a value looks like an option.  Every such line is     *)
(* accepted.                                                               *)
LineMeansOneThing == stage = "command_line" => VerdictFitsLine

(* Exit code 0 of a live run is earned: someone asked for its end, that    *)
(* request and both waits worked, the writer did too, and a run that       *)
(* lasted for its whole duration reached the exchange at least once, even  *)
(* if signals arrived as well.                                             *)
ExitZeroIsEarned ==
  exitCode = "success" /\ parsed = "live_capture" =>
    /\ stopStarted
    /\ terminal /\ loopError = "none"
    /\ ~ writerFailed
    /\ durationExpired => connected

(* A live run with a duration, and one that gets a signal, comes to an     *)
(* end whatever fails on the way: a wait, the writer, or the stop itself.  *)
RunComesToAnEnd ==
  (parsed = "live_capture" /\ options.duration # "none")
    \/ (\E i \in DOMAIN ready : ready[i][1] = "signal")
    ~> exitCode # "none"
=============================================================================
