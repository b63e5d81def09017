---------------------------- MODULE ProcessHosts ----------------------------
(***************************************************************************)
(* An artifact run by one of the three hosts, and what callers of a host   *)
(* rely on.  Only one host runs an artifact: Kinds says which may.         *)
(***************************************************************************)
EXTENDS LocalStdio, PluginProcess, CommandRuntime

CONSTANT Kinds  \* subset of {"stdio", "plugin", "command"}

hostVars == <<host, pluginVars, commandVars>>
vars == <<artifact, hostVars>>

Init ==
  /\ NoArtifact
  /\ host = NotInvoked
  /\ plugin = NotStarted
  /\ waiter = NoWaiter
  /\ command = NoCommand /\ guest = NoGuest /\ deadline = NoDeadline

AllIdle == HostAt("idle") /\ PluginAt("idle") /\ CommandAt("idle")
OnlyStdio == UNCHANGED <<pluginVars, commandVars>>
OnlyPlugin == UNCHANGED <<host, commandVars>>
OnlyCommand == UNCHANGED <<host, pluginVars>>

LaunchStdio == "stdio" \in Kinds /\ AllIdle /\ Launch /\ OnlyStdio
RunStdio == StdioStep /\ OnlyStdio
LaunchPlugin == "plugin" \in Kinds /\ AllIdle /\ SpawnPlugin /\ OnlyPlugin
RunPlugin == (WriteAll \/ Receive) /\ OnlyPlugin
RunWaiter == Collect /\ OnlyPlugin
PrepareCommand == "command" \in Kinds /\ AllIdle /\ Prepare /\ OnlyCommand
RunCommand == CommandStep /\ OnlyCommand
RunWatchdog == (Watchdog \/ IncrementEpoch) /\ OnlyCommand
WatchdogWakes == WakesForNoReason /\ OnlyCommand
RunGuest == GuestStep /\ OnlyCommand
StopGuest == Interrupt /\ OnlyCommand
RunArtifact == ArtifactStep /\ UNCHANGED hostVars
TimePasses == Expire /\ UNCHANGED hostVars

Next ==
  \/ LaunchStdio \/ RunStdio
  \/ LaunchPlugin \/ RunPlugin \/ RunWaiter
  \/ PrepareCommand \/ RunCommand \/ RunWatchdog \/ WatchdogWakes \/ RunGuest \/ StopGuest
  \/ RunArtifact \/ TimePasses

\* The threads of a host are scheduled, time passes, and the engine stops a
\* guest when the epoch moves; nothing is assumed of artifact or guest.
Spec ==
  /\ Init /\ [][Next]_vars
  /\ WF_vars(RunStdio) /\ WF_vars(RunPlugin) /\ WF_vars(RunWaiter) /\ WF_vars(TimePasses)
  /\ WF_vars(RunCommand) /\ WF_vars(RunWatchdog) /\ WF_vars(StopGuest)

-----------------------------------------------------------------------------

Returned == "returned" \in {host.at, plugin.at, command.at}
Result == IF host.at = "returned" THEN host.result ELSE plugin.result
Answered == ~ CommandAt("returned") /\ Returned /\ Result = "ok"

\* The receipts of commands; a call that has none returned before the guest ran.
HasReceipt == CommandAt("returned") /\ "elapsed" \in DOMAIN command
Kind == command.result.termination.kind
Causes == command.result.termination.causes

\* An answer is the whole answer: the whole request was written, all that any
\* process of the artifact ever wrote was read, none of them can write any
\* more, and the child has ended well and been waited for.  A command that is
\* said to have returned or exited had none of its output refused.
AnswerIsComplete ==
  /\ Answered =>
       LET got == IF host.at = "returned" THEN host.got ELSE waiter.got
       IN  /\ got = [stream \in Outputs |-> wrote[stream]]
           /\ ~ \E stream \in Outputs : ArtifactHolds(stream)
           /\ IF host.at = "returned" THEN wrote["in"] = host.request ELSE plugin.left = 0
           /\ exit = "ok" /\ reaped
  /\ HasReceipt /\ Kind \in {"returned", "guest_exit"} => guest.refused = {}

\* local_stdio.rs never returns while a child it started has not been waited
\* for, on any path, nor the command runtime while its watchdog runs, the
\* invocations that are dropped unused included.
NoChildLeft ==
  /\ HostAt("returned") /\ "request" \in DOMAIN host => "child" \notin running /\ reaped
  /\ CommandAt("returned") => deadline.at \in {"none", "ended"}

\* A failure that local_stdio.rs reports says what the artifact did: it stopped
\* reading a request it had not been given in full, wrote beyond the limit it
\* is said to exceed, ended badly, or was answering when the time was up.
FailuresExplained ==
  HostAt("returned") =>
    CASE host.result = "write_stdin" -> ~ ArtifactHolds("in") /\ wrote["in"] < host.request
      [] host.result = "stdout_limit" -> wrote["out"] > Limit["out"]
      [] host.result = "stderr_limit" -> wrote["err"] > Limit["err"]
      [] host.result = "timed_out" -> clock = "expired"
      [] host.result = "artifact_exit" -> exit = "bad" /\ ~ ArtifactHolds("out")
      [] host.result = "empty_response" -> wrote["out"] = 0 /\ exit = "ok"
      [] OTHER -> TRUE

\* A receipt of the command runtime is one its own validation accepts, and it
\* says what happened: a guest that ended late is said to have timed out
\* however the watchdog's thread is scheduled, a guest is said to have timed
\* out or spent its fuel only if the time was up or the fuel was spent, and one
\* that the deadline stopped is not said to have failed by itself.
ReceiptsAreTrue ==
  HasReceipt =>
    /\ ValidReceipt(command.result, command.request)
    /\ guest.late => "timed_out" \in Causes
    /\ "timed_out" \in Causes => clock = "expired"
    /\ guest.ended = "fuel" <=> "fuel_exhausted" \in Causes
    /\ Kind = "trapped" => guest.ended = "trap"

\* Once the time of a call runs the caller is answered, whatever the artifact
\* does, its descendants included.
TimedCallsReturn == clock = "running" ~> Returned

\* docs/DECISIONS/0019_PLUGIN_LIFECYCLE.md:129, lib.rs:40 and lib.rs:229: a
\* plugin that hangs is killed after a timeout, and does not hang the host.
HungPluginIsKilled == PluginAt("write") ~> Returned /\ "child" \notin running
=============================================================================
