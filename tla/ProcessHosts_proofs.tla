------------------------- MODULE ProcessHosts_proofs -------------------------
(***************************************************************************)
(* Proofs, for every capacity, limit, request and length of output, that   *)
(* no host leaves a child or a watchdog behind, that the receipts of the   *)
(* command runtime are true, that an answer is the whole answer of its     *)
(* artifact, and that the stdio host's failures say what the artifact did. *)
(***************************************************************************)
EXTENDS ProcessHosts, TLAPS

-----------------------------------------------------------------------------
(* The inductive invariant.                                                  *)

\* One host runs at a time; the plugin's thread runs only with a plugin.
Turns ==
  /\ ~ HostAt("idle") => PluginAt("idle") /\ CommandAt("idle")
  /\ ~ PluginAt("idle") => HostAt("idle") /\ CommandAt("idle")
  /\ waiter.at # "none" => ~ PluginAt("idle")

\* A child that has ended does not run, and only such a child was waited for.
Child ==
  /\ exit # "none" => "child" \notin running
  /\ reaped \in BOOLEAN /\ (reaped => exit # "none")
  /\ AllIdle => running = {} /\ exit = "none" /\ clock = "stopped"

Started == "request" \in DOMAIN host

\* Where a call of local_stdio.rs is says whether its child was waited for.
Stdio ==
  /\ {"at", "result"} \subseteq DOMAIN host
  /\ Started => "status" \in DOMAIN host /\ ~ HostAt("idle")
  /\ ~ Started => host.at \in {"idle", "returned"}
  /\ Started /\ host.status # "none" => reaped
  /\ Started /\ host.at \in {"answer", "drop", "returned"} => reaped
  /\ HostAt("reap") => "child" \notin running

Deadlines ==
  [at : {"none", "cancelled?", "started?", "park", "cancelled again?", "now", "park_timeout",
         "increment", "ended"},
   started : BOOLEAN, cancelled : BOOLEAN, timedOut : BOOLEAN, token : BOOLEAN]

Guests ==
  [ended : {"none", "ok", "exit", "trap", "fuel", "interrupt"}, late : BOOLEAN,
   epoch : {0, 1}, captured : [Outputs -> Nat], refused : SUBSET Outputs]

Types ==
  /\ {"at", "result"} \subseteq DOMAIN plugin /\ "at" \in DOMAIN waiter
  /\ {"at", "result"} \subseteq DOMAIN command
  /\ deadline \in Deadlines /\ guest \in Guests

\* The watchdog has ended when a call that started it classifies its guest.
Watched ==
  /\ CommandAt("idle") => deadline = NoDeadline /\ guest = NoGuest
  /\ command.at \in {"classify", "returned"} => deadline.at \in {"none", "ended"}
  /\ command.at \in {"idle", "prepared", "call", "cancel", "join", "classify", "returned"}

\* The time was up when the watchdog says so, and when the guest ended late.
Timed ==
  /\ CommandAt("prepared") => guest = NoGuest /\ ~ deadline.timedOut /\ clock = "stopped"
  /\ deadline.timedOut => clock = "expired"
  /\ deadline.at = "increment" \/ guest.epoch > 0 \/ guest.ended = "interrupt" => deadline.timedOut
  /\ guest.late => clock = "expired"
  /\ guest.ended = "none" => ~ guest.late

HasElapsed == "elapsed" \in DOMAIN command
Finishing == command.at \in {"cancel", "join", "classify"}

\* A call that ran its guest knows its request, and whether the time was up
\* when the guest had ended.
Called ==
  /\ command.at \notin {"idle", "returned"} =>
       /\ "request" \in DOMAIN command
       /\ ValidRequest(command.request)
       /\ \A s \in Outputs : guest.captured[s] <= command.request.limits[s]
  /\ command.at \in {"prepared", "call"} => command.result = "none"
  /\ Finishing => (HasElapsed <=> command.result # "dropped")
  /\ HasElapsed => /\ Finishing \/ CommandAt("returned")
                   /\ guest.ended # "none"
                   /\ command.elapsed \in BOOLEAN
                   /\ command.elapsed => clock = "expired"
                   /\ guest.late => command.elapsed

\* What execute answered is what it saw, and has not changed since.
Receipted ==
  HasReceipt =>
    /\ "request" \in DOMAIN command
    /\ ValidRequest(command.request)
    /\ \A s \in Outputs : guest.captured[s] <= command.request.limits[s]
    /\ command.result =
         [captured |-> guest.captured, limits |-> command.request.limits,
          termination |-> Termination(guest.ended, deadline.timedOut \/ command.elapsed,
                                      ReachedLimits(guest.captured, command.request.limits))]

ChildInv == Types /\ Turns /\ Child /\ Stdio
CommandInv == Watched /\ Timed /\ Called /\ Receipted
IInv == ChildInv /\ CommandInv

-----------------------------------------------------------------------------
(* What a step of one host leaves alone.                                     *)

\* A step that does not touch the command runtime, but for time that passes
\* or a clock that starts while no command was prepared, keeps its part.
LEMMA CommandUntouched ==
  ASSUME Types, CommandInv, UNCHANGED commandVars,
         clock' = clock \/ (clock = "running" /\ clock' = "expired") \/ CommandAt("idle")
  PROVE  CommandInv'
<1>1. CommandAt("idle") => /\ ~ HasElapsed' /\ deadline = NoDeadline /\ guest = NoGuest
  BY DEF CommandInv, Watched, Called, HasElapsed, Finishing, CommandAt, commandVars
<1>2. Watched'
  BY DEF CommandInv, Watched, CommandAt, commandVars
<1>3. Timed'
  BY <1>1 DEF CommandInv, Timed, CommandAt, commandVars, NoGuest, NoDeadline
<1>4. Called'
  BY <1>1 DEF CommandInv, Called, CommandAt, HasElapsed, Finishing, commandVars
<1>5. Receipted'
  BY DEF CommandInv, Receipted, HasReceipt, CommandAt, commandVars
<1> QED
  BY <1>2, <1>3, <1>4, <1>5 DEF CommandInv

\* A step of a command that has left its place of rest disturbs no other host.
LEMMA OthersUntouched ==
  ASSUME Turns, Child, Stdio, OnlyCommand, UNCHANGED <<running, exit, reaped>>,
         AllIdle \/ ~ CommandAt("idle"), ~ CommandAt("idle")'
  PROVE  Turns' /\ Child' /\ Stdio'
BY DEF Turns, Child, Stdio, Started, OnlyCommand, AllIdle, HostAt, PluginAt, CommandAt, pluginVars

-----------------------------------------------------------------------------
(* The stdio host.                                                           *)

\* Every step of the stdio host, one by one.
LEMMA StdioKeeps ==
  ASSUME IInv, LaunchStdio \/ RunStdio
  PROVE  IInv'
<1> USE DEF IInv, ChildInv
<1>1. CommandAt("idle") /\ PluginAt("idle") /\ waiter.at = "none"
  BY DEF LaunchStdio, RunStdio, AllIdle, Turns, StdioStep, CheckDeadline, WriteInput,
         ReadAvailable, CheckLimits, TryWait, KillAndReap, Return, HostAt
<1>2. UNCHANGED <<pluginVars, commandVars>>
  BY DEF LaunchStdio, RunStdio, OnlyStdio
<1>3. Types'
  BY <1>2 DEF Types, pluginVars, commandVars
<1>4. Turns'
  BY <1>1, <1>2 DEF Turns, PluginAt, CommandAt, HostAt, pluginVars, commandVars
<1>5. CommandInv'
  BY <1>1, <1>2, CommandUntouched DEF CommandAt
<1>6. ASSUME LaunchStdio PROVE Child' /\ Stdio'
  <2>1. Launch /\ HostAt("idle") /\ PluginAt("idle") /\ CommandAt("idle")
    BY <1>6 DEF LaunchStdio, AllIdle
  <2>2. running = {} /\ exit = "none" /\ ~ reaped
    BY <2>1 DEF Child, AllIdle
  <2>3. \/ /\ UNCHANGED artifact
           /\ host'.at = "returned" /\ DOMAIN host' = {"at", "result"}
        \/ /\ Spawn
           /\ host'.at \in {"deadline", "kill"} /\ host'.status = "none"
           /\ {"at", "result", "request", "status"} \subseteq DOMAIN host'
    <3> USE DEF NotInvoked, Invoked
    <3>1. PICK size \in Sizes :
            \/ UNCHANGED artifact /\ \E result \in {"stdin_limit", "not_started"} :
                 host' = [NotInvoked EXCEPT !.at = "returned", !.result = result]
            \/ Spawn /\ (\/ host' = Invoked(size)
                         \/ host' = [Invoked(size) EXCEPT !.at = "kill", !.result = "configure_pipe"])
      BY <2>1 DEF Launch
    <3>2. CASE UNCHANGED artifact /\ \E result \in {"stdin_limit", "not_started"} :
                 host' = [NotInvoked EXCEPT !.at = "returned", !.result = result]
      BY <3>2
    <3>3. CASE Spawn /\ host' = Invoked(size)
      BY <3>3
    <3>4. CASE Spawn /\ host' = [Invoked(size) EXCEPT !.at = "kill", !.result = "configure_pipe"]
      BY <3>4
    <3> QED
      BY <3>1, <3>2, <3>3, <3>4
  <2> QED
    BY <2>2, <2>3 DEF Child, Stdio, Started, AllIdle, HostAt, Spawn, artifact
<1>7. ASSUME RunStdio PROVE Child' /\ Stdio'
  <2>1. StdioStep /\ Started /\ clock' = clock
    BY <1>7 DEF Stdio, Started, HostAt, RunStdio, StdioStep, CheckDeadline, WriteInput,
           ReadAvailable, CheckLimits, TryWait,
           KillAndReap, Return, artifact
  <2>2. ASSUME CheckDeadline PROVE Child' /\ Stdio'
    BY <2>1, <2>2 DEF Child, Stdio, Started, AllIdle, HostAt, CheckDeadline, Fail, Proceed, artifact
  <2>3. ASSUME WriteInput PROVE Child' /\ Stdio'
    BY <2>1, <2>3 DEF Child, Stdio, Started, AllIdle, HostAt, WriteInput, Fail
  <2>4. ASSUME ReadAvailable("out", "err") PROVE Child' /\ Stdio'
    BY <2>1, <2>4 DEF Child, Stdio, Started, AllIdle, HostAt, ReadAvailable, Fail
  <2>9. ASSUME ReadAvailable("err", "limits") PROVE Child' /\ Stdio'
    BY <2>1, <2>9 DEF Child, Stdio, Started, AllIdle, HostAt, ReadAvailable, Fail
  <2>5. ASSUME CheckLimits PROVE Child' /\ Stdio'
    BY <2>1, <2>5 DEF Child, Stdio, Started, AllIdle, HostAt, CheckLimits, Fail, Proceed, artifact
  <2>6. ASSUME TryWait PROVE Child' /\ Stdio'
    BY <2>1, <2>6 DEF Child, Stdio, Started, AllIdle, HostAt, TryWait, Complete
  <2>7. ASSUME KillAndReap PROVE Child' /\ Stdio'
    <3>1. CASE HostAt("kill") /\ Kill /\ Proceed("reap") /\ UNCHANGED reaped
      <4>1. /\ host'.at = "reap" /\ DOMAIN host' = DOMAIN host
            /\ host.at = "kill" /\ host'.status = host.status
        BY <2>1, <3>1 DEF Stdio, Started, HostAt, Proceed
      <4>2. /\ "child" \notin running' /\ reaped' = reaped
            /\ exit' = exit \/ exit' = "bad"
        BY <3>1 DEF Kill
      <4> QED
        BY <2>1, <4>1, <4>2 DEF Child, Stdio, Started, AllIdle, HostAt
    <3>2. CASE /\ HostAt("reap") /\ exit # "none" /\ reaped' = TRUE
               /\ Proceed("drop") /\ UNCHANGED <<running, ends, exit>>
      BY <2>1, <3>2 DEF Child, Stdio, Started, AllIdle, HostAt, Proceed
    <3> QED
      BY <2>7, <3>1, <3>2 DEF KillAndReap
  <2>8. ASSUME Return PROVE Child' /\ Stdio'
    <3>1. host.at \in {"answer", "drop"} /\ UNCHANGED <<running, exit, reaped>>
      BY <2>8 DEF Return, HostAt
    <3>2. reaped
      BY <2>1, <3>1 DEF Stdio
    <3>3. CASE HostAt("answer") /\ \E result \in Response :
                 host' = [host EXCEPT !.at = "returned", !.result = result]
      <4>1. PICK result \in Response : host' = [[host EXCEPT !.at = "returned"] EXCEPT !.result = result]
        BY <3>3
      <4>2. DOMAIN host' = DOMAIN host /\ host'.at = "returned"
        BY <4>1, <2>1 DEF Stdio
      <4> QED
        BY <2>1, <3>1, <3>2, <4>2 DEF Child, Stdio, Started, AllIdle, HostAt
    <3>4. CASE Proceed("returned")
      BY <2>1, <3>1, <3>2, <3>4 DEF Child, Stdio, Started, AllIdle, HostAt, Proceed
    <3> QED
      BY <2>8, <3>3, <3>4 DEF Return
  <2> QED
    BY <2>1, <2>2, <2>3, <2>4, <2>5, <2>6, <2>7, <2>8, <2>9 DEF StdioStep
<1> QED
  BY <1>3, <1>4, <1>5, <1>6, <1>7

-----------------------------------------------------------------------------
(* The plugin host, the artifact and time.                                   *)

\* A step of the plugin host leaves the others idle, and claims nothing of them.
LEMMA PluginKeeps ==
  ASSUME IInv, LaunchPlugin \/ RunPlugin \/ RunWaiter
  PROVE  IInv'
<1> USE DEF IInv, ChildInv
<1>1. UNCHANGED <<host, commandVars>>
  BY DEF LaunchPlugin, RunPlugin, RunWaiter, OnlyPlugin, Collect, pluginVars
<1>2. CommandAt("idle") /\ HostAt("idle")
  BY DEF LaunchPlugin, RunPlugin, RunWaiter, AllIdle, Turns, WriteAll, Receive, Collect, PluginAt
<1>3. ~ PluginAt("idle")'
  BY DEF LaunchPlugin, RunPlugin, RunWaiter, Turns, Types, SpawnPlugin, WriteAll, Receive, Collect,
         PluginAt, PluginReturns
<1>4. Types'
  <2>1. DOMAIN plugin' = DOMAIN plugin
    BY DEF LaunchPlugin, RunPlugin, RunWaiter, SpawnPlugin, WriteAll, Receive, Collect, PluginReturns
  <2>2. DOMAIN waiter' = DOMAIN waiter
    BY DEF LaunchPlugin, RunPlugin, RunWaiter, SpawnPlugin, WriteAll, Receive, Collect
  <2> QED
    BY <1>1, <2>1, <2>2 DEF Types, commandVars
<1>5. Turns'
  BY <1>1, <1>2, <1>3 DEF Turns, PluginAt, CommandAt, HostAt, commandVars
<1>6. CommandInv'
  BY <1>1, <1>2, CommandUntouched
<1>7. Stdio'
  BY <1>1, <1>2 DEF Stdio, Started, HostAt
<1>8. Child'
  <2>1. Child /\ ~ AllIdle'
    BY <1>3 DEF AllIdle
  <2>2. CASE LaunchPlugin
    <3>1. UNCHANGED exit /\ exit = "none" /\ UNCHANGED reaped
      BY <2>1, <2>2 DEF LaunchPlugin, SpawnPlugin, Child, Spawn, artifact
    <3> QED
      BY <2>1, <3>1 DEF Child
  <2>3. CASE RunPlugin
    <3>1. UNCHANGED <<running, exit, reaped>>
      BY <2>3 DEF RunPlugin, WriteAll, Receive, artifact
    <3> QED
      BY <2>1, <3>1 DEF Child
  <2>4. CASE RunWaiter
    <3>1. UNCHANGED <<running, exit>> /\ (reaped' = reaped \/ (reaped' = TRUE /\ exit # "none"))
      BY <2>4 DEF RunWaiter, Collect
    <3>2. CASE reaped' = reaped
      BY <2>1, <3>1, <3>2 DEF Child
    <3>3. CASE reaped' = TRUE /\ exit # "none"
      BY <2>1, <3>1, <3>3 DEF Child
    <3> QED
      BY <3>1, <3>2, <3>3
  <2> QED
    BY <2>2, <2>3, <2>4
<1> QED
  BY <1>4, <1>5, <1>6, <1>7, <1>8

\* The artifact and the clock take nothing back that a host relies on.
LEMMA ArtifactKeeps ==
  ASSUME IInv, RunArtifact \/ TimePasses
  PROVE  IInv'
<1> USE DEF IInv, ChildInv
<1>1. UNCHANGED <<host, plugin, waiter, command, guest, deadline>>
  BY DEF RunArtifact, TimePasses, hostVars, pluginVars, commandVars
<1>2. clock' = clock \/ (clock = "running" /\ clock' = "expired")
  BY DEF RunArtifact, TimePasses, ArtifactStep, Expire
<1>3. CommandInv'
  BY <1>1, <1>2, CommandUntouched DEF commandVars
<1>4. Types'
  BY <1>1 DEF Types
<1>7. Turns'
  BY <1>1 DEF Turns, HostAt, PluginAt, CommandAt
<1>5. Child' /\ UNCHANGED reaped /\ ("child" \in running' => "child" \in running)
  BY <1>1 DEF RunArtifact, TimePasses, ArtifactStep, Expire, Child, AllIdle, HostAt, PluginAt,
         CommandAt, Programs, Reads, Writes, Closes, StartsAnother, Exits
<1>6. Stdio'
  BY <1>1, <1>5 DEF Stdio, Started, HostAt
<1> QED
  BY <1>3, <1>4, <1>5, <1>6, <1>7

-----------------------------------------------------------------------------
(* The command runtime.                                                      *)

\* The profile bounds the outputs of a valid request.
LEMMA OutputLimits ==
  ASSUME NEW request, ValidRequest(request)
  PROVE  \A s \in Outputs : request.limits[s] \in Nat /\ 0 <= request.limits[s]
<1>1. \A s \in Outputs : request.limits[s] \in 1..MaxLimits[s] /\ MaxLimits[s] \in Nat
  BY ProfileBounds DEF ValidRequest, ValidLimits
<1> QED
  BY <1>1

\* A request is prepared before there is a guest or a watchdog.
LEMMA PrepareKeeps ==
  ASSUME IInv, PrepareCommand
  PROVE  IInv'
<1> USE DEF IInv, ChildInv
<1>1. AllIdle /\ CommandAt("idle") /\ OnlyCommand /\ UNCHANGED <<artifact, guest>>
  BY DEF PrepareCommand, Prepare
<1>2. deadline = NoDeadline /\ guest = NoGuest /\ clock = "stopped"
  BY <1>1 DEF CommandInv, Watched, Child
<1>3. CASE CommandAt("returned")' /\ command' = [command EXCEPT !.at = "returned", !.result = command'.result]
           /\ UNCHANGED deadline
  <2>1. ~ HasElapsed /\ "at" \in DOMAIN command
    BY <1>1 DEF CommandInv, Called, Finishing, CommandAt, Types
  <2>2. ~ HasElapsed' /\ DOMAIN command' = DOMAIN command
    BY <1>3, <2>1 DEF HasElapsed
  <2>3. CommandInv'
    BY <1>1, <1>2, <1>3, <2>2 DEF CommandInv, Watched, Timed, Called, Receipted, HasReceipt, CommandAt,
           HasElapsed, Finishing, NoDeadline, NoGuest, artifact
  <2>4. Types'
    BY <1>1, <1>3, <2>2 DEF Types, OnlyCommand, pluginVars
  <2>5. ~ CommandAt("idle")' /\ UNCHANGED <<running, exit, reaped>>
    BY <1>1, <1>3 DEF CommandAt, artifact
  <2> QED
    BY <1>1, <2>3, <2>4, <2>5, OthersUntouched
<1>4. CASE \E request \in CommandRequests :
             /\ Refusal(request) = "none"
             /\ command' = [at |-> "prepared", result |-> "none", request |-> request]
             /\ deadline' = [NoDeadline EXCEPT !.at = "cancelled?"]
  <2>1. PICK request \in CommandRequests :
             /\ Refusal(request) = "none"
             /\ command' = [at |-> "prepared", result |-> "none", request |-> request]
             /\ deadline' = [NoDeadline EXCEPT !.at = "cancelled?"]
    BY <1>4
  <2>2. ValidRequest(request) /\ \A s \in Outputs : 0 <= request.limits[s]
    BY <2>1, OutputLimits DEF Refusal
  <2>3. CommandInv'
    BY <1>1, <1>2, <2>1, <2>2 DEF CommandInv, Watched, Timed, Called, Receipted, HasReceipt, CommandAt,
           HasElapsed, Finishing, NoDeadline, NoGuest, artifact
  <2>4. Types'
    BY <1>1, <2>1 DEF Types, Deadlines, OnlyCommand, pluginVars, NoDeadline
  <2>5. ~ CommandAt("idle")' /\ UNCHANGED <<running, exit, reaped>>
    BY <1>1, <2>1 DEF CommandAt, artifact
  <2> QED
    BY <1>1, <2>3, <2>4, <2>5, OthersUntouched
<1> QED
  BY <1>3, <1>4 DEF PrepareCommand, Prepare, CommandReturns, CommandAt, Types

\* Whatever keeps the command runtime's part in a prepared call keeps the whole.
LEMMA CommandParts ==
  ASSUME IInv, OnlyCommand, ~ CommandAt("idle"), UNCHANGED <<running, exit, reaped>>,
         ~ CommandAt("idle")', Types', CommandInv'
  PROVE  IInv'
BY OthersUntouched DEF IInv, ChildInv

\* The watchdog sets its flag, or moves the epoch, only when the time is up.
LEMMA WatchdogKeeps ==
  ASSUME IInv, RunWatchdog \/ WatchdogWakes
  PROVE  IInv'
<1> USE DEF IInv, ChildInv
<1>1. OnlyCommand /\ UNCHANGED <<artifact, command>>
  BY DEF RunWatchdog, WatchdogWakes, Watchdog, IncrementEpoch, WakesForNoReason
<1>2. deadline.at \notin {"none", "ended"}
  BY DEF RunWatchdog, WatchdogWakes, Watchdog, IncrementEpoch, WakesForNoReason
<1>3. command.at \in {"prepared", "call", "cancel", "join"}
  BY <1>2 DEF CommandInv, Watched, NoDeadline, CommandAt
<1>4. UNCHANGED <<running, exit, reaped, clock>> /\ ~ CommandAt("idle") /\ ~ CommandAt("idle")'
  BY <1>1, <1>3 DEF CommandAt, artifact
<1>5. /\ Types'
      /\ deadline.timedOut => deadline'.timedOut
      /\ deadline'.timedOut => deadline.timedOut \/ clock = "expired"
      /\ deadline'.at = "increment" => deadline'.timedOut
      /\ guest' = guest \/ (deadline.at = "increment" /\ guest' = [guest EXCEPT !.epoch = 1])
  <2>1. CASE Watchdog
    <3>1. CASE \E place \in {"ended", "started?", "park", "cancelled again?", "now", "park_timeout"} :
                 deadline' = [deadline EXCEPT !.at = place]
      BY <1>1, <2>1, <3>1 DEF Types, Deadlines, Watchdog, OnlyCommand, pluginVars
    <3>2. CASE \E place \in {"cancelled?", "cancelled again?"} :
                 deadline' = [deadline EXCEPT !.at = place, !.token = FALSE]
      BY <1>1, <2>1, <3>2 DEF Types, Deadlines, Watchdog, OnlyCommand, pluginVars
    <3>3. CASE /\ clock = "expired"
               /\ deadline' = [deadline EXCEPT !.at = "increment", !.timedOut = TRUE]
      BY <1>1, <2>1, <3>3 DEF Types, Deadlines, Watchdog, OnlyCommand, pluginVars
    <3> QED
      BY <2>1, <3>1, <3>2, <3>3 DEF Watchdog, Watches
  <2>2. CASE IncrementEpoch
    BY <1>1, <2>2 DEF Types, Deadlines, Guests, IncrementEpoch, Watches, OnlyCommand, pluginVars
  <2>3. CASE WakesForNoReason
    BY <1>1, <2>3 DEF Types, Deadlines, WakesForNoReason, Watches, OnlyCommand, pluginVars
  <2> QED
    BY <2>1, <2>2, <2>3 DEF RunWatchdog, WatchdogWakes
<1>6. /\ guest'.captured = guest.captured /\ guest'.ended = guest.ended /\ guest'.late = guest.late
      /\ guest'.epoch > 0 => guest.epoch > 0 \/ deadline.at = "increment"
  BY <1>5 DEF Types, Guests
<1>7. Watched'
  BY <1>1, <1>3 DEF Watched, CommandAt
<1>8. Timed'
  BY <1>1, <1>4, <1>5, <1>6 DEF CommandInv, Timed, CommandAt
<1>9. Called'
  BY <1>1, <1>3, <1>4, <1>6 DEF CommandInv, Called, HasElapsed, Finishing, CommandAt
<1>10. Receipted'
  BY <1>1, <1>3 DEF Receipted, HasReceipt, CommandAt
<1> QED
  BY <1>1, <1>4, <1>5, <1>7, <1>8, <1>9, <1>10, CommandParts DEF CommandInv

\* A guest is stopped only after the epoch has moved.
LEMMA GuestKeeps ==
  ASSUME IInv, RunGuest \/ StopGuest
  PROVE  IInv'
<1> USE DEF IInv, ChildInv
<1>1. /\ OnlyCommand /\ UNCHANGED <<artifact, command, deadline>>
      /\ CommandAt("call") /\ guest.ended = "none"
  BY DEF RunGuest, StopGuest, GuestStep, Interrupt, GuestWrites, GuestEnds, GuestRuns
<1>2. UNCHANGED <<running, exit, reaped, clock>> /\ ~ CommandAt("idle") /\ ~ CommandAt("idle")'
  BY <1>1 DEF CommandAt, artifact
<1>3. ~ HasElapsed
  BY <1>1 DEF CommandInv, Called, Finishing, CommandAt
<1>4. \A s \in Outputs : guest.captured[s] <= command.request.limits[s]
  BY <1>1 DEF CommandInv, Called, CommandAt
<1>5. ValidRequest(command.request) /\ \A s \in Outputs : command.request.limits[s] \in Nat
  BY <1>1, OutputLimits DEF CommandInv, Called, CommandAt
<1>6. ASSUME NEW stream \in Outputs, GuestWrites(stream)
      PROVE  Types' /\ CommandInv'
  <2>1. \/ guest' = [guest EXCEPT !.refused = @ \cup {stream}]
        \/ /\ guest.captured[stream] < command.request.limits[stream]
           /\ guest' = [guest EXCEPT !.captured[stream] = @ + 1]
    BY <1>6 DEF GuestWrites
  <2>2. /\ guest' \in Guests
        /\ guest'.ended = "none" /\ guest'.late = guest.late /\ guest'.epoch = guest.epoch
        /\ \A s \in Outputs : guest'.captured[s] <= command.request.limits[s]
    <3>1. CASE guest' = [guest EXCEPT !.refused = @ \cup {stream}]
      BY <1>1, <1>4, <3>1 DEF Types, Guests
    <3>2. CASE /\ guest.captured[stream] < command.request.limits[stream]
               /\ guest' = [guest EXCEPT !.captured[stream] = @ + 1]
      <4>1. guest.captured \in [Outputs -> Nat] /\ stream \in Outputs
        BY <1>6 DEF Types, Guests
      <4>2. guest'.captured = [guest.captured EXCEPT ![stream] = @ + 1]
        BY <3>2 DEF Types
      <4>3. guest'.captured \in [Outputs -> Nat]
        BY <4>1, <4>2
      <4>4. \A s \in Outputs : guest'.captured[s] <= command.request.limits[s]
        BY <1>4, <1>5, <3>2, <4>1, <4>2
      <4>5. /\ guest'.ended = "none" /\ guest'.late = guest.late /\ guest'.epoch = guest.epoch
            /\ guest'.refused = guest.refused
        BY <1>1, <3>2 DEF Types
      <4>6. guest' = [ended |-> guest.ended, late |-> guest.late, epoch |-> guest.epoch,
                      captured |-> guest'.captured, refused |-> guest.refused]
        BY <3>2 DEF Types, Guests
      <4> QED
        BY <4>3, <4>4, <4>5, <4>6 DEF Types, Guests
    <3> QED
      BY <2>1, <3>1, <3>2
  <2>3. Types'
    BY <1>1, <2>2 DEF Types, OnlyCommand, pluginVars
  <2> QED
    BY <1>1, <1>2, <1>3, <1>5, <2>2, <2>3 DEF CommandInv, Watched, Timed, Called, Receipted, HasReceipt,
       CommandAt, HasElapsed, Finishing
<1>7. ASSUME NEW how \in {"ok", "exit", "trap", "fuel", "interrupt"}, GuestEnds(how),
             how = "interrupt" => guest.epoch > 0
      PROVE  Types' /\ CommandInv'
  <2>1. /\ guest' \in Guests
        /\ guest'.ended = how /\ guest'.epoch = guest.epoch /\ guest'.captured = guest.captured
        /\ guest'.late => clock = "expired"
    BY <1>7 DEF GuestEnds, Types, Guests
  <2>2. Types'
    BY <1>1, <2>1 DEF Types, OnlyCommand, pluginVars
  <2>3. Watched'
    BY <1>1 DEF CommandInv, Watched, CommandAt
  <2>4. Timed'
    BY <1>1, <1>2, <1>7, <2>1 DEF CommandInv, Timed, CommandAt
  <2>5. Called'
    BY <1>1, <1>3, <1>4, <1>5, <2>1 DEF CommandInv, Called, HasElapsed, Finishing, CommandAt
  <2>6. Receipted'
    BY <1>1 DEF Receipted, HasReceipt, CommandAt
  <2> QED
    BY <2>2, <2>3, <2>4, <2>5, <2>6 DEF CommandInv
<1>8. Types' /\ CommandInv'
  BY <1>6, <1>7 DEF RunGuest, StopGuest, GuestStep, Interrupt
<1> QED
  BY <1>1, <1>2, <1>8, CommandParts

\* The caller classifies a call only when its watchdog has ended.
LEMMA ExecuteKeeps ==
  ASSUME IInv, RunCommand
  PROVE  IInv'
<1> USE DEF IInv, ChildInv
<1>1. /\ OnlyCommand /\ UNCHANGED <<running, exit, reaped, guest>>
      /\ command.at \in {"prepared", "call", "cancel", "join", "classify"}
  BY DEF RunCommand, CommandStep, Execute, DropPrepared, CallReturns, Finish, ExecuteReturns, CommandAt,
         artifact
<1>2. /\ "request" \in DOMAIN command /\ ValidRequest(command.request)
      /\ \A s \in Outputs : guest.captured[s] <= command.request.limits[s]
      /\ {"at", "result"} \subseteq DOMAIN command
  BY <1>1 DEF CommandInv, Called, Types
<1>3. ~ CommandAt("idle") /\ (HasElapsed => Finishing)
  BY <1>1 DEF CommandInv, Called, HasElapsed, CommandAt
<1>4. ASSUME Execute
      PROVE  Types' /\ CommandInv' /\ ~ CommandAt("idle")'
  <2>1. /\ command.at = "prepared" /\ command' = [command EXCEPT !.at = "call"] /\ clock' = "running"
        /\ deadline' = [[deadline EXCEPT !.token = TRUE] EXCEPT !.started = TRUE]
    BY <1>4 DEF Execute, CommandAt, CommandProceeds, Woken
  <2>2. /\ DOMAIN command' = DOMAIN command /\ command'.at = "call"
        /\ command'.result = command.result /\ command'.request = command.request
    BY <1>2, <2>1
  <2>3. Types' /\ deadline'.timedOut = deadline.timedOut /\ deadline'.at = deadline.at
    BY <1>1, <2>1, <2>2 DEF Types, Deadlines, OnlyCommand, pluginVars
  <2>4. guest = NoGuest /\ ~ deadline.timedOut /\ deadline.at # "increment" /\ ~ HasElapsed
    BY <1>3, <2>1 DEF CommandInv, Timed, CommandAt, Finishing
  <2> QED
    BY <1>1, <1>2, <2>1, <2>2, <2>3, <2>4 DEF CommandInv, Watched, Timed, Called, Receipted, HasReceipt,
       CommandAt, HasElapsed, Finishing, NoGuest
<1>5. ASSUME DropPrepared
      PROVE  Types' /\ CommandInv' /\ ~ CommandAt("idle")'
  <2>1. /\ command.at = "prepared" /\ command' = [command EXCEPT !.at = "cancel", !.result = "dropped"]
        /\ UNCHANGED <<clock, deadline>>
    BY <1>5 DEF DropPrepared, CommandAt, artifact
  <2>2. /\ DOMAIN command' = DOMAIN command /\ command'.at = "cancel"
        /\ command'.result = "dropped" /\ command'.request = command.request
    BY <1>2, <2>1
  <2>3. Types' /\ ~ HasElapsed
    BY <1>1, <1>3, <2>1, <2>2 DEF Types, OnlyCommand, pluginVars, Finishing
  <2> QED
    BY <1>1, <1>2, <2>1, <2>2, <2>3 DEF CommandInv, Watched, Timed, Called, Receipted, HasReceipt,
       CommandAt, HasElapsed, Finishing
<1>6. ASSUME CallReturns
      PROVE  Types' /\ CommandInv' /\ ~ CommandAt("idle")'
  <2>1. /\ command.at = "call" /\ guest.ended # "none" /\ UNCHANGED <<clock, deadline>>
        /\ command' = [at |-> "cancel", result |-> command.result, request |-> command.request,
                       elapsed |-> clock = "expired"]
    BY <1>6 DEF CallReturns, Timing, CommandAt, artifact
  <2>2. Types'
    BY <1>1, <2>1 DEF Types, OnlyCommand, pluginVars
  <2>3. /\ HasElapsed' /\ Finishing' /\ command'.elapsed = (clock = "expired")
        /\ command'.result = "none"
    BY <2>1 DEF CommandInv, Called, HasElapsed, Finishing
  <2>4. Called'
    BY <1>1, <1>2, <2>1, <2>3 DEF CommandInv, Called, Timed, HasElapsed, Finishing, CommandAt
  <2> QED
    BY <1>1, <2>1, <2>2, <2>4 DEF CommandInv, Watched, Timed, Receipted, HasReceipt, CommandAt
<1>7. ASSUME Finish
      PROVE  Types' /\ CommandInv' /\ ~ CommandAt("idle")'
  <2>1. /\ UNCHANGED clock
        /\ \/ /\ command.at = "cancel" /\ command' = [command EXCEPT !.at = "join"]
              /\ deadline' = [[deadline EXCEPT !.token = TRUE] EXCEPT !.cancelled = TRUE]
           \/ /\ command.at = "join" /\ command' = [command EXCEPT !.at = "classify"]
              /\ deadline' = deadline /\ deadline.at = "ended"
    BY <1>7 DEF Finish, CommandAt, CommandProceeds, Woken, artifact
  <2>2. /\ DOMAIN command' = DOMAIN command /\ command'.at \in {"join", "classify"}
        /\ command'.at = "classify" => deadline.at = "ended"
        /\ command'.result = command.result /\ command'.request = command.request
        /\ HasElapsed => command'.elapsed = command.elapsed
    BY <1>2, <2>1 DEF HasElapsed
  <2>3. Types' /\ deadline'.timedOut = deadline.timedOut /\ deadline'.at = deadline.at
    BY <1>1, <2>1, <2>2 DEF Types, Deadlines, OnlyCommand, pluginVars
  <2>4. Watched'
    BY <2>1, <2>2, <2>3 DEF Watched, CommandAt
  <2>5. Timed'
    BY <1>1, <2>1, <2>2, <2>3 DEF CommandInv, Timed, CommandAt
  <2>6. Called'
    BY <1>1, <1>2, <2>1, <2>2 DEF CommandInv, Called, HasElapsed, Finishing, CommandAt
  <2> QED
    BY <2>2, <2>3, <2>4, <2>5, <2>6 DEF CommandInv, Receipted, HasReceipt, CommandAt
<1>8. ASSUME ExecuteReturns
      PROVE  Types' /\ CommandInv' /\ ~ CommandAt("idle")'
  <2> DEFINE receipt ==
        [captured |-> guest.captured, limits |-> command.request.limits,
         termination |-> Termination(guest.ended, deadline.timedOut \/ command.elapsed,
                                     ReachedLimits(guest.captured, command.request.limits))]
  <2>1. /\ command.at = "classify" /\ UNCHANGED <<clock, deadline>>
        /\ command' = [command EXCEPT !.at = "returned",
                         !.result = IF command.result = "dropped" THEN "dropped" ELSE receipt]
    BY <1>8 DEF ExecuteReturns, CommandReturns, CommandAt, artifact
  <2> HIDE DEF receipt
  <2>2. /\ DOMAIN command' = DOMAIN command /\ command'.at = "returned"
        /\ command'.request = command.request
        /\ HasElapsed => command'.elapsed = command.elapsed
        /\ command.result # "dropped" => command'.result = receipt
    BY <1>2, <2>1 DEF HasElapsed
  <2>3. Types'
    BY <1>1, <2>1, <2>2 DEF Types, OnlyCommand, pluginVars
  <2>4. Watched' /\ Timed'
    BY <1>1, <2>1, <2>2 DEF CommandInv, Watched, Timed, CommandAt
  <2>5. Called'
    BY <1>1, <1>2, <2>1, <2>2 DEF CommandInv, Called, HasElapsed, Finishing, CommandAt
  <2>6. ASSUME HasReceipt' PROVE command'.result = receipt /\ HasElapsed
    BY <2>1, <2>2, <2>6 DEF CommandInv, Called, HasReceipt, HasElapsed, Finishing
  <2>7. Receipted'
    BY <1>1, <1>2, <2>1, <2>2, <2>6 DEF Receipted, receipt
  <2> QED
    BY <2>2, <2>3, <2>4, <2>5, <2>7 DEF CommandInv, CommandAt
<1> QED
  BY <1>1, <1>3, <1>4, <1>5, <1>6, <1>7, <1>8, CommandParts DEF RunCommand, CommandStep

-----------------------------------------------------------------------------
(* The theorems.                                                             *)

\* The inductive invariant: at every place of every call, what the host, the
\* artifact and the watchdog are doing fit together.
THEOREM Invariant == Spec => []IInv
<1>1. ASSUME Init PROVE IInv
  <2>1. Types
    BY <1>1 DEF Init, Types, Deadlines, Guests, NotStarted, NoWaiter, NoCommand, NoGuest, NoDeadline
  <2>2. Turns
    BY <1>1 DEF Init, Turns, HostAt, PluginAt, CommandAt, NotInvoked, NotStarted, NoWaiter, NoCommand
  <2>3. Child
    BY <1>1 DEF Init, Child, NoArtifact
  <2>4. Stdio
    BY <1>1 DEF Init, Stdio, Started, HostAt, NotInvoked
  <2>5. command.at = "idle" /\ command.result = "none" /\ DOMAIN command = {"at", "result"}
    BY <1>1 DEF Init, NoCommand
  <2>6. Watched /\ Timed
    BY <1>1, <2>5 DEF Init, Watched, Timed, CommandAt, NoGuest, NoDeadline
  <2>7. Called /\ Receipted
    BY <2>5 DEF Called, Receipted, HasReceipt, HasElapsed, Finishing, CommandAt
  <2> QED
    BY <2>1, <2>2, <2>3, <2>4, <2>6, <2>7 DEF IInv, ChildInv, CommandInv
<1>2. IInv /\ [Next]_vars => IInv'
  <2>1. ASSUME IInv, UNCHANGED vars PROVE IInv'
    <3>1. UNCHANGED <<artifact, host, plugin, waiter, command, guest, deadline>>
      BY <2>1 DEF vars, hostVars, pluginVars, commandVars
    <3>2. CommandInv'
      BY <2>1, <3>1, CommandUntouched DEF IInv, ChildInv, commandVars, artifact
    <3>3. Types'
      BY <2>1, <3>1 DEF IInv, ChildInv, Types
    <3>5. Turns'
      BY <2>1, <3>1 DEF IInv, ChildInv, Turns, HostAt, PluginAt, CommandAt
    <3>4. Child' /\ Stdio'
      BY <2>1, <3>1 DEF IInv, ChildInv, Child, Stdio, Started, AllIdle, HostAt, PluginAt, CommandAt, artifact
    <3> QED
      BY <3>2, <3>3, <3>4, <3>5 DEF IInv, ChildInv
  <2> QED
    BY <2>1, StdioKeeps, PluginKeeps, ArtifactKeeps, PrepareKeeps, WatchdogKeeps, GuestKeeps, ExecuteKeeps
       DEF Next
<1> QED
  BY <1>1, <1>2, PTL DEF Spec

\* No call of local_stdio.rs returns while a child it started has not been
\* waited for, and no call of the command runtime while its watchdog runs.
THEOREM NoChildLeftTheorem == Spec => []NoChildLeft
<1>1. IInv => NoChildLeft
  BY DEF IInv, ChildInv, CommandInv, Child, Stdio, Started, Watched, NoChildLeft, HostAt, CommandAt
<1> QED
  BY <1>1, Invariant, PTL

\* Every receipt passes the validation of receipts that are read back, and says
\* why its guest ended, whatever the guest does and however the watchdog's
\* thread is scheduled.
THEOREM ReceiptsAreTrueTheorem == Spec => []ReceiptsAreTrue
<1>1. IInv => ReceiptsAreTrue
  <2> SUFFICES ASSUME IInv, HasReceipt PROVE ReceiptsAreTrue
    BY DEF ReceiptsAreTrue
  <2> USE DEF IInv, ChildInv, CommandInv
  <2> DEFINE reached == ReachedLimits(guest.captured, command.request.limits)
             timed == deadline.timedOut \/ command.elapsed
  <2>1. /\ command.result = [captured |-> guest.captured, limits |-> command.request.limits,
                             termination |-> Termination(guest.ended, timed, reached)]
        /\ ValidRequest(command.request)
        /\ \A s \in Outputs : guest.captured[s] <= command.request.limits[s]
    BY DEF Receipted
  <2>2. HasElapsed /\ command.elapsed \in BOOLEAN
    BY DEF HasReceipt, HasElapsed, Called
  <2>3. reached \subseteq Outputs
    BY DEF ReachedLimits
  <2>4. /\ guest.late => timed
        /\ timed => clock = "expired"
        /\ guest.ended = "interrupt" => timed
        /\ guest.ended \in {"ok", "exit", "trap", "fuel", "interrupt"}
    BY <2>2 DEF Called, Timed, Types, Guests
  <2> HIDE DEF reached, timed
  <2>5. /\ "timed_out" \in Causes <=> timed
        /\ "fuel_exhausted" \in Causes <=> guest.ended = "fuel"
        /\ Causes \cap Outputs = reached
        /\ Kind = "enforced" <=> Causes # {}
        /\ Kind = "trapped" => ~ timed /\ guest.ended \notin {"ok", "exit", "fuel"}
    <3> DEFINE causes == (IF timed THEN {"timed_out"} ELSE {})
                           \cup (IF guest.ended = "fuel" THEN {"fuel_exhausted"} ELSE {}) \cup reached
               termination == command.result.termination
    <3>1. termination = IF causes # {} THEN [kind |-> "enforced", causes |-> causes]
                        ELSE [kind |-> IF guest.ended = "ok" THEN "returned"
                                       ELSE IF guest.ended = "exit" THEN "guest_exit" ELSE "trapped",
                              causes |-> {}]
      BY <2>1 DEF Termination
    <3>2. /\ "timed_out" \in causes <=> timed
          /\ "fuel_exhausted" \in causes <=> guest.ended = "fuel"
          /\ causes \cap Outputs = reached
      BY <2>3 DEF Outputs
    <3> HIDE DEF causes
    <3>3. CASE causes # {}
      BY <3>1, <3>2, <3>3 DEF Causes, Kind
    <3>4. CASE causes = {}
      BY <3>1, <3>2, <3>4 DEF Causes, Kind
    <3> QED
      BY <3>3, <3>4
  <2>6. ValidReceipt(command.result, command.request)
    <3>1. ReachedLimits(command.result.captured, command.request.limits) = reached
      BY <2>1 DEF reached
    <3>2. Kind # "enforced" => reached = {}
      BY <2>5
    <3>3. /\ command.result.limits = command.request.limits
          /\ \A s \in Outputs : command.result.captured[s] <= command.request.limits[s]
      BY <2>1
    <3> QED
      BY <2>1, <2>5, <3>1, <3>2, <3>3 DEF ValidReceipt, Kind, Causes
  <2> QED
    BY <2>4, <2>5, <2>6 DEF ReceiptsAreTrue
<1> QED
  BY <1>1, Invariant, PTL

-----------------------------------------------------------------------------
(* The contents of pipes: what was read, and what can still be written.      *)

\* Processes, their pipes and how the child ended.
PipeTypes ==
  /\ running \subseteq Programs /\ DOMAIN ends = Programs \cup {"host"}
  /\ pipe \in [Streams -> Nat] /\ wrote \in [Streams -> Nat]
  /\ exit \in {"none", "ok", "bad"}

\* Before a host runs its artifact, nothing was written.
Fresh ==
  AllIdle => /\ \A stream \in Streams : pipe[stream] = 0 /\ wrote[stream] = 0
             /\ host = NotInvoked /\ plugin = NotStarted /\ waiter = NoWaiter

\* What was read of an output and what is left in its pipe is all that was
\* written to it.
Accounted(got) == got \in [Outputs -> Nat] /\ \A s \in Outputs : got[s] + pipe[s] = wrote[s]

\* The stdio host knows the end of each output it has seen, whether the whole
\* request was written, and how the child has ended.
StdioPipes ==
  Started =>
    /\ DOMAIN host = {"at", "request", "offset", "got", "eof", "status", "result"}
    /\ Accounted(host.got)
    /\ host.eof \subseteq Outputs /\ \A stream \in host.eof : AtEnd(stream)
    /\ host.request \in Nat /\ host.offset \in 0..host.request /\ wrote["in"] = host.offset
    /\ ~ HostAt("returned") /\ "in" \notin ends["host"] => host.offset = host.request
    /\ host.status \in {"none", exit}

\* Answers are given when everything was read; other results when it was clear
\* that they would not be.
Answers == {"ok", "response_json", "empty_response", "artifact_exit"}
Done == host.eof = Outputs /\ host.offset = host.request /\ host.status # "none"
StdioResults ==
  /\ ~ Started => host.result \in {"none", "stdin_limit", "not_started"}
  /\ host.at \notin {"kill", "reap", "drop", "returned"} => host.result = "none"
  /\ HostAt("answer") \/ host.result \in Answers => Started /\ Done
  /\ host.result \in Answers => (host.status = "ok" <=> host.result # "artifact_exit")
  /\ host.result = "empty_response" => host.got["out"] = 0
  /\ host.result = "write_stdin" => ~ ArtifactHolds("in") /\ host.offset < host.request
  /\ host.result = "stdout_limit" => host.got["out"] > Limit["out"]
  /\ host.result = "stderr_limit" => host.got["err"] > Limit["err"]
  /\ host.result = "timed_out" => clock = "expired"

\* The plugin host's thread sends what it has read when nothing can come any
\* more, and the child is gone.
PluginPipes ==
  ~ PluginAt("idle") =>
    /\ DOMAIN plugin = {"at", "left", "result"} /\ DOMAIN waiter = {"at", "got", "status"}
    /\ Accounted(waiter.got) /\ plugin.left \in Nat
    /\ plugin.at \in {"write", "receive", "returned"}
    /\ ~ PluginAt("returned") => plugin.result = "none"
    /\ PluginAt("receive") => plugin.left = 0
    /\ PluginAt("write") => waiter.at = "none"
    /\ waiter.at = "sent" =>
         (\A stream \in Outputs : AtEnd(stream)) /\ waiter.status = exit /\ exit # "none" /\ reaped
    /\ plugin.result = "ok" => plugin.left = 0 /\ waiter.at = "sent" /\ waiter.status = "ok"

\* Output of a command is refused only once its capacity is filled.
Filled ==
  guest.refused # {} =>
    /\ "request" \in DOMAIN command
    /\ \A s \in guest.refused : guest.captured[s] = command.request.limits[s]

PipeInv == PipeTypes /\ Fresh /\ StdioPipes /\ StdioResults /\ PluginPipes /\ Filled

-----------------------------------------------------------------------------
(* What a step leaves true of the pipes.                                     *)

\* Nothing but a process that holds an output adds to it, no end is taken up
\* again, and a child that has ended does not end otherwise.
OnlyAdds ==
  /\ wrote'["in"] = wrote["in"]
  /\ \A s \in Outputs :
       \/ pipe'[s] = pipe[s] /\ wrote'[s] = wrote[s]
       \/ ArtifactHolds(s) /\ pipe'[s] = pipe[s] + 1 /\ wrote'[s] = wrote[s] + 1
  /\ \A s \in Streams : ArtifactHolds(s)' => ArtifactHolds(s)
  /\ exit # "none" => exit' = exit

\* Such a step keeps every account of what was read, and every end that was seen.
LEMMA AccountsKept ==
  ASSUME PipeTypes, PipeTypes', OnlyAdds
  PROVE  /\ \A got : Accounted(got) => Accounted(got)'
         /\ \A s \in Outputs : AtEnd(s) => AtEnd(s)'
<1>1. \A s \in Outputs : s \in Streams /\ pipe[s] \in Nat /\ wrote[s] \in Nat
  BY DEF PipeTypes, Streams
<1>2. ASSUME NEW got, Accounted(got) PROVE Accounted(got)'
  <2>1. \A s \in Outputs : got[s] \in Nat /\ got[s] + pipe[s] = wrote[s]
    BY <1>2 DEF Accounted
  <2>2. \A s \in Outputs : got[s] + pipe'[s] = wrote'[s]
    BY <1>1, <2>1 DEF OnlyAdds
  <2> QED
    BY <1>2, <2>2 DEF Accounted
<1>3. ASSUME NEW s \in Outputs, AtEnd(s) PROVE AtEnd(s)'
  <2>1. pipe[s] = 0 /\ ~ ArtifactHolds(s)
    BY <1>3 DEF AtEnd
  <2>2. pipe'[s] = 0 /\ ~ ArtifactHolds(s)'
    BY <1>1, <1>3, <2>1 DEF OnlyAdds
  <2> QED
    BY <2>2 DEF AtEnd
<1> QED
  BY <1>2, <1>3

\* The artifact does nothing else.
LEMMA ArtifactOnlyAdds ==
  ASSUME PipeTypes, Child, ArtifactStep
  PROVE  /\ PipeTypes' /\ OnlyAdds /\ ends'["host"] = ends["host"] /\ UNCHANGED <<reaped, clock>>
<1>1. UNCHANGED <<reaped, clock>>
  BY DEF ArtifactStep
<1>2. \A s \in Streams : pipe[s] \in Nat /\ wrote[s] \in Nat
  BY DEF PipeTypes
<1>3. ASSUME NEW program \in running, Reads(program)
      PROVE  PipeTypes' /\ OnlyAdds /\ ends'["host"] = ends["host"]
  <2>1. UNCHANGED <<running, ends, wrote, exit>> /\ pipe["in"] > 0
        /\ pipe' = [pipe EXCEPT !["in"] = @ - 1]
    BY <1>3 DEF Reads
  <2>2. pipe["in"] \in Nat
    BY <1>2 DEF Streams
  <2>3. pipe["in"] - 1 \in Nat
    BY <2>1, <2>2
  <2>4. pipe' \in [Streams -> Nat] /\ \A s \in Outputs : pipe'[s] = pipe[s]
    BY <2>1, <2>3 DEF PipeTypes, Outputs, Streams
  <2> QED
    BY <2>1, <2>4 DEF PipeTypes, OnlyAdds, ArtifactHolds
<1>4. ASSUME NEW program \in running, NEW stream \in Outputs, Writes(program, stream)
      PROVE  PipeTypes' /\ OnlyAdds /\ ends'["host"] = ends["host"]
  <2>1. /\ UNCHANGED <<running, ends, exit>> /\ stream \in ends[program]
        /\ pipe' = [pipe EXCEPT ![stream] = @ + 1]
        /\ wrote' = [wrote EXCEPT ![stream] = @ + 1]
    BY <1>4 DEF Writes
  <2>2. stream \in Streams /\ stream # "in"
    BY DEF Streams, Outputs
  <2>3. pipe[stream] + 1 \in Nat /\ wrote[stream] + 1 \in Nat
    BY <1>2, <2>2
  <2>4. pipe' \in [Streams -> Nat] /\ wrote' \in [Streams -> Nat]
    BY <2>1, <2>3 DEF PipeTypes
  <2>5. ArtifactHolds(stream)
    BY <2>1 DEF ArtifactHolds, PipeTypes
  <2>6. wrote'["in"] = wrote["in"]
    BY <2>1, <2>2 DEF PipeTypes, Streams
  <2>7. \A s \in Outputs : \/ s = stream /\ pipe'[s] = pipe[s] + 1 /\ wrote'[s] = wrote[s] + 1
                           \/ s # stream /\ pipe'[s] = pipe[s] /\ wrote'[s] = wrote[s]
    BY <2>1, <2>2 DEF PipeTypes, Streams
  <2> QED
    BY <2>1, <2>4, <2>5, <2>6, <2>7 DEF PipeTypes, OnlyAdds, ArtifactHolds
<1>5. ASSUME NEW program \in running, NEW stream \in Streams, Closes(program, stream)
      PROVE  PipeTypes' /\ OnlyAdds /\ ends'["host"] = ends["host"]
  <2>1. /\ UNCHANGED <<running, pipe, wrote, exit>>
        /\ ends' = [ends EXCEPT ![program] = @ \ {stream}]
    BY <1>5 DEF Closes
  <2>2. program \in Programs /\ program # "host"
    BY DEF PipeTypes, Programs
  <2>3. /\ DOMAIN ends' = DOMAIN ends /\ ends'["host"] = ends["host"]
        /\ \A p \in Programs : ends'[p] \subseteq ends[p]
    BY <2>1, <2>2 DEF PipeTypes
  <2> QED
    BY <2>1, <2>3 DEF PipeTypes, OnlyAdds, ArtifactHolds
<1>6. ASSUME NEW program \in running, Exits(program)
      PROVE  PipeTypes' /\ OnlyAdds /\ ends'["host"] = ends["host"]
  <2>1. /\ UNCHANGED <<pipe, wrote>> /\ running' = running \ {program}
        /\ ends' = [ends EXCEPT ![program] = {}]
        /\ exit' \in IF program = "child" THEN {"ok", "bad"} ELSE {exit}
    BY <1>6 DEF Exits
  <2>2. program \in Programs /\ program # "host"
    BY DEF PipeTypes, Programs
  <2>3. /\ DOMAIN ends' = DOMAIN ends /\ ends'["host"] = ends["host"]
        /\ \A p \in Programs : ends'[p] \subseteq ends[p]
    BY <2>1, <2>2 DEF PipeTypes
  <2>4. exit' \in {"none", "ok", "bad"} /\ (exit # "none" => exit' = exit)
    BY <2>1 DEF PipeTypes, Child
  <2> QED
    BY <2>1, <2>3, <2>4 DEF PipeTypes, OnlyAdds, ArtifactHolds
<1>7. ASSUME StartsAnother
      PROVE  PipeTypes' /\ OnlyAdds /\ ends'["host"] = ends["host"]
  <2>1. /\ UNCHANGED <<pipe, wrote, exit>> /\ running' = Programs
        /\ ends' = [ends EXCEPT !["descendant"] = ends["child"]]
    BY <1>7 DEF StartsAnother
  <2>2. /\ DOMAIN ends' = DOMAIN ends /\ ends'["host"] = ends["host"]
        /\ ends'["child"] = ends["child"] /\ ends'["descendant"] = ends["child"]
    BY <2>1 DEF PipeTypes, Programs
  <2> QED
    BY <2>1, <2>2 DEF PipeTypes, OnlyAdds, ArtifactHolds, Programs
<1> QED
  BY <1>1, <1>3, <1>4, <1>5, <1>6, <1>7 DEF ArtifactStep

-----------------------------------------------------------------------------
(* The pipes of the stdio host.                                              *)

\* A step of the stdio host in which it learns nothing new of the artifact.
HostKept ==
  /\ DOMAIN host' = DOMAIN host
  /\ host'.request = host.request /\ host'.offset = host.offset /\ host'.got = host.got
  /\ host'.eof = host.eof /\ host'.status = host.status

\* What the host knows of the pipes stays so in a step that only adds to them.
LEMMA StdioFrame ==
  ASSUME Started, StdioPipes, PipeTypes, PipeTypes', OnlyAdds, HostKept,
         HostAt("returned")' \/ (~ HostAt("returned") /\ ends'["host"] = ends["host"])
  PROVE  Started' /\ StdioPipes'
<1>1. Started'
  BY DEF Started, HostKept
<1>2. Accounted(host.got)' /\ (\A stream \in host.eof : AtEnd(stream)) '
  <2>1. Accounted(host.got) /\ \A stream \in host.eof : stream \in Outputs /\ AtEnd(stream)
    BY DEF StdioPipes
  <2>2. \A got : Accounted(got) => got \in [Outputs -> Nat] /\ \A s \in Outputs : got[s] + pipe'[s] = wrote'[s]
    BY AccountsKept DEF Accounted
  <2>3. \A s \in Outputs : AtEnd(s) => AtEnd(s)'
    BY AccountsKept
  <2>4. host'.got = host.got /\ host'.eof = host.eof
    BY DEF HostKept
  <2>5. Accounted(host.got)'
    BY <2>1, <2>2, <2>4 DEF Accounted
  <2> QED
    BY <2>1, <2>3, <2>4, <2>5
<1>3. host.status \in {"none", exit} => host'.status \in {"none", exit'}
  BY DEF HostKept, OnlyAdds
<1>4. wrote'["in"] = wrote["in"]
  BY DEF OnlyAdds
<1>5. ~ HostAt("returned")' /\ "in" \notin ends'["host"] => ~ HostAt("returned") /\ "in" \notin ends["host"]
  OBVIOUS
<1> QED
  BY <1>1, <1>2, <1>3, <1>4, <1>5 DEF StdioPipes, HostKept

\* What a call has answered, or failed with, stays true of it.
LEMMA ResultsFrame ==
  ASSUME Started, StdioResults, PipeTypes, OnlyAdds, HostKept, host'.result = host.result,
         host'.at \notin {"kill", "reap", "drop", "returned"} =>
           host.at \notin {"kill", "reap", "drop", "returned"},
         host'.at = "answer" => host.at = "answer",
         clock = "expired" => clock' = "expired"
  PROVE  StdioResults'
<1>1. Started'
  BY DEF Started, HostKept
<1>2. ~ ArtifactHolds("in") => ~ ArtifactHolds("in")'
  BY DEF OnlyAdds, Streams
<1>3. Done <=> Done'
  BY DEF Done, HostKept
<1>4. HostAt("answer")' => HostAt("answer")
  BY DEF HostAt
<1> QED
  BY <1>1, <1>2, <1>3, <1>4 DEF StdioResults, HostKept

\* run_artifact up to its loop: nothing was read or written yet.
LEMMA LaunchesWhole ==
  ASSUME IInv, PipeInv, LaunchStdio
  PROVE  PipeTypes' /\ StdioPipes' /\ StdioResults' /\ ~ HostAt("idle")'
<1>1. HostAt("idle") /\ AllIdle /\ Launch
  BY DEF LaunchStdio, AllIdle
<1>2. /\ exit = "none" /\ running = {} /\ PipeTypes
      /\ \A s \in Streams : pipe[s] = 0 /\ wrote[s] = 0
  BY <1>1 DEF IInv, ChildInv, Child, PipeInv, Fresh
<1>3. PICK size \in Sizes :
        \/ UNCHANGED artifact /\ \E result \in {"stdin_limit", "not_started"} :
             host' = [NotInvoked EXCEPT !.at = "returned", !.result = result]
        \/ Spawn /\ (\/ host' = Invoked(size)
                     \/ host' = [Invoked(size) EXCEPT !.at = "kill", !.result = "configure_pipe"])
  BY <1>1 DEF Launch
<1>4. CASE UNCHANGED artifact /\ \E result \in {"stdin_limit", "not_started"} :
             host' = [NotInvoked EXCEPT !.at = "returned", !.result = result]
  <2>1. PICK result \in {"stdin_limit", "not_started"} : host' = [at |-> "returned", result |-> result]
    BY <1>4 DEF NotInvoked
  <2>2. ~ Started' /\ host'.at = "returned" /\ host'.result \in {"stdin_limit", "not_started"}
    BY <2>1 DEF Started
  <2>3. PipeTypes'
    BY <1>2, <1>4 DEF PipeTypes, artifact
  <2> QED
    BY <2>2, <2>3 DEF StdioPipes, StdioResults, Answers, HostAt
<1>5. CASE Spawn /\ (\/ host' = Invoked(size)
                     \/ host' = [Invoked(size) EXCEPT !.at = "kill", !.result = "configure_pipe"])
  <2>1. PICK place \in {"deadline", "kill"}, result \in {"none", "configure_pipe"} :
          /\ host' = [at |-> place, request |-> size, offset |-> 0, got |-> [stream \in Outputs |-> 0],
                      eof |-> {}, status |-> "none", result |-> result]
          /\ place = "deadline" => result = "none"
    <3>1. CASE host' = Invoked(size)
      BY <3>1 DEF Invoked
    <3>2. CASE host' = [Invoked(size) EXCEPT !.at = "kill", !.result = "configure_pipe"]
      BY <3>2 DEF Invoked
    <3> QED
      BY <1>5, <3>1, <3>2
  <2>2. PipeTypes' /\ "in" \in ends'["host"] /\ UNCHANGED <<pipe, wrote, exit>>
    BY <1>2, <1>5 DEF PipeTypes, Spawn, Programs, Streams
  <2>3. /\ DOMAIN host' = {"at", "request", "offset", "got", "eof", "status", "result"}
        /\ host'.at \in {"deadline", "kill"} /\ host'.request = size /\ host'.offset = 0
        /\ host'.got = [stream \in Outputs |-> 0] /\ host'.eof = {} /\ host'.status = "none"
        /\ host'.result \in {"none", "configure_pipe"}
        /\ host'.at = "deadline" => host'.result = "none"
    BY <2>1
  <2>4. Accounted(host.got)'
    BY <1>2, <2>2, <2>3 DEF Accounted, Streams
  <2>5. size \in Nat
    BY Lengths
  <2>6. wrote'["in"] = 0
    BY <1>2, <2>2 DEF Streams
  <2>7. StdioPipes'
    BY <2>2, <2>3, <2>4, <2>5, <2>6 DEF StdioPipes
  <2>8. StdioResults'
    BY <2>3 DEF StdioResults, Started, HostAt, Answers
  <2> QED
    BY <2>2, <2>3, <2>7, <2>8 DEF HostAt
<1> QED
  BY <1>3, <1>4, <1>5

\* A failure leaves the rest of the call as it is.
LEMMA FailKeeps ==
  ASSUME Started, StdioPipes, NEW failure, Fail(failure)
  PROVE  HostKept /\ host'.at \in {"kill", "drop"} /\ host'.result = failure
<1> DEFINE place == IF host.status = "none" THEN "kill" ELSE "drop"
<1>1. host' = [[host EXCEPT !.at = place] EXCEPT !.result = failure]
  BY DEF Fail
<1>2. place \in {"kill", "drop"}
  OBVIOUS
<1>3. DOMAIN host = {"at", "request", "offset", "got", "eof", "status", "result"}
  BY DEF StdioPipes
<1> HIDE DEF place
<1> QED
  BY <1>1, <1>2, <1>3 DEF HostKept

\* Going on to the next place of the loop changes nothing else.
LEMMA ProceedKeeps ==
  ASSUME Started, StdioPipes, NEW place, Proceed(place)
  PROVE  HostKept /\ host'.at = place /\ host'.result = host.result
BY DEF StdioPipes, Proceed, HostKept

\* A write of part of a request adds it to the pipe of the input, and no more.
LEMMA WritesOnlyAdd ==
  ASSUME PipeTypes, NEW left, NEW n \in Room(left), left \in Nat, Send(n)
  PROVE  pipe' \in [Streams -> Nat] /\ wrote' \in [Streams -> Nat]
         /\ n \in 0..left /\ wrote'["in"] = wrote["in"] + n
         /\ \A s \in Outputs : pipe'[s] = pipe[s] /\ wrote'[s] = wrote[s]
<1>1. n \in 0..left
  BY DEF Room
<1>2. n \in Nat /\ pipe["in"] \in Nat /\ wrote["in"] \in Nat
  BY <1>1 DEF PipeTypes, Streams
<1>3. pipe["in"] + n \in Nat /\ wrote["in"] + n \in Nat
  BY <1>2
<1>4. /\ pipe' = [pipe EXCEPT !["in"] = pipe["in"] + n]
      /\ wrote' = [wrote EXCEPT !["in"] = wrote["in"] + n]
  BY DEF Send
<1> QED
  BY <1>1, <1>3, <1>4 DEF PipeTypes, Streams, Outputs

\* A step that leaves the contents of the pipes alone and gives up ends of them.
LEMMA UnchangedOnlyAdds ==
  ASSUME PipeTypes, UNCHANGED <<running, pipe, wrote>>, DOMAIN ends' = DOMAIN ends,
         \A p \in Programs : ends'[p] \subseteq ends[p],
         exit' = exit \/ (exit = "none" /\ exit' = "bad")
  PROVE  PipeTypes' /\ OnlyAdds
BY DEF PipeTypes, OnlyAdds, ArtifactHolds

\* A failure is reported when what it says is so.
LEMMA FailResults ==
  ASSUME Started, StdioPipes, NEW failure, Fail(failure),
         failure \in {"timed_out", "write_stdin", "read_output", "stdout_limit", "stderr_limit"},
         failure = "timed_out" => clock' = "expired",
         failure = "write_stdin" => ~ ArtifactHolds("in")' /\ host.offset < host.request,
         failure = "stdout_limit" => host.got["out"] > Limit["out"],
         failure = "stderr_limit" => host.got["err"] > Limit["err"]
  PROVE  StdioResults'
<1>1. HostKept /\ host'.at \in {"kill", "drop"} /\ host'.result = failure /\ Started'
  BY FailKeeps DEF HostKept, Started
<1> QED
  BY <1>1 DEF StdioResults, HostKept, HostAt, Answers

\* The check of the deadline, which fails the call only once the time is up.
LEMMA DeadlineKeeps ==
  ASSUME Started, PipeTypes, StdioPipes, StdioResults, CheckDeadline
  PROVE  PipeTypes' /\ StdioPipes' /\ StdioResults'
<1>1. UNCHANGED <<running, ends, pipe, wrote, exit, clock>> /\ host.at = "deadline"
  BY DEF CheckDeadline, artifact, HostAt
<1>2. PipeTypes' /\ OnlyAdds
  BY <1>1, UnchangedOnlyAdds
<1>3. CASE clock = "expired" /\ Fail("timed_out")
  <2>1. HostKept
    BY <1>3, FailKeeps
  <2>2. StdioPipes'
    BY <1>1, <1>2, <2>1, StdioFrame DEF HostAt
  <2>3. StdioResults'
    BY <1>1, <1>3, FailResults
  <2> QED
    BY <1>2, <2>2, <2>3
<1>4. CASE Proceed("write")
  <2>1. HostKept /\ host'.at = "write" /\ host'.result = host.result
    BY <1>4, ProceedKeeps
  <2>2. StdioPipes'
    BY <1>1, <1>2, <2>1, StdioFrame DEF HostAt
  <2>3. StdioResults'
    BY <1>1, <1>2, <2>1, ResultsFrame
  <2> QED
    BY <1>2, <2>2, <2>3
<1> QED
  BY <1>3, <1>4 DEF CheckDeadline

\* write_available: the end of the pipe is given up with the last unit.
LEMMA WriteKeeps ==
  ASSUME Started, PipeTypes, StdioPipes, StdioResults, WriteInput
  PROVE  PipeTypes' /\ StdioPipes' /\ StdioResults'
<1> DEFINE left == host.request - host.offset
<1>1. /\ UNCHANGED <<running, exit, clock>> /\ host.at = "write" /\ host.result = "none"
  BY DEF WriteInput, HostAt, StdioResults
<1>2. /\ host.request \in Nat /\ host.offset \in 0..host.request /\ wrote["in"] = host.offset
      /\ left \in Nat /\ host.offset + left = host.request
  BY DEF StdioPipes
<1>3. ASSUME left > 0, ~ ArtifactHolds("in"), Fail("write_stdin"), UNCHANGED <<ends, pipe, wrote>>
      PROVE  PipeTypes' /\ StdioPipes' /\ StdioResults'
  <2>1. PipeTypes' /\ OnlyAdds
    BY <1>1, <1>3, UnchangedOnlyAdds
  <2>2. HostKept
    BY <1>3, FailKeeps
  <2>3. StdioPipes'
    BY <1>1, <1>3, <2>1, <2>2, StdioFrame DEF HostAt
  <2>4. host.offset < host.request /\ ~ ArtifactHolds("in")'
    BY <1>2, <1>3 DEF ArtifactHolds
  <2>5. StdioResults'
    BY <1>3, <2>4, FailResults
  <2> QED
    BY <2>1, <2>3, <2>5
<1>4. ASSUME NEW n \in Room(left), Send(n),
             host' = [host EXCEPT !.at = "out", !.offset = @ + n],
             ends' = IF n = left THEN [ends EXCEPT !["host"] = @ \ {"in"}] ELSE ends
      PROVE  PipeTypes' /\ StdioPipes' /\ StdioResults'
  <2>1. /\ pipe' \in [Streams -> Nat] /\ wrote' \in [Streams -> Nat]
        /\ n \in 0..left /\ wrote'["in"] = wrote["in"] + n
        /\ \A s \in Outputs : pipe'[s] = pipe[s] /\ wrote'[s] = wrote[s]
    <3> HIDE DEF left
    <3> QED
      BY <1>2, <1>4, WritesOnlyAdd
  <2>2. /\ DOMAIN ends' = DOMAIN ends /\ \A p \in Programs : ends'[p] = ends[p]
        /\ n # left => ends' = ends
    BY <1>4 DEF PipeTypes, Programs
  <2>3. \A s \in Streams : ArtifactHolds(s)' = ArtifactHolds(s)
    BY <2>2 DEF ArtifactHolds
  <2>4. PipeTypes'
    BY <1>1, <2>1, <2>2 DEF PipeTypes
  <2>5. DOMAIN host = {"at", "request", "offset", "got", "eof", "status", "result"}
    BY DEF StdioPipes
  <2>6. host' = [[host EXCEPT !.at = "out"] EXCEPT !.offset = host.offset + n]
    BY <1>4, <2>5
  <2>7. /\ DOMAIN host' = DOMAIN host /\ host'.at = "out" /\ host'.request = host.request
        /\ host'.offset = host.offset + n /\ host'.got = host.got /\ host'.eof = host.eof
        /\ host'.status = host.status /\ host'.result = host.result
    BY <2>5, <2>6
  <2>8. host'.offset \in 0..host'.request /\ (n = left => host'.offset = host'.request)
        /\ wrote'["in"] = host'.offset
    BY <1>2, <2>1, <2>7
  <2>9. Accounted(host.got)' /\ \A stream \in host'.eof : AtEnd(stream)'
    <3>1. /\ Accounted(host.got) /\ host.eof \subseteq Outputs /\ \A stream \in host.eof : AtEnd(stream)
      BY DEF StdioPipes
    <3>2. \A stream \in Outputs : AtEnd(stream) => AtEnd(stream)'
      BY <2>1, <2>3 DEF AtEnd, Streams
    <3>3. Accounted(host.got)'
      BY <2>1, <2>7, <3>1 DEF Accounted
    <3> QED
      BY <2>7, <3>1, <3>2, <3>3
  <2>10. host.status \in {"none", exit} /\ ("in" \notin ends["host"] => host.offset = host.request)
         /\ host.eof \subseteq Outputs
    BY <1>1 DEF StdioPipes, HostAt
  <2>11. host.offset = host.request => n = left
    BY <1>2, <2>1
  <2>12. StdioPipes'
    <3>1. "in" \notin ends'["host"] => host'.offset = host'.request
      BY <2>2, <2>8, <2>10, <2>11
    <3> QED
      BY <1>1, <1>2, <2>5, <2>7, <2>8, <2>9, <2>10, <3>1 DEF StdioPipes
  <2>13. StdioResults'
    BY <1>1, <2>5, <2>7 DEF StdioResults, Started, HostAt, Answers
  <2> QED
    BY <2>4, <2>12, <2>13
<1> QED
  BY <1>3, <1>4 DEF WriteInput

\* read_available: what leaves a pipe is added to what was read, and an output
\* is at its end only when no process is left that holds it.
LEMMA ReadKeeps ==
  ASSUME Started, PipeTypes, StdioPipes, StdioResults,
         NEW stream \in Outputs, NEW next \in {"err", "limits"}, ReadAvailable(stream, next)
  PROVE  PipeTypes' /\ StdioPipes' /\ StdioResults'
<1>1. /\ UNCHANGED <<running, ends, wrote, exit, clock>> /\ host.at = stream /\ host.result = "none"
  BY DEF ReadAvailable, HostAt, StdioResults, Outputs
<1>2. ASSUME Fail("read_output"), UNCHANGED pipe
      PROVE  PipeTypes' /\ StdioPipes' /\ StdioResults'
  <2>1. PipeTypes' /\ OnlyAdds
    BY <1>1, <1>2, UnchangedOnlyAdds
  <2>2. HostKept
    BY <1>2, FailKeeps
  <2>3. StdioPipes'
    BY <1>1, <2>1, <2>2, StdioFrame DEF HostAt, Outputs
  <2>4. StdioResults'
    BY <1>2, FailResults
  <2> QED
    BY <2>1, <2>3, <2>4
<1>3. ASSUME NEW n \in Available(stream, Limit[stream] + 1 - host.got[stream]),
             pipe' = [pipe EXCEPT ![stream] = @ - n],
             host' = [host EXCEPT !.at = next, !.got[stream] = @ + n,
                           !.eof = IF AtEnd(stream) THEN @ \cup {stream} ELSE @]
      PROVE  PipeTypes' /\ StdioPipes' /\ StdioResults'
  <2> DEFINE seen == IF AtEnd(stream) THEN host.eof \cup {stream} ELSE host.eof
  <2>1. /\ DOMAIN host = {"at", "request", "offset", "got", "eof", "status", "result"}
        /\ Accounted(host.got) /\ host.eof \subseteq Outputs
        /\ \A s \in host.eof : AtEnd(s)
    BY DEF StdioPipes
  <2>2. /\ host.got \in [Outputs -> Nat] /\ host.got[stream] \in Nat /\ Limit[stream] \in Nat
        /\ pipe[stream] \in Nat /\ stream \in Streams /\ pipe \in [Streams -> Nat]
    BY <2>1, Lengths DEF Accounted, PipeTypes, Streams
  <2>3. n \in Nat /\ n <= pipe[stream]
    BY <2>2 DEF Available
  <2>4. pipe[stream] - n \in Nat /\ host.got[stream] + n \in Nat
        /\ (host.got[stream] + n) + (pipe[stream] - n) = host.got[stream] + pipe[stream]
    BY <2>2, <2>3
  <2>5. pipe' = [pipe EXCEPT ![stream] = pipe[stream] - n]
    BY <1>3
  <2>6. pipe' \in [Streams -> Nat] /\ pipe'[stream] = pipe[stream] - n
        /\ \A s \in Streams : s # stream => pipe'[s] = pipe[s]
    BY <2>2, <2>4, <2>5
  <2>7. /\ DOMAIN host' = DOMAIN host /\ host'.at = next /\ host'.request = host.request
        /\ host'.offset = host.offset /\ host'.got = [host.got EXCEPT ![stream] = host.got[stream] + n]
        /\ host'.eof = seen /\ host'.status = host.status /\ host'.result = host.result
    <3> DEFINE got == [host.got EXCEPT ![stream] = host.got[stream] + n]
    <3>1. host' = [[[host EXCEPT !.at = next] EXCEPT !.got = got] EXCEPT !.eof = seen]
      BY <1>3, <2>1
    <3> HIDE DEF got, seen
    <3>2. /\ DOMAIN host' = DOMAIN host /\ host'.at = next /\ host'.request = host.request
          /\ host'.offset = host.offset /\ host'.got = got
          /\ host'.eof = seen /\ host'.status = host.status /\ host'.result = host.result
      BY <2>1, <3>1
    <3> QED
      BY <3>2 DEF got
  <2>8. Accounted(host.got)'
    <3>1. host'.got \in [Outputs -> Nat]
      BY <2>2, <2>4, <2>7
    <3>2. ASSUME NEW s \in Outputs PROVE host'.got[s] + pipe'[s] = wrote'[s]
      <4>1. host.got[s] + pipe[s] = wrote[s] /\ s \in Streams
        BY <2>1 DEF Accounted, Streams
      <4>2. CASE s = stream
        BY <1>1, <2>2, <2>4, <2>6, <2>7, <4>1, <4>2
      <4>3. CASE s # stream
        BY <1>1, <2>2, <2>6, <2>7, <4>1, <4>3
      <4> QED
        BY <4>2, <4>3
    <3> QED
      BY <3>1, <3>2 DEF Accounted
  <2>9. \A s \in Outputs : AtEnd(s) => AtEnd(s)'
    <3> SUFFICES ASSUME NEW s \in Outputs, AtEnd(s) PROVE AtEnd(s)'
      OBVIOUS
    <3>1. pipe[s] = 0 /\ s \in Streams
      BY DEF AtEnd, Streams
    <3>2. pipe'[s] = 0
      BY <2>3, <2>6, <3>1
    <3> QED
      BY <1>1, <3>2 DEF AtEnd, ArtifactHolds
  <2>10. host'.eof \subseteq Outputs /\ \A s \in host'.eof : AtEnd(s)'
    BY <2>1, <2>7, <2>9
  <2>11. PipeTypes'
    BY <1>1, <2>6 DEF PipeTypes
  <2>12. wrote'["in"] = wrote["in"]
    BY <1>1
  <2>13. StdioPipes'
    <3>1. /\ host.request \in Nat /\ host.offset \in 0..host.request /\ wrote["in"] = host.offset
          /\ "in" \notin ends["host"] => host.offset = host.request
          /\ host.status \in {"none", exit}
      BY <1>1 DEF StdioPipes, HostAt, Outputs
    <3> HIDE DEF seen
    <3> QED
      BY <1>1, <2>1, <2>7, <2>8, <2>10, <3>1 DEF StdioPipes
  <2>14. StdioResults'
    <3> HIDE DEF seen
    <3>1. Started' /\ host'.at \in {"err", "limits"} /\ host'.result = "none"
      BY <1>1, <2>1, <2>7 DEF Started
    <3> QED
      BY <3>1 DEF StdioResults, HostAt, Answers
  <2> QED
    BY <2>11, <2>13, <2>14
<1> QED
  BY <1>2, <1>3 DEF ReadAvailable

\* The check of the limits, which fails the call only with output beyond one.
LEMMA LimitsKeep ==
  ASSUME Started, PipeTypes, StdioPipes, StdioResults, CheckLimits
  PROVE  PipeTypes' /\ StdioPipes' /\ StdioResults'
<1>1. UNCHANGED <<running, ends, pipe, wrote, exit, clock>> /\ host.at = "limits"
  BY DEF CheckLimits, artifact, HostAt
<1>2. PipeTypes' /\ OnlyAdds
  BY <1>1, UnchangedOnlyAdds
<1>3. ASSUME NEW failure \in {"stdout_limit", "stderr_limit"}, Fail(failure),
             failure = "stdout_limit" => host.got["out"] > Limit["out"],
             failure = "stderr_limit" => host.got["err"] > Limit["err"]
      PROVE  StdioPipes' /\ StdioResults'
  <2>1. HostKept
    BY <1>3, FailKeeps
  <2>2. StdioPipes'
    BY <1>1, <1>2, <2>1, StdioFrame DEF HostAt
  <2>3. StdioResults'
    BY <1>3, FailResults
  <2> QED
    BY <2>2, <2>3
<1>4. CASE Proceed("wait")
  <2>1. HostKept /\ host'.at = "wait" /\ host'.result = host.result
    BY <1>4, ProceedKeeps
  <2>2. StdioPipes'
    BY <1>1, <1>2, <2>1, StdioFrame DEF HostAt
  <2>3. StdioResults'
    BY <1>1, <1>2, <2>1, ResultsFrame
  <2> QED
    BY <1>2, <2>2, <2>3
<1>5. \/ Fail("stdout_limit") /\ host.got["out"] > Limit["out"]
      \/ Fail("stderr_limit") /\ host.got["err"] > Limit["err"]
      \/ Proceed("wait")
  BY DEF CheckLimits, LimitReached
<1> QED
  BY <1>2, <1>3, <1>4, <1>5

\* The host takes the call for complete when the child has ended, its request
\* was written and both of its outputs are at their ends.
LEMMA WaitKeeps ==
  ASSUME Started, PipeTypes, StdioPipes, StdioResults, TryWait
  PROVE  PipeTypes' /\ StdioPipes' /\ StdioResults'
<1> DEFINE place == IF Complete(exit) THEN "answer" ELSE "deadline"
<1>1. /\ UNCHANGED <<running, ends, pipe, wrote, exit, clock>> /\ host.at = "wait"
      /\ host' = [[host EXCEPT !.status = exit] EXCEPT !.at = place]
  BY DEF TryWait, HostAt
<1>2. PipeTypes'
  BY <1>1, UnchangedOnlyAdds
<1>3. /\ DOMAIN host = {"at", "request", "offset", "got", "eof", "status", "result"}
      /\ Accounted(host.got) /\ host.eof \subseteq Outputs /\ \A stream \in host.eof : AtEnd(stream)
      /\ host.request \in Nat /\ host.offset \in 0..host.request /\ wrote["in"] = host.offset
      /\ "in" \notin ends["host"] => host.offset = host.request
      /\ host.result = "none"
  BY <1>1 DEF StdioPipes, StdioResults, HostAt
<1>4. place \in {"answer", "deadline"}
      /\ (place = "answer" => exit # "none" /\ "in" \notin ends["host"] /\ host.eof = Outputs)
  BY DEF Complete
<1> HIDE DEF place
<1>5. /\ DOMAIN host' = DOMAIN host /\ host'.at = place /\ host'.request = host.request
      /\ host'.offset = host.offset /\ host'.got = host.got /\ host'.eof = host.eof
      /\ host'.status = exit /\ host'.result = "none"
  BY <1>1, <1>3
<1>6. Accounted(host.got)' /\ \A stream \in host'.eof : AtEnd(stream)'
  BY <1>1, <1>3, <1>5 DEF Accounted, AtEnd, ArtifactHolds
<1>7. StdioPipes'
  BY <1>1, <1>3, <1>5, <1>6 DEF StdioPipes
<1>8. StdioResults'
  <2>1. Started' /\ (host'.at = "answer" => Done')
    BY <1>3, <1>4, <1>5 DEF Started, Done
  <2>2. host'.at \in {"answer", "deadline"} /\ host'.result = "none"
    BY <1>4, <1>5
  <2> QED
    BY <2>1, <2>2 DEF StdioResults, HostAt, Answers
<1> QED
  BY <1>2, <1>7, <1>8

\* kill_and_reap: a child that has ended already keeps the way it ended.
LEMMA KillKeeps ==
  ASSUME Started, PipeTypes, Child, StdioPipes, StdioResults, KillAndReap
  PROVE  PipeTypes' /\ StdioPipes' /\ StdioResults'
<1>1. UNCHANGED <<pipe, wrote, clock>> /\ host.at \in {"kill", "reap"}
  BY DEF KillAndReap, HostAt
<1>2. CASE Kill /\ Proceed("reap")
  <2>1. /\ running' \subseteq running /\ ends' = [ends EXCEPT !["child"] = {}]
        /\ exit' = exit \/ (exit = "none" /\ exit' = "bad")
    BY <1>2 DEF Kill, Child
  <2>2. /\ DOMAIN ends' = DOMAIN ends /\ ends'["host"] = ends["host"]
        /\ \A p \in Programs : ends'[p] \subseteq ends[p]
    BY <2>1
  <2>3. PipeTypes' /\ OnlyAdds
    BY <1>1, <2>1, <2>2 DEF PipeTypes, OnlyAdds, ArtifactHolds
  <2>4. HostKept /\ host'.at = "reap" /\ host'.result = host.result
    BY <1>2, ProceedKeeps
  <2>5. StdioPipes'
    BY <1>1, <2>2, <2>3, <2>4, StdioFrame DEF HostAt
  <2>6. StdioResults'
    BY <1>1, <2>3, <2>4, ResultsFrame
  <2> QED
    BY <2>3, <2>5, <2>6
<1>3. CASE Proceed("drop") /\ UNCHANGED <<running, ends, exit>>
  <2>1. PipeTypes' /\ OnlyAdds
    BY <1>1, <1>3, UnchangedOnlyAdds
  <2>2. HostKept /\ host'.at = "drop" /\ host'.result = host.result
    BY <1>3, ProceedKeeps
  <2>3. StdioPipes'
    BY <1>1, <1>3, <2>1, <2>2, StdioFrame DEF HostAt
  <2>4. StdioResults'
    BY <1>1, <2>1, <2>2, ResultsFrame
  <2> QED
    BY <2>1, <2>3, <2>4
<1> QED
  BY <1>2, <1>3 DEF KillAndReap

\* The end of run_artifact: what is answered follows from the status of the
\* child and what was read.
LEMMA ReturnKeeps ==
  ASSUME Started, PipeTypes, StdioPipes, StdioResults, Return
  PROVE  PipeTypes' /\ StdioPipes' /\ StdioResults'
<1>1. /\ UNCHANGED <<running, pipe, wrote, exit, clock>> /\ ends' = [ends EXCEPT !["host"] = {}]
      /\ host.at \in {"answer", "drop"}
  BY DEF Return, HostAt
<1>2. DOMAIN ends' = DOMAIN ends /\ \A p \in Programs : ends'[p] \subseteq ends[p]
  BY <1>1 DEF Programs
<1>3. PipeTypes' /\ OnlyAdds
  BY <1>1, <1>2, UnchangedOnlyAdds
<1>4. CASE /\ HostAt("answer")
           /\ \E result \in Response : host' = [host EXCEPT !.at = "returned", !.result = result]
  <2>1. PICK result \in Response : host' = [[host EXCEPT !.at = "returned"] EXCEPT !.result = result]
    BY <1>4
  <2>2. DOMAIN host = {"at", "request", "offset", "got", "eof", "status", "result"}
    BY DEF StdioPipes
  <2>3. HostKept /\ host'.at = "returned" /\ host'.result = result
    BY <2>1, <2>2 DEF HostKept
  <2>4. StdioPipes'
    BY <1>3, <2>3, StdioFrame DEF HostAt
  <2>5. Done /\ Started'
    BY <1>4, <2>3 DEF StdioResults, HostKept, Started
  <2>6. /\ result \in Answers
        /\ host.status = "ok" <=> result # "artifact_exit"
        /\ result = "empty_response" => host.got["out"] = 0
    BY DEF Response, Answers
  <2>7. Done' /\ host'.status = host.status /\ host'.got = host.got
    BY <2>3, <2>5 DEF Done, HostKept
  <2> QED
    BY <1>3, <2>3, <2>4, <2>5, <2>6, <2>7 DEF StdioResults, HostAt, Answers
<1>5. CASE HostAt("drop") /\ Proceed("returned")
  <2>1. HostKept /\ host'.at = "returned" /\ host'.result = host.result
    BY <1>5, ProceedKeeps
  <2>2. StdioPipes'
    BY <1>3, <2>1, StdioFrame DEF HostAt
  <2>3. StdioResults'
    BY <1>1, <1>3, <1>5, <2>1, ResultsFrame DEF HostAt
  <2> QED
    BY <1>3, <2>2, <2>3
<1> QED
  BY <1>4, <1>5 DEF Return

\* The steps of the stdio host, together.
LEMMA StdioAnswers ==
  ASSUME IInv, PipeInv, LaunchStdio \/ RunStdio
  PROVE  PipeInv'
<1>1. PipeTypes' /\ StdioPipes' /\ StdioResults'
  <2>1. CASE LaunchStdio
    BY <2>1, LaunchesWhole
  <2>2. CASE RunStdio
    <3>1. StdioStep /\ Started /\ Child
      BY <2>2 DEF IInv, ChildInv, Stdio, Started, HostAt, RunStdio, StdioStep, CheckDeadline, WriteInput,
             ReadAvailable, CheckLimits, TryWait, KillAndReap, Return
    <3>2. PipeTypes /\ StdioPipes /\ StdioResults
      BY DEF PipeInv
    <3>3. "out" \in Outputs /\ "err" \in Outputs
      BY DEF Outputs
    <3> QED
      BY <3>1, <3>2, <3>3, DeadlineKeeps, WriteKeeps, ReadKeeps, LimitsKeep, WaitKeeps, KillKeeps, ReturnKeeps
         DEF StdioStep
  <2> QED
    BY <2>1, <2>2
<1>2. /\ CommandAt("idle") /\ PluginAt("idle")
      /\ UNCHANGED <<pluginVars, commandVars>>
  BY DEF IInv, ChildInv, LaunchStdio, RunStdio, AllIdle, Turns, StdioStep, CheckDeadline, WriteInput,
         ReadAvailable, CheckLimits, TryWait, KillAndReap, Return, HostAt, OnlyStdio
<1>3. ~ HostAt("idle")'
  <2>2. CASE LaunchStdio
    BY <2>2, LaunchesWhole
  <2>3. CASE RunStdio
    <3>1. Started'
      BY <2>3 DEF IInv, ChildInv, Stdio, Started, HostAt, RunStdio, StdioStep, CheckDeadline, WriteInput,
             ReadAvailable, CheckLimits, TryWait, KillAndReap, Return, Fail, Proceed
    <3>2. Stdio'
      BY StdioKeeps DEF IInv, ChildInv
    <3> QED
      BY <3>1, <3>2 DEF Stdio
  <2> QED
    BY <2>2, <2>3
<1>4. Fresh'
  BY <1>3 DEF Fresh, AllIdle
<1>5. PluginPipes'
  BY <1>2 DEF PluginPipes, PluginAt, pluginVars
<1>6. Filled'
  BY <1>2 DEF PipeInv, Filled, commandVars
<1> QED
  BY <1>1, <1>4, <1>5, <1>6 DEF PipeInv

-----------------------------------------------------------------------------
(* The pipes of the plugin host.                                             *)

\* The start of the plugin host: nothing was read or written yet.
LEMMA SpawnsWhole ==
  ASSUME IInv, PipeInv, LaunchPlugin
  PROVE  PipeTypes' /\ PluginPipes'
<1>1. AllIdle /\ SpawnPlugin
  BY DEF LaunchPlugin
<1>2. /\ PipeTypes /\ \A s \in Streams : pipe[s] = 0 /\ wrote[s] = 0
      /\ plugin = NotStarted /\ waiter' = NoWaiter
  BY <1>1 DEF PipeInv, Fresh, SpawnPlugin
<1>3. /\ DOMAIN waiter' = {"at", "got", "status"} /\ waiter'.at = "none"
      /\ waiter'.got = [stream \in Outputs |-> 0]
  BY <1>2 DEF NoWaiter
<1>4. ASSUME UNCHANGED <<pipe, wrote>> PROVE Accounted(waiter.got)'
  BY <1>2, <1>3, <1>4 DEF Accounted, Streams
<1>5. CASE PluginReturns("not_started") /\ UNCHANGED artifact
  <2>1. plugin' = [[plugin EXCEPT !.at = "returned"] EXCEPT !.result = "not_started"]
    BY <1>5 DEF PluginReturns
  <2>2. /\ DOMAIN plugin' = {"at", "left", "result"} /\ plugin'.at = "returned"
        /\ plugin'.left = 0 /\ plugin'.result = "not_started"
    BY <1>2, <2>1 DEF NotStarted
  <2>3. PipeTypes' /\ Accounted(waiter.got)'
    BY <1>2, <1>4, <1>5 DEF PipeTypes, artifact
  <2> QED
    BY <1>3, <2>2, <2>3 DEF PluginPipes, PluginAt
<1>6. CASE Spawn /\ \E size \in PluginSizes : plugin' = [plugin EXCEPT !.at = "write", !.left = size]
  <2>1. PICK size \in PluginSizes : plugin' = [[plugin EXCEPT !.at = "write"] EXCEPT !.left = size]
    BY <1>6
  <2>2. /\ DOMAIN plugin' = {"at", "left", "result"} /\ plugin'.at = "write"
        /\ plugin'.left = size /\ plugin'.result = "none"
    BY <1>2, <2>1 DEF NotStarted
  <2>3. size \in Nat
    BY PluginLengths
  <2>4. PipeTypes' /\ Accounted(waiter.got)'
    <3>1. UNCHANGED <<pipe, wrote, exit>> /\ running' = {"child"} /\ DOMAIN ends' = DOMAIN ends
      BY <1>6 DEF Spawn
    <3> QED
      BY <1>2, <1>4, <3>1 DEF PipeTypes, Programs
  <2> QED
    BY <1>3, <2>2, <2>3, <2>4 DEF PluginPipes, PluginAt
<1> QED
  BY <1>1, <1>5, <1>6 DEF SpawnPlugin

\* The caller: the thread and its account are kept.
LEMMA CallerKeeps ==
  ASSUME IInv, PipeInv, RunPlugin
  PROVE  PipeTypes' /\ PluginPipes'
<1>1. PipeTypes /\ ~ PluginAt("idle")
  BY DEF RunPlugin, WriteAll, Receive, PluginAt, PipeInv
<1>2. /\ DOMAIN plugin = {"at", "left", "result"} /\ DOMAIN waiter = {"at", "got", "status"}
      /\ Accounted(waiter.got) /\ plugin.left \in Nat
      /\ PluginAt("receive") => plugin.left = 0
      /\ PluginAt("write") => waiter.at = "none"
      /\ ~ PluginAt("returned") => plugin.result = "none"
      /\ waiter.at = "sent" =>
           (\A stream \in Outputs : AtEnd(stream)) /\ waiter.status = exit /\ exit # "none" /\ reaped
  BY <1>1 DEF PipeInv, PluginPipes
<1>3. ASSUME Receive PROVE PipeTypes' /\ PluginPipes'
  <2>1. UNCHANGED <<running, ends, pipe, wrote, exit, reaped, waiter>> /\ PluginAt("receive")
    BY <1>3 DEF Receive, artifact
  <2>2. PICK result \in {"exited", "no_response", "ok", "invalid_response", "reported", "abandoned"} :
          /\ plugin' = [[plugin EXCEPT !.at = "returned"] EXCEPT !.result = result]
          /\ result = "ok" => waiter.at = "sent" /\ waiter.status = "ok"
    BY <1>3 DEF Receive, PluginReturns
  <2>3. /\ DOMAIN plugin' = DOMAIN plugin /\ plugin'.at = "returned"
        /\ plugin'.left = plugin.left /\ plugin'.result = result
    BY <1>2, <2>2
  <2>4. PipeTypes'
    BY <1>1, <2>1, UnchangedOnlyAdds
  <2>5. Accounted(waiter.got)' /\ \A stream \in Outputs : AtEnd(stream) <=> AtEnd(stream)'
    BY <1>2, <2>1 DEF Accounted, AtEnd, ArtifactHolds
  <2> QED
    BY <1>2, <2>1, <2>2, <2>3, <2>4, <2>5 DEF PluginPipes, PluginAt
<1>4. ASSUME WriteAll PROVE PipeTypes' /\ PluginPipes'
  <2>1. /\ UNCHANGED <<running, exit, reaped>> /\ plugin.at = "write"
        /\ waiter' = IF plugin'.at = "receive" THEN [waiter EXCEPT !.at = "collect"] ELSE waiter
    BY <1>4 DEF WriteAll, PluginAt
  <2>2. /\ waiter'.at \in {"none", "collect"} /\ waiter'.got = waiter.got
        /\ DOMAIN waiter' = DOMAIN waiter /\ (plugin'.at # "receive" => waiter'.at = "none")
    BY <1>2, <2>1 DEF PluginAt
  <2>3. CASE PluginReturns("closed_stdin") /\ ends' = [ends EXCEPT !["host"] = {}] /\ UNCHANGED <<pipe, wrote>>
    <3>1. plugin' = [[plugin EXCEPT !.at = "returned"] EXCEPT !.result = "closed_stdin"]
      BY <2>3 DEF PluginReturns
    <3>2. /\ DOMAIN plugin' = DOMAIN plugin /\ plugin'.at = "returned" /\ plugin'.left = plugin.left
          /\ plugin'.result = "closed_stdin"
      BY <1>2, <3>1
    <3>3. PipeTypes' /\ Accounted(waiter.got)'
      BY <1>1, <1>2, <2>1, <2>2, <2>3 DEF PipeTypes, Accounted
    <3> QED
      BY <1>2, <2>2, <3>2, <3>3 DEF PluginPipes, PluginAt
  <2>4. ASSUME NEW n \in Room(plugin.left), Send(n), plugin' = [plugin EXCEPT !.left = @ - n], UNCHANGED ends
        PROVE  PipeTypes' /\ PluginPipes'
    <3>1. /\ pipe' \in [Streams -> Nat] /\ wrote' \in [Streams -> Nat] /\ n \in 0..plugin.left
          /\ \A s \in Outputs : pipe'[s] = pipe[s] /\ wrote'[s] = wrote[s]
      BY <1>1, <1>2, <2>4, WritesOnlyAdd
    <3>2. /\ DOMAIN plugin' = DOMAIN plugin /\ plugin'.at = "write" /\ plugin'.left = plugin.left - n
          /\ plugin'.result = plugin.result
      BY <1>2, <2>1, <2>4
    <3>3. plugin'.left \in Nat
      BY <1>2, <3>1, <3>2
    <3>4. PipeTypes' /\ Accounted(waiter.got)'
      BY <1>1, <1>2, <2>1, <2>2, <2>4, <3>1 DEF PipeTypes, Accounted
    <3>5. plugin'.result = "none"
      BY <1>2, <2>1, <3>2 DEF PluginAt
    <3> QED
      BY <1>2, <2>2, <3>2, <3>3, <3>4, <3>5 DEF PluginPipes, PluginAt
  <2>5. CASE /\ plugin.left = 0 /\ plugin' = [plugin EXCEPT !.at = "receive"]
             /\ ends' = [ends EXCEPT !["host"] = @ \ {"in"}] /\ UNCHANGED <<pipe, wrote>>
    <3>1. /\ DOMAIN plugin' = DOMAIN plugin /\ plugin'.at = "receive" /\ plugin'.left = 0
          /\ plugin'.result = plugin.result
      BY <1>2, <2>5
    <3>2. PipeTypes' /\ Accounted(waiter.got)'
      BY <1>1, <1>2, <2>1, <2>2, <2>5 DEF PipeTypes, Accounted
    <3>3. plugin'.result = "none"
      BY <1>2, <2>1, <3>1 DEF PluginAt
    <3> QED
      BY <1>2, <2>2, <3>1, <3>2, <3>3 DEF PluginPipes, PluginAt
  <2> QED
    BY <1>4, <2>3, <2>4, <2>5 DEF WriteAll
<1> QED
  BY <1>3, <1>4 DEF RunPlugin

\* The thread reads an output as a whole, and sends what it has once nothing
\* can be added to it.
LEMMA CollectorKeeps ==
  ASSUME IInv, PipeInv, RunWaiter
  PROVE  PipeTypes' /\ PluginPipes'
<1>1. PipeTypes /\ ~ PluginAt("idle") /\ waiter.at = "collect"
      /\ UNCHANGED <<running, wrote, exit, plugin>>
  BY DEF RunWaiter, Collect, PluginAt, PipeInv, IInv, ChildInv, Turns
<1>2. /\ DOMAIN plugin = {"at", "left", "result"} /\ DOMAIN waiter = {"at", "got", "status"}
      /\ Accounted(waiter.got) /\ plugin.left \in Nat
      /\ ~ PluginAt("write")
      /\ plugin.at \in {"receive", "returned"}
      /\ plugin.result # "ok"
      /\ ~ PluginAt("returned") => plugin.result = "none"
      /\ PluginAt("receive") => plugin.left = 0
  BY <1>1 DEF PipeInv, PluginPipes, PluginAt
<1>3. ASSUME NEW stream \in Outputs, pipe' = [pipe EXCEPT ![stream] = 0],
             waiter' = [waiter EXCEPT !.got[stream] = @ + pipe[stream]], UNCHANGED <<ends, reaped>>
      PROVE  PipeTypes' /\ PluginPipes'
  <2> DEFINE got == [waiter.got EXCEPT ![stream] = waiter.got[stream] + pipe[stream]]
  <2>1. waiter' = [waiter EXCEPT !.got = got]
    BY <1>2, <1>3
  <2> HIDE DEF got
  <2>2. DOMAIN waiter' = DOMAIN waiter /\ waiter'.at = "collect" /\ waiter'.got = got
    BY <1>1, <1>2, <2>1
  <2>3. /\ waiter.got \in [Outputs -> Nat] /\ stream \in Streams /\ pipe \in [Streams -> Nat]
        /\ \A s \in Outputs : waiter.got[s] + pipe[s] = wrote[s]
    BY <1>1, <1>2 DEF Accounted, PipeTypes, Streams
  <2>4. waiter.got[stream] \in Nat /\ pipe[stream] \in Nat /\ waiter.got[stream] + pipe[stream] \in Nat
    BY <2>3
  <2>5. got \in [Outputs -> Nat]
    BY <2>3, <2>4 DEF got
  <2>6. pipe' \in [Streams -> Nat] /\ PipeTypes'
    BY <1>1, <1>3, <2>3 DEF PipeTypes
  <2>7. ASSUME NEW s \in Outputs PROVE got[s] + pipe'[s] = wrote[s]
    <3>1. CASE s = stream
      <4>1. pipe'[s] = 0 /\ got[s] = waiter.got[stream] + pipe[stream]
        BY <1>3, <2>3, <3>1 DEF got
      <4> QED
        BY <2>3, <2>4, <3>1, <4>1
    <3>2. CASE s # stream
      <4>1. pipe'[s] = pipe[s] /\ got[s] = waiter.got[s]
        BY <1>3, <2>3, <3>2 DEF got, Streams
      <4> QED
        BY <2>3, <4>1
    <3> QED
      BY <3>1, <3>2
  <2>8. Accounted(waiter.got)'
    BY <1>1, <2>2, <2>5, <2>7 DEF Accounted
  <2> QED
    BY <1>1, <1>2, <2>2, <2>6, <2>8 DEF PluginPipes, PluginAt
<1>4. ASSUME \A stream \in Outputs : AtEnd(stream), exit # "none",
             waiter' = [waiter EXCEPT !.at = "sent", !.status = exit],
             ends' = [ends EXCEPT !["host"] = {}], reaped' = TRUE, UNCHANGED pipe
      PROVE  PipeTypes' /\ PluginPipes'
  <2>1. waiter' = [[waiter EXCEPT !.at = "sent"] EXCEPT !.status = exit]
    BY <1>4
  <2>2. /\ DOMAIN waiter' = DOMAIN waiter /\ waiter'.at = "sent" /\ waiter'.got = waiter.got
        /\ waiter'.status = exit
    BY <1>2, <2>1
  <2>3. DOMAIN ends' = DOMAIN ends /\ \A p \in Programs : ends'[p] = ends[p]
    BY <1>4 DEF Programs
  <2>4. PipeTypes' /\ \A stream \in Outputs : AtEnd(stream)'
    BY <1>1, <1>4, <2>3 DEF PipeTypes, AtEnd, ArtifactHolds
  <2>5. Accounted(waiter.got)'
    BY <1>1, <1>2, <1>4, <2>2 DEF Accounted
  <2> QED
    BY <1>1, <1>2, <1>4, <2>2, <2>4, <2>5 DEF PluginPipes, PluginAt
<1> QED
  BY <1>3, <1>4 DEF RunWaiter, Collect

\* The steps of the plugin host, together.
LEMMA PluginAnswers ==
  ASSUME IInv, PipeInv, LaunchPlugin \/ RunPlugin \/ RunWaiter
  PROVE  PipeInv'
<1>1. PipeTypes' /\ PluginPipes'
  BY SpawnsWhole, CallerKeeps, CollectorKeeps
<1>2. UNCHANGED <<host, commandVars>> /\ HostAt("idle") /\ ~ PluginAt("idle")'
  BY DEF IInv, ChildInv, Types, LaunchPlugin, RunPlugin, RunWaiter, AllIdle, Turns, SpawnPlugin, WriteAll,
         Receive, Collect, PluginAt, PluginReturns, OnlyPlugin, pluginVars
<1>3. Fresh'
  BY <1>2 DEF Fresh, AllIdle
<1>4. ~ Started' /\ ~ Started
  BY <1>2 DEF IInv, ChildInv, Stdio, Started
<1>5. host'.result = "none" /\ host'.at = "idle"
  BY <1>2 DEF PipeInv, StdioResults, HostAt
<1>6. StdioPipes' /\ StdioResults'
  BY <1>4, <1>5 DEF StdioPipes, StdioResults, HostAt, Answers
<1>7. Filled'
  BY <1>2 DEF PipeInv, Filled, commandVars
<1> QED
  BY <1>1, <1>3, <1>6, <1>7 DEF PipeInv

-----------------------------------------------------------------------------
(* The pipes, the artifact, time and the command runtime.                    *)

\* Neither the artifact nor time disturbs what a host knows.
LEMMA ArtifactAnswers ==
  ASSUME IInv, PipeInv, RunArtifact \/ TimePasses
  PROVE  PipeInv'
<1>1. UNCHANGED <<host, plugin, waiter, command, guest, reaped>> /\ (clock = "expired" => clock' = "expired")
  BY DEF RunArtifact, TimePasses, ArtifactStep, Expire, hostVars, pluginVars, commandVars
<1>2. PipeTypes' /\ OnlyAdds /\ ends'["host"] = ends["host"]
  <2>1. CASE RunArtifact
    BY <2>1, ArtifactOnlyAdds DEF RunArtifact, PipeInv, IInv, ChildInv
  <2>2. CASE TimePasses
    BY <2>2, UnchangedOnlyAdds DEF TimePasses, Expire, PipeInv
  <2> QED
    BY <2>1, <2>2
<1>3. Fresh'
  <2> SUFFICES ASSUME AllIdle' PROVE Fresh'
    BY DEF Fresh
  <2>1. AllIdle
    BY <1>1 DEF AllIdle, HostAt, PluginAt, CommandAt
  <2>2. running = {} /\ clock = "stopped"
    BY <2>1 DEF IInv, ChildInv, Child
  <2>3. FALSE
    BY <2>2 DEF RunArtifact, TimePasses, ArtifactStep, StartsAnother, Expire
  <2> QED
    BY <2>3
<1>4. HostKept /\ host'.result = host.result /\ host'.at = host.at
  BY <1>1 DEF HostKept
<1>5. StdioPipes' /\ StdioResults'
  <2>1. CASE Started
    <3>1. StdioResults'
      BY <1>1, <1>2, <1>4, <2>1, ResultsFrame DEF PipeInv
    <3>2. StdioPipes'
      BY <1>1, <1>2, <1>4, <2>1, StdioFrame DEF PipeInv, HostAt
    <3> QED
      BY <3>1, <3>2
  <2>2. CASE ~ Started
    <3>1. ~ Started'
      BY <1>1, <2>2 DEF Started
    <3>2. host.result \in {"none", "stdin_limit", "not_started"} /\ ~ HostAt("answer")
      BY <2>2 DEF PipeInv, StdioResults
    <3>3. host'.at \notin {"kill", "reap", "drop", "returned"} => host'.result = "none"
      BY <1>4 DEF PipeInv, StdioResults
    <3> QED
      BY <1>4, <3>1, <3>2, <3>3 DEF StdioPipes, StdioResults, HostAt, Answers
  <2> QED
    BY <2>1, <2>2
<1>6. PluginPipes'
  <2> SUFFICES ASSUME ~ PluginAt("idle") PROVE PluginPipes'
    BY <1>1 DEF PluginPipes, PluginAt
  <2>1. PluginPipes /\ PipeTypes
    BY DEF PipeInv
  <2>2. Accounted(waiter.got)'
    <3>1. Accounted(waiter.got)
      BY <2>1 DEF PluginPipes
    <3>2. \A got : Accounted(got) =>
            got \in [Outputs -> Nat] /\ \A s \in Outputs : got[s] + pipe'[s] = wrote'[s]
      BY <1>2, <2>1, AccountsKept DEF Accounted
    <3> QED
      BY <1>1, <3>1, <3>2 DEF Accounted
  <2>3. \A s \in Outputs : AtEnd(s) => AtEnd(s)'
    BY <1>2, <2>1, AccountsKept
  <2>4. waiter.at = "sent" => /\ \A stream \in Outputs : AtEnd(stream)'
                              /\ waiter.status = exit' /\ exit' # "none" /\ reaped'
    BY <1>1, <1>2, <2>1, <2>3 DEF PluginPipes, OnlyAdds
  <2> QED
    BY <1>1, <2>1, <2>2, <2>4 DEF PluginPipes, PluginAt
<1>7. Filled'
  BY <1>1 DEF PipeInv, Filled
<1> QED
  BY <1>2, <1>3, <1>5, <1>6, <1>7 DEF PipeInv

\* The steps of a command leave the artifact and the other hosts alone.
LEMMA CommandFrame ==
  ASSUME IInv, PipeInv, OnlyCommand, UNCHANGED <<running, ends, pipe, wrote, exit, reaped>>,
         ~ CommandAt("idle")', clock = "expired" => clock' = "expired", Filled'
  PROVE  PipeInv'
<1>1. UNCHANGED <<host, plugin, waiter>>
  BY DEF OnlyCommand, pluginVars
<1>2. PipeTypes' /\ Fresh'
  BY DEF PipeInv, PipeTypes, Fresh, AllIdle
<1>3. \A s \in Streams : (AtEnd(s) <=> AtEnd(s)') /\ (ArtifactHolds(s) <=> ArtifactHolds(s)')
  BY DEF AtEnd, ArtifactHolds
<1>4. StdioPipes'
  BY <1>1 DEF PipeInv, StdioPipes, Started, Accounted, AtEnd, ArtifactHolds, HostAt
<1>5. StdioResults'
  BY <1>1, <1>3 DEF PipeInv, StdioResults, Started, Done, HostAt, Streams
<1>6. PluginPipes'
  BY <1>1 DEF PipeInv, PluginPipes, PluginAt, Accounted, AtEnd, ArtifactHolds
<1> QED
  BY <1>2, <1>4, <1>5, <1>6 DEF PipeInv

\* The command runtime refuses output only when its capacity is filled.
LEMMA CommandAnswers ==
  ASSUME IInv, PipeInv, PrepareCommand \/ RunCommand \/ RunWatchdog \/ WatchdogWakes \/ RunGuest \/ StopGuest
  PROVE  PipeInv'
<1> USE DEF IInv, ChildInv
<1>1. CASE PrepareCommand
  <2>1. OnlyCommand /\ UNCHANGED <<artifact, guest>> /\ CommandAt("idle")
    BY <1>1 DEF PrepareCommand, Prepare
  <2>3. Filled'
    BY <2>1 DEF CommandInv, Watched, NoGuest, Filled
  <2>4. ~ CommandAt("idle")'
    <3>1. \/ \E result : command' = [[command EXCEPT !.at = "returned"] EXCEPT !.result = result]
          \/ \E request : command' = [at |-> "prepared", result |-> "none", request |-> request]
      BY <1>1 DEF PrepareCommand, Prepare, CommandReturns
    <3>2. {"at", "result"} \subseteq DOMAIN command
      BY DEF Types
    <3>3. CASE \E result : command' = [[command EXCEPT !.at = "returned"] EXCEPT !.result = result]
      <4>1. PICK result : command' = [[command EXCEPT !.at = "returned"] EXCEPT !.result = result]
        BY <3>3
      <4>2. command'.at = "returned"
        BY <3>2, <4>1
      <4> QED
        BY <4>2 DEF CommandAt
    <3>4. CASE \E request : command' = [at |-> "prepared", result |-> "none", request |-> request]
      BY <3>4 DEF CommandAt
    <3> QED
      BY <3>1, <3>3, <3>4
  <2> QED
    BY <2>1, <2>3, <2>4, CommandFrame DEF artifact
<1>2. CASE RunWatchdog \/ WatchdogWakes
  <2>1. OnlyCommand /\ UNCHANGED <<artifact, command>> /\ deadline.at \notin {"none", "ended"}
    BY <1>2 DEF RunWatchdog, WatchdogWakes, Watchdog, IncrementEpoch, WakesForNoReason
  <2>2. ~ CommandAt("idle")'
    BY <2>1 DEF CommandInv, Watched, NoDeadline, CommandAt
  <2>3. guest' = guest \/ guest' = [guest EXCEPT !.epoch = 1]
    BY <1>2 DEF RunWatchdog, WatchdogWakes, Watchdog, IncrementEpoch, WakesForNoReason
  <2>4. guest'.refused = guest.refused /\ guest'.captured = guest.captured
    BY <2>3 DEF Types, Guests
  <2>5. Filled'
    BY <2>1, <2>4 DEF PipeInv, Filled
  <2> QED
    BY <2>1, <2>2, <2>5, CommandFrame DEF artifact
<1>3. CASE RunGuest \/ StopGuest
  <2>1. /\ OnlyCommand /\ UNCHANGED <<artifact, command>> /\ command.at = "call" /\ guest \in Guests
    BY <1>3 DEF RunGuest, StopGuest, GuestStep, Interrupt, GuestWrites, GuestEnds, GuestRuns, CommandAt, Types
  <2>2. /\ "request" \in DOMAIN command /\ ValidRequest(command.request)
        /\ \A s \in Outputs : guest.captured[s] <= command.request.limits[s]
    BY <2>1 DEF CommandInv, Called
  <2>3. ASSUME NEW stream \in Outputs, GuestWrites(stream) PROVE Filled'
    <3>1. CASE /\ guest.captured[stream] < command.request.limits[stream]
               /\ guest' = [guest EXCEPT !.captured[stream] = @ + 1]
      <4>1. /\ guest.captured \in [Outputs -> Nat] /\ command.request.limits[stream] \in Nat
            /\ guest.refused \subseteq Outputs
        BY <2>1, <2>2, OutputLimits DEF Guests
      <4>2. /\ guest'.captured = [guest.captured EXCEPT ![stream] = guest.captured[stream] + 1]
            /\ guest'.refused = guest.refused
        BY <2>1, <3>1 DEF Guests
      <4>3. stream \notin guest.refused
        <5>1. guest.captured[stream] \in Nat
          BY <4>1
        <5>2. guest.captured[stream] # command.request.limits[stream]
          BY <3>1, <4>1, <5>1
        <5> QED
          BY <5>2 DEF PipeInv, Filled
      <4>4. \A s \in guest.refused : guest'.captured[s] = guest.captured[s]
        BY <4>1, <4>2, <4>3
      <4> QED
        BY <2>1, <4>2, <4>4 DEF PipeInv, Filled
    <3>2. CASE /\ ~ guest.captured[stream] < command.request.limits[stream]
               /\ guest' = [guest EXCEPT !.refused = @ \cup {stream}]
      <4>1. guest.captured[stream] \in Nat /\ command.request.limits[stream] \in Nat
        BY <2>1, <2>2, OutputLimits DEF Guests
      <4>2. guest.captured[stream] = command.request.limits[stream]
        BY <2>2, <3>2, <4>1
      <4>3. guest'.captured = guest.captured /\ guest'.refused = guest.refused \cup {stream}
        BY <2>1, <3>2 DEF Guests
      <4> QED
        BY <2>1, <2>2, <4>2, <4>3 DEF PipeInv, Filled
    <3> QED
      BY <2>3, <3>1, <3>2 DEF GuestWrites
  <2>4. ASSUME NEW how, GuestEnds(how) PROVE Filled'
    <3>1. guest'.refused = guest.refused /\ guest'.captured = guest.captured
      BY <2>1, <2>4 DEF GuestEnds, Guests
    <3> QED
      BY <2>1, <3>1 DEF PipeInv, Filled
  <2>5. Filled'
    BY <1>3, <2>3, <2>4 DEF RunGuest, StopGuest, GuestStep, Interrupt
  <2>6. ~ CommandAt("idle")'
    BY <2>1 DEF CommandAt
  <2> QED
    BY <2>1, <2>5, <2>6, CommandFrame DEF artifact
<1>4. CASE RunCommand
  <2>1. /\ OnlyCommand /\ UNCHANGED <<running, ends, pipe, wrote, exit, reaped, guest>>
        /\ command.at \in {"prepared", "call", "cancel", "join", "classify"}
        /\ clock = "expired" => clock' = "expired"
    <3>1. CommandAt("prepared") => clock = "stopped"
      BY DEF CommandInv, Timed
    <3> QED
      BY <1>4, <3>1 DEF RunCommand, CommandStep, Execute, DropPrepared, CallReturns, Finish, ExecuteReturns,
         CommandAt, artifact
  <2>2. "request" \in DOMAIN command /\ {"at", "result"} \subseteq DOMAIN command
    BY <2>1 DEF CommandInv, Called, Types
  <2>3. "request" \in DOMAIN command' /\ command'.request = command.request /\ command'.at # "idle"
    <3>1. CASE \E place \in {"call", "cancel", "join", "classify"} : command' = [command EXCEPT !.at = place]
      BY <2>2, <3>1
    <3>2. CASE \E result : \E place \in {"cancel", "returned"} :
                 command' = [[command EXCEPT !.at = place] EXCEPT !.result = result]
      BY <2>2, <3>2
    <3>3. CASE \E elapsed : command' = Timing(elapsed)
      BY <3>3 DEF Timing
    <3>4. \/ \E place \in {"call", "cancel", "join", "classify"} : command' = [command EXCEPT !.at = place]
          \/ \E result : \E place \in {"cancel", "returned"} :
               command' = [[command EXCEPT !.at = place] EXCEPT !.result = result]
          \/ \E elapsed : command' = Timing(elapsed)
      BY <1>4 DEF RunCommand, CommandStep, Execute, DropPrepared, CallReturns, Finish, ExecuteReturns,
         CommandProceeds, CommandReturns
    <3> QED
      BY <3>1, <3>2, <3>3, <3>4
  <2>4. Filled'
    BY <2>1, <2>3 DEF PipeInv, Filled
  <2>5. ~ CommandAt("idle")'
    BY <2>3 DEF CommandAt
  <2> QED
    BY <2>1, <2>4, <2>5, CommandFrame
<1> QED
  BY <1>1, <1>2, <1>3, <1>4

-----------------------------------------------------------------------------
(* The theorems about answers.                                               *)

\* Whatever the artifact does, a host's account of it is right.
THEOREM Accounts == Spec => []PipeInv
<1>1. Init => PipeInv
  <2> SUFFICES ASSUME Init PROVE PipeInv
    OBVIOUS
  <2>1. PipeTypes /\ Fresh
    BY DEF Init, NoArtifact, PipeTypes, Fresh, Programs
  <2>2. ~ Started /\ host.at = "idle" /\ host.result = "none"
    BY DEF Init, Started, NotInvoked
  <2>3. StdioPipes /\ StdioResults
    BY <2>2 DEF StdioPipes, StdioResults, HostAt, Answers
  <2>4. PluginPipes /\ Filled
    BY DEF Init, NotStarted, PluginPipes, PluginAt, Filled, NoGuest
  <2> QED
    BY <2>1, <2>3, <2>4 DEF PipeInv
<1>2. IInv /\ PipeInv /\ [Next]_vars => PipeInv'
  <2>1. ASSUME PipeInv, UNCHANGED vars PROVE PipeInv'
    <3>1. UNCHANGED <<running, ends, pipe, wrote, exit, reaped, clock, host, plugin, waiter, command, guest>>
      BY <2>1 DEF vars, artifact, hostVars, pluginVars, commandVars
    <3>2. PipeTypes' /\ Fresh'
      BY <2>1, <3>1 DEF PipeInv, PipeTypes, Fresh, AllIdle, HostAt, PluginAt, CommandAt
    <3>3. StdioPipes'
      BY <2>1, <3>1 DEF PipeInv, StdioPipes, Started, Accounted, AtEnd, ArtifactHolds, HostAt
    <3>4. StdioResults'
      BY <2>1, <3>1 DEF PipeInv, StdioResults, Started, Done, ArtifactHolds, HostAt
    <3>5. PluginPipes' /\ Filled'
      BY <2>1, <3>1 DEF PipeInv, PluginPipes, PluginAt, Accounted, AtEnd, ArtifactHolds, Filled
    <3> QED
      BY <3>2, <3>3, <3>4, <3>5 DEF PipeInv
  <2> QED
    BY <2>1, StdioAnswers, PluginAnswers, ArtifactAnswers, CommandAnswers DEF Next
<1> QED
  BY <1>1, <1>2, Invariant, PTL DEF Spec

\* An answer is the whole answer of an artifact that has ended well: nothing
\* was left unread or unwritten, and no process is left that could still write;
\* a command is not said to have ended by itself when output of it was refused.
THEOREM AnswersAreComplete == Spec => []AnswerIsComplete
<1>1. IInv /\ PipeInv => AnswerIsComplete
  <2> SUFFICES ASSUME IInv, PipeInv PROVE AnswerIsComplete
    OBVIOUS
  <2>1. ASSUME Answered, host.at = "returned"
        PROVE  /\ host.got = [stream \in Outputs |-> wrote[stream]]
               /\ ~ \E stream \in Outputs : ArtifactHolds(stream)
               /\ wrote["in"] = host.request /\ exit = "ok" /\ reaped
    <3>1. host.result = "ok"
      BY <2>1 DEF Answered, Result
    <3>2. Started /\ Done /\ host.status = "ok"
      BY <3>1 DEF PipeInv, StdioResults, Answers
    <3>3. /\ Accounted(host.got) /\ host.eof = Outputs /\ \A stream \in Outputs : AtEnd(stream)
          /\ wrote["in"] = host.request /\ exit = "ok"
      BY <3>2 DEF PipeInv, StdioPipes, Done
    <3>4. reaped
      BY <2>1, <3>2 DEF IInv, ChildInv, Stdio
    <3>5. \A s \in Outputs : host.got[s] \in Nat /\ host.got[s] + 0 = wrote[s]
      BY <3>3 DEF Accounted, AtEnd
    <3>6. host.got \in [Outputs -> Nat] /\ \A s \in Outputs : host.got[s] = wrote[s]
      BY <3>3, <3>5 DEF Accounted
    <3> QED
      BY <3>3, <3>4, <3>6 DEF AtEnd
  <2>2. ASSUME Answered, host.at # "returned"
        PROVE  /\ waiter.got = [stream \in Outputs |-> wrote[stream]]
               /\ ~ \E stream \in Outputs : ArtifactHolds(stream)
               /\ plugin.left = 0 /\ exit = "ok" /\ reaped
    <3>1. plugin.at = "returned" /\ plugin.result = "ok"
      BY <2>2 DEF Answered, Result, Returned, CommandAt
    <3>2. /\ Accounted(waiter.got) /\ plugin.left = 0 /\ \A stream \in Outputs : AtEnd(stream)
          /\ exit = "ok" /\ reaped
      BY <3>1 DEF PipeInv, PluginPipes, PluginAt
    <3>3. \A s \in Outputs : waiter.got[s] \in Nat /\ waiter.got[s] + 0 = wrote[s]
      BY <3>2 DEF Accounted, AtEnd
    <3>4. waiter.got \in [Outputs -> Nat] /\ \A s \in Outputs : waiter.got[s] = wrote[s]
      BY <3>2, <3>3 DEF Accounted
    <3> QED
      BY <3>2, <3>4 DEF AtEnd
  <2>3. ASSUME HasReceipt, Kind \in {"returned", "guest_exit"} PROVE guest.refused = {}
    <3> DEFINE timed == deadline.timedOut \/ command.elapsed
               reached == ReachedLimits(guest.captured, command.request.limits)
    <3>1. command.result = [captured |-> guest.captured, limits |-> command.request.limits,
                            termination |-> Termination(guest.ended, timed, reached)]
      BY <2>3 DEF IInv, CommandInv, Receipted
    <3> HIDE DEF timed, reached
    <3>2. command.result.termination = Termination(guest.ended, timed, reached)
      BY <3>1
    <3>3. Termination(guest.ended, timed, reached).kind \in {"returned", "guest_exit"}
      BY <2>3, <3>2 DEF Kind
    <3>4. reached = {}
      BY <3>3 DEF Termination
    <3>5. guest.refused \subseteq Outputs
      BY DEF IInv, ChildInv, Types, Guests
    <3> QED
      BY <3>4, <3>5 DEF PipeInv, Filled, ReachedLimits, reached
  <2> QED
    BY <2>1, <2>2, <2>3 DEF AnswerIsComplete
<1> QED
  BY <1>1, Invariant, Accounts, PTL

\* Every failure that local_stdio.rs reports says what the artifact did.
THEOREM FailuresAreExplained == Spec => []FailuresExplained
<1>1. PipeInv => FailuresExplained
  <2> SUFFICES ASSUME PipeInv, HostAt("returned") PROVE FailuresExplained
    BY DEF FailuresExplained
  <2>1. host.result \notin {"none", "stdin_limit", "not_started"} => Started
    BY DEF PipeInv, StdioResults
  <2>2. host.result = "write_stdin" => ~ ArtifactHolds("in") /\ wrote["in"] < host.request
    BY <2>1 DEF PipeInv, StdioResults, StdioPipes
  <2>3. ASSUME Started, NEW s \in Outputs, host.got[s] > Limit[s] PROVE wrote[s] > Limit[s]
    <3>1. host.got[s] \in Nat /\ pipe[s] \in Nat /\ Limit[s] \in Nat /\ host.got[s] + pipe[s] = wrote[s]
      BY <2>3, Lengths DEF PipeInv, StdioPipes, Accounted, PipeTypes, Streams
    <3> QED
      BY <2>3, <3>1
  <2>4. /\ host.result = "stdout_limit" => wrote["out"] > Limit["out"]
        /\ host.result = "stderr_limit" => wrote["err"] > Limit["err"]
    <3>1. /\ host.result = "stdout_limit" => host.got["out"] > Limit["out"]
          /\ host.result = "stderr_limit" => host.got["err"] > Limit["err"]
      BY DEF PipeInv, StdioResults
    <3> QED
      BY <2>1, <2>3, <3>1 DEF Outputs
  <2>5. host.result = "timed_out" => clock = "expired"
    BY DEF PipeInv, StdioResults
  <2>6. ASSUME host.result \in {"artifact_exit", "empty_response"}
        PROVE  /\ \A s \in Outputs : AtEnd(s) /\ host.got[s] + 0 = wrote[s]
               /\ exit \in {"ok", "bad"} /\ exit = host.status
    <3>1. Started /\ Done
      BY <2>6 DEF PipeInv, StdioResults, Answers
    <3>2. Accounted(host.got) /\ (\A s \in Outputs : AtEnd(s)) /\ host.status = exit /\ exit # "none"
      BY <3>1 DEF PipeInv, StdioPipes, Done
    <3> QED
      BY <3>2 DEF Accounted, AtEnd, PipeInv, PipeTypes
  <2>7. host.result = "artifact_exit" => exit = "bad" /\ ~ ArtifactHolds("out")
    <3>1. host.result = "artifact_exit" => host.status # "ok"
      BY DEF PipeInv, StdioResults, Answers
    <3> QED
      BY <2>6, <3>1 DEF AtEnd, Outputs
  <2>8. host.result = "empty_response" => wrote["out"] = 0 /\ exit = "ok"
    <3>1. host.result = "empty_response" => host.status = "ok" /\ host.got["out"] = 0
      BY DEF PipeInv, StdioResults, Answers
    <3> QED
      BY <2>6, <3>1 DEF Outputs
  <2> QED
    BY <2>2, <2>4, <2>5, <2>7, <2>8 DEF FailuresExplained
<1> QED
  BY <1>1, Accounts, PTL

=============================================================================
