---------------------------- MODULE CommandRuntime ----------------------------
(***************************************************************************)
(* The WASIp1 command runtime (gooir-wasip1-command-runtime/src/lib.rs):   *)
(* one module is qualified and instantiated, and run once under a deadline *)
(* that a thread of its own enforces.  The guest runs inside the host; the *)
(* engine keeps its output within capacity, and stops it when its fuel is  *)
(* spent or when the epoch moves.                                          *)
(***************************************************************************)
EXTENDS ChildProcess

CONSTANTS
  CommandRequests,  \* [limits, stdin, module]
  MaxLimits,        \* resource -> its bound in the profile
  MaxStdin,         \* MAX_STDIN_BYTES
  MaxModule,        \* MAX_MODULE_BYTES
  Imports           \* imports the profile allows

\* The profile bounds both outputs.
ASSUME ProfileBounds ==
  /\ Outputs \subseteq DOMAIN MaxLimits
  /\ \A resource \in DOMAIN MaxLimits : MaxLimits[resource] \in Nat

VARIABLES
  command,   \* the caller's thread
  guest,     \* the store: what runs in it, and the output captured
  deadline   \* the watchdog's thread and what both threads share

commandVars == <<command, guest, deadline>>

NoCommand == [at |-> "idle", result |-> "none"]
NoGuest == [ended |-> "none", late |-> FALSE, epoch |-> 0, captured |-> [s \in Outputs |-> 0], refused |-> {}]
NoDeadline ==
  [at |-> "none", started |-> FALSE, cancelled |-> FALSE, timedOut |-> FALSE, token |-> FALSE]

CommandAt(place) == command.at = place
CommandReturns(result) == command' = [command EXCEPT !.at = "returned", !.result = result]
CommandProceeds(place) == command' = [command EXCEPT !.at = place]

-----------------------------------------------------------------------------
(* prepare                                                                   *)

\* WasmLimits::validate
ValidLimits(limits) == \A r \in DOMAIN MaxLimits : limits[r] \in 1..MaxLimits[r]

\* WasmRequest::validate
ValidRequest(request) ==
  /\ ValidLimits(request.limits)
  /\ request.module.length \in 1..MaxModule
  /\ request.stdin <= MaxStdin

\* validate_authority_surface: a start section would run before execute.
WithinProfile(module) ==
  ~ module.component /\ module.imports \subseteq Imports /\ ~ module.startSection

Refusal(request) ==
  IF ~ ValidLimits(request.limits) THEN "invalid_limits"
  ELSE IF ~ ValidRequest(request) THEN "invalid_request"
  ELSE IF ~ WithinProfile(request.module) THEN "forbidden_authority" ELSE "none"

\* Nothing of the guest runs: at the end of it the watchdog waits to be told
\* the time the call began.
Prepare ==
  /\ CommandAt("idle")
  /\ \E request \in CommandRequests :
       IF Refusal(request) # "none"
       THEN CommandReturns(Refusal(request)) /\ UNCHANGED deadline
       ELSE \/ \E error \in {"compile", "link", "configure", "spawn_watchdog"} :
                 CommandReturns(error) /\ UNCHANGED deadline
            \/ /\ command' = [at |-> "prepared", result |-> "none", request |-> request]
               /\ deadline' = [NoDeadline EXCEPT !.at = "cancelled?"]
  /\ UNCHANGED <<artifact, guest>>

-----------------------------------------------------------------------------
(* PreparedWatchdog: the watchdog's thread.                                  *)

\* Fault: the watchdog is told and not woken.
Woken_Not == deadline

\* Waking a thread that has not gone to sleep keeps it from sleeping once.
Woken == [deadline EXCEPT !.token = TRUE]

Watches(place) == deadline' = [deadline EXCEPT !.at = place]

\* The first loop ends when the call has begun, the second when it has ended
\* or the time is up; either may wake for no reason.
Watchdog ==
  /\ \/ /\ deadline.at = "cancelled?"
        /\ Watches(IF deadline.cancelled THEN "ended" ELSE "started?")
     \/ /\ deadline.at = "started?"
        /\ Watches(IF deadline.started THEN "cancelled again?" ELSE "park")
     \/ /\ deadline.at = "park" /\ deadline.token
        /\ deadline' = [deadline EXCEPT !.at = "cancelled?", !.token = FALSE]
     \/ /\ deadline.at = "cancelled again?"
        /\ Watches(IF deadline.cancelled THEN "ended" ELSE "now")
     \/ /\ deadline.at = "now"
        /\ IF clock = "expired"
           THEN deadline' = [deadline EXCEPT !.at = "increment", !.timedOut = TRUE]
           ELSE Watches("park_timeout")
     \/ /\ deadline.at = "park_timeout" /\ (deadline.token \/ clock = "expired")
        /\ deadline' = [deadline EXCEPT !.at = "cancelled again?", !.token = FALSE]
  /\ UNCHANGED <<artifact, command, guest>>

\* The deadline ends the guest at its next check of the epoch.
IncrementEpoch ==
  /\ deadline.at = "increment"
  /\ guest' = [guest EXCEPT !.epoch = 1]
  /\ Watches("ended")
  /\ UNCHANGED <<artifact, command>>

WakesForNoReason ==
  \/ deadline.at = "park" /\ Watches("cancelled?") /\ UNCHANGED <<artifact, command, guest>>
  \/ deadline.at = "park_timeout" /\ Watches("cancelled again?") /\ UNCHANGED <<artifact, command, guest>>

-----------------------------------------------------------------------------
(* What the guest may do.                                                    *)

GuestRuns == CommandAt("call") /\ guest.ended = "none"

\* Output beyond the capacity is refused; the guest may go on.
GuestWrites(stream) ==
  /\ GuestRuns
  /\ guest' = IF guest.captured[stream] < command.request.limits[stream]
              THEN [guest EXCEPT !.captured[stream] = @ + 1]
              ELSE [guest EXCEPT !.refused = @ \cup {stream}]
  /\ UNCHANGED <<artifact, command, deadline>>

\* When it ended is kept for the properties.
GuestEnds(how) ==
  /\ GuestRuns
  /\ guest' = [guest EXCEPT !.ended = how, !.late = clock = "expired"]
  /\ UNCHANGED <<artifact, command, deadline>>

GuestStep ==
  \/ \E stream \in Outputs : GuestWrites(stream)
  \/ \E how \in {"ok", "exit", "trap", "fuel"} : GuestEnds(how)

Interrupt == guest.epoch > 0 /\ GuestEnds("interrupt")

-----------------------------------------------------------------------------
(* The caller's thread.                                                      *)

\* execute up to the call: the time runs from here.
Execute ==
  /\ CommandAt("prepared")
  /\ clock' = "running"
  /\ deadline' = [Woken EXCEPT !.started = TRUE]
  /\ CommandProceeds("call")
  /\ UNCHANGED <<running, ends, pipe, wrote, exit, reaped, guest>>

\* A prepared invocation is dropped, as qualify_module does.
DropPrepared ==
  /\ CommandAt("prepared")
  /\ command' = [command EXCEPT !.at = "cancel", !.result = "dropped"]
  /\ UNCHANGED <<artifact, guest, deadline>>

\* The caller's thread keeps whether the time was up when the call returned.
Timing(elapsed) ==
  [at |-> "cancel", result |-> command.result, request |-> command.request, elapsed |-> elapsed]

\* Fault: the time is not looked at when the call has returned.
CallReturns_Untimed ==
  /\ CommandAt("call") /\ guest.ended # "none"
  /\ command' = Timing(FALSE)
  /\ UNCHANGED <<artifact, guest, deadline>>

CallReturns ==
  /\ CommandAt("call") /\ guest.ended # "none"
  /\ command' = Timing(clock = "expired")
  /\ UNCHANGED <<artifact, guest, deadline>>

\* Fault: the watchdog is told and not waited for.
Finish_NoJoin ==
  /\ CommandAt("cancel")
  /\ deadline' = [Woken EXCEPT !.cancelled = TRUE]
  /\ CommandProceeds("classify")
  /\ UNCHANGED <<artifact, guest>>

\* finish: the watchdog is told, and waited for.
Finish ==
  /\ \/ /\ CommandAt("cancel")
        /\ deadline' = [Woken EXCEPT !.cancelled = TRUE]
        /\ CommandProceeds("join")
     \/ /\ CommandAt("join") /\ deadline.at = "ended"
        /\ CommandProceeds("classify")
        /\ UNCHANGED deadline
  /\ UNCHANGED <<artifact, guest>>

\* classify_termination: a call in which a limit was met did not end well,
\* whatever the guest did.
Termination(ended, timedOut, reached) ==
  LET causes == (IF timedOut THEN {"timed_out"} ELSE {})
                  \cup (IF ended = "fuel" THEN {"fuel_exhausted"} ELSE {}) \cup reached
  IN  IF causes # {} THEN [kind |-> "enforced", causes |-> causes]
      ELSE [kind |-> IF ended = "ok" THEN "returned" ELSE IF ended = "exit" THEN "guest_exit" ELSE "trapped",
            causes |-> {}]

ReachedLimits(captured, limits) == {s \in Outputs : captured[s] = limits[s]}

ExecuteReturns ==
  /\ CommandAt("classify")
  /\ CommandReturns(
       IF command.result = "dropped" THEN "dropped"
       ELSE [captured |-> guest.captured, limits |-> command.request.limits,
             termination |-> Termination(guest.ended, deadline.timedOut \/ command.elapsed,
                                         ReachedLimits(guest.captured, command.request.limits))])
  /\ UNCHANGED <<artifact, guest, deadline>>

CommandStep == Execute \/ DropPrepared \/ CallReturns \/ Finish \/ ExecuteReturns

\* WasmReceipt::validate_against, of a receipt read back; the identities of
\* module, input and runtime are compared with those of the request.
ValidReceipt(receipt, request) ==
  LET reached == ReachedLimits(receipt.captured, request.limits)
  IN  /\ ValidRequest(request)
      /\ receipt.limits = request.limits
      /\ \A s \in Outputs : receipt.captured[s] <= request.limits[s]
      /\ IF receipt.termination.kind = "enforced"
         THEN receipt.termination.causes # {} /\ receipt.termination.causes \cap Outputs = reached
         ELSE reached = {}
=============================================================================
