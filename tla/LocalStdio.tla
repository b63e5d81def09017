----------------------------- MODULE LocalStdio -----------------------------
(***************************************************************************)
(* LocalStdioHost of gooir-derive (crates/gooir-derive/src/local_stdio.rs): *)
(* one artifact is run with one request, in rounds of operations that do   *)
(* not block, until it has answered, failed, or the deadline has passed.   *)
(***************************************************************************)
EXTENDS ChildProcess

CONSTANTS
  Sizes,       \* lengths of requests, in units
  StdinLimit,  \* max_stdin_bytes
  Limit        \* stream -> max_stdout_bytes, max_stderr_bytes

\* Lengths and limits are numbers of bytes.
ASSUME Lengths == Sizes \subseteq Nat /\ Limit \in [Outputs -> Nat]

VARIABLE host

NotInvoked == [at |-> "idle", result |-> "none"]

Invoked(size) ==
  [at |-> "deadline", request |-> size, offset |-> 0,
   got |-> [stream \in Outputs |-> 0], eof |-> {}, status |-> "none", result |-> "none"]

HostAt(place) == host.at = place
Proceed(place) == host' = [host EXCEPT !.at = place]

\* The loop is left with a failure: the child is killed unless it was waited
\* for already.
Fail(failure) ==
  host' = [host EXCEPT !.at = IF host.status = "none" THEN "kill" ELSE "drop", !.result = failure]

-----------------------------------------------------------------------------

\* run_artifact up to the loop: nothing runs unless the request fits, and the
\* clock starts once everything is set up.
Launch ==
  /\ HostAt("idle")
  /\ \E size \in Sizes :
       \/ /\ size > StdinLimit
          /\ host' = [NotInvoked EXCEPT !.at = "returned", !.result = "stdin_limit"]
          /\ UNCHANGED artifact
       \/ /\ host' = [NotInvoked EXCEPT !.at = "returned", !.result = "not_started"]
          /\ UNCHANGED artifact
       \/ /\ size <= StdinLimit
          /\ Spawn
          /\ \/ clock' = "running" /\ host' = Invoked(size)
             \/ clock' = clock /\ host' = [Invoked(size) EXCEPT !.at = "kill", !.result = "configure_pipe"]

\* Fault: a child that was waited for already is not timed out.
CheckDeadline_WhileRunning ==
  /\ HostAt("deadline")
  /\ IF clock = "expired" /\ host.status = "none" THEN Fail("timed_out") ELSE Proceed("write")
  /\ UNCHANGED artifact

CheckDeadline ==
  /\ HostAt("deadline")
  /\ IF clock = "expired" THEN Fail("timed_out") ELSE Proceed("write")
  /\ UNCHANGED artifact

\* write_available: the pipe is closed with the last unit, and the write fails
\* once nobody is left to read it.
WriteInput ==
  LET left == host.request - host.offset
  IN  /\ HostAt("write")
      /\ IF left > 0 /\ ~ ArtifactHolds("in")
         THEN Fail("write_stdin") /\ UNCHANGED <<ends, pipe, wrote>>
         ELSE \E n \in Room(left) :
                /\ Send(n)
                /\ host' = [host EXCEPT !.at = "out", !.offset = @ + n]
                /\ ends' = IF n = left THEN [ends EXCEPT !["host"] = @ \ {"in"}] ELSE ends
      /\ UNCHANGED <<running, exit, reaped, clock>>

\* read_available: at most one unit beyond the limit is ever held.
ReadAvailable(stream, next) ==
  /\ HostAt(stream)
  /\ \/ /\ \E n \in Available(stream, Limit[stream] + 1 - host.got[stream]) :
             /\ pipe' = [pipe EXCEPT ![stream] = @ - n]
             /\ host' = [host EXCEPT !.at = next, !.got[stream] = @ + n,
                           !.eof = IF AtEnd(stream) THEN @ \cup {stream} ELSE @]
     \/ /\ stream \notin host.eof
        /\ Fail("read_output")
        /\ UNCHANGED pipe
  /\ UNCHANGED <<running, ends, wrote, exit, reaped, clock>>

\* Fault: output of exactly the limit is refused.
LimitReached_AtLimit(stream) == host.got[stream] >= Limit[stream]

LimitReached(stream) == host.got[stream] > Limit[stream]

CheckLimits ==
  /\ HostAt("limits")
  /\ IF LimitReached("out") THEN Fail("stdout_limit")
     ELSE IF LimitReached("err") THEN Fail("stderr_limit")
     ELSE Proceed("wait")
  /\ UNCHANGED artifact

\* Fault: the end of the child is taken for the end of its output.
Complete_OnExit(status) == status # "none" /\ "in" \notin ends["host"]

Complete(status) ==
  /\ status # "none"
  /\ "in" \notin ends["host"]
  /\ host.eof = Outputs

TryWait ==
  /\ HostAt("wait")
  /\ host' = [host EXCEPT !.status = exit, !.at = IF Complete(exit) THEN "answer" ELSE "deadline"]
  /\ reaped' = (exit # "none")
  /\ UNCHANGED <<running, ends, pipe, wrote, exit, clock>>

\* Fault: the child is killed and not waited for.
KillAndReap_NoWait ==
  /\ HostAt("kill")
  /\ Kill
  /\ Proceed("drop")
  /\ UNCHANGED <<pipe, wrote, reaped, clock>>

KillAndReap ==
  /\ \/ HostAt("kill") /\ Kill /\ Proceed("reap") /\ UNCHANGED reaped
     \/ /\ HostAt("reap")
        /\ exit # "none"
        /\ reaped' = TRUE
        /\ Proceed("drop")
        /\ UNCHANGED <<running, ends, exit>>
  /\ UNCHANGED <<pipe, wrote, clock>>

Response ==
  IF host.status # "ok" THEN {"artifact_exit"}
  ELSE IF host.got["out"] = 0 THEN {"empty_response"}
  ELSE {"ok", "response_json"}

\* The pipes are dropped with the call, whatever it returns.
Return ==
  /\ \/ HostAt("answer") /\ \E result \in Response :
                              host' = [host EXCEPT !.at = "returned", !.result = result]
     \/ HostAt("drop") /\ Proceed("returned")
  /\ ends' = [ends EXCEPT !["host"] = {}]
  /\ UNCHANGED <<running, pipe, wrote, exit, reaped, clock>>

StdioStep ==
  \/ CheckDeadline \/ WriteInput
  \/ ReadAvailable("out", "err") \/ ReadAvailable("err", "limits")
  \/ CheckLimits \/ TryWait \/ KillAndReap \/ Return
=============================================================================
