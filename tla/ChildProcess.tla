---------------------------- MODULE ChildProcess ----------------------------
(***************************************************************************)
(* What both process hosts of gooir run against: an artifact started as a  *)
(* child with three pipes, one process the child may start that inherits   *)
(* them, and a clock.  None of it is gooir's own code: the operating       *)
(* system keeps the pipes, and the artifact may do anything with its ends  *)
(* of them at any time, or nothing for ever.                               *)
(*                                                                         *)
(* A pipe is a number of units, the length a host moves at most at once.   *)
(***************************************************************************)
EXTENDS Naturals

CONSTANTS
  Capacity,  \* units a pipe holds
  MaxOutput  \* bound: units the artifact writes to either output in all

VARIABLES
  running,  \* the processes of the artifact that run
  ends,     \* process -> the pipes it holds its end of
  pipe,     \* stream -> units in the pipe
  wrote,    \* stream -> units written to it in all
  exit,     \* how the child ended: "none" until it has
  reaped,   \* the host has waited for the child
  clock     \* "stopped", "running" once a host waits with a deadline, "expired"

artifact == <<running, ends, pipe, wrote, exit, reaped, clock>>

Programs == {"child", "descendant"}
Outputs == {"out", "err"}
Streams == Outputs \cup {"in"}

ArtifactHolds(stream) == \E program \in Programs : stream \in ends[program]

NoArtifact ==
  /\ running = {}
  /\ ends = [process \in Programs \cup {"host"} |-> {}]
  /\ pipe = [stream \in Streams |-> 0]
  /\ wrote = [stream \in Streams |-> 0]
  /\ exit = "none"
  /\ reaped = FALSE
  /\ clock = "stopped"

-----------------------------------------------------------------------------
(* What a host does to it.                                                  *)

Spawn ==
  /\ running' = {"child"}
  /\ ends' = [ends EXCEPT !["child"] = Streams, !["host"] = Streams]
  /\ UNCHANGED <<pipe, wrote, exit, reaped>>

\* Some of the units left are written, none if there is no room or the call is
\* interrupted.
Room(left) == {n \in 0..left : pipe["in"] + n <= Capacity}

Send(n) ==
  /\ pipe' = [pipe EXCEPT !["in"] = @ + n]
  /\ wrote' = [wrote EXCEPT !["in"] = @ + n]

\* What a read of at most `most` units may give; nothing is there to read
\* before there is something in the pipe.
Available(stream, most) == {n \in 0..most : n <= pipe[stream]}

AtEnd(stream) == pipe[stream] = 0 /\ ~ ArtifactHolds(stream)

Kill ==
  /\ running' = running \ {"child"}
  /\ ends' = [ends EXCEPT !["child"] = {}]
  /\ exit' = IF "child" \in running THEN "bad" ELSE exit

-----------------------------------------------------------------------------
(* What the artifact may do.                                                *)

Reads(program) ==
  /\ "in" \in ends[program]
  /\ pipe["in"] > 0
  /\ pipe' = [pipe EXCEPT !["in"] = @ - 1]
  /\ UNCHANGED <<running, ends, wrote, exit>>

Writes(program, stream) ==
  /\ stream \in ends[program] \cap ends["host"]
  /\ pipe[stream] < Capacity
  /\ wrote[stream] < MaxOutput
  /\ pipe' = [pipe EXCEPT ![stream] = @ + 1]
  /\ wrote' = [wrote EXCEPT ![stream] = @ + 1]
  /\ UNCHANGED <<running, ends, exit>>

Closes(program, stream) ==
  /\ stream \in ends[program]
  /\ ends' = [ends EXCEPT ![program] = @ \ {stream}]
  /\ UNCHANGED <<running, pipe, wrote, exit>>

\* The descendant holds whatever the child held when it was started, and goes
\* on when the child is gone.
StartsAnother ==
  /\ "child" \in running
  /\ "descendant" \notin running
  /\ running' = Programs
  /\ ends' = [ends EXCEPT !["descendant"] = ends["child"]]
  /\ UNCHANGED <<pipe, wrote, exit>>

Exits(program) ==
  /\ program \in running
  /\ running' = running \ {program}
  /\ ends' = [ends EXCEPT ![program] = {}]
  /\ exit' \in IF program = "child" THEN {"ok", "bad"} ELSE {exit}
  /\ UNCHANGED <<pipe, wrote>>

ArtifactStep ==
  /\ \/ \E program \in running :
          \/ Reads(program)
          \/ \E stream \in Outputs : Writes(program, stream)
          \/ \E stream \in Streams : Closes(program, stream)
          \/ Exits(program)
     \/ StartsAnother
  /\ UNCHANGED <<reaped, clock>>

Expire ==
  /\ clock = "running"
  /\ clock' = "expired"
  /\ UNCHANGED <<running, ends, pipe, wrote, exit, reaped>>
=============================================================================
