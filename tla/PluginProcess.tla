---------------------------- MODULE PluginProcess ----------------------------
(***************************************************************************)
(* ProcessProvider of gooir-plugin-process, the older host                 *)
(* (crates/gooir-plugin-process/src/lib.rs): the request is written with   *)
(* writes that block, and then a thread collects the output while the      *)
(* caller waits for it with a timeout.                                     *)
(***************************************************************************)
EXTENDS ChildProcess

CONSTANT PluginSizes  \* lengths of requests, in units

ASSUME PluginLengths == PluginSizes \subseteq Nat

VARIABLES
  plugin,  \* the caller
  waiter   \* the thread

pluginVars == <<plugin, waiter>>

NotStarted == [at |-> "idle", left |-> 0, result |-> "none"]
NoWaiter == [at |-> "none", got |-> [stream \in Outputs |-> 0], status |-> "none"]

PluginAt(place) == plugin.at = place
PluginReturns(result) == plugin' = [plugin EXCEPT !.at = "returned", !.result = result]

-----------------------------------------------------------------------------

SpawnPlugin ==
  /\ PluginAt("idle")
  /\ \/ /\ PluginReturns("not_started")
        /\ UNCHANGED artifact
     \/ /\ Spawn
        /\ \E size \in PluginSizes : plugin' = [plugin EXCEPT !.at = "write", !.left = size]
        /\ UNCHANGED clock
  /\ UNCHANGED waiter

\* write_all: waits for room as long as anybody might read, and gives up, with
\* the child as it is, once nobody can.
WriteAll ==
  /\ PluginAt("write")
  /\ \/ /\ plugin.left > 0
        /\ ~ ArtifactHolds("in")
        /\ PluginReturns("closed_stdin")
        /\ ends' = [ends EXCEPT !["host"] = {}]
        /\ UNCHANGED <<pipe, wrote>>
     \/ \E n \in Room(plugin.left) \ {0} :
          /\ ArtifactHolds("in")
          /\ Send(n)
          /\ plugin' = [plugin EXCEPT !.left = @ - n]
          /\ UNCHANGED ends
     \/ /\ plugin.left = 0
        /\ plugin' = [plugin EXCEPT !.at = "receive"]
        /\ ends' = [ends EXCEPT !["host"] = @ \ {"in"}]
        /\ UNCHANGED <<pipe, wrote>>
  /\ waiter' = IF plugin'.at = "receive" THEN [waiter EXCEPT !.at = "collect"] ELSE waiter
  /\ clock' = IF plugin'.at = "receive" THEN "running" ELSE clock
  /\ UNCHANGED <<running, exit, reaped>>

\* Fault: the thread waits for the child and reads what is there by then.
Collect_WaitsFirst ==
  /\ waiter.at = "collect"
  /\ exit # "none"
  /\ waiter' = [waiter EXCEPT !.at = "sent", !.status = exit, !.got = [stream \in Outputs |-> pipe[stream]]]
  /\ reaped' = TRUE
  /\ UNCHANGED <<running, ends, pipe, wrote, exit, clock, plugin>>

\* wait_with_output: both outputs to their ends, and then the child.
Collect ==
  /\ waiter.at = "collect"
  /\ \/ /\ \E stream \in Outputs :
             /\ pipe[stream] > 0
             /\ pipe' = [pipe EXCEPT ![stream] = 0]
             /\ waiter' = [waiter EXCEPT !.got[stream] = @ + pipe[stream]]
        /\ UNCHANGED <<ends, reaped>>
     \/ /\ \A stream \in Outputs : AtEnd(stream)
        /\ exit # "none"
        /\ waiter' = [waiter EXCEPT !.at = "sent", !.status = exit]
        /\ ends' = [ends EXCEPT !["host"] = {}]
        /\ reaped' = TRUE
        /\ UNCHANGED pipe
  /\ UNCHANGED <<running, wrote, exit, clock, plugin>>

\* recv_timeout, and what the answer says.
Receive ==
  /\ PluginAt("receive")
  /\ \/ /\ waiter.at = "sent"
        /\ \E result \in IF waiter.status # "ok" THEN {"exited"}
                         ELSE IF waiter.got["out"] = 0 THEN {"no_response"}
                         ELSE {"ok", "invalid_response", "reported"} :
             PluginReturns(result)
     \/ /\ waiter.at # "sent"
        /\ clock = "expired"
        /\ PluginReturns("abandoned")
  /\ UNCHANGED <<artifact, waiter>>
=============================================================================
