--------------------------- MODULE ManagedDirectory ---------------------------
(***************************************************************************)
(* What publishers and readers of one managed directory may rely on, said  *)
(* without stages, locks or renames: a publication takes effect at one     *)
(* moment or not at all, a reader sees one published tree, and what a      *)
(* power loss leaves is a tree that was published, the last one if its     *)
(* receipt says the directory was synced.                                  *)
(***************************************************************************)
CONSTANTS
  Processes,
  Requests,    \* [op, owner, artifact]
  Contents(_)  \* artifact -> its files, a function from paths to bytes

VARIABLES
  current,   \* the manifest of the published tree, or Missing
  possible,  \* the trees a power loss may leave
  calls      \* process -> its call

vars == <<current, possible, calls>>

Missing == [owner |-> "none"]
Manifest(request) == [owner |-> request.owner, artifact |-> request.artifact]

Resting(result) == [at |-> "idle", result |-> result]
NotCalled == [kind |-> "none"]
Crashed == [kind |-> "crashed"]
Failed == [kind |-> "error"]
WrongOwner == [kind |-> "wrong_owner"]
Seen(tree) == [kind |-> "seen", tree |-> tree]
Differs(paths) == [kind |-> "differs", paths |-> paths]
Receipt(outcome, previous) ==
  [kind |-> "receipt", outcome |-> outcome, previous |-> previous, durable |-> FALSE]

-----------------------------------------------------------------------------

Init ==
  /\ current = Missing
  /\ possible = {Missing}
  /\ calls = [p \in Processes |-> Resting(NotCalled)]

Call(p, request) ==
  /\ calls[p].at = "idle"
  /\ calls' = [calls EXCEPT ![p] = [at |-> "called", request |-> request]]
  /\ UNCHANGED <<current, possible>>

\* Refused before it was considered at all.
Refuse(p) ==
  /\ calls[p].at \in {"idle", "called"}
  /\ calls' = [calls EXCEPT ![p] = Resting(Failed)]
  /\ UNCHANGED <<current, possible>>

\* The call has its effect, at a moment of its own choosing, and knows what it
\* will report.
Settle(p, result) ==
  /\ calls[p].at = "called"
  /\ calls' = [calls EXCEPT ![p] = [at |-> "settled", result |-> result]]

Publish(p) ==
  LET old == current
      new == Manifest(calls[p].request)
  IN  /\ calls[p].at = "called"
      /\ calls[p].request.op = "publish"
      /\ old \in {Missing, new} \/ old.owner = new.owner
      /\ Settle(p, Receipt(IF old = Missing THEN "created"
                           ELSE IF old = new THEN "unchanged" ELSE "replaced", old))
      /\ current' = new
      /\ possible' = possible \cup {new}

\* The paths on which the asked contents and what is published disagree.
Difference(asked, published) ==
  {path \in DOMAIN asked \cup DOMAIN published :
     path \in DOMAIN asked \cap DOMAIN published => asked[path] # published[path]}

Read(p) ==
  LET files == IF current = Missing THEN <<>> ELSE Contents(current.artifact)
  IN  /\ calls[p].at = "called"
      /\ calls[p].request.op # "publish"
      /\ Settle(p, IF calls[p].request.op = "diff"
                   THEN Differs(Difference(Contents(calls[p].request.artifact), files))
                   ELSE Seen(current))
      /\ UNCHANGED <<current, possible>>

\* Anything may fail before it has taken effect, and what belongs to another
\* owner is not touched.
Fail(p) ==
  /\ \/ Settle(p, Failed)
     \/ /\ calls[p].at = "called"
        /\ current # Missing
        /\ current.owner # calls[p].request.owner
        /\ Settle(p, WrongOwner)
  /\ UNCHANGED <<current, possible>>

\* Before it returns, a publication may make itself durable.
Sync(p) ==
  /\ calls[p].at = "settled"
  /\ calls[p].result.kind = "receipt"
  /\ calls' = [calls EXCEPT ![p].result.durable = TRUE]
  /\ possible' = {current}
  /\ UNCHANGED current

Return(p) ==
  /\ calls[p].at = "settled"
  /\ calls' = [calls EXCEPT ![p] = Resting(calls[p].result)]
  /\ UNCHANGED <<current, possible>>

Crash(p) ==
  /\ calls[p].at # "idle"
  /\ calls' = [calls EXCEPT ![p] = Resting(Crashed)]
  /\ UNCHANGED <<current, possible>>

PowerLoss ==
  /\ current' \in possible
  /\ possible' = {current'}
  /\ calls' = [p \in Processes |-> Resting(Crashed)]

Next ==
  \/ \E p \in Processes :
       \/ \E request \in Requests : Call(p, request)
       \/ Refuse(p) \/ Publish(p) \/ Read(p) \/ Fail(p) \/ Sync(p) \/ Return(p) \/ Crash(p)
  \/ PowerLoss

Spec == Init /\ [][Next]_vars
=============================================================================
