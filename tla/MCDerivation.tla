----------------------------- MODULE MCDerivation -----------------------------
(* Small instances of Derivation for TLC.                                     *)
EXTENDS Derivation

-----------------------------------------------------------------------------
(* Digests.  A driver has one policy and one inventory, so these identities *)
(* of what they are derived from tell all its documents apart.              *)

MCFactDigest(kind, payload) == <<kind, payload>>

MCDecisionDigest(policy, subject, verdict) == <<subject, verdict>>

InputIds(invocation) ==
  [port \in DOMAIN invocation.inputs |-> invocation.inputs[port].admitted]

SelectionId(s) ==
  <<s.route.plan.initial, s.route.plan.goal, s.route.target, s.route.steps, s.bindings,
    s.target_input, s.attesters>>

MCRecordDigest(fact, basis) ==
  IF basis.kind = "source" THEN <<fact.payload>>
  ELSE <<basis.port, basis.candidate.outputs, basis.invocation.specification.id,
         InputIds(basis.invocation), SelectionId(basis.invocation.selection)>>

-----------------------------------------------------------------------------
(* Packages, attesters, policies.                                           *)

Capability(inputs, outputs) == [inputs |-> inputs, outputs |-> outputs, suite |-> "u"]
Offer(name, c) == [implementation |-> name, artifact |-> name, capability |-> c]
Attester(implementation, artifact, suite) ==
  [attester |-> [implementation |-> implementation, artifact |-> artifact], suite |-> suite]

MCOfferOf == (<<1, 1>> :> Offer("p", 1)) @@ (<<1, 2>> :> Offer("q", 1)) @@
             (<<2, 1>> :> Offer("r", 2))

\* An independent attester, one that shares an artifact with p, and one of a
\* suite that is the default of no capability.
Tester   == Attester("t", "t", "u")
Insider  == Attester("i", "p", "u")
Stranger == Attester("s", "s", "v")

Chain == <<Capability(<<"x">>, <<"y">>), Capability(<<"y">>, <<"z">>)>>
Pair  == <<Capability(<<"x">>, <<"y", "y">>), Capability(<<"y", "y">>, <<"z">>)>>

Witness(name) == [name |-> name, kind |-> "x"]
Policy(version, offers, conformance) ==
  [version |-> version, offers |-> offers, conformance |-> conformance,
   observations |-> {Witness("w")}]

Installed(specs, offers, policy, attesters) ==
  [inventory |-> [specifications |-> specs, offers |-> offers],
   policy |-> policy, attesters |-> attesters]

MCFacades ==
  {Installed(Chain, {<<1, 1>>, <<2, 1>>},
             Policy(2, {Offer("p", 1)}, {Tester, Insider}), {Tester, Insider}),
   Installed(Chain, {<<1, 1>>, <<1, 2>>},
             Policy(1, {}, {Insider, Stranger}), {Tester, Insider, Stranger}),
   Installed(Pair, {<<1, 1>>, <<2, 1>>},
             Policy(2, {Offer("p", 1), Offer("r", 2)}, {}), {}),
   Installed(Chain, {<<1, 1>>, <<2, 1>>}, Policy(1, {}, {}), {Tester})}

Observation(payload, name) == [fact |-> NewFact("x", payload), authority |-> Witness(name)]

MCSources ==
  {<<Observation("a", "w")>>, <<Observation("a", "w"), Observation("b", "w")>>,
   <<Observation("a", "w"), Observation("b", "nobody")>>,
   <<Observation("a", "w"), Observation("b", "w"), Observation("a", "w")>>}

\* The first capability also gives back the kind it takes.
Echo == <<Capability(<<"x">>, <<"x", "y">>), Capability(<<"x", "y">>, <<"z">>)>>
MCEcho ==
  {Installed(Echo, {<<1, 1>>, <<2, 1>>},
             Policy(2, {Offer("p", 1), Offer("r", 2)}, {}), {})}

MCGoals == {KindGoal("z"), KindGoal("y"), OutputGoal(1, 1)}

MCReplies(n) ==
  IF n = 1 THEN {<<NewFact("y", "1")>>, <<NewFact("z", "1")>>}
  ELSE {<<NewFact("y", "1"), NewFact("y", "1")>>, <<NewFact("y", "1"), NewFact("y", "2")>>}

MCCheckSets == {{"passed"}, {"passed", "failed"}}
=============================================================================
