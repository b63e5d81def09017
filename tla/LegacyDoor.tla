----------------------------- MODULE LegacyDoor -----------------------------
(***************************************************************************)
(* A caller at the bootstrap door of gooir-capability.  It declares packs, *)
(* installs providers, asks for facts, assigns the needs of a blocked      *)
(* answer to providers outside the process, and has their candidates       *)
(* verified; a document may be altered on its way.  The caller follows one *)
(* need at a time, and asks again when it is done with it.                 *)
(*                                                                         *)
(* Bounds: MaxHeld, the facts the caller keeps; what it passes is at most  *)
(* two of them.                                                            *)
(***************************************************************************)
EXTENDS LegacyAdmission

CONSTANTS Kinds,        \* value kinds
          Packs,        \* the packs that may be registered
          Descriptors,  \* descriptors of the providers there are
          Behaviours,   \* functions from provider identities to what they do
          Attesters,    \* descriptors of the attesters there are
          Policy,       \* the attesters this host admits
          CheckLists,   \* what an attester may return
          Suites,       \* the suites a request may name
          OutputLists,  \* what an outside provider may return
          Initial,      \* sets of facts the caller may start from
          MaxHeld

VARIABLES registry,  \* the CapabilityRegistry
          held,      \* facts the caller holds
          asked,     \* its last question since the registry changed, and the answer
          work       \* the need it has assigned: request and candidate

vars == <<registry, held, asked, work>>

NoQuestion == [answer |-> "none"]
Idle == [stage |-> "idle"]

TypeOK ==
    /\ \A id \in DOMAIN registry.specs : ValidSpec(registry.specs[id])
    /\ \A id \in DOMAIN registry.providers :
           registry.providers[id].capability \in DOMAIN registry.specs
    /\ \A fact \in held : fact.kind \in Kinds /\ fact.coverage \in {"complete", "partial"}
    /\ Cardinality(held) <= MaxHeld
    /\ work.stage \in {"idle", "requested", "delivered"}

Init ==
    /\ registry = EmptyRegistry
    /\ held \in Initial
    /\ asked = NoQuestion
    /\ work = Idle

Declare(pack) ==
    /\ registry' = RegisterPack(registry, pack)
    /\ registry' # registry
    /\ asked' = NoQuestion
    /\ UNCHANGED <<held, work>>

Install(descriptor) ==
    /\ CanRegisterProvider(registry, descriptor)
    /\ registry' = RegisterProvider(registry, descriptor)
    /\ asked' = NoQuestion
    /\ UNCHANGED <<held, work>>

Keep(facts) == Cardinality(held \cup facts) <= MaxHeld /\ held' = held \cup facts

Ask(target, inputs, behaviour) ==
    LET reply == Answer(registry, target, inputs, behaviour)
    IN  /\ asked = NoQuestion /\ work = Idle
        /\ asked' = reply @@ [target |-> target, inputs |-> inputs]
        /\ Keep(reply.fact)
        /\ UNCHANGED <<registry, work>>

Assign(capability, inputs, suite) ==
    /\ asked.answer = "Blocked" /\ work.stage = "idle"
    /\ capability \in Range(Needs(asked))
    /\ CanBindRequest(registry.specs[capability], inputs, suite)
    /\ work' = [stage |-> "requested",
                request |-> BindRequest(registry.specs[capability], inputs, suite)]
    /\ asked' = NoQuestion
    /\ UNCHANGED <<registry, held>>

Deliver(provider, outputs, attempt) ==
    /\ work.stage = "requested"
    /\ CanBindCandidate(work.request, provider, outputs, attempt)
    /\ work' = [stage |-> "delivered", request |-> work.request,
                candidate |-> BindCandidate(work.request, provider, outputs, attempt)]
    /\ UNCHANGED <<registry, held, asked>>

(* A document that was stored or sent comes back with other contents.      *)
AlterRequest(inputs) ==
    /\ work.stage \in {"requested", "delivered"}
    /\ work.request.id = work.request.body
    /\ work' = [work EXCEPT !.request.body.inputs = inputs]
    /\ work' # work
    /\ UNCHANGED <<registry, held, asked>>

AlterCandidate(outputs) ==
    /\ work.stage = "delivered"
    /\ work.candidate.id = work.candidate.body
    /\ work' = [work EXCEPT !.candidate.body.outputs = outputs]
    /\ work' # work
    /\ UNCHANGED <<registry, held, asked>>

Verify(attester, checks) ==
    /\ work.stage = "delivered"
    /\ CanVerify(work.request, work.candidate, attester)
    /\ ValidChecks(checks)
    /\ Keep(VerifyAndAdmit(work.request, work.candidate, attester, checks, Policy))
    /\ work' = Idle
    /\ UNCHANGED <<registry, asked>>

(* The caller puts down the answer it has, or gives an assignment up.      *)
Abandon ==
    /\ asked # NoQuestion \/ work # Idle
    /\ asked' = NoQuestion /\ work' = Idle
    /\ UNCHANGED <<registry, held>>

(* What a caller passes: at most two of its facts.                         *)
Passed == {SetToSeq(facts) : facts \in {S \in SUBSET held : Cardinality(S) <= 2}}

Next ==
    \/ \E pack \in Packs : Declare(pack)
    \/ \E descriptor \in Descriptors : Install(descriptor)
    \/ \E target \in Kinds, inputs \in Passed, behaviour \in Behaviours :
           Ask(target, inputs, behaviour)
    \/ \E need \in DOMAIN registry.specs, inputs \in Passed, suite \in Suites :
           Assign(need, inputs, suite)
    \/ \E provider \in Descriptors, outputs \in OutputLists, attempt \in BOOLEAN :
           Deliver(provider, outputs, attempt)
    \/ \E inputs \in Passed : AlterRequest(inputs)
    \/ \E outputs \in OutputLists : AlterCandidate(outputs)
    \/ \E attester \in Attesters, checks \in CheckLists : Verify(attester, checks)
    \/ Abandon

Spec == Init /\ [][Next]_vars

-----------------------------------------------------------------------------
(* What can be derived from kinds with some of the declarations.           *)
RECURSIVE Derivable(_, _)
Derivable(kinds, specs) ==
    LET more == kinds \cup UNION {KindSet(spec.outputs) :
                    spec \in {s \in specs : KindSet(s.inputs) \subseteq kinds}}
    IN  IF more = kinds THEN kinds ELSE Derivable(more, specs)

Reachable(kinds) == Derivable(kinds, Specs(registry))

(* The declarations something can run: those with a provider, or in also.  *)
Runnable(kinds, also) ==
    Derivable(kinds, {spec \in Specs(registry) :
                         spec.id \in also \/ ProvidersOf(registry, spec.id) # {}})

(* An answer of the door is the true one for its question: Unreachable     *)
(* exactly when no declarations lead to the target, Blocked exactly when   *)
(* they do but not with the providers there are, whatever order the        *)
(* planner settled on; a provider for every need would unblock it, and     *)
(* what the first need consumes can be had already; a Failed answer never  *)
(* comes of a plan that forgot an input or its target.                     *)
LegacyAnswersExact ==
    asked.answer # "none" =>
        LET kinds == Range(KindsOf(asked.inputs))
            ambiguous == ~IsInjective(KindsOf(asked.inputs))
            needs == Needs(asked)
        IN  /\ ambiguous <=> (asked.why = "ambiguous input")
            /\ ~ambiguous =>
                 /\ (asked.answer = "Unreachable") <=> (asked.target \notin Reachable(kinds))
                 /\ (asked.answer = "Blocked") <=>
                        (asked.target \in Reachable(kinds) \ Runnable(kinds, {}))
            /\ asked.answer = "Blocked" =>
                 /\ asked.target \in Runnable(kinds, Range(needs))
                 /\ KindSet(registry.specs[Head(needs)].inputs) \subseteq Runnable(kinds, {})
            /\ asked.answer = "Failed" =>
                   asked.why \in {"partial input", "provider failed", "output contract"}
            /\ asked.answer = "Produced" =>
                   asked.fact \subseteq held /\ \E fact \in asked.fact : fact.kind = asked.target

(* The facts a derivation names fit the ports of its capability, one each. *)
Fits(spec, inputs) ==
    /\ Len(inputs) = Len(spec.inputs)
    /\ \A port \in Range(spec.inputs) : \E fact \in Range(inputs) :
           fact.kind = port.kind /\ Acceptable(port, fact)

RECURSIVE Grounded(_)
Grounded(fact) ==
    LET by == fact.derivation
        spec == registry.specs[by.capability]
        ran == /\ by.capability \in DOMAIN registry.specs
               /\ fact.kind \in KindSet(spec.outputs)
               /\ Fits(spec, by.inputs)
               /\ \A input \in Range(by.inputs) : Grounded(input)
    IN  CASE by.by = "initial" -> TRUE
          [] by.by = "produced" -> ran /\ by.provider \in ProvidersOf(registry, by.capability)
          [] by.by = "admitted" ->
                /\ ran
                /\ \A input \in Range(by.inputs) : input.intact
                /\ by.request.inputs = by.inputs
                /\ by.candidate.request = by.request
                /\ \E output \in Range(by.candidate.outputs) :
                       output.kind = fact.kind /\ output.coverage = fact.coverage
                /\ by.conformance.request = by.request
                /\ by.conformance.candidate = by.candidate
                /\ by.conformance.attester \in Policy
                /\ by.conformance.attester.suite = by.request.suite
                /\ Independent(by.conformance.attester, by.candidate.provider)
                /\ by.conformance.passed /\ by.conformance.checks # <<>>

(* Every fact the door or an admission yields can be traced back to facts  *)
(* the caller started from: each step of the chain is a declared           *)
(* capability run on one acceptable fact per port, by a registered         *)
(* provider or by one whose candidate, unaltered and bound to the          *)
(* unaltered request, an independent admitted attester of the suite passed.*)
FactsAreGrounded == \A fact \in held : Grounded(fact)
=============================================================================
