------------------------- MODULE CapabilityRegistry -------------------------
(***************************************************************************)
(* The bootstrap capability registry of gooir-capability: one table of     *)
(* declarations, one of in-process providers, a planner that settles on    *)
(* the best route to every value kind it can reach, an executor that runs  *)
(* a route, and the door, answer, that turns one request into one answer.  *)
(*                                                                         *)
(* Identities of capabilities and of providers are numbers, ordered as     *)
(* their strings are in the registry's BTreeMaps.  A specification is      *)
(*   [id, parses, suite, extension, inputs, outputs]                       *)
(* where parses says that every identity in it is well formed, suite is    *)
(* NoSuite when the declared suite is not a suite identity, extension is   *)
(* "none", "kept" or "reserved" (it shadows a known field), inputs is a    *)
(* sequence of [name, kind, acceptance] and outputs one of [name, kind].   *)
(* A fact is [kind, coverage, intact, derivation]: its identity is the     *)
(* digest of its content, so the content stands for it, and intact is      *)
(* FALSE when the identity it carries is not that digest.                  *)
(***************************************************************************)
EXTENDS Integers, SequencesExt

NoSuite == "no suite"
NoProvider == 0

Least(S) == CHOOSE x \in S : \A y \in S : x <= y

KindsOf(ports) == [i \in DOMAIN ports |-> ports[i].kind]
NamesOf(ports) == [i \in DOMAIN ports |-> ports[i].name]
KindSet(ports) == Range(KindsOf(ports))

EmptyRegistry == [specs |-> <<>>, providers |-> <<>>]
Specs(registry) == Range(registry.specs)

-----------------------------------------------------------------------------
(* Registration                                                            *)

ValidSpec(spec) ==
    /\ spec.parses
    /\ spec.outputs # <<>>
    /\ spec.suite # NoSuite
    /\ IsInjective(NamesOf(spec.inputs))
    /\ IsInjective(NamesOf(spec.outputs))
    /\ spec.extension # "reserved"

(* A descriptor is [id, wellFormed, capability, implementation].           *)
ValidProvider(descriptor) == descriptor.wellFormed

CanRegisterSpec(registry, spec) ==
    ValidSpec(spec) /\ spec.id \notin DOMAIN registry.specs

RegisterSpec(registry, spec) ==
    [registry EXCEPT !.specs = (spec.id :> spec) @@ @]

(* A pack is [protocol, capabilities].  Reading it parses every identity   *)
(* before anything is registered; registering it stops at the first        *)
(* declaration refused and keeps those before it.                          *)
Reads(pack) ==
    pack.protocol /\ \A i \in DOMAIN pack.capabilities : pack.capabilities[i].parses

RegisterPack(registry, pack) ==
    LET Registered[n \in 0 .. Len(pack.capabilities)] ==
            IF n = 0
            THEN [registry |-> registry, open |-> Reads(pack)]
            ELSE LET before == Registered[n - 1]
                     spec == pack.capabilities[n]
                 IN  IF before.open /\ CanRegisterSpec(before.registry, spec)
                     THEN [before EXCEPT !.registry = RegisterSpec(@, spec)]
                     ELSE [before EXCEPT !.open = FALSE]
    IN  Registered[Len(pack.capabilities)].registry

CanRegisterProvider(registry, descriptor) ==
    /\ ValidProvider(descriptor)
    /\ descriptor.capability \in DOMAIN registry.specs
    /\ descriptor.id \notin DOMAIN registry.providers

RegisterProvider(registry, descriptor) ==
    [registry EXCEPT !.providers = (descriptor.id :> descriptor) @@ @]

ProvidersOf(registry, capability) ==
    {p \in DOMAIN registry.providers : registry.providers[p].capability = capability}

FirstProvider(registry, capability) ==
    LET offered == ProvidersOf(registry, capability)
    IN  IF offered = {} THEN NoProvider ELSE Least(offered)

-----------------------------------------------------------------------------
(* Planning.  A candidate is the sequence of steps [capability, provider]  *)
(* of the best route found so far to a value kind.                         *)

Missing(steps) == SelectSeq(steps, LAMBDA step : step.provider = NoProvider)

(* Fault: the shortest route first, whether or not anything can run it.    *)
Score_ShortestFirst(steps) ==
    <<Len(steps), Len(Missing(steps))>> \o [i \in DOMAIN steps |-> steps[i].capability]

Score(steps) ==
    <<Len(Missing(steps)), Len(steps)>> \o [i \in DOMAIN steps |-> steps[i].capability]

(* Scores are ordered lexicographically: missing providers, then length,   *)
(* then the identities on the route.                                       *)
Lower(x, y) ==
    \E i \in DOMAIN x \cap DOMAIN y :
        x[i] < y[i] /\ \A j \in 1 .. i - 1 : x[j] = y[j]

Fed(spec, candidates) == KindSet(spec.inputs) \subseteq DOMAIN candidates

CandidateFor(registry, spec, candidates) ==
    Append(FoldLeft(LAMBDA steps, port :
                        steps \o SelectSeq(candidates[port.kind],
                                    LAMBDA step : \A i \in DOMAIN steps :
                                        steps[i].capability # step.capability),
                    <<>>, spec.inputs),
           [capability |-> spec.id, provider |-> FirstProvider(registry, spec.id)])

Improve(registry, candidates, spec) ==
    IF ~Fed(spec, candidates) THEN candidates
    ELSE LET candidate == CandidateFor(registry, spec, candidates)
             replaced == {kind \in KindSet(spec.outputs) :
                             kind \in DOMAIN candidates =>
                                 Lower(Score(candidate), Score(candidates[kind]))}
         IN  [kind \in replaced |-> candidate] @@ candidates

SpecOrder(registry) ==
    LET order == SetToSortSeq(DOMAIN registry.specs, <)
    IN  [i \in DOMAIN order |-> registry.specs[order[i]]]

RECURSIVE Settle(_, _)
Settle(registry, candidates) ==
    LET next == FoldLeft(LAMBDA found, spec : Improve(registry, found, spec),
                         candidates, SpecOrder(registry))
    IN  IF next = candidates THEN candidates ELSE Settle(registry, next)

Settled(registry, initial) == Settle(registry, [kind \in initial |-> <<>>])

-----------------------------------------------------------------------------
(* Execution.  behaviour says what the code behind each provider does when *)
(* it is invoked: it returns "complete" or "partial" outputs, "fails",     *)
(* returns the "wrong" kinds, or is a transform of gooir-provider whose    *)
(* result is "exhaustive" or "defeated".                                   *)

(* A transform takes one input and gives one output, and what defeated it  *)
(* decides the coverage.                                                   *)
Transform(spec, result) ==
    IF Len(spec.inputs) # 1 \/ Len(spec.outputs) # 1 THEN "fails"
    ELSE IF result = "exhaustive" THEN "complete" ELSE "partial"

Behaves(spec, does) ==
    IF does \in {"exhaustive", "defeated"} THEN Transform(spec, does) ELSE does

Acceptable(port, fact) ==
    port.acceptance = "partial_allowed" \/ fact.coverage = "complete"

ValidOutputs(spec, kinds) ==
    IsInjective(kinds) /\ Range(kinds) = KindSet(spec.outputs)

(* The value kinds of what a provider returns.                             *)
Returned(spec, behaves) ==
    IF behaves = "wrong" THEN Tail(KindsOf(spec.outputs)) ELSE KindsOf(spec.outputs)

PreflightFault(registry, steps) ==
    LET repeats(ports) == ~IsInjective(KindsOf(ports))
        specOf(i) == registry.specs[steps[i].capability]
        faulty == {i \in DOMAIN steps : repeats(specOf(i).inputs) \/ repeats(specOf(i).outputs)}
    IN  IF faulty = {} THEN "none"
        ELSE IF repeats(specOf(Least(faulty)).inputs) THEN "repeated input kind"
        ELSE "repeated output kind"

StepFailure(spec, facts, behaves) ==
    LET bad == {i \in DOMAIN spec.inputs :
                    \/ spec.inputs[i].kind \notin DOMAIN facts
                    \/ ~Acceptable(spec.inputs[i], facts[spec.inputs[i].kind])}
    IN  IF bad # {}
        THEN IF spec.inputs[Least(bad)].kind \in DOMAIN facts
             THEN "partial input" ELSE "missing input"
        ELSE IF behaves = "fails" THEN "provider failed"
        ELSE IF ~ValidOutputs(spec, Returned(spec, behaves)) THEN "output contract"
        ELSE "none"

Outputs(spec, step, facts, behaves) ==
    [kind \in KindSet(spec.outputs) |->
        [kind |-> kind, intact |-> TRUE,
         coverage |-> IF behaves = "partial" THEN "partial" ELSE "complete",
         derivation |-> [by |-> "produced", capability |-> spec.id,
                         provider |-> step.provider,
                         inputs |-> [i \in DOMAIN spec.inputs |-> facts[spec.inputs[i].kind]]]]]

(* Outputs replace the facts of their kinds, inputs of the request too.    *)
RunStep(registry, behaviour, state, step) ==
    LET spec == registry.specs[step.capability]
        behaves == Behaves(spec, behaviour[step.provider])
        failure == StepFailure(spec, state.facts, behaves)
    IN  IF state.failure # "none" THEN state
        ELSE IF failure # "none" THEN [state EXCEPT !.failure = failure]
        ELSE [state EXCEPT !.facts = Outputs(spec, step, state.facts, behaves) @@ @]

Execute(registry, steps, target, inputs, behaviour) ==
    LET start == [facts |-> [kind \in {fact.kind : fact \in Range(inputs)} |->
                                 CHOOSE fact \in Range(inputs) : fact.kind = kind],
                  failure |-> "none"]
        end == FoldLeft(LAMBDA state, step : RunStep(registry, behaviour, state, step),
                        start, steps)
    IN  IF end.failure = "none" /\ target \notin DOMAIN end.facts
        THEN [end EXCEPT !.failure = "missing target"] ELSE end

-----------------------------------------------------------------------------
(* The door: [answer, steps, why, fact], fact the set of the one produced. *)

Reply(kind, steps, why, fact) ==
    [answer |-> kind, steps |-> steps, why |-> why, fact |-> fact]

Answer(registry, target, inputs, behaviour) ==
    LET kinds == [i \in DOMAIN inputs |-> inputs[i].kind]
        candidates == Settled(registry, Range(kinds))
        steps == candidates[target]
        fault == PreflightFault(registry, steps)
        run == Execute(registry, steps, target, inputs, behaviour)
    IN  IF ~IsInjective(kinds) THEN Reply("Refused", <<>>, "ambiguous input", {})
        ELSE IF target \notin DOMAIN candidates THEN Reply("Unreachable", <<>>, "none", {})
        ELSE IF Missing(steps) # <<>> THEN Reply("Blocked", steps, "none", {})
        ELSE IF fault # "none" THEN Reply("Refused", steps, fault, {})
        ELSE IF run.failure # "none" THEN Reply("Failed", steps, run.failure, {})
        ELSE Reply("Produced", steps, "none", {run.facts[target]})

Needs(reply) ==
    IF reply.answer = "Blocked"
    THEN LET open == Missing(reply.steps)
         IN  [i \in DOMAIN open |-> open[i].capability]
    ELSE <<>>
=============================================================================
