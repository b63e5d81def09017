------------------------------ MODULE Derivation ------------------------------
(***************************************************************************)
(* One CompilerDriver of gooir-derive and the host it calls (crates/       *)
(* gooir-derive/src/driver.rs, and `execute` of facade.rs): sources are    *)
(* admitted, a request is prepared without an effect, and the prepared     *)
(* selection is executed step by step through the membrane while an        *)
(* untrusted host answers anything.                                        *)
(***************************************************************************)
EXTENDS Selection, ProviderKit

CONSTANTS
  Facades,      \* what a driver may be built over
  Sources,      \* lists of source observations a caller may present
  Goals,        \* targets a caller may ask for
  Replies(_),   \* fact sequences a provider may put in a result, by length
  CheckSets,    \* outcomes of the checks an attester may report
  MaxRecords    \* bound: no request starts once so many records are stored

\* Capabilities are numbers, an inventory has finitely many of them, and each
\* declares an output; the offers of an inventory are for the capability they name.
ASSUME FacadesAssumption ==
  \A f \in Facades :
    LET specs == f.inventory.specifications
    IN  /\ IsFiniteSet(DOMAIN specs) /\ DOMAIN specs \subseteq Nat
        /\ \A c \in DOMAIN specs : DOMAIN specs[c].outputs # {}
        /\ \A offer \in f.inventory.offers : OfferOf[offer].capability = offer[1]

\* Observations are presented in lists.
ASSUME SourcesAssumption == \A observations \in Sources : observations \in Seq(Range(observations))

VARIABLES
  facade,    \* the installed packages, the policy and the attesters
  ledger,    \* AdmissionLedger
  run,       \* the request being executed
  answer,    \* the last Answer
  asked,     \* history: the last request, and the records there were before it
  effects    \* history: the invocations handed to the host for it

vars == <<facade, ledger, run, answer, asked, effects>>

Idle == [status |-> "idle"]

NoRequest(records) == [mode |-> "none", before |-> records]

-----------------------------------------------------------------------------
(* Linking a step.                                                          *)

Route == run.selection.route
Step == Route.steps[run.index]
StepOffer == <<Step.capability, Step.offer>>

\* step_authority: the attester of the step, none when the policy accepts the
\* offer itself, and the suite that goes with it.
StepAttesters ==
  IF Direct(facade, StepOffer) THEN {} ELSE {run.selection.attesters[Step.capability]}

StepSuite ==
  IF StepAttesters = {} THEN Route.plan.specifications[Step.capability].suite
  ELSE run.selection.attesters[Step.capability].suite

From(records, source) ==
  {record \in records :
     /\ record.basis.kind # "source"
     /\ record.basis.invocation.specification.id = source.capability
     /\ record.basis.port = source.port}

\* Fault: a record of an earlier request will do.
RecordsAt_AnyRequest(source) == From(ledger.authorities, source)

\* The record this very request admitted for an output.
RecordsAt(source) == From(run.produced, source)

\* link_step: values of the request by their binding, the others by the
\* record admitted for the output they come from.
LinkedInput(port) ==
  LET source == Step.inputs[port]
      bound  == run.selection.bindings[<<Step.capability, port>>]
      record == CHOOSE record \in RecordsAt(source) : TRUE
  IN  IF source.source = "initial"
      THEN CHOOSE input \in [admitted : {bound}, fact : ledger.facts] :
             ResolvesTo(ledger, input.admitted, input.fact)
      ELSE [admitted |-> Reference(record), fact |-> record.fact]

Invocation ==
  LET spec == Route.plan.specifications[Step.capability]
  IN  [specification |-> [id |-> Step.capability, input_kinds |-> spec.inputs,
                          output_kinds |-> spec.outputs],
       offer     |-> OfferOf[StepOffer],
       suite     |-> StepSuite,
       inputs    |-> [port \in DOMAIN Step.inputs |-> LinkedInput(port)],
       selection |-> run.selection]

\* What keeps a linked step from the host, if anything does.
Preflight(invocation) ==
  IF ~ ProviderPreflight(ledger, facade.policy, invocation) THEN "linking"
  ELSE IF \E a \in StepAttesters : ~ LinkedPreflight(ledger, facade.policy, invocation, a)
  THEN "assessment"
  ELSE IF StepAttesters = {} /\ ~ AcceptsProviderOffer(facade.policy, invocation.offer)
  THEN "linking"
  ELSE "invoke"

-----------------------------------------------------------------------------
(* Answers.                                                                 *)

\* Fault: what the earlier steps admitted is not reported.
Failed_Forgets(stage) == [status |-> "failed", stage |-> stage, admitted |-> {}]

Failed(stage) == [status |-> "failed", stage |-> stage, admitted |-> run.produced]

Produced(target, admitted) ==
  [status |-> "produced", target |-> target, admitted |-> admitted]

Finish(a) == run' = Idle /\ answer' = a

-----------------------------------------------------------------------------

Init ==
  /\ facade \in Facades
  /\ ledger = EmptyLedger
  /\ run = Idle
  /\ answer = Answered("none")
  /\ asked = NoRequest({})
  /\ effects = {}

Bounded == Cardinality(ledger.authorities) < MaxRecords

\* One observation after the other on a copy of the ledger.
Staged(observations) ==
  LET Admit(staged, observation) ==
        IF staged.status = "admitted"
        THEN AdmitObservation(staged.ledger, facade.policy, observation) ELSE staged
  IN  FoldLeft(Admit, Outcome("admitted", ledger, {}), observations)

\* Fault: the driver admits into its own ledger.
AdmittedSources_InPlace(observations) == Staged(observations).ledger

AdmittedSources(observations) ==
  IF Len(observations) <= MaxInputs /\ Staged(observations).status = "admitted"
  THEN Staged(observations).ledger ELSE ledger

AdmitSources(observations) ==
  /\ run = Idle
  /\ ledger' = AdmittedSources(observations)
  /\ answer' = Answered("none")
  /\ asked' = NoRequest(ledger'.authorities)
  /\ effects' = {}
  /\ UNCHANGED <<facade, run>>

\* A request up to its fixed complete selection, or its answer without one.
Begin(prepared) ==
  IF prepared.status = "ready"
  THEN /\ run' = [status |-> "linking", selection |-> prepared.selection,
                  index |-> 1, produced |-> {}]
       /\ answer' = Answered("none")
  ELSE Finish(prepared)

Ask(request) ==
  /\ run = Idle
  /\ Bounded
  /\ Begin(Prepare(facade, ledger, request))
  /\ asked' = [mode |-> request.selection.mode, inputs |-> request.inputs,
               target |-> request.target, before |-> ledger.authorities]
  /\ effects' = {}
  /\ UNCHANGED <<facade, ledger>>

\* The next step, checked against the ledger as it is now, goes to the host.
HandOver(invocation, stage) ==
  IF stage = "invoke"
  THEN /\ run' = [status |-> "invoking", selection |-> run.selection, index |-> run.index,
                  produced |-> run.produced, invocation |-> invocation]
       /\ effects' = effects \cup {invocation}
       /\ UNCHANGED answer
  ELSE Finish(Failed(stage)) /\ UNCHANGED effects

Link ==
  /\ run.status = "linking"
  /\ run.index \in DOMAIN Route.steps
  /\ HandOver(Invocation, Preflight(Invocation))
  /\ UNCHANGED <<facade, ledger, asked>>

\* Fault: the step is taken again.
NextStep_Repeats(produced) ==
  [status |-> "linking", selection |-> run.selection, index |-> run.index,
   produced |-> run.produced \cup produced]

NextStep(produced) ==
  [status |-> "linking", selection |-> run.selection, index |-> run.index + 1,
   produced |-> run.produced \cup produced]

\* What an admission, or its refusal, does to the request.
Settle(outcome, decision) ==
  /\ ledger' = outcome.ledger
  /\ \/ outcome.status = "admitted" /\ run' = NextStep(AdmittedOutputs(outcome)) /\ UNCHANGED answer
     \/ /\ outcome.status = "withheld"
        /\ Finish(IF WithheldStage(decision) = "policy" THEN Refused("policy")
                  ELSE Failed("conformance"))
     \/ outcome.status = "error" /\ Finish(Failed("admission"))

\* The provider's reply; a candidate of an accepted offer goes to admission.
Invoked(result) ==
  /\ run.status = "invoking"
  /\ IF ResultStage(result, run.invocation) # "candidate"
     THEN Finish(Failed(ResultStage(result, run.invocation))) /\ UNCHANGED ledger
     ELSE IF StepAttesters = {}
     THEN Settle(AdmitProviderCandidate(ledger, facade.policy, run.invocation, result),
                 ProviderDecision(facade.policy, run.invocation, result))
     ELSE /\ run' = [status |-> "assessing", selection |-> run.selection, index |-> run.index,
                     produced |-> run.produced, invocation |-> run.invocation,
                     candidate |-> result]
          /\ UNCHANGED <<ledger, answer>>
  /\ UNCHANGED <<facade, asked, effects>>

\* The attester's reply.
Admission(assessment, stage) ==
  IF stage # "admission" THEN Finish(Failed(stage)) /\ UNCHANGED ledger
  ELSE Settle(AdmitCandidate(ledger, facade.policy, run.invocation, run.candidate, assessment),
              CandidateDecision(facade.policy, assessment, run.candidate))

Assessed(assessment) ==
  /\ run.status = "assessing"
  /\ \E expected \in StepAttesters :
       Admission(assessment, AssessmentStage(assessment, run.invocation, run.candidate, expected))
  /\ UNCHANGED <<facade, asked, effects>>

\* All steps are taken: the target is a value of the request or was produced.
Conclude ==
  LET target == IF Route.target.source = "initial" THEN run.selection.target_input
                ELSE {Reference(record) : record \in RecordsAt(Route.target)}
      admitted == run.produced \cup
                    (IF DOMAIN Route.steps = {}
                     THEN {r \in ledger.authorities : Reference(r) \in target} ELSE {})
  IN  /\ run.status = "linking"
      /\ run.index \notin DOMAIN Route.steps
      /\ IF \E reference \in target, fact \in ledger.facts : ResolvesTo(ledger, reference, fact)
         THEN Finish(Produced(CHOOSE reference \in target : TRUE, admitted))
         ELSE Finish(Failed("admission"))
      /\ UNCHANGED <<facade, ledger, asked, effects>>

-----------------------------------------------------------------------------
(* What callers and hosts may present.                                      *)

Known == {Reference(record) : record \in ledger.authorities}

\* No input, a known one, two of them or one twice, or a fact under an
\* authority that is not its own.
InputLists ==
  {<<>>} \cup {<<r, r>> : r \in Known} \cup {SetToSeq({r, s}) : r, s \in Known}
    \cup {<<[fact_id |-> r.fact_id, authority_record_id |-> s.authority_record_id]>> :
            r, s \in Known}

\* Every route of the plan by any of its offers; the routes of another plan
\* and incomplete ones come from adding a kind and dropping a step.
SomeRoutes(plan) ==
  LET found == {RouteAlternatives(plan, offers) : offers \in SUBSET plan.offers}
      whole == UNION {Range(f.routes) : f \in {f \in found : f.status = "routes"}}
  IN  UNION {{route, [route EXCEPT !.plan.initial = @ \cup {"other"}]} \cup
             {[route EXCEPT !.steps = Tail(@)] : i \in DOMAIN route.steps} :
               route \in whole}

\* With any attesters for the steps that need them, or for all, or for none.
AttemptedAttesters(route) ==
  LET all == {step.capability : step \in Range(route.steps)}
  IN  UNION {[C -> facade.attesters] :
               C \in {{}, all, {offer[1] : offer \in Attested(facade, route)}}}

AttemptsOver(values, made) ==
  IF made.status # "planned" THEN {}
  ELSE UNION {{Selected(route, c[1], c[2], c[3]) :
                 c \in BindingChoices(route, values)
                         \X (TargetChoices(route, values) \cup {{}})
                         \X AttemptedAttesters(route)} :
                route \in SomeRoutes(made.plan)}

Attempts(values, target) == AttemptsOver(values, PlanOf(facade, values, target))

Requests ==
  UNION {{Request(target, inputs, selection) :
            selection \in {UniqueOnly} \cup
              {Explicit(attempt) : attempt \in Attempts(ResolvedInputs(ledger, inputs), target)}} :
           target \in Goals, inputs \in InputLists}

\* Any result, for this invocation or for what it was without its inputs.
Results ==
  LET invocations == {run.invocation, [run.invocation EXCEPT !.inputs = <<>>]}
      outputs == Replies(Len(run.invocation.specification.output_kinds))
  IN  {HostError}
        \cup {[invocation |-> i, status |-> "unable", outputs |-> <<>>] : i \in invocations}
        \cup [invocation : invocations, status : {"produced"}, outputs : outputs]

\* Any attester of the inventory may answer, and claim what it likes.
Assessments ==
  {HostError} \cup
    {[candidate |-> run.candidate, authority |-> authority, checks |-> checks,
      outcome |-> outcome] :
       authority \in facade.attesters, checks \in CheckSets,
       outcome \in {"passed", "failed", "indeterminate"}}

Caller ==
  \/ run = Idle /\ \E observations \in Sources : AdmitSources(observations)
  \/ run = Idle /\ \E request \in Requests : Ask(request)

Execute ==
  \/ Link
  \/ run.status = "invoking" /\ \E result \in Results : Invoked(result)
  \/ run.status = "assessing" /\ \E assessment \in Assessments : Assessed(assessment)
  \/ Conclude

Next == Caller \/ Execute

\* A call in progress goes on: the host answers, if only with an error, for
\* every process it starts is given a deadline.
Spec == Init /\ [][Next]_vars /\ WF_vars(Execute)

-----------------------------------------------------------------------------
(* Providers and attesters written with the kit, one executable for all of  *)
(* what is installed.                                                       *)

KitApp ==
  LET specs == facade.inventory.specifications
  IN  {[specification |-> [id |-> offer[1], input_kinds |-> specs[offer[1]].inputs,
                           output_kinds |-> specs[offer[1]].outputs],
        implementation |-> OfferOf[offer].implementation] : offer \in facade.inventory.offers}

\* What an author's code may come to, in any order and for ports there are not.
AuthorsCode(spec) ==
  LET calls == {[port |-> port, payload |-> payload] :
                  port \in 1 .. Len(spec.output_kinds) + 1, payload \in {"1", "2"}}
  IN  {[returns |-> how, calls |-> <<>>] : how \in {"unable", "error"}} \cup
      {[returns |-> "produced", calls |-> named] :
         named \in {<<c>> : c \in calls} \cup {<<c, d>> : c, d \in calls}}

ProviderIsHeard ==
  \A code \in AuthorsCode(run.invocation.specification) :
    LET spec  == run.invocation.specification
        reply == ProviderReply(KitApp, run.invocation, code)
        whole == code.returns = "produced" /\ Finishes(spec, code.calls)
    IN  /\ ResultStage(reply, run.invocation) =
             IF whole THEN "candidate"
             ELSE IF code.returns = "unable" THEN "provider_unable" ELSE "provider_host"
        /\ whole => \A call \in Range(code.calls) : reply.outputs[call.port].payload = call.payload

AttesterIsHeard ==
  \A authority \in StepAttesters, checks \in SUBSET {"passed", "failed", "indeterminate"} :
    LET kit   == [suite |-> authority.suite, implementation |-> authority.attester.implementation]
        reply == AttesterReply(kit, run.invocation, run.candidate, authority, checks)
    IN  AssessmentStage(reply, run.invocation, run.candidate, authority) =
          IF checks = {} THEN "attester_host" ELSE "admission"

-----------------------------------------------------------------------------
(* What a derivation promises.                                              *)

\* A value that was produced resolves, is what was asked for, and was derived
\* from the inputs of this request and from nothing else the ledger holds.
GroundedInTheRequest ==
  answer.status = "produced" =>
    LET given == Range(asked.inputs)
        admitted == {Reference(record) : record \in answer.admitted}
    IN  /\ \E record \in ledger.authorities :
             /\ Reference(record) = answer.target
             /\ record.fact.kind = GoalKind(facade.inventory.specifications, asked.target)
             /\ asked.target.of = "output" =>
                  From({record}, asked.target) = {record}
        /\ answer.target \in admitted
        /\ \A record \in answer.admitted :
             \/ Reference(record) \in given
             \/ \A port \in DOMAIN InputsOf(record) :
                  InputsOf(record)[port].admitted \in given \cup admitted

\* Whatever becomes of a request, every record it added to the ledger is
\* reported with its answer: a later step that fails hides no earlier one.  One
\* that is refused, blocked or unreachable adds none and has not reached the
\* host: what the policy will not admit is known before anything is executed.
AdmittedIsReported ==
  LET added == ledger.authorities \ asked.before
  IN  /\ run # Idle => added \subseteq run.produced
      /\ answer.status \in {"produced", "failed"} =>
           added \subseteq answer.admitted /\ answer.admitted \subseteq ledger.authorities
      /\ answer.status \in {"refused", "blocked", "unreachable"} => added = {} /\ effects = {}

\* A selection that was prepared links and is admitted whenever the host does
\* its part: no failure is ever found in the linking of a step or in admission,
\* after effects nothing can take back.  And a host runs what is installed: a
\* provider or attester written with the kit is heard as its author meant it,
\* whatever the author's code does.
FailuresAreTheHosts ==
  /\ answer.status = "failed" => answer.stage \notin {"linking", "admission"}
  /\ run.status = "invoking" => ProviderIsHeard
  /\ run.status = "assessing" => AttesterIsHeard

\* What a request adds to the ledger was produced by the offer that was
\* selected for its step, and assessed by the attester selected for it, or by
\* none where the policy accepts the offer itself.
AssessedAsSelected ==
  \A record \in ledger.authorities \ asked.before :
    LET b == record.basis
        selection == b.invocation.selection
        c == b.invocation.specification.id
    IN  /\ \E step \in Range(selection.route.steps) :
             step.capability = c /\ OfferOf[<<c, step.offer>>] = b.invocation.offer
        /\ IF b.kind = "derived" THEN b.assessment.authority = selection.attesters[c]
           ELSE c \notin DOMAIN selection.attesters /\ b.invocation.offer \in b.policy.offers

AskedValues == ResolvedInputs(ledger, asked.inputs)

\* The routes the declarations give for the last request, with these offers.
RoutesWith(offers) ==
  AllRoutes(facade.inventory.specifications, offers, KindsOf(AskedValues), asked.target)

\* Unreachable is about the declarations, blocked about what is installed, and
\* a policy refusal about the policy: with an offer for every capability there
\* is still no route; or there is one, but not with the offers that are
\* available; or there is one with these, but none the policy would admit.
NonExecutionExplained ==
  LET specs == facade.inventory.specifications
      declared == {<<c, "any">> : c \in DOMAIN specs}
      available == {offer \in facade.inventory.offers :
                      Direct(facade, offer) \/ IndependentAttesters(facade, offer) # {}}
      accepted == {offer \in facade.inventory.offers :
                     Direct(facade, offer) \/ AcceptedAttesters(facade, offer) # {}}
  IN  /\ answer.status = "unreachable" => RoutesWith(declared) = {}
      /\ answer.status = "blocked" => RoutesWith(declared) # {} /\ RoutesWith(available) = {}
      /\ (answer = Refused("policy") /\ asked.mode = "unique") =>
           RoutesWith(available) # {} /\ RoutesWith(accepted) = {}

\* A route of the reference definition as a selected route of a plan.
AsRoute(plan, r) ==
  [plan |-> plan, target |-> r.target,
   steps |-> MapSeq(LAMBDA c : [capability |-> c, offer |-> r.offers[c][2], inputs |-> r.wiring[c]],
                    CanonicalOrder(r.wiring))]

DefaultSuiteAttesters(plan, route) ==
  UNION {{a \in [C -> facade.attesters] : \A c \in C : a[c].suite = plan.specifications[c].suite} :
           C \in SUBSET {step.capability : step \in Range(route.steps)}}

\* The selections for these values that could be made explicitly, by attesters
\* of the default suites.
Selectable(plan, values) ==
  {selection \in
     UNION {{Selected(route, c[1], c[2], c[3]) :
               c \in BindingChoices(route, values) \X TargetChoices(route, values)
                       \X DefaultSuiteAttesters(plan, route)} :
              route \in {AsRoute(plan, r) : r \in RoutesWith(facade.inventory.offers)}} :
     PrepareExplicit(facade, plan, values, selection).status = "ready"}

\* UniqueOnly proceeds exactly when one such selection would be accepted, and
\* with that one: the capped search by eligible offers and the validation of
\* explicit selections, two separate pieces of code, agree.
UniqueMeansUnique ==
  /\ asked.mode = "unique"
  /\ run = Idle => \/ answer = Answered("blocked")
                   \/ answer.status = "refused" /\ answer.refusal # "invalid_request"
  /\ ledger.authorities = asked.before /\ effects = {}
  => \E selectable \in {Selectable(PlanOf(facade, AskedValues, asked.target).plan, AskedValues)} :
       IF run = Idle THEN Cardinality(selectable) # 1 ELSE selectable = {run.selection}

\* Every wiring of the capabilities of a plan, by any of their offers, that the
\* validation of an explicit route accepts.
ValidRoutes(plan) ==
  LET specs == plan.specifications
      sources(C) == {Initially(kind) : kind \in plan.initial} \cup
                    {OutputOf(c, port) : c \in C, port \in 1 .. 2}
      routes(C) ==
        {[target |-> t, wiring |-> w, offers |-> o] :
           t \in sources(C),
           w \in {w \in [C -> UNION {[DOMAIN specs[c].inputs -> sources(C)] : c \in C}] :
                   \A c \in C : DOMAIN w[c] = DOMAIN specs[c].inputs},
           o \in {o \in [C -> plan.offers] : \A c \in C : o[c][1] = c}}
  IN  {route \in {AsRoute(plan, r) : r \in UNION {routes(C) : C \in SUBSET DOMAIN specs}} :
         ValidRoute(plan, route)}

\* docs/DECISIONS/0034_V1_DERIVATION_FACADE.md:113-115, "`UniqueOnly` proceeds
\* if and only if exactly one complete, available, policy-eligible selection
\* exists": when it does, no other route of the plan would be accepted.
UniqueIsTheOnlyRoute ==
  run # Idle /\ asked.mode = "unique" => ValidRoutes(Route.plan) = {Route}

\* A list of sources is admitted as a whole or not at all.
SourcesAllOrNothing ==
  [][\A observations \in Sources :
       AdmitSources(observations) =>
         \/ UNCHANGED ledger
         \/ \A observation \in Range(observations) :
              \E record \in ledger'.authorities :
                record.basis.kind = "source" /\ record.basis.observation = observation]_vars

\* Every request is answered, however the host replies.
EveryRequestAnswered == run # Idle ~> run = Idle
=============================================================================
