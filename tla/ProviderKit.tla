------------------------------ MODULE ProviderKit ------------------------------
(***************************************************************************)
(* The authoring kit of gooir-provider (crates/gooir-provider/src/         *)
(* neutral.rs and attester.rs): what a provider or an attester executable  *)
(* that is written with it answers to the document it is given.  An error  *)
(* of the kit ends the executable without a document, which its host sees  *)
(* as HostError.                                                           *)
(*                                                                         *)
(* The code of an author is [returns, calls]: it returns "produced" after  *)
(* naming outputs, a sequence of [port, payload] in any order, or "unable" *)
(* or "error".                                                             *)
(***************************************************************************)
EXTENDS Membrane, Functions

-----------------------------------------------------------------------------
(* Providers.  An app is a set of registrations [specification,             *)
(* implementation].                                                         *)

\* Provider::new and ProviderApp::register.
CanRegister(app, registration) ==
  /\ DOMAIN registration.specification.output_kinds # {}
  /\ ~ \E r \in app : /\ r.specification.id = registration.specification.id
                      /\ r.implementation = registration.implementation

\* Dispatch is by capability and implementation, and the registration then
\* compares the whole declaration.
Registered(app, invocation) ==
  {r \in app : /\ r.specification.id = invocation.specification.id
               /\ r.implementation = invocation.offer.implementation
               /\ r.specification = invocation.specification}

\* Produced::output of every call, and finish: each call names a declared
\* output that has none yet, and none is left without.
Finishes(spec, calls) ==
  LET ports == [i \in DOMAIN calls |-> calls[i].port]
  IN  IsInjective(ports) /\ Range(ports) = DOMAIN spec.output_kinds

\* Fault: outputs are emitted in the order they were authored in.
Outputs_AsAuthored(spec, calls) ==
  [i \in DOMAIN calls |-> NewFact(spec.output_kinds[calls[i].port], calls[i].payload)]

\* finish emits the outputs in the order they are declared in.
Outputs(spec, calls) ==
  [port \in DOMAIN spec.output_kinds |->
     LET i == CHOOSE i \in DOMAIN calls : calls[i].port = port
     IN  NewFact(spec.output_kinds[port], calls[i].payload)]

Result(invocation, status, outputs) ==
  [invocation |-> invocation, status |-> status, outputs |-> outputs]

\* What is written for an outcome: nothing the protocol would refuse.
Framed(invocation, result) == IF ValidResult(result, invocation) THEN result ELSE HostError

\* ProviderApp::invoke, under serve_once.
ProviderReply(app, invocation, code) ==
  LET spec == invocation.specification
  IN  IF ~ ValidInvocation(invocation) \/ Registered(app, invocation) = {} THEN HostError
      ELSE IF code.returns = "unable" THEN Framed(invocation, Result(invocation, "unable", <<>>))
      ELSE IF code.returns = "error" \/ ~ Finishes(spec, code.calls) THEN HostError
      ELSE Framed(invocation, Result(invocation, "produced", Outputs(spec, code.calls)))

-----------------------------------------------------------------------------
(* Attesters.                                                               *)

\* AssessmentRequest::validate: the request holds the whole chain of the
\* candidate, and the authority the host selected.
ValidAssessmentRequest(invocation, candidate, authority) ==
  /\ ValidInvocation(invocation)
  /\ ValidCandidate(candidate, invocation)
  /\ authority.suite = invocation.suite
  /\ Independent(authority.attester, invocation.offer)

\* Attester::assess of an attester bound to a suite and an implementation, with
\* the checks its author's code reports.
AttesterReply(attester, invocation, candidate, authority, checks) ==
  LET assessment == [candidate |-> candidate, authority |-> authority, checks |-> checks,
                     outcome |-> DerivedOutcome(checks)]
  IN  IF /\ ValidAssessmentRequest(invocation, candidate, authority)
         /\ authority.suite = attester.suite
         /\ authority.attester.implementation = attester.implementation
         /\ ValidAssessment(assessment, invocation, candidate)
      THEN assessment ELSE HostError
=============================================================================
