--------------------------- MODULE LegacyAdmission ---------------------------
(***************************************************************************)
(* The handoff beside the bootstrap registry: a capability need bound to   *)
(* exact facts (CapabilityRequest), an untrusted candidate bound to the    *)
(* request (CapabilityCandidate), and verify_and_admit, which alone turns  *)
(* the outputs of a candidate into facts.                                  *)
(*                                                                         *)
(* A request and a candidate are [id, body]: the identity is the digest of *)
(* a body, so the body that was digested stands for it, and a document     *)
(* that was altered after it was bound has id # body.                      *)
(***************************************************************************)
EXTENDS CapabilityRegistry

NoName == "blank"

-----------------------------------------------------------------------------
(* Requests: body is [capability, parses, requires, inputs, produces,      *)
(* suite] with requires a sequence of [kind, acceptance].                  *)

(* What bind_with_suite refuses of the need itself.                        *)
Bindable(spec) ==
    /\ ValidSpec(spec)
    /\ spec.extension = "none"
    /\ IsInjective(KindsOf(spec.inputs))
    /\ IsInjective(KindsOf(spec.outputs))

RequestBody(spec, inputs, suite) ==
    [capability |-> spec.id, parses |-> spec.parses,
     requires |-> [i \in DOMAIN spec.inputs |->
                      [kind |-> spec.inputs[i].kind, acceptance |-> spec.inputs[i].acceptance]],
     inputs |-> inputs, produces |-> KindsOf(spec.outputs), suite |-> suite]

(* The inputs are exactly one acceptable fact for every requirement.       *)
InputsMatch(requires, inputs) ==
    /\ IsInjective(KindsOf(inputs))
    /\ Range(KindsOf(inputs)) = Range(KindsOf(requires))
    /\ \A i \in DOMAIN inputs, j \in DOMAIN requires :
           inputs[i].kind = requires[j].kind => Acceptable(requires[j], inputs[i])

ValidRequestBody(body) ==
    /\ body.parses
    /\ body.suite # NoName
    /\ body.produces # <<>>
    /\ IsInjective(KindsOf(body.requires))
    /\ IsInjective(body.produces)
    /\ \A i \in DOMAIN body.inputs : body.inputs[i].intact
    /\ InputsMatch(body.requires, body.inputs)

CanBindRequest(spec, inputs, suite) ==
    /\ Bindable(spec)
    /\ ValidRequestBody(RequestBody(spec, inputs, suite))

BindRequest(spec, inputs, suite) ==
    LET body == RequestBody(spec, inputs, suite) IN [id |-> body, body |-> body]

ValidRequest(request) ==
    ValidRequestBody(request.body) /\ request.id = request.body

-----------------------------------------------------------------------------
(* Candidates: body is [request, provider, outputs, attempt] with outputs  *)
(* a sequence of [kind, coverage] and attempt a BOOLEAN: whether the       *)
(* evidence of the attempt is well formed.                                 *)

ValidCandidateBody(request, body) ==
    /\ body.request = request.id
    /\ ValidProvider(body.provider)
    /\ body.provider.capability = request.body.capability
    /\ IsInjective(KindsOf(body.outputs))
    /\ Range(KindsOf(body.outputs)) = Range(request.body.produces)
    /\ body.attempt

CandidateBody(request, provider, outputs, attempt) ==
    [request |-> request.id, provider |-> provider, outputs |-> outputs, attempt |-> attempt]

CanBindCandidate(request, provider, outputs, attempt) ==
    /\ ValidRequest(request)
    /\ ValidCandidateBody(request, CandidateBody(request, provider, outputs, attempt))

BindCandidate(request, provider, outputs, attempt) ==
    LET body == CandidateBody(request, provider, outputs, attempt)
    IN  [id |-> body, body |-> body]

(* Fault: the identity of the candidate is taken as it comes.              *)
ValidCandidate_AnyIdentity(request, candidate) ==
    ValidRequest(request) /\ ValidCandidateBody(request, candidate.body)

ValidCandidate(request, candidate) ==
    /\ ValidRequest(request)
    /\ ValidCandidateBody(request, candidate.body)
    /\ candidate.id = candidate.body

-----------------------------------------------------------------------------
(* Admission.  An attester is [id, suite, implementation, wellFormed]; the *)
(* checks it returns are a sequence of [name, passed]; a policy is the set *)
(* of attester descriptors the host admits.                                *)

ValidAttester(attester) == attester.wellFormed /\ attester.suite # NoName

Independent(attester, provider) ==
    /\ attester.id # provider.id
    /\ attester.implementation # provider.implementation

CanVerify(request, candidate, attester) ==
    /\ ValidCandidate(request, candidate)
    /\ ValidAttester(attester)
    /\ attester.suite = request.body.suite
    /\ Independent(attester, candidate.body.provider)

ValidChecks(checks) ==
    checks # <<>> /\ \A i \in DOMAIN checks : checks[i].name # NoName

Conformance(request, candidate, attester, checks) ==
    [request |-> request.id, candidate |-> candidate.id, attester |-> attester,
     passed |-> \A i \in DOMAIN checks : checks[i].passed, checks |-> checks]

Withheld(conformance, policy) ==
    IF ~conformance.passed THEN "conformance failed"
    ELSE IF conformance.attester \notin policy THEN "attester not admitted"
    ELSE "none"

AdmittedFacts(request, candidate, conformance) ==
    {[kind |-> output.kind, coverage |-> output.coverage, intact |-> TRUE,
      derivation |-> [by |-> "admitted", capability |-> request.body.capability,
                      provider |-> candidate.body.provider, inputs |-> request.body.inputs,
                      request |-> request.id, candidate |-> candidate.id,
                      conformance |-> conformance]] :
        output \in Range(candidate.body.outputs)}

VerifyAndAdmit(request, candidate, attester, checks, policy) ==
    LET conformance == Conformance(request, candidate, attester, checks)
    IN  IF Withheld(conformance, policy) = "none"
        THEN AdmittedFacts(request, candidate, conformance) ELSE {}
=============================================================================
