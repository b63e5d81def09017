------------------------------- MODULE Membrane -------------------------------
(***************************************************************************)
(* The linked invocation membrane of gooir-derive (crates/gooir-derive/    *)
(* src/lib.rs): what is checked before an untrusted host is called, and    *)
(* what becomes of each document it returns.  A host reply is a result     *)
(* document, an assessment document, or HostError.                         *)
(***************************************************************************)
EXTENDS Authority

HostError == [status |-> "host_error"]

\* preflight_provider_invocation
ProviderPreflight(ledger, policy, invocation) ==
  /\ ValidInvocation(invocation)
  /\ ValidPolicy(policy)
  /\ InputsResolve(ledger, invocation.inputs)

\* preflight_linked_invocation
LinkedPreflight(ledger, policy, invocation, authority) ==
  /\ ProviderPreflight(ledger, policy, invocation)
  /\ authority.suite = invocation.suite
  /\ Independent(authority.attester, invocation.offer)

\* A result answers this invocation: with every output, or with none.
ValidResult(result, invocation) ==
  \/ ValidCandidate(result, invocation)
  \/ result.invocation = invocation /\ result.status = "unable"

\* What is to be done with the provider's reply.
ResultStage(result, invocation) ==
  IF result = HostError THEN "provider_host"
  ELSE IF ~ ValidResult(result, invocation) THEN "provider_result"
  ELSE IF result.status = "unable" THEN "provider_unable"
  ELSE "candidate"

\* Fault: whoever assessed the candidate, admission will see to it.
AssessmentStage_AnyAttester(assessment, invocation, candidate, authority) ==
  IF assessment = HostError THEN "attester_host"
  ELSE IF ~ ValidAssessment(assessment, invocation, candidate) THEN "assessment"
  ELSE "admission"

\* What is to be done with the attester's reply: only an assessment of this
\* candidate by the attester that was asked goes to admission.
AssessmentStage(assessment, invocation, candidate, authority) ==
  IF assessment = HostError THEN "attester_host"
  ELSE IF ~ ValidAssessment(assessment, invocation, candidate) THEN "assessment"
  ELSE IF assessment.authority # authority THEN "assessment"
  ELSE "admission"

\* The records an admission reported, as finish_admission resolves them.
AdmittedOutputs(outcome) ==
  {record \in outcome.ledger.authorities :
     \E link \in outcome.links : link.reference = Reference(record)}

\* A withheld decision says why: a policy refusal is not a failed conformance.
WithheldStage(decision) ==
  IF decision.verdict = "not_accepted" THEN "policy" ELSE "conformance"
=============================================================================
