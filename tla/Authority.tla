------------------------------ MODULE Authority ------------------------------
(***************************************************************************)
(* The authority documents of gooir-capability and the pure operations of  *)
(* its AdmissionLedger (crates/gooir-capability/src/authority.rs and the   *)
(* invocation documents of protocol.rs).                                   *)
(*                                                                         *)
(* A document is a record.  The three kinds of document the ledger keys a  *)
(* map by (facts, decisions, authority records) carry their identity as a  *)
(* field, computed by a digest operator of which nothing is assumed: two   *)
(* contents may share an identity.  Every other identity of the code only  *)
(* correlates one document with another, and is modelled by putting the    *)
(* identified document itself in its place.  Evidence, extensions and      *)
(* protocol names are left out: no operation here looks at them.           *)
(***************************************************************************)
EXTENDS Naturals, FiniteSets, Sequences

CONSTANTS
  FactDigest(_, _),        \* value kind, payload -> FactId
  DecisionDigest(_, _, _), \* policy, subject, verdict -> AdmissionDecisionId
  RecordDigest(_, _)       \* fact, basis -> AuthorityRecordId

-----------------------------------------------------------------------------
(* Facts, invocations, candidates.                                          *)

NewFact(kind, payload) ==
  [id |-> FactDigest(kind, payload), kind |-> kind, payload |-> payload]

\* A deserialized fact is checked against the identity its content derives.
ValidFact(fact) == fact = NewFact(fact.kind, fact.payload)

Reference(record) ==
  [fact_id |-> record.fact.id, authority_record_id |-> record.authority_record_id]

\* Named ports are positions: a sequence fits a port list when it has the
\* same places and a fact of the right kind in each.
FitsPorts(kinds, facts) ==
  /\ DOMAIN facts = DOMAIN kinds
  /\ \A port \in DOMAIN kinds : ValidFact(facts[port]) /\ facts[port].kind = kinds[port]

ValidInvocation(invocation) ==
  LET inputs == invocation.inputs
      spec   == invocation.specification
  IN  /\ DOMAIN spec.output_kinds # {}
      /\ invocation.offer.capability = spec.id
      /\ FitsPorts(spec.input_kinds, [port \in DOMAIN inputs |-> inputs[port].fact])
      /\ \A port \in DOMAIN inputs : inputs[port].admitted.fact_id = inputs[port].fact.id

\* A candidate embeds a produced result; an unable result has no candidate.
ValidCandidate(candidate, invocation) ==
  /\ candidate.invocation = invocation
  /\ candidate.status = "produced"
  /\ FitsPorts(invocation.specification.output_kinds, candidate.outputs)

-----------------------------------------------------------------------------
(* Observations, assessments, policies, decisions.                          *)

ValidObservation(observation) ==
  /\ ValidFact(observation.fact)
  /\ observation.authority.kind = observation.fact.kind

\* One failed check fails the assessment, otherwise one indeterminate check
\* leaves it indeterminate.
DerivedOutcome(checks) ==
  IF "failed" \in checks THEN "failed"
  ELSE IF "indeterminate" \in checks THEN "indeterminate" ELSE "passed"

\* Fault: a shared artifact under another implementation name passes.
Independent_AnyDifference(attester, offer) ==
  \/ attester.implementation # offer.implementation
  \/ attester.artifact # offer.artifact

Independent(attester, offer) ==
  /\ attester.implementation # offer.implementation
  /\ attester.artifact # offer.artifact

ValidAssessment(assessment, invocation, candidate) ==
  /\ assessment.candidate = candidate
  /\ assessment.authority.suite = invocation.suite
  /\ Independent(assessment.authority.attester, invocation.offer)
  /\ assessment.checks # {}
  /\ assessment.outcome = DerivedOutcome(assessment.checks)

\* Only a policy of the second version may name provider offers.
ValidPolicy(policy) == policy.version = 2 \/ policy.offers = {}

AcceptsProviderOffer(policy, offer) == policy.version = 2 /\ offer \in policy.offers

ObservationVerdict(policy, observation) ==
  IF observation.authority \in policy.observations THEN "admit" ELSE "not_accepted"

CandidateVerdict(policy, assessment) ==
  IF assessment.outcome # "passed" THEN assessment.outcome
  ELSE IF assessment.authority \in policy.conformance THEN "admit" ELSE "not_accepted"

ProviderVerdict(policy, invocation) ==
  IF AcceptsProviderOffer(policy, invocation.offer) THEN "admit" ELSE "not_accepted"

Decision(policy, subject, verdict) ==
  [decision_id |-> DecisionDigest(policy, subject, verdict),
   policy |-> policy, subject |-> subject, verdict |-> verdict]

ObservationDecision(policy, observation) ==
  Decision(policy,
           [subject |-> "observation", observation |-> observation],
           ObservationVerdict(policy, observation))

CandidateDecision(policy, assessment, candidate) ==
  Decision(policy,
           [subject |-> "candidate", assessment |-> assessment, candidate |-> candidate],
           CandidateVerdict(policy, assessment))

ProviderDecision(policy, invocation, candidate) ==
  Decision(policy,
           [subject |-> "provider_candidate", offer |-> invocation.offer,
            candidate |-> candidate],
           ProviderVerdict(policy, invocation))

-----------------------------------------------------------------------------
(* Authority records.                                                       *)

Record(fact, basis) ==
  [authority_record_id |-> RecordDigest(fact, basis), fact |-> fact, basis |-> basis]

SourceRecord(observation, policy, decision) ==
  Record(observation.fact,
         [kind |-> "source", observation |-> observation, policy |-> policy,
          decision |-> decision])

DerivedRecord(port, invocation, candidate, assessment, policy, decision) ==
  Record(candidate.outputs[port],
         [kind |-> "derived", port |-> port, invocation |-> invocation,
          candidate |-> candidate, assessment |-> assessment, policy |-> policy,
          decision |-> decision])

ProviderRecord(port, invocation, candidate, policy, decision) ==
  Record(candidate.outputs[port],
         [kind |-> "provider_authorized", port |-> port, invocation |-> invocation,
          candidate |-> candidate, policy |-> policy, decision |-> decision])

\* The record is for the fact its candidate put on its output port.
OutputOfCandidate(record) ==
  LET outputs == record.basis.candidate.outputs
  IN  record.basis.port \in DOMAIN outputs /\ outputs[record.basis.port] = record.fact

ValidSourceBasis(record) ==
  LET b == record.basis
  IN  /\ ValidObservation(b.observation)
      /\ record.fact = b.observation.fact
      /\ b.decision = ObservationDecision(b.policy, b.observation)

ValidDerivedBasis(record) ==
  LET b == record.basis
  IN  /\ ValidInvocation(b.invocation)
      /\ ValidCandidate(b.candidate, b.invocation)
      /\ ValidAssessment(b.assessment, b.invocation, b.candidate)
      /\ b.decision = CandidateDecision(b.policy, b.assessment, b.candidate)
      /\ OutputOfCandidate(record)

ValidProviderBasis(record) ==
  LET b == record.basis
  IN  /\ ValidInvocation(b.invocation)
      /\ ValidCandidate(b.candidate, b.invocation)
      /\ b.decision = ProviderDecision(b.policy, b.invocation, b.candidate)
      /\ OutputOfCandidate(record)

ValidRecord(record) ==
  /\ ValidFact(record.fact)
  /\ record = Record(record.fact, record.basis)
  /\ \/ record.basis.kind = "source" /\ ValidSourceBasis(record)
     \/ record.basis.kind = "derived" /\ ValidDerivedBasis(record)
     \/ record.basis.kind = "provider_authorized" /\ ValidProviderBasis(record)
  /\ ValidPolicy(record.basis.policy)
  /\ record.basis.decision.verdict = "admit"

InputsOf(record) ==
  IF record.basis.kind = "source" THEN <<>> ELSE record.basis.invocation.inputs

-----------------------------------------------------------------------------
(* The ledger: three maps keyed by identity, each the set of its documents, *)
(* and the index of records by the fact they authorize.                     *)

EmptyLedger == [facts |-> {}, decisions |-> {}, authorities |-> {}, by_fact |-> {}]

\* resolve: the record exists, is for the referenced fact, and that very fact
\* is stored.  A bare fact identity resolves to nothing.
ResolvesTo(ledger, reference, fact) ==
  \E record \in ledger.authorities :
    /\ record.authority_record_id = reference.authority_record_id
    /\ record.fact.id = reference.fact_id
    /\ record.fact = fact
    /\ record.fact \in ledger.facts

InputsResolve(ledger, inputs) ==
  \A port \in DOMAIN inputs :
    ResolvesTo(ledger, inputs[port].admitted, inputs[port].fact)

FactIds(facts)       == {fact.id : fact \in facts}
DecisionIds(decisions) == {decision.decision_id : decision \in decisions}
RecordIds(records)   == {record.authority_record_id : record \in records}

\* Two different documents with one identity.
FactsCollide(facts)       == \E f, g \in facts : f.id = g.id /\ f # g
DecisionsCollide(decisions) ==
  \E d, e \in decisions : d.decision_id = e.decision_id /\ d # e
RecordsCollide(records)   ==
  \E r, s \in records : r.authority_record_id = s.authority_record_id /\ r # s

FactIndex(records) == {<<record.fact.id, record.authority_record_id>> : record \in records}

\* What an operation returns: the ledger it leaves, and the links it reports.
Outcome(status, ledger, links) == [status |-> status, ledger |-> ledger, links |-> links]
Rejected(ledger) == Outcome("error", ledger, {})
Withheld(ledger) == Outcome("withheld", ledger, {})

\* Fault: the fact map is not consulted before inserting.
CanCommit_FactsUnchecked(ledger, decision, records) ==
  /\ \A record \in records : ValidRecord(record) /\ record.basis.decision = decision
  /\ ~ RecordsCollide(ledger.authorities \cup records)
  /\ ~ DecisionsCollide(ledger.decisions \cup {decision})

\* Every record is revalidated and staged against what is stored before
\* anything is inserted; an identity already present keeps its document.
CanCommit(ledger, decision, records) ==
  /\ \A record \in records : ValidRecord(record) /\ record.basis.decision = decision
  /\ ~ FactsCollide(ledger.facts \cup {record.fact : record \in records})
  /\ ~ RecordsCollide(ledger.authorities \cup records)
  /\ ~ DecisionsCollide(ledger.decisions \cup {decision})

\* Fault: a fact that is already stored gets no further record.
CommitAdmission_OneRecordPerFact(ledger, decision, records) ==
  LET fresh == {r \in records : r.fact \notin ledger.facts}
  IN  IF CanCommit(ledger, decision, records)
      THEN Outcome("admitted",
             [facts       |-> ledger.facts \cup {r.fact : r \in fresh},
              decisions   |-> ledger.decisions \cup {decision},
              authorities |-> ledger.authorities \cup fresh,
              by_fact     |-> ledger.by_fact \cup FactIndex(fresh)],
             {[reference |-> Reference(r), fact |-> r.fact] : r \in fresh})
      ELSE Rejected(ledger)

CommitAdmission(ledger, decision, records) ==
  IF CanCommit(ledger, decision, records)
  THEN Outcome("admitted",
         [facts       |-> ledger.facts \cup
                          {f \in {record.fact : record \in records} :
                             f.id \notin FactIds(ledger.facts)},
          decisions   |-> ledger.decisions \cup
                          {d \in {decision} :
                             d.decision_id \notin DecisionIds(ledger.decisions)},
          authorities |-> ledger.authorities \cup
                          {r \in records :
                             r.authority_record_id \notin RecordIds(ledger.authorities)},
          by_fact     |-> ledger.by_fact \cup FactIndex(records)],
         {[reference |-> Reference(record), fact |-> record.fact] : record \in records})
  ELSE Rejected(ledger)

\* Fault: the decision is stored before its verdict is looked at.
Decide_StoresFirst(ledger, decision, records) ==
  IF decision.verdict = "admit"
  THEN CommitAdmission(ledger, decision, records)
  ELSE Withheld([ledger EXCEPT !.decisions = @ \cup {decision}])

\* The three admissions: validate, decide, and commit only an admitting decision.
Decide(ledger, decision, records) ==
  IF decision.verdict = "admit"
  THEN CommitAdmission(ledger, decision, records)
  ELSE Withheld(ledger)

AdmitObservation(ledger, policy, observation) ==
  LET decision == ObservationDecision(policy, observation)
  IN  IF ValidPolicy(policy) /\ ValidObservation(observation)
      THEN Decide(ledger, decision, {SourceRecord(observation, policy, decision)})
      ELSE Rejected(ledger)

AdmitCandidate(ledger, policy, invocation, candidate, assessment) ==
  LET decision == CandidateDecision(policy, assessment, candidate)
  IN  IF /\ ValidPolicy(policy)
         /\ ValidInvocation(invocation)
         /\ ValidCandidate(candidate, invocation)
         /\ ValidAssessment(assessment, invocation, candidate)
         /\ InputsResolve(ledger, invocation.inputs)
      THEN Decide(ledger, decision,
             {DerivedRecord(port, invocation, candidate, assessment, policy, decision) :
                port \in DOMAIN candidate.outputs})
      ELSE Rejected(ledger)

\* Fault: a trusted provider's inputs are not resolved.
AdmitProviderCandidate_Unresolved(ledger, policy, invocation, candidate) ==
  LET decision == ProviderDecision(policy, invocation, candidate)
  IN  IF /\ ValidPolicy(policy)
         /\ ValidInvocation(invocation)
         /\ ValidCandidate(candidate, invocation)
      THEN Decide(ledger, decision,
             {ProviderRecord(port, invocation, candidate, policy, decision) :
                port \in DOMAIN candidate.outputs})
      ELSE Rejected(ledger)

AdmitProviderCandidate(ledger, policy, invocation, candidate) ==
  LET decision == ProviderDecision(policy, invocation, candidate)
  IN  IF /\ ValidPolicy(policy)
         /\ ValidInvocation(invocation)
         /\ ValidCandidate(candidate, invocation)
         /\ InputsResolve(ledger, invocation.inputs)
      THEN Decide(ledger, decision,
             {ProviderRecord(port, invocation, candidate, policy, decision) :
                port \in DOMAIN candidate.outputs})
      ELSE Rejected(ledger)

-----------------------------------------------------------------------------
(* Snapshots.                                                               *)

Export(ledger) ==
  [facts |-> ledger.facts, decisions |-> ledger.decisions,
   authority_records |-> ledger.authorities]

Rebuilt(snapshot) ==
  [facts |-> snapshot.facts, decisions |-> snapshot.decisions,
   authorities |-> snapshot.authority_records,
   by_fact |-> FactIndex(snapshot.authority_records)]

\* validate_rebuilt_state: no fact and no decision without a record, no
\* record without its fact, its decision and every input it was derived from.
LedgerIsClosed(ledger) ==
  /\ \A fact \in ledger.facts :
       \E entry \in ledger.by_fact : entry[1] = fact.id
  /\ \A record \in ledger.authorities :
       /\ ValidRecord(record)
       /\ record.fact \in ledger.facts
       /\ record.basis.decision \in ledger.decisions
       /\ InputsResolve(ledger, InputsOf(record))
  /\ \A decision \in ledger.decisions :
       \E record \in ledger.authorities :
         record.basis.decision.decision_id = decision.decision_id

\* Rebuilding rejects repeated identities and anything that is not closed.
CanRebuild(snapshot) ==
  /\ \A fact \in snapshot.facts : ValidFact(fact)
  /\ \A record \in snapshot.authority_records : ValidRecord(record)
  /\ ~ FactsCollide(snapshot.facts)
  /\ ~ DecisionsCollide(snapshot.decisions)
  /\ ~ RecordsCollide(snapshot.authority_records)
  /\ LedgerIsClosed(Rebuilt(snapshot))

Rebuild(ledger, snapshot) ==
  IF CanRebuild(snapshot) THEN Outcome("rebuilt", Rebuilt(snapshot), {}) ELSE Rejected(ledger)

\* What is exported can be rebuilt, into exactly the same ledger.
RoundTrips(ledger) == CanRebuild(Export(ledger)) /\ Rebuilt(Export(ledger)) = ledger
=============================================================================
