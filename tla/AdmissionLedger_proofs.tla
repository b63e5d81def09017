------------------------ MODULE AdmissionLedger_proofs ------------------------
(***************************************************************************)
(* Proofs about AdmissionLedger, for every choice of documents, digests    *)
(* and storage.  The inductive invariant is SnapshotRoundTrip itself: a    *)
(* ledger that can be exported and rebuilt is closed, and closure is what  *)
(* the next admission needs to stay closed.                                *)
(***************************************************************************)
EXTENDS AdmissionLedger, TLAPS

\* A closed ledger, said of the ledger instead of its export.
LEMMA RoundTripsMeansClosed ==
  ASSUME NEW l
  PROVE  RoundTrips(l) <=>
           /\ l = [facts |-> l.facts, decisions |-> l.decisions,
                   authorities |-> l.authorities, by_fact |-> FactIndex(l.authorities)]
           /\ \A fact \in l.facts : ValidFact(fact)
           /\ \A record \in l.authorities : ValidRecord(record)
           /\ ~ FactsCollide(l.facts)
           /\ ~ DecisionsCollide(l.decisions)
           /\ ~ RecordsCollide(l.authorities)
           /\ LedgerIsClosed(l)
BY DEF RoundTrips, CanRebuild, Export, Rebuilt

\* A new host's ledger is closed: there is nothing to close over.
LEMMA EmptyLedgerRoundTrips == RoundTrips(EmptyLedger)
BY RoundTripsMeansClosed
   DEF EmptyLedger, FactIndex, FactsCollide, DecisionsCollide, RecordsCollide, LedgerIsClosed

\* Storing more never unresolves a reference.
LEMMA ResolutionIsMonotone ==
  ASSUME NEW l, NEW m, NEW reference, NEW fact,
         l.authorities \subseteq m.authorities,
         l.facts \subseteq m.facts,
         ResolvesTo(l, reference, fact)
  PROVE  ResolvesTo(m, reference, fact)
BY DEF ResolvesTo

\* The ledger a commit leaves when nothing collides: every staged document is
\* in it, because an identity already present has the same document.
LEMMA CommitStoresTheStaged ==
  ASSUME NEW l, NEW decision, NEW records, CanCommit(l, decision, records)
  PROVE  LET m == CommitAdmission(l, decision, records).ledger
         IN  /\ m.facts = l.facts \cup {record.fact : record \in records}
             /\ m.decisions = l.decisions \cup {decision}
             /\ m.authorities = l.authorities \cup records
             /\ m.by_fact = l.by_fact \cup FactIndex(records)
             /\ m = [facts |-> m.facts, decisions |-> m.decisions,
                     authorities |-> m.authorities, by_fact |-> m.by_fact]
<1> DEFINE m == CommitAdmission(l, decision, records).ledger
           staged == {record.fact : record \in records}
<1>1. m = [facts       |-> l.facts \cup {f \in staged : f.id \notin FactIds(l.facts)},
           decisions   |-> l.decisions \cup
                           {d \in {decision} : d.decision_id \notin DecisionIds(l.decisions)},
           authorities |-> l.authorities \cup
                           {r \in records :
                              r.authority_record_id \notin RecordIds(l.authorities)},
           by_fact     |-> l.by_fact \cup FactIndex(records)]
  BY DEF CommitAdmission, Outcome
<1>2. \A f \in staged : f.id \in FactIds(l.facts) => f \in l.facts
  BY DEF CanCommit, FactsCollide, FactIds
<1>3. decision.decision_id \in DecisionIds(l.decisions) => decision \in l.decisions
  BY DEF CanCommit, DecisionsCollide, DecisionIds
<1>4. \A r \in records :
        r.authority_record_id \in RecordIds(l.authorities) => r \in l.authorities
  BY DEF CanCommit, RecordsCollide, RecordIds
<1>5. QED
  BY <1>1, <1>2, <1>3, <1>4

\* Committing records whose inputs resolve keeps the ledger closed.
LEMMA CommitRoundTrips ==
  ASSUME NEW l, RoundTrips(l), NEW decision, NEW records,
         CanCommit(l, decision, records),
         records # {},
         \A record \in records : InputsResolve(l, InputsOf(record))
  PROVE  RoundTrips(CommitAdmission(l, decision, records).ledger)
<1> DEFINE m == CommitAdmission(l, decision, records).ledger
           staged == {record.fact : record \in records}
<1>1. /\ l = [facts |-> l.facts, decisions |-> l.decisions,
              authorities |-> l.authorities, by_fact |-> FactIndex(l.authorities)]
      /\ \A fact \in l.facts : ValidFact(fact)
      /\ \A record \in l.authorities : ValidRecord(record)
      /\ LedgerIsClosed(l)
  BY RoundTripsMeansClosed
<1>2. /\ m.facts = l.facts \cup staged
      /\ m.decisions = l.decisions \cup {decision}
      /\ m.authorities = l.authorities \cup records
      /\ m.by_fact = l.by_fact \cup FactIndex(records)
      /\ m = [facts |-> m.facts, decisions |-> m.decisions,
              authorities |-> m.authorities, by_fact |-> m.by_fact]
  BY CommitStoresTheStaged
<1> HIDE DEF m
<1>3. /\ \A record \in records : ValidRecord(record) /\ record.basis.decision = decision
      /\ ~ FactsCollide(m.facts)
      /\ ~ DecisionsCollide(m.decisions)
      /\ ~ RecordsCollide(m.authorities)
  BY <1>2 DEF CanCommit
<1>4. m.by_fact = FactIndex(m.authorities)
  <2>1. l.by_fact = FactIndex(l.authorities)
    BY <1>1
  <2>2. FactIndex(l.authorities \cup records) = FactIndex(l.authorities) \cup FactIndex(records)
    BY DEF FactIndex
  <2>3. QED
    BY <1>2, <2>1, <2>2
<1>5. \A fact \in m.facts : ValidFact(fact)
  <2>1. \A record \in records : ValidFact(record.fact)
    BY <1>3 DEF ValidRecord
  <2>2. QED
    BY <1>1, <1>2, <2>1
<1>6. \A record \in m.authorities : ValidRecord(record)
  BY <1>1, <1>2, <1>3
<1>7. LedgerIsClosed(m)
  <2>1. ASSUME NEW fact \in m.facts
        PROVE  \E entry \in m.by_fact : entry[1] = fact.id
    <3>1. CASE fact \in l.facts
      BY <3>1, <1>1, <1>2 DEF LedgerIsClosed
    <3>2. CASE fact \in staged
      <4>1. PICK record \in records : fact = record.fact
        BY <3>2
      <4>2. <<record.fact.id, record.authority_record_id>> \in m.by_fact
        BY <1>2 DEF FactIndex
      <4>3. QED
        BY <4>1, <4>2
    <3>3. QED
      BY <3>1, <3>2, <1>2
  <2>2. ASSUME NEW record \in m.authorities
        PROVE  /\ record.fact \in m.facts
               /\ record.basis.decision \in m.decisions
               /\ InputsResolve(m, InputsOf(record))
    <3>1. InputsResolve(l, InputsOf(record)) => InputsResolve(m, InputsOf(record))
      BY ResolutionIsMonotone, <1>2 DEF InputsResolve
    <3>2. CASE record \in l.authorities
      BY <3>1, <3>2, <1>1, <1>2 DEF LedgerIsClosed
    <3>3. CASE record \in records
      BY <3>1, <3>3, <1>2, <1>3
    <3>4. QED
      BY <3>2, <3>3, <1>2
  <2>3. ASSUME NEW d \in m.decisions
        PROVE  \E record \in m.authorities :
                 record.basis.decision.decision_id = d.decision_id
    <3>1. CASE d \in l.decisions
      BY <3>1, <1>1, <1>2 DEF LedgerIsClosed
    <3>2. CASE d = decision
      BY <3>2, <1>2, <1>3
    <3>3. QED
      BY <3>1, <3>2, <1>2
  <2>4. QED
    BY <2>1, <2>2, <2>3, <1>6 DEF LedgerIsClosed
<1>8. QED
  BY <1>2, <1>3, <1>4, <1>5, <1>6, <1>7, RoundTripsMeansClosed DEF m

\* A decision either changes nothing or commits.
LEMMA DecideRoundTrips ==
  ASSUME NEW l, RoundTrips(l), NEW decision, NEW records,
         records # {},
         \A record \in records : InputsResolve(l, InputsOf(record))
  PROVE  RoundTrips(Decide(l, decision, records).ledger)
<1>1. CASE decision.verdict = "admit" /\ CanCommit(l, decision, records)
  <2>1. Decide(l, decision, records) = CommitAdmission(l, decision, records)
    BY <1>1 DEF Decide
  <2>2. QED
    BY <1>1, <2>1, CommitRoundTrips
<1>2. CASE ~ (decision.verdict = "admit" /\ CanCommit(l, decision, records))
  BY <1>2 DEF Decide, CommitAdmission, Withheld, Rejected, Outcome
<1>3. QED
  BY <1>1, <1>2

\* admit_observation keeps a ledger that can be rebuilt.
LEMMA ObservationRoundTrips ==
  ASSUME NEW l, RoundTrips(l), NEW policy, NEW observation
  PROVE  RoundTrips(AdmitObservation(l, policy, observation).ledger)
<1> DEFINE decision == ObservationDecision(policy, observation)
           record == SourceRecord(observation, policy, decision)
<1>1. InputsResolve(l, InputsOf(record))
  BY DEF SourceRecord, Record, InputsOf, InputsResolve
<1>2. RoundTrips(Decide(l, decision, {record}).ledger)
  BY <1>1, DecideRoundTrips
<1>3. CASE ValidPolicy(policy) /\ ValidObservation(observation)
  BY <1>2, <1>3 DEF AdmitObservation
<1>4. CASE ~ (ValidPolicy(policy) /\ ValidObservation(observation))
  BY <1>4 DEF AdmitObservation, Rejected, Outcome
<1>5. QED
  BY <1>3, <1>4

\* admit_candidate keeps it, for the inputs of its records are in the ledger.
LEMMA CandidateRoundTrips ==
  ASSUME NEW l, RoundTrips(l), NEW policy, NEW invocation, NEW candidate, NEW assessment
  PROVE  RoundTrips(AdmitCandidate(l, policy, invocation, candidate, assessment).ledger)
<1> DEFINE decision == CandidateDecision(policy, assessment, candidate)
           record(port) ==
             DerivedRecord(port, invocation, candidate, assessment, policy, decision)
           records == {record(port) : port \in DOMAIN candidate.outputs}
           accepted == /\ ValidPolicy(policy)
                       /\ ValidInvocation(invocation)
                       /\ ValidCandidate(candidate, invocation)
                       /\ ValidAssessment(assessment, invocation, candidate)
                       /\ InputsResolve(l, invocation.inputs)
<1>1. CASE accepted
  <2>1. records # {}
    BY <1>1 DEF ValidInvocation, ValidCandidate, FitsPorts
  <2>2. \A r \in records : InputsResolve(l, InputsOf(r))
    <3>1. \A port : InputsOf(record(port)) = invocation.inputs
      BY DEF DerivedRecord, Record, InputsOf
    <3>2. InputsResolve(l, invocation.inputs)
      BY <1>1
    <3> HIDE DEF record
    <3>3. QED
      BY <3>1, <3>2
  <2>3. RoundTrips(Decide(l, decision, records).ledger)
    BY <2>1, <2>2, DecideRoundTrips
  <2>4. QED
    BY <1>1, <2>3 DEF AdmitCandidate
<1>2. CASE ~ accepted
  BY <1>2 DEF AdmitCandidate, Rejected, Outcome
<1>3. QED
  BY <1>1, <1>2

\* admit_provider_candidate keeps it in the same way.
LEMMA ProviderCandidateRoundTrips ==
  ASSUME NEW l, RoundTrips(l), NEW policy, NEW invocation, NEW candidate
  PROVE  RoundTrips(AdmitProviderCandidate(l, policy, invocation, candidate).ledger)
<1> DEFINE decision == ProviderDecision(policy, invocation, candidate)
           record(port) == ProviderRecord(port, invocation, candidate, policy, decision)
           records == {record(port) : port \in DOMAIN candidate.outputs}
           accepted == /\ ValidPolicy(policy)
                       /\ ValidInvocation(invocation)
                       /\ ValidCandidate(candidate, invocation)
                       /\ InputsResolve(l, invocation.inputs)
<1>1. CASE accepted
  <2>1. records # {}
    BY <1>1 DEF ValidInvocation, ValidCandidate, FitsPorts
  <2>2. \A r \in records : InputsResolve(l, InputsOf(r))
    <3>1. \A port : InputsOf(record(port)) = invocation.inputs
      BY DEF ProviderRecord, Record, InputsOf
    <3>2. InputsResolve(l, invocation.inputs)
      BY <1>1
    <3> HIDE DEF record
    <3>3. QED
      BY <3>1, <3>2
  <2>3. RoundTrips(Decide(l, decision, records).ledger)
    BY <2>1, <2>2, DecideRoundTrips
  <2>4. QED
    BY <1>1, <2>3 DEF AdmitProviderCandidate
<1>2. CASE ~ accepted
  BY <1>2 DEF AdmitProviderCandidate, Rejected, Outcome
<1>3. QED
  BY <1>1, <1>2

\* Rebuilding either keeps the ledger or replaces it by one that closes.
LEMMA RebuildRoundTrips ==
  ASSUME NEW l, RoundTrips(l), NEW snapshot
  PROVE  RoundTrips(Rebuild(l, snapshot).ledger)
<1>1. CASE CanRebuild(snapshot)
  <2>1. Rebuild(l, snapshot).ledger = Rebuilt(snapshot)
    BY <1>1 DEF Rebuild, Outcome
  <2>2. RoundTrips(Rebuilt(snapshot))
    BY <1>1 DEF RoundTrips, CanRebuild, Rebuilt, Export
  <2>3. QED
    BY <2>1, <2>2
<1>2. CASE ~ CanRebuild(snapshot)
  BY <1>2 DEF Rebuild, Rejected, Outcome
<1>3. QED
  BY <1>1, <1>2

\* Whatever callers present and storage returns, and whatever identities
\* collide, the ledger can always be exported and rebuilt into itself.
THEOREM AlwaysRoundTrips == Spec => []SnapshotRoundTrip
<1>1. Init => SnapshotRoundTrip
  BY EmptyLedgerRoundTrips DEF Init, SnapshotRoundTrip
<1>2. SnapshotRoundTrip /\ [Next]_vars => SnapshotRoundTrip'
  <2> SUFFICES ASSUME RoundTrips(ledger), [Next]_vars
               PROVE  RoundTrips(ledger')
    BY DEF SnapshotRoundTrip
  <2>1. ASSUME NEW policy, NEW observation, Observe(policy, observation)
        PROVE  RoundTrips(ledger')
    BY <2>1, ObservationRoundTrips DEF Observe, Apply
  <2>2. ASSUME NEW policy, NEW invocation, NEW candidate, NEW assessment,
               Assess(policy, invocation, candidate, assessment)
        PROVE  RoundTrips(ledger')
    BY <2>2, CandidateRoundTrips DEF Assess, Apply
  <2>3. ASSUME NEW policy, NEW invocation, NEW candidate,
               AcceptProvider(policy, invocation, candidate)
        PROVE  RoundTrips(ledger')
    BY <2>3, ProviderCandidateRoundTrips DEF AcceptProvider, Apply
  <2>4. CASE Save
    BY <2>4 DEF Save
  <2>5. ASSUME NEW snapshot, Restore(snapshot)
        PROVE  RoundTrips(ledger')
    BY <2>5, RebuildRoundTrips DEF Restore
  <2>6. CASE UNCHANGED vars
    BY <2>6 DEF vars
  <2>7. QED
    BY <2>1, <2>2, <2>3, <2>4, <2>5, <2>6 DEF Next
<1>3. QED
  BY <1>1, <1>2, PTL DEF Spec
-----------------------------------------------------------------------------
(* Consequences of closure: every record of a ledger that round-trips was   *)
(* validated against its own basis.                                         *)

\* A valid record was earned, and its decision admits.
LEMMA ValidRecordIsEarned ==
  ASSUME NEW record, ValidRecord(record)
  PROVE  LET b == record.basis
         IN  \/ /\ b.kind = "source"
                /\ b.observation.fact = record.fact
                /\ b.observation.authority \in b.policy.observations
             \/ /\ b.kind = "provider_authorized"
                /\ b.invocation.offer \in b.policy.offers
                /\ b.candidate.invocation = b.invocation
                /\ b.candidate.outputs[b.port] = record.fact
             \/ /\ b.kind = "derived"
                /\ b.assessment.authority \in b.policy.conformance
                /\ b.assessment.authority.attester.implementation
                     # b.invocation.offer.implementation
                /\ b.assessment.authority.attester.artifact # b.invocation.offer.artifact
                /\ b.assessment.checks \cap {"failed", "indeterminate"} = {}
                /\ b.assessment.candidate.invocation = b.invocation
                /\ b.assessment.candidate.outputs[b.port] = record.fact
<1> DEFINE b == record.basis
<1>1. b.decision.verdict = "admit"
  BY DEF ValidRecord
<1>2. CASE b.kind = "source" /\ ValidSourceBasis(record)
  <2>1. ObservationVerdict(b.policy, b.observation) = "admit"
    BY <1>1, <1>2 DEF ValidSourceBasis, ObservationDecision, Decision
  <2>2. b.observation.authority \in b.policy.observations
    BY <2>1 DEF ObservationVerdict
  <2>3. QED
    BY <1>2, <2>2 DEF ValidSourceBasis
<1>3. CASE b.kind = "derived" /\ ValidDerivedBasis(record)
  <2>1. CandidateVerdict(b.policy, b.assessment) = "admit"
    BY <1>1, <1>3 DEF ValidDerivedBasis, CandidateDecision, Decision
  <2>2. ValidAssessment(b.assessment, b.invocation, b.candidate)
    BY <1>3 DEF ValidDerivedBasis
  <2>3. b.assessment.outcome = "passed" /\ b.assessment.authority \in b.policy.conformance
    BY <2>1, <2>2 DEF CandidateVerdict, ValidAssessment, DerivedOutcome
  <2>4. b.assessment.checks \cap {"failed", "indeterminate"} = {}
    BY <2>2, <2>3 DEF ValidAssessment, DerivedOutcome
  <2>5. QED
    BY <1>3, <2>2, <2>3, <2>4
       DEF ValidDerivedBasis, ValidAssessment, ValidCandidate, Independent, OutputOfCandidate
<1>4. CASE b.kind = "provider_authorized" /\ ValidProviderBasis(record)
  <2>1. ProviderVerdict(b.policy, b.invocation) = "admit"
    BY <1>1, <1>4 DEF ValidProviderBasis, ProviderDecision, Decision
  <2>2. b.invocation.offer \in b.policy.offers
    BY <2>1 DEF ProviderVerdict, AcceptsProviderOffer
  <2>3. QED
    BY <1>4, <2>2 DEF ValidProviderBasis, ValidCandidate, OutputOfCandidate
<1>5. QED
  BY <1>2, <1>3, <1>4 DEF ValidRecord

\* No fact becomes linkable except on the authority its own policy names, in
\* any ledger a host can reach or rebuild.
THEOREM AuthorityIsAlwaysEarned == Spec => []AuthorityEarned
<1>1. SnapshotRoundTrip => AuthorityEarned
  <2> SUFFICES ASSUME RoundTrips(ledger), NEW record \in ledger.authorities
               PROVE  ValidRecord(record)
    BY ValidRecordIsEarned DEF SnapshotRoundTrip, AuthorityEarned
  <2>1. QED
    BY RoundTripsMeansClosed
<1>2. QED
  BY <1>1, AlwaysRoundTrips, PTL

\* Documents of a ledger that round-trips have their own types.
LEMMA ClosedLedgerIsTyped ==
  ASSUME NEW l, RoundTrips(l)
  PROVE  /\ DOMAIN l = {"facts", "decisions", "authorities", "by_fact"}
         /\ \A fact \in l.facts : IsFact(fact)
         /\ \A decision \in l.decisions : IsDecision(decision)
         /\ \A record \in l.authorities : IsRecord(record)
         /\ l.by_fact = FactIndex(l.authorities)
<1>1. /\ l = [facts |-> l.facts, decisions |-> l.decisions,
              authorities |-> l.authorities, by_fact |-> FactIndex(l.authorities)]
      /\ \A fact \in l.facts : ValidFact(fact)
      /\ \A record \in l.authorities : ValidRecord(record)
      /\ ~ DecisionsCollide(l.decisions)
      /\ LedgerIsClosed(l)
  BY RoundTripsMeansClosed
<1>2. DOMAIN l = {"facts", "decisions", "authorities", "by_fact"}
      /\ l.by_fact = FactIndex(l.authorities)
  <2> DEFINE index == FactIndex(l.authorities)
  <2> HIDE DEF index
  <2>1. l = [facts |-> l.facts, decisions |-> l.decisions,
             authorities |-> l.authorities, by_fact |-> index]
    BY <1>1 DEF index
  <2>2. DOMAIN l = {"facts", "decisions", "authorities", "by_fact"} /\ l.by_fact = index
    BY <2>1
  <2>3. QED
    BY <2>2 DEF index
<1>3. \A fact \in l.facts : IsFact(fact)
  BY <1>1 DEF ValidFact, NewFact, IsFact
<1>4. \A record \in l.authorities : IsRecord(record)
  BY <1>1 DEF ValidRecord, Record, IsRecord
<1>5. ASSUME NEW decision \in l.decisions
      PROVE  IsDecision(decision)
  <2>1. PICK record \in l.authorities :
          record.basis.decision.decision_id = decision.decision_id
    BY <1>1 DEF LedgerIsClosed
  <2>2. ValidRecord(record) /\ record.basis.decision \in l.decisions
    BY <1>1 DEF LedgerIsClosed
  <2>3. decision = record.basis.decision
    BY <1>1, <2>1, <2>2 DEF DecisionsCollide
  <2>4. \E policy, subject, verdict : decision = Decision(policy, subject, verdict)
    BY <2>2, <2>3 DEF ValidRecord, ValidSourceBasis, ValidDerivedBasis, ValidProviderBasis,
                      ObservationDecision, CandidateDecision, ProviderDecision
  <2>5. QED
    BY <2>2, <2>3, <2>4 DEF Decision, IsDecision, ValidRecord
<1>6. QED
  BY <1>2, <1>3, <1>4, <1>5
-----------------------------------------------------------------------------
(* What one admission does, whichever of the three it is.                   *)

\* Every output of a candidate's decision has its record among `records`.
AllOutputs(decision, records) ==
  decision.subject.subject # "observation" =>
    \A port \in DOMAIN decision.subject.candidate.outputs :
      \E record \in records :
        /\ record.basis.decision = decision
        /\ record.basis.port = port
        /\ record.fact = decision.subject.candidate.outputs[port]

\* The outcome leaves the ledger alone or commits one whole decision to it.
Commits(l, outcome, decision, records) ==
  /\ CanCommit(l, decision, records)
  /\ AllOutputs(decision, records)
  /\ outcome = CommitAdmission(l, decision, records)

CommitsOrNothing(l, outcome) ==
  \/ outcome.ledger = l /\ outcome.links = {}
  \/ \E decision, records : Commits(l, outcome, decision, records)

\* What a committed outcome leaves and reports.
LEMMA CommittedOutcome ==
  ASSUME NEW l, NEW outcome, NEW decision, NEW records,
         Commits(l, outcome, decision, records)
  PROVE  /\ outcome.ledger.decisions = l.decisions \cup {decision}
         /\ outcome.ledger.authorities = l.authorities \cup records
         /\ outcome.links =
              {[reference |-> Reference(record), fact |-> record.fact] : record \in records}
<1> DEFINE m == CommitAdmission(l, decision, records).ledger
<1>1. CanCommit(l, decision, records)
  BY DEF Commits
<1>2. /\ m.facts = l.facts \cup {record.fact : record \in records}
      /\ m.decisions = l.decisions \cup {decision}
      /\ m.authorities = l.authorities \cup records
      /\ m.by_fact = l.by_fact \cup FactIndex(records)
      /\ m = [facts |-> m.facts, decisions |-> m.decisions,
              authorities |-> m.authorities, by_fact |-> m.by_fact]
  BY <1>1, CommitStoresTheStaged
<1>3. outcome.links =
        {[reference |-> Reference(record), fact |-> record.fact] : record \in records}
  BY <1>1 DEF Commits, CommitAdmission, Outcome
<1>4. QED
  BY <1>2, <1>3 DEF Commits

\* What ends in commit_admission stores its decision with a record per output.
LEMMA DecideCommitsOrNothing ==
  ASSUME NEW l, NEW decision, NEW records, AllOutputs(decision, records)
  PROVE  CommitsOrNothing(l, Decide(l, decision, records))
<1>1. CASE decision.verdict = "admit" /\ CanCommit(l, decision, records)
  BY <1>1 DEF Decide, CommitsOrNothing, Commits
<1>2. CASE ~ (decision.verdict = "admit" /\ CanCommit(l, decision, records))
  BY <1>2 DEF Decide, CommitAdmission, Withheld, Rejected, Outcome, CommitsOrNothing
<1>3. QED
  BY <1>1, <1>2

\* A refused call stores nothing.
LEMMA RejectedDoesNothing == \A l : CommitsOrNothing(l, Rejected(l))
BY DEF Rejected, Outcome, CommitsOrNothing

\* admit_observation stores a whole decision or nothing.
LEMMA ObservationCommitsOrNothing ==
  ASSUME NEW l, NEW policy, NEW observation
  PROVE  CommitsOrNothing(l, AdmitObservation(l, policy, observation))
<1> DEFINE decision == ObservationDecision(policy, observation)
           records == {SourceRecord(observation, policy, decision)}
<1>1. AllOutputs(decision, records)
  BY DEF AllOutputs, ObservationDecision, Decision
<1>2. CommitsOrNothing(l, Decide(l, decision, records))
  BY <1>1, DecideCommitsOrNothing
<1> HIDE DEF records
<1>3. CASE ValidPolicy(policy) /\ ValidObservation(observation)
  BY <1>2, <1>3 DEF AdmitObservation, records
<1>4. CASE ~ (ValidPolicy(policy) /\ ValidObservation(observation))
  BY <1>4, RejectedDoesNothing DEF AdmitObservation
<1>5. QED
  BY <1>3, <1>4

\* admit_candidate stores a whole decision or nothing.
LEMMA CandidateCommitsOrNothing ==
  ASSUME NEW l, NEW policy, NEW invocation, NEW candidate, NEW assessment
  PROVE  CommitsOrNothing(l, AdmitCandidate(l, policy, invocation, candidate, assessment))
<1> DEFINE decision == CandidateDecision(policy, assessment, candidate)
           record(port) ==
             DerivedRecord(port, invocation, candidate, assessment, policy, decision)
           records == {record(port) : port \in DOMAIN candidate.outputs}
           accepted == /\ ValidPolicy(policy)
                       /\ ValidInvocation(invocation)
                       /\ ValidCandidate(candidate, invocation)
                       /\ ValidAssessment(assessment, invocation, candidate)
                       /\ InputsResolve(l, invocation.inputs)
<1>1. AllOutputs(decision, records)
  <2>1. decision.subject.candidate = candidate
    BY DEF CandidateDecision, Decision
  <2>2. \A port : /\ record(port).basis.decision = decision
                  /\ record(port).basis.port = port
                  /\ record(port).fact = candidate.outputs[port]
    BY DEF DerivedRecord, Record
  <2> HIDE DEF decision, record
  <2>3. QED
    BY <2>1, <2>2 DEF AllOutputs
<1>2. CommitsOrNothing(l, Decide(l, decision, records))
  BY <1>1, DecideCommitsOrNothing
<1>3. CASE accepted
  BY <1>2, <1>3 DEF AdmitCandidate
<1>4. CASE ~ accepted
  BY <1>4, RejectedDoesNothing DEF AdmitCandidate
<1>5. QED
  BY <1>3, <1>4

\* admit_provider_candidate stores a whole decision or nothing.
LEMMA ProviderCandidateCommitsOrNothing ==
  ASSUME NEW l, NEW policy, NEW invocation, NEW candidate
  PROVE  CommitsOrNothing(l, AdmitProviderCandidate(l, policy, invocation, candidate))
<1> DEFINE decision == ProviderDecision(policy, invocation, candidate)
           record(port) == ProviderRecord(port, invocation, candidate, policy, decision)
           records == {record(port) : port \in DOMAIN candidate.outputs}
           accepted == /\ ValidPolicy(policy)
                       /\ ValidInvocation(invocation)
                       /\ ValidCandidate(candidate, invocation)
                       /\ InputsResolve(l, invocation.inputs)
<1>1. AllOutputs(decision, records)
  <2>1. decision.subject.candidate = candidate
    BY DEF ProviderDecision, Decision
  <2>2. \A port : /\ record(port).basis.decision = decision
                  /\ record(port).basis.port = port
                  /\ record(port).fact = candidate.outputs[port]
    BY DEF ProviderRecord, Record
  <2> HIDE DEF decision, record
  <2>3. QED
    BY <2>1, <2>2 DEF AllOutputs
<1>2. CommitsOrNothing(l, Decide(l, decision, records))
  BY <1>1, DecideCommitsOrNothing
<1>3. CASE accepted
  BY <1>2, <1>3 DEF AdmitProviderCandidate
<1>4. CASE ~ accepted
  BY <1>4, RejectedDoesNothing DEF AdmitProviderCandidate
<1>5. QED
  BY <1>3, <1>4

\* The three admission actions are one step: apply an outcome that commits one
\* decision or nothing.
LEMMA AdmissionStep ==
  ASSUME Next
  PROVE  \/ \E outcome : CommitsOrNothing(ledger, outcome) /\ Apply(outcome)
         \/ Save
         \/ \E snapshot \in Retrieved(stored) : Restore(snapshot)
<1>1. ASSUME NEW policy, NEW observation, Observe(policy, observation)
      PROVE  \E outcome : CommitsOrNothing(ledger, outcome) /\ Apply(outcome)
  BY <1>1, ObservationCommitsOrNothing DEF Observe
<1>2. ASSUME NEW policy, NEW invocation, NEW candidate, NEW assessment,
             Assess(policy, invocation, candidate, assessment)
      PROVE  \E outcome : CommitsOrNothing(ledger, outcome) /\ Apply(outcome)
  BY <1>2, CandidateCommitsOrNothing DEF Assess
<1>3. ASSUME NEW policy, NEW invocation, NEW candidate,
             AcceptProvider(policy, invocation, candidate)
      PROVE  \E outcome : CommitsOrNothing(ledger, outcome) /\ Apply(outcome)
  BY <1>3, ProviderCandidateCommitsOrNothing DEF AcceptProvider
<1>4. QED
  BY <1>1, <1>2, <1>3 DEF Next

-----------------------------------------------------------------------------
(* Types, reported links and whole decisions.                               *)

LinksTyped == \A link \in links \cup exported : IsLink(link)

\* Every map keeps to its own documents, and every stored decision admits.
THEOREM TypeCorrect == Spec => []TypeOK
<1>1. Init => LinksTyped
  BY DEF Init, LinksTyped
<1>2. LinksTyped /\ [Next]_vars => LinksTyped'
  <2> SUFFICES ASSUME LinksTyped, [Next]_vars PROVE LinksTyped'
    OBVIOUS
  <2>1. ASSUME NEW outcome, CommitsOrNothing(ledger, outcome), Apply(outcome)
        PROVE  LinksTyped'
    <3>1. \A link \in outcome.links : IsLink(link)
      BY <2>1 DEF CommitsOrNothing, Commits, CommitAdmission, Outcome, IsLink
    <3>2. QED
      BY <2>1, <3>1 DEF Apply, LinksTyped
  <2>2. CASE Save
    BY <2>2 DEF Save, LinksTyped
  <2>3. ASSUME NEW snapshot, Restore(snapshot) PROVE LinksTyped'
    BY <2>3 DEF Restore, LinksTyped
  <2>4. CASE UNCHANGED vars
    BY <2>4 DEF vars, LinksTyped
  <2>5. QED
    BY <2>1, <2>2, <2>3, <2>4, AdmissionStep
<1>3. LinksTyped /\ SnapshotRoundTrip => TypeOK
  BY ClosedLedgerIsTyped DEF LinksTyped, SnapshotRoundTrip, TypeOK
<1>4. QED
  BY <1>1, <1>2, <1>3, AlwaysRoundTrips, PTL DEF Spec

\* Storage may lose documents, but returns no record it was not given.
StorageOnlyLoses ==
  \A snapshot : \A back \in Retrieved(snapshot) :
    back.authority_records \subseteq snapshot.authority_records

Backed(link, records) ==
  \E record \in records : Reference(record) = link.reference /\ record.fact = link.fact

\* Links are backed by the records they were reported for, here and in storage.
LinksBacked ==
  /\ \A link \in links : Backed(link, ledger.authorities)
  /\ \A link \in exported : Backed(link, stored.authority_records)
  /\ ~ RecordsCollide(stored.authority_records)

\* Reported links go on resolving, each to its own fact alone, for as long as
\* storage returns only records it was given.
THEOREM LinksAreAlwaysHonoured ==
  ASSUME StorageOnlyLoses
  PROVE  Spec => []LinksHonoured
<1>1. Init => LinksBacked
  BY DEF Init, LinksBacked, EmptyLedger, Export, RecordsCollide
<1>2. LinksBacked /\ SnapshotRoundTrip /\ [Next]_vars => LinksBacked'
  <2> SUFFICES ASSUME LinksBacked, RoundTrips(ledger), [Next]_vars PROVE LinksBacked'
    BY DEF SnapshotRoundTrip
  <2>1. ASSUME NEW outcome, CommitsOrNothing(ledger, outcome), Apply(outcome)
        PROVE  LinksBacked'
    <3>1. ledger.authorities \subseteq outcome.ledger.authorities
      BY <2>1, CommittedOutcome DEF CommitsOrNothing
    <3>2. \A link \in outcome.links : Backed(link, outcome.ledger.authorities)
      <4>1. CASE outcome.links = {}
        BY <4>1
      <4>2. ASSUME NEW decision, NEW records, Commits(ledger, outcome, decision, records)
            PROVE  \A link \in outcome.links : Backed(link, outcome.ledger.authorities)
        <5>1. /\ records \subseteq outcome.ledger.authorities
              /\ outcome.links =
                   {[reference |-> Reference(record), fact |-> record.fact] : record \in records}
          BY <4>2, CommittedOutcome
        <5>2. QED
          BY <5>1 DEF Backed
      <4>3. QED
        BY <2>1, <4>1, <4>2 DEF CommitsOrNothing
    <3>3. QED
      BY <2>1, <3>1, <3>2 DEF Apply, LinksBacked, Backed
  <2>2. CASE Save
    <3>1. ~ RecordsCollide(ledger.authorities)
      BY RoundTripsMeansClosed
    <3>2. QED
      BY <2>2, <3>1 DEF Save, LinksBacked, Export
  <2>3. ASSUME NEW snapshot \in Retrieved(stored), Restore(snapshot)
        PROVE  LinksBacked'
    <3>1. CASE CanRebuild(snapshot)
      <4>1. ledger'.authorities = snapshot.authority_records
        BY <2>3, <3>1 DEF Restore, Rebuild, Outcome, Rebuilt
      <4>2. snapshot.authority_records \subseteq stored.authority_records
        BY <2>3 DEF StorageOnlyLoses
      <4>3. ASSUME NEW link \in links' PROVE Backed(link, snapshot.authority_records)
        <5>1. /\ link \in exported
              /\ link.reference.authority_record_id \in RecordIds(snapshot.authority_records)
          BY <2>3, <3>1 DEF Restore, Rebuild, Outcome
        <5>2. PICK kept \in snapshot.authority_records :
                kept.authority_record_id = link.reference.authority_record_id
          BY <5>1 DEF RecordIds
        <5>3. PICK record \in stored.authority_records :
                Reference(record) = link.reference /\ record.fact = link.fact
          BY <5>1 DEF LinksBacked, Backed
        <5>4. kept = record
          BY <4>2, <5>2, <5>3 DEF LinksBacked, RecordsCollide, Reference
        <5>5. QED
          BY <5>2, <5>3, <5>4 DEF Backed
      <4>4. QED
        BY <2>3, <4>1, <4>3 DEF Restore, LinksBacked
    <3>2. CASE ~ CanRebuild(snapshot)
      BY <2>3, <3>2 DEF Restore, Rebuild, Rejected, Outcome, LinksBacked
    <3>3. QED
      BY <3>1, <3>2
  <2>4. CASE UNCHANGED vars
    BY <2>4 DEF vars, LinksBacked
  <2>5. QED
    BY <2>1, <2>2, <2>3, <2>4, AdmissionStep
<1>3. LinksBacked /\ SnapshotRoundTrip => LinksHonoured
  <2> SUFFICES ASSUME LinksBacked, RoundTrips(ledger), NEW link \in links
               PROVE  \A fact : fact \in ledger.facts /\ ResolvesTo(ledger, link.reference, fact)
                                  <=> fact = link.fact
    BY DEF SnapshotRoundTrip, LinksHonoured
  <2>1. PICK record \in ledger.authorities :
          Reference(record) = link.reference /\ record.fact = link.fact
    BY DEF LinksBacked, Backed
  <2>2. ~ RecordsCollide(ledger.authorities) /\ record.fact \in ledger.facts
    BY RoundTripsMeansClosed DEF LedgerIsClosed
  <2>3. QED
    BY <2>1, <2>2 DEF ResolvesTo, Reference, RecordsCollide
<1>4. QED
  BY <1>1, <1>2, <1>3, AlwaysRoundTrips, PTL DEF Spec

\* Storage returns every record it was given, and no decision of its own.
StorageKeepsRecords ==
  \A snapshot : \A back \in Retrieved(snapshot) :
    /\ snapshot.authority_records \subseteq back.authority_records
    /\ back.decisions \subseteq snapshot.decisions

WholeDecisions ==
  /\ \A decision \in ledger.decisions : AllOutputs(decision, ledger.authorities)
  /\ \A decision \in stored.decisions : AllOutputs(decision, stored.authority_records)

\* A decision stays stored together with a record for every output it admits,
\* for as long as storage loses no record.
THEOREM DecisionsAreAlwaysComplete ==
  ASSUME StorageKeepsRecords
  PROVE  Spec => []DecisionsComplete
<1>1. Init => WholeDecisions
  BY DEF Init, WholeDecisions, EmptyLedger, Export
<1>2. WholeDecisions /\ [Next]_vars => WholeDecisions'
  <2> SUFFICES ASSUME WholeDecisions, [Next]_vars PROVE WholeDecisions'
    OBVIOUS
  <2>1. ASSUME NEW outcome, CommitsOrNothing(ledger, outcome), Apply(outcome)
        PROVE  WholeDecisions'
    <3>1. CASE outcome.ledger = ledger
      BY <2>1, <3>1 DEF Apply, WholeDecisions
    <3>2. ASSUME NEW decision, NEW records, Commits(ledger, outcome, decision, records)
          PROVE  WholeDecisions'
      <4>1. /\ ledger'.decisions = ledger.decisions \cup {decision}
            /\ ledger'.authorities = ledger.authorities \cup records
        BY <2>1, <3>2, CommittedOutcome DEF Apply
      <4>2. AllOutputs(decision, records)
        BY <3>2 DEF Commits
      <4>3. \A d \in ledger'.decisions : AllOutputs(d, ledger'.authorities)
        BY <4>1, <4>2 DEF AllOutputs, WholeDecisions
      <4>4. QED
        BY <2>1, <4>3 DEF Apply, WholeDecisions
    <3>3. QED
      BY <2>1, <3>1, <3>2 DEF CommitsOrNothing
  <2>2. CASE Save
    BY <2>2 DEF Save, WholeDecisions, Export
  <2>3. ASSUME NEW snapshot \in Retrieved(stored), Restore(snapshot)
        PROVE  WholeDecisions'
    <3>1. CASE CanRebuild(snapshot)
      <4>1. /\ ledger'.decisions = snapshot.decisions
            /\ ledger'.authorities = snapshot.authority_records
            /\ stored' = stored
        BY <2>3, <3>1 DEF Restore, Rebuild, Outcome, Rebuilt
      <4>2. /\ stored.authority_records \subseteq snapshot.authority_records
            /\ snapshot.decisions \subseteq stored.decisions
        BY <2>3 DEF StorageKeepsRecords
      <4>3. QED
        BY <4>1, <4>2 DEF WholeDecisions, AllOutputs
    <3>2. CASE ~ CanRebuild(snapshot)
      BY <2>3, <3>2 DEF Restore, Rebuild, Rejected, Outcome, WholeDecisions
    <3>3. QED
      BY <3>1, <3>2
  <2>4. CASE UNCHANGED vars
    BY <2>4 DEF vars, WholeDecisions
  <2>5. QED
    BY <2>1, <2>2, <2>3, <2>4, AdmissionStep
<1>3. WholeDecisions => DecisionsComplete
  BY DEF WholeDecisions, DecisionsComplete, Whole, AllOutputs
<1>4. QED
  BY <1>1, <1>2, <1>3, PTL DEF Spec

\* An admission stores a decision whole or not at all, with no assumption on
\* digests or storage: a committed outcome holds the records of all outputs.
THEOREM AdmissionsAreWholeTheorem == Spec => AdmissionsAreWhole
<1> DEFINE Entered ==
      \A decision \in ledger'.decisions \ ledger.decisions :
        Whole(decision, ledger') \/ \E snapshot \in Retrieved(stored) : Restore(snapshot)
<1>1. [Next]_vars => [Entered]_vars
  <2> SUFFICES ASSUME Next PROVE Entered
    OBVIOUS
  <2>1. ASSUME NEW outcome, CommitsOrNothing(ledger, outcome), Apply(outcome)
        PROVE  Entered
    <3>1. CASE outcome.ledger = ledger
      BY <2>1, <3>1 DEF Apply
    <3>2. ASSUME NEW decision, NEW records, Commits(ledger, outcome, decision, records)
          PROVE  Entered
      <4>1. /\ ledger'.decisions = ledger.decisions \cup {decision}
            /\ ledger'.authorities = ledger.authorities \cup records
        BY <2>1, <3>2, CommittedOutcome DEF Apply
      <4>2. AllOutputs(decision, records)
        BY <3>2 DEF Commits
      <4>3. Whole(decision, ledger')
        BY <4>1, <4>2 DEF AllOutputs, Whole
      <4>4. QED
        BY <4>1, <4>3
    <3>3. QED
      BY <2>1, <3>1, <3>2 DEF CommitsOrNothing
  <2>2. CASE Save
    BY <2>2 DEF Save
  <2>3. QED
    BY <2>1, <2>2, AdmissionStep
<1>2. QED
  BY <1>1, PTL DEF Spec, AdmissionsAreWhole
=============================================================================
