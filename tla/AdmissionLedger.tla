--------------------------- MODULE AdmissionLedger ---------------------------
(***************************************************************************)
(* One host's admission ledger over time: admissions from callers that may *)
(* pass any document, exports to storage, and rebuilding from whatever     *)
(* storage gives back (crates/gooir-capability/src/authority.rs).          *)
(***************************************************************************)
EXTENDS Authority

LOCAL INSTANCE SequencesExt

CONSTANTS
  Policies, Observations, Offers, Specifications, Suites,
  Authorities,    \* conformance authorities: an attester for a suite
  Facts,          \* fact documents a caller can present, malformed ones included
  CheckSets,      \* check outcomes of one assessment
  Retrieved(_),   \* the snapshots storage may return for the one exported
  MaxRecords      \* bound: no admission starts once so many records are stored

VARIABLES
  ledger,   \* AdmissionLedger
  stored,   \* the last exported snapshot
  links,    \* links reported by admissions and not given up by a rebuild
  exported  \* the links that held when `stored` was exported

vars == <<ledger, stored, links, exported>>

-----------------------------------------------------------------------------
(* Documents a caller can put together from what it has been given.         *)

Sequence(n, S) == [1 .. n -> S]

\* Any fact may be presented under any link of this or an earlier ledger.
Presentable ==
  {[admitted |-> link.reference, fact |-> fact] :
     link \in links \cup exported, fact \in Facts}

Invocations ==
  UNION {
    {[specification |-> spec, offer |-> offer, suite |-> suite, inputs |-> inputs] :
       offer \in Offers, suite \in Suites,
       inputs \in Sequence(Len(spec.input_kinds), Presentable)} :
    spec \in Specifications}

\* A result for this invocation, or for the same one through another offer:
\* every output, or none when the provider was unable.
Candidates(invocation) ==
  LET kinds == invocation.specification.output_kinds
      of    == {[invocation EXCEPT !.offer = offer] : offer \in Offers}
  IN  {[invocation |-> i, status |-> "produced", outputs |-> outputs] :
         i \in of, outputs \in Sequence(Len(kinds), Facts)}
        \cup {[invocation |-> i, status |-> "unable", outputs |-> <<>>] : i \in of}

\* An assessment of this candidate, or of the one with its outputs exchanged,
\* that reports what its checks show or simply claims a pass.
Assessments(candidate) ==
  {[candidate |-> [candidate EXCEPT !.outputs = outputs],
    authority |-> authority, checks |-> checks, outcome |-> outcome] :
     outputs \in {candidate.outputs, Reverse(candidate.outputs)},
     authority \in Authorities, checks \in CheckSets,
     outcome \in {"passed", "failed"}}

-----------------------------------------------------------------------------

Init ==
  /\ ledger = EmptyLedger
  /\ stored = Export(EmptyLedger)
  /\ links = {}
  /\ exported = {}

Apply(outcome) ==
  /\ ledger' = outcome.ledger
  /\ links' = links \cup outcome.links
  /\ UNCHANGED <<stored, exported>>

Bounded == Cardinality(ledger.authorities) < MaxRecords

Observe(policy, observation) ==
  Apply(AdmitObservation(ledger, policy, observation))

Assess(policy, invocation, candidate, assessment) ==
  Apply(AdmitCandidate(ledger, policy, invocation, candidate, assessment))

AcceptProvider(policy, invocation, candidate) ==
  Apply(AdmitProviderCandidate(ledger, policy, invocation, candidate))

Save ==
  /\ stored' = Export(ledger)
  /\ exported' = links
  /\ UNCHANGED <<ledger, links>>

\* The host restarts from what storage returns: a refused snapshot leaves it
\* with the ledger it has, an accepted one replaces the ledger, and of the
\* links saved with it those whose record came back stand.
Restore(snapshot) ==
  LET outcome == Rebuild(ledger, snapshot)
  IN  /\ ledger' = outcome.ledger
      /\ links' = IF outcome.status = "rebuilt"
                  THEN {link \in exported :
                          link.reference.authority_record_id
                            \in RecordIds(snapshot.authority_records)}
                  ELSE links
      /\ UNCHANGED <<stored, exported>>

Next ==
  \/ /\ Bounded
     /\ \E policy \in Policies :
          \/ \E observation \in Observations : Observe(policy, observation)
          \/ \E invocation \in Invocations :
               \E candidate \in Candidates(invocation) :
                 \/ \E assessment \in Assessments(candidate) :
                      Assess(policy, invocation, candidate, assessment)
                 \/ AcceptProvider(policy, invocation, candidate)
  \/ Save
  \/ \E snapshot \in Retrieved(stored) : Restore(snapshot)

Spec == Init /\ [][Next]_vars

-----------------------------------------------------------------------------
(* What the ledger promises.                                                *)

IsFact(fact) == DOMAIN fact = {"id", "kind", "payload"}
IsDecision(decision) ==
  /\ DOMAIN decision = {"decision_id", "policy", "subject", "verdict"}
  /\ decision.verdict = "admit"
IsRecord(record) ==
  /\ DOMAIN record = {"authority_record_id", "fact", "basis"}
  /\ record.basis.kind \in {"source", "derived", "provider_authorized"}
IsLink(link) == DOMAIN link = {"reference", "fact"}

\* Every map holds documents of its own type, and of decisions only those
\* that admit: the ledger keeps no trace of a withheld one.
TypeOK ==
  /\ DOMAIN ledger = {"facts", "decisions", "authorities", "by_fact"}
  /\ \A fact \in ledger.facts : IsFact(fact)
  /\ \A decision \in ledger.decisions : IsDecision(decision)
  /\ \A record \in ledger.authorities : IsRecord(record)
  /\ ledger.by_fact = FactIndex(ledger.authorities)
  /\ \A link \in links \cup exported : IsLink(link)

\* Whatever sequence of admissions, exports and rebuilds led here, the ledger
\* can be exported and rebuilt into exactly itself: `export` never produces a
\* snapshot that `rebuild` refuses or reads differently.
SnapshotRoundTrip == RoundTrips(ledger)

\* Every link an admission reported, and no later rebuild gave up, resolves,
\* and resolves to the very fact it was reported for and to no other, even
\* when different contents share an identity.
LinksHonoured ==
  \A link \in links :
    {fact \in ledger.facts : ResolvesTo(ledger, link.reference, fact)} = {link.fact}

\* No fact is linkable without an authority its own policy names: an accepted
\* observation authority for that fact, an accepted provider offer, or an
\* accepted attester that shares neither implementation nor artifact with the
\* producer and passed every check it made of exactly this output.
AuthorityEarned ==
  \A record \in ledger.authorities :
    LET b == record.basis
    IN  \/ /\ b.kind = "source"
           /\ b.observation.fact = record.fact
           /\ b.observation.authority \in b.policy.observations
        \/ /\ b.kind = "provider_authorized"
           /\ b.invocation.offer \in b.policy.offers
           /\ b.candidate.invocation = b.invocation
           /\ b.candidate.outputs[b.port] = record.fact
        \/ /\ b.kind = "derived"
           /\ b.assessment.authority \in b.policy.conformance
           /\ b.assessment.authority.attester.implementation # b.invocation.offer.implementation
           /\ b.assessment.authority.attester.artifact # b.invocation.offer.artifact
           /\ b.assessment.checks \cap {"failed", "indeterminate"} = {}
           /\ b.assessment.candidate.invocation = b.invocation
           /\ b.assessment.candidate.outputs[b.port] = record.fact

\* Every output the decision admits has a record of its own.
Whole(decision, l) ==
  decision.subject.subject # "observation" =>
    \A port \in DOMAIN decision.subject.candidate.outputs :
      \E record \in l.authorities :
        /\ record.basis.decision = decision
        /\ record.basis.port = port
        /\ record.fact = decision.subject.candidate.outputs[port]

\* A decision is stored together with a record for every output it admits.
DecisionsComplete == \A decision \in ledger.decisions : Whole(decision, ledger)

\* An admission stores its decision whole or not at all, whatever is stored
\* already and however identities collide; only storage that lost records can
\* bring back a decision without them.
AdmissionsAreWhole ==
  [][\A decision \in ledger'.decisions \ ledger.decisions :
       Whole(decision, ledger') \/ \E snapshot \in Retrieved(stored) : Restore(snapshot)]_vars
=============================================================================
