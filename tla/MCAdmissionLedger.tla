-------------------------- MODULE MCAdmissionLedger --------------------------
(* Small instances of AdmissionLedger for TLC.                              *)
EXTENDS AdmissionLedger

-----------------------------------------------------------------------------
(* Digests.                                                                 *)

\* Colliding: payloads "a" and "c" share an identity, decisions of one
\* version of policy on one candidate do, and so do the records of one fact
\* under one basis kind.
CollidingFactDigest(kind, payload) == <<kind, IF payload = "c" THEN "a" ELSE payload>>
CollidingDecisionDigest(policy, subject, verdict) == <<subject, verdict>>
CollidingRecordDigest(fact, basis) == <<fact.id, basis.kind, basis.policy.version>>

-----------------------------------------------------------------------------
(* Documents.                                                               *)

MCFacts == {NewFact("k", "a"), NewFact("k", "b"), NewFact("k", "c")}

MCSpecifications == {[id |-> "s", input_kinds |-> <<"k">>, output_kinds |-> <<"k", "k">>]}

MCOffers == {[implementation |-> "p", artifact |-> "p", capability |-> "s"]}

\* Attester "t", and one that is built from the producer's artifact.
Attester(implementation, artifact, suite) ==
  [attester |-> [implementation |-> implementation, artifact |-> artifact], suite |-> suite]
MCAuthorities == {Attester("t", "t", "u"), Attester("t", "p", "u")}

MCSuites == {"u"}
MCCheckSets == {{"passed"}}

Witness(name) == [name |-> name, kind |-> "k"]
MCObservations == {[fact |-> NewFact("k", "a"), authority |-> Witness("w")]}

Policy(version, offers, conformance) ==
  [version |-> version, offers |-> offers, conformance |-> conformance,
   observations |-> {Witness("w")}]
MCPolicies == {Policy(1, {}, MCAuthorities), Policy(2, MCOffers, {})}

-----------------------------------------------------------------------------
(* Storage.                                                                 *)

\* Records may be missing, with or without the documents only they need, and
\* so may one more fact.
Incomplete(snapshot) ==
  UNION {
    {[facts |-> facts, decisions |-> decisions, authority_records |-> records] :
       facts \in {snapshot.facts, {r.fact : r \in records}}
                 \cup {snapshot.facts \ {fact} : fact \in snapshot.facts},
       decisions \in {snapshot.decisions, {r.basis.decision : r \in records}}} :
    records \in SUBSET snapshot.authority_records}

\* One record may carry the identity, the fact or the policy of another.
Altered(snapshot) ==
  LET records == snapshot.authority_records
      swap(r, s) == {[r EXCEPT !.authority_record_id = s.authority_record_id],
                     [r EXCEPT !.fact = s.fact],
                     [r EXCEPT !.basis.policy = s.basis.policy]}
  IN  {snapshot} \cup
      UNION {{[snapshot EXCEPT !.authority_records = (records \ {r}) \cup {t}] :
                t \in swap(r, s)} : r, s \in records}

MCRetrieved(snapshot) == Incomplete(snapshot) \cup Altered(snapshot)
=============================================================================
