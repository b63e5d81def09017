---------------------------- MODULE Derivation_proofs ----------------------------
(***************************************************************************)
(* Proofs about Derivation, for all packages, policies, attesters,         *)
(* requests and hosts, and, from "What the planner can reach" on, about    *)
(* the planner it prepares with, for all inventories, starts and goals.    *)
(*                                                                         *)
(* The first part uses nothing of the route search but that                *)
(* RouteAlternatives returns a route only if it validates: what a          *)
(* derivation promises rests on the checks made of a prepared selection    *)
(* and of the host's documents, and not on how the routes were found.  The *)
(* second part is about slices, blockages and diagnoses, which are least   *)
(* closed sets that the code's loops end in.                               *)
(***************************************************************************)
EXTENDS Derivation, Planner, DataTheorems

-----------------------------------------------------------------------------
(* Admissions.                                                              *)

\* What an admission of these records into a ledger comes to: all of them are
\* stored and reported, or nothing happens.
Admits(outcome, l, records) ==
  \/ /\ outcome.status = "admitted"
     /\ outcome.ledger.authorities = l.authorities \cup records
     /\ l.facts \cup {record.fact : record \in records} \subseteq outcome.ledger.facts
     /\ AdmittedOutputs(outcome) = records
     /\ \A record \in records : ValidRecord(record)
  \/ /\ outcome.status \in {"withheld", "error"}
     /\ outcome.ledger = l

\* A commit stores every staged record, for an identity already present has
\* the same document, and reports these records and no others.
LEMMA CommitAdmits ==
  ASSUME NEW l, NEW decision, NEW records
  PROVE  /\ Admits(CommitAdmission(l, decision, records), l, records)
         /\ CommitAdmission(l, decision, records).status # "withheld"
<1> DEFINE outcome == CommitAdmission(l, decision, records)
           staged == {record.fact : record \in records}
<1>1. CASE CanCommit(l, decision, records)
  <2>1. /\ outcome.status = "admitted"
        /\ outcome.ledger.facts =
             l.facts \cup {f \in staged : f.id \notin FactIds(l.facts)}
        /\ outcome.ledger.authorities =
             l.authorities \cup {r \in records :
                                   r.authority_record_id \notin RecordIds(l.authorities)}
        /\ outcome.links = {[reference |-> Reference(r), fact |-> r.fact] : r \in records}
    BY <1>1 DEF CommitAdmission, Outcome
  <2> HIDE DEF outcome
  <2>2. outcome.ledger.authorities = l.authorities \cup records
    BY <1>1, <2>1 DEF CanCommit, RecordsCollide, RecordIds
  <2>3. l.facts \cup staged \subseteq outcome.ledger.facts
    BY <1>1, <2>1 DEF CanCommit, FactsCollide, FactIds
  <2>4. ASSUME NEW r \in l.authorities \cup records, NEW s \in records,
               Reference(r) = Reference(s)
        PROVE  r = s
    <3>1. r.authority_record_id = s.authority_record_id
      BY <2>4 DEF Reference
    <3> QED  BY <1>1, <3>1 DEF CanCommit, RecordsCollide
  <2>5. AdmittedOutputs(outcome) = records
    <3>1. \A link \in outcome.links : \E s \in records : link.reference = Reference(s)
      BY <2>1
    <3>2. \A s \in records : \E link \in outcome.links : link.reference = Reference(s)
      <4> SUFFICES ASSUME NEW s \in records
                   PROVE  \E link \in outcome.links : link.reference = Reference(s)
        OBVIOUS
      <4>1. [reference |-> Reference(s), fact |-> s.fact] \in outcome.links
        BY <2>1
      <4> QED  BY <4>1
    <3> QED  BY <2>2, <2>4, <3>1, <3>2 DEF AdmittedOutputs
  <2>6. \A record \in records : ValidRecord(record)
    BY <1>1 DEF CanCommit
  <2>7. Admits(outcome, l, records)
    BY <2>1, <2>2, <2>3, <2>5, <2>6 DEF Admits
  <2> QED  BY <2>1, <2>7 DEF outcome
<1>2. CASE ~ CanCommit(l, decision, records)
  BY <1>2 DEF CommitAdmission, Rejected, Outcome, Admits
<1> QED  BY <1>1, <1>2

\* A decision that admits is committed, and no other stores anything.
LEMMA DecideAdmits ==
  ASSUME NEW l, NEW decision, NEW records
  PROVE  /\ Admits(Decide(l, decision, records), l, records)
         /\ Decide(l, decision, records).status = "withheld" => decision.verdict # "admit"
<1>1. CASE decision.verdict = "admit"
  BY <1>1, CommitAdmits DEF Decide
<1>2. CASE decision.verdict # "admit"
  BY <1>2 DEF Decide, Withheld, Outcome, Admits
<1> QED  BY <1>1, <1>2

\* The record an observation is admitted with.
RecordOf(policy, observation) ==
  SourceRecord(observation, policy, ObservationDecision(policy, observation))

\* An observation is stored with its record, or not at all.
LEMMA ObservationAdmits ==
  ASSUME NEW l, NEW policy, NEW observation
  PROVE  Admits(AdmitObservation(l, policy, observation), l, {RecordOf(policy, observation)})
<1>1. CASE ValidPolicy(policy) /\ ValidObservation(observation)
  BY <1>1, DecideAdmits DEF AdmitObservation, RecordOf
<1>2. CASE ~ (ValidPolicy(policy) /\ ValidObservation(observation))
  BY <1>2 DEF AdmitObservation, Rejected, Outcome, Admits
<1> QED  BY <1>1, <1>2

\* The records a candidate is admitted with, one for each output.
CandidateRecords(policy, invocation, candidate, assessment) ==
  {DerivedRecord(port, invocation, candidate, assessment, policy,
                 CandidateDecision(policy, assessment, candidate)) :
     port \in DOMAIN candidate.outputs}

\* An assessed candidate is stored with a record for each output, or not at all.
LEMMA CandidateAdmits ==
  ASSUME NEW l, NEW policy, NEW invocation, NEW candidate, NEW assessment
  PROVE  LET outcome == AdmitCandidate(l, policy, invocation, candidate, assessment)
             records == CandidateRecords(policy, invocation, candidate, assessment)
         IN  /\ Admits(outcome, l, records)
             /\ outcome.status = "withheld" => CandidateVerdict(policy, assessment) # "admit"
             /\ outcome.status # "error" => ValidCandidate(candidate, invocation)
<1> DEFINE accepted == /\ ValidPolicy(policy)
                       /\ ValidInvocation(invocation)
                       /\ ValidCandidate(candidate, invocation)
                       /\ ValidAssessment(assessment, invocation, candidate)
                       /\ InputsResolve(l, invocation.inputs)
           decision == CandidateDecision(policy, assessment, candidate)
<1>1. CASE accepted
  <2>1. decision.verdict = CandidateVerdict(policy, assessment)
    BY DEF CandidateDecision, Decision
  <2> QED  BY <1>1, <2>1, DecideAdmits DEF AdmitCandidate, CandidateRecords
<1>2. CASE ~ accepted
  BY <1>2 DEF AdmitCandidate, Rejected, Outcome, Admits
<1> QED  BY <1>1, <1>2

\* The records a candidate of an accepted offer is admitted with.
ProviderRecords(policy, invocation, candidate) ==
  {ProviderRecord(port, invocation, candidate, policy,
                  ProviderDecision(policy, invocation, candidate)) :
     port \in DOMAIN candidate.outputs}

\* The same, for a candidate of an offer the policy accepts by itself.
LEMMA ProviderCandidateAdmits ==
  ASSUME NEW l, NEW policy, NEW invocation, NEW candidate
  PROVE  LET outcome == AdmitProviderCandidate(l, policy, invocation, candidate)
             records == ProviderRecords(policy, invocation, candidate)
         IN  /\ Admits(outcome, l, records)
             /\ outcome.status = "withheld" => ProviderVerdict(policy, invocation) # "admit"
             /\ outcome.status # "error" => ValidCandidate(candidate, invocation)
<1> DEFINE accepted == /\ ValidPolicy(policy)
                       /\ ValidInvocation(invocation)
                       /\ ValidCandidate(candidate, invocation)
                       /\ InputsResolve(l, invocation.inputs)
           decision == ProviderDecision(policy, invocation, candidate)
<1>1. CASE accepted
  <2>1. decision.verdict = ProviderVerdict(policy, invocation)
    BY DEF ProviderDecision, Decision
  <2> QED  BY <1>1, <2>1, DecideAdmits DEF AdmitProviderCandidate, ProviderRecords
<1>2. CASE ~ accepted
  BY <1>2 DEF AdmitProviderCandidate, Rejected, Outcome, Admits
<1> QED  BY <1>1, <1>2

-----------------------------------------------------------------------------
(* Sources.                                                                 *)

\* One more observation, unless an earlier one was refused.
AdmitNext(policy, staged, observation) ==
  IF staged.status = "admitted"
  THEN AdmitObservation(staged.ledger, policy, observation) ELSE staged

\* What the fold over a list of observations computes, for all sets of places.
Stages(stage, start, policy, observations, n) ==
  stage = [s \in SUBSET (1 .. n) |->
             IF s = {} THEN start
             ELSE AdmitNext(policy, stage[s \ {Max(s)}], observations[Max(s)])]

\* The last place of a set that has it.
LEMMA LastPlace ==
  ASSUME NEW n \in Nat, NEW s \in SUBSET (1 .. n), n \in s
  PROVE  Max(s) = n
<1>1. \A x \in s : x \in Nat /\ x <= n
  OBVIOUS
<1>2. \A y \in s : n >= y
  BY <1>1
<1>3. \A x \in s : (\A y \in s : x >= y) => x = n
  BY <1>1
<1> QED  BY <1>2, <1>3 DEF Max

\* There is such a function, for every list.
LEMMA StagesExist ==
  ASSUME NEW start, NEW policy, NEW observations, NEW n \in Nat
  PROVE  \E stage : Stages(stage, start, policy, observations, n)
<1> DEFINE bad == {m \in Nat : ~ \E stage : Stages(stage, start, policy, observations, m)}
<1>1. SUFFICES ASSUME bad # {} PROVE FALSE
  OBVIOUS
<1>2. PICK m \in bad : \A k \in bad : m <= k
  BY <1>1, LeastNumber
<1>3. CASE m = 0
  <2> DEFINE h == [s \in SUBSET (1 .. 0) |-> start]
  <2>1. \A s \in SUBSET (1 .. 0) : s = {}
    OBVIOUS
  <2>2. h = [s \in SUBSET (1 .. 0) |->
               IF s = {} THEN start
               ELSE AdmitNext(policy, h[s \ {Max(s)}], observations[Max(s)])]
    BY <2>1
  <2> HIDE DEF h
  <2>3. Stages(h, start, policy, observations, 0)
    BY <2>2 DEF Stages
  <2> QED  BY <1>3, <2>3
<1>4. CASE m # 0
  <2>1. m \in Nat /\ m - 1 \in Nat /\ m - 1 \notin bad
    BY <1>2, <1>4
  <2>2. PICK g : Stages(g, start, policy, observations, m - 1)
    BY <2>1
  <2> DEFINE next(s, stage) == IF s = {} THEN start
                               ELSE AdmitNext(policy, stage[s \ {Max(s)}], observations[Max(s)])
             h == [s \in SUBSET (1 .. m) |->
                     IF m \in s THEN AdmitNext(policy, g[s \ {m}], observations[m]) ELSE g[s]]
  <2>3. \A s \in SUBSET (1 .. m - 1) : g[s] = next(s, g)
    BY <2>2 DEF Stages
  <2>4. \A s \in SUBSET (1 .. m) :
          h[s] = IF m \in s THEN AdmitNext(policy, g[s \ {m}], observations[m]) ELSE g[s]
    OBVIOUS
  <2>5. h = [s \in SUBSET (1 .. m) |-> h[s]]
    OBVIOUS
  <2> HIDE DEF h
  <2>6. ASSUME NEW s \in SUBSET (1 .. m)
        PROVE  h[s] = next(s, h)
    <3>1. CASE m \in s
      <4>1. Max(s) = m
        BY <2>1, <3>1, LastPlace
      <4>2. s \ {m} \in SUBSET (1 .. m) /\ m \notin s \ {m}
        OBVIOUS
      <4>3. h[s \ {m}] = g[s \ {m}]
        BY <2>4, <4>2
      <4>4. s # {}
        BY <3>1
      <4> QED  BY <2>4, <3>1, <4>1, <4>3, <4>4
    <3>2. CASE m \notin s
      <4>1. s \in SUBSET (1 .. m - 1)
        <5>1. \A x \in s : x \in 1 .. m - 1
          BY <2>1, <3>2
        <5> QED  BY <5>1
      <4>2. s \ {Max(s)} \in SUBSET (1 .. m) /\ m \notin s \ {Max(s)}
        BY <3>2
      <4>3. h[s \ {Max(s)}] = g[s \ {Max(s)}]
        BY <2>4, <4>2
      <4>4. h[s] = g[s]
        BY <2>4, <3>2
      <4> QED  BY <2>3, <4>1, <4>3, <4>4
    <3> QED  BY <3>1, <3>2
  <2>7. h = [s \in SUBSET (1 .. m) |-> next(s, h)]
    BY <2>5, <2>6
  <2>8. Stages(h, start, policy, observations, m)
    BY <2>7 DEF Stages
  <2> QED  BY <1>2, <2>8
<1> QED  BY <1>3, <1>4

\* It goes from one observation to the next.
LEMMA StagesFollow ==
  ASSUME NEW start, NEW policy, NEW observations, NEW n \in Nat, NEW stage,
         Stages(stage, start, policy, observations, n)
  PROVE  /\ stage[1 .. 0] = start
         /\ \A m \in 1 .. n :
              stage[1 .. m] = AdmitNext(policy, stage[1 .. m - 1], observations[m])
<1>1. stage[1 .. 0] = start
  <2>1. 1 .. 0 = {} /\ 1 .. 0 \in SUBSET (1 .. n)
    OBVIOUS
  <2> QED  BY <2>1 DEF Stages
<1>2. ASSUME NEW m \in 1 .. n
      PROVE  stage[1 .. m] = AdmitNext(policy, stage[1 .. m - 1], observations[m])
  <2>1. /\ m \in Nat /\ 1 .. m \in SUBSET (1 .. n) /\ m \in 1 .. m /\ 1 .. m # {}
        /\ (1 .. m) \ {m} = 1 .. m - 1
    OBVIOUS
  <2>2. Max(1 .. m) = m
    BY <2>1, LastPlace
  <2> QED  BY <2>1, <2>2 DEF Stages
<1> QED  BY <1>1, <1>2

\* When a whole list was admitted, the record of every observation is stored.
LEMMA StagesStore ==
  ASSUME NEW start, NEW policy, NEW observations, NEW n \in Nat, NEW stage,
         Stages(stage, start, policy, observations, n),
         stage[1 .. n].status = "admitted"
  PROVE  \A i \in 1 .. n :
           RecordOf(policy, observations[i]) \in stage[1 .. n].ledger.authorities
<1> DEFINE Stored(k) ==
             stage[1 .. k].status = "admitted" =>
               \A i \in 1 .. k :
                 RecordOf(policy, observations[i]) \in stage[1 .. k].ledger.authorities
           bad == {k \in 0 .. n : ~ Stored(k)}
<1>1. SUFFICES ASSUME bad # {} PROVE FALSE
  OBVIOUS
<1>2. PICK m \in bad : \A k \in bad : m <= k
  <2>1. bad \in SUBSET Nat
    OBVIOUS
  <2> HIDE DEF bad
  <2> QED  BY <1>1, <2>1, LeastNumber
<1>3. CASE m = 0
  BY <1>2, <1>3
<1>4. CASE m # 0
  <2>1. m \in 1 .. n /\ m - 1 \in 0 .. n /\ m - 1 \notin bad
    BY <1>2, <1>4
  <2>2. Stored(m - 1)
    BY <2>1
  <2> DEFINE before == stage[1 .. m - 1]
             after == stage[1 .. m]
             record == RecordOf(policy, observations[m])
  <2>3. after = AdmitNext(policy, before, observations[m])
    BY <2>1, StagesFollow
  <2>4. before.status = "admitted" =>
          \A i \in 1 .. m - 1 :
            RecordOf(policy, observations[i]) \in before.ledger.authorities
    BY <2>2
  <2>5. ~ Stored(m)
    BY <1>2
  <2>6. /\ after.status = "admitted"
        /\ ~ \A i \in 1 .. m : RecordOf(policy, observations[i]) \in after.ledger.authorities
    BY <2>5
  <2> HIDE DEF Stored, before, after, record
  <2>7. before.status = "admitted" /\ after = AdmitObservation(before.ledger, policy, observations[m])
    BY <2>3, <2>6 DEF AdmitNext
  <2>8. after.ledger.authorities = before.ledger.authorities \cup {record}
    <3>1. Admits(after, before.ledger, {record})
      BY <2>7, ObservationAdmits DEF record
    <3> QED  BY <2>6, <3>1 DEF Admits
  <2>9. \A i \in 1 .. m : i = m \/ i \in 1 .. m - 1
    BY <2>1
  <2> QED  BY <2>4, <2>6, <2>7, <2>8, <2>9 DEF record
<1> QED  BY <1>3, <1>4

\* What the driver stages is where such a function ends.
LEMMA StagedIsLastStage ==
  ASSUME NEW observations, NEW n \in Nat, DOMAIN observations = 1 .. n
  PROVE  \E stage : /\ Stages(stage, Outcome("admitted", ledger, {}), facade.policy, observations, n)
                    /\ Staged(observations) = stage[1 .. n]
<1> DEFINE start == Outcome("admitted", ledger, {})
           policy == facade.policy
           fold == CHOOSE stage : stage = [s \in SUBSET (1 .. n) |->
                     IF s = {} THEN start
                     ELSE AdmitNext(policy, stage[s \ {Max(s)}], observations[Max(s)])]
<1>1. Staged(observations) = fold[1 .. n]
  BY DEF Staged, FoldLeft, MapThenFoldSet, AdmitNext
<1>2. Stages(fold, start, policy, observations, n)
  <2> HIDE DEF policy, start
  <2>1. PICK stage : Stages(stage, start, policy, observations, n)
    BY StagesExist
  <2>2. stage = [s \in SUBSET (1 .. n) |->
                  IF s = {} THEN start
                  ELSE AdmitNext(policy, stage[s \ {Max(s)}], observations[Max(s)])]
    BY <2>1 DEF Stages
  <2>3. fold = [s \in SUBSET (1 .. n) |->
                  IF s = {} THEN start
                  ELSE AdmitNext(policy, fold[s \ {Max(s)}], observations[Max(s)])]
    BY <2>2
  <2> HIDE DEF fold
  <2> QED  BY <2>3 DEF Stages
<1> HIDE DEF fold, start
<1> QED  BY <1>1, <1>2 DEF start

\* When the staging of a list ends in an admission, every observation of it has
\* its record in the staged ledger.
LEMMA SourcesAreStored ==
  ASSUME NEW observations, NEW n \in Nat, DOMAIN observations = 1 .. n,
         Staged(observations).status = "admitted"
  PROVE  \A i \in 1 .. n :
           RecordOf(facade.policy, observations[i]) \in Staged(observations).ledger.authorities
BY StagedIsLastStage, StagesStore

\* A list of sources of which one observation is refused, or one record
\* collides, leaves the driver's ledger as it was; otherwise every observation
\* has its record.
THEOREM SourcesAllOrNothingTheorem == Spec => SourcesAllOrNothing
<1> DEFINE Kept(observations) ==
             \/ UNCHANGED ledger
             \/ \A observation \in Range(observations) :
                  \E record \in ledger'.authorities :
                    record.basis.kind = "source" /\ record.basis.observation = observation
<1>1. ASSUME NEW observations \in Sources, AdmitSources(observations)
      PROVE  Kept(observations)
  <2>1. ledger' = AdmittedSources(observations)
    BY <1>1 DEF AdmitSources
  <2>2. CASE Staged(observations).status = "admitted" /\ ledger' = Staged(observations).ledger
    <3>1. PICK n \in Nat : DOMAIN observations = 1 .. n
      <4>1. observations \in Seq(Range(observations))
        BY SourcesAssumption
      <4> QED  BY <4>1
    <3>2. \A i \in 1 .. n :
            RecordOf(facade.policy, observations[i]) \in Staged(observations).ledger.authorities
      BY <2>2, <3>1, SourcesAreStored
    <3>3. ASSUME NEW observation \in Range(observations)
          PROVE  \E record \in ledger'.authorities :
                   record.basis.kind = "source" /\ record.basis.observation = observation
      <4>1. PICK i \in 1 .. n : observation = observations[i]
        BY <3>1 DEF Range
      <4>2. RecordOf(facade.policy, observation) \in ledger'.authorities
        BY <2>2, <3>2, <4>1
      <4>3. /\ RecordOf(facade.policy, observation).basis.kind = "source"
            /\ RecordOf(facade.policy, observation).basis.observation = observation
        BY DEF RecordOf, SourceRecord, Record
      <4> QED  BY <4>2, <4>3
    <3> QED  BY <3>3
  <2>3. CASE ledger' = ledger
    BY <2>3
  <2> QED  BY <2>1, <2>2, <2>3 DEF AdmittedSources
<1>2. \A observations \in Sources : AdmitSources(observations) => Kept(observations)
  BY <1>1
<1> QED  BY <1>2, PTL DEF SourcesAllOrNothing, Spec

-----------------------------------------------------------------------------
(* Repetition.  Iterate applies an operator; here the operator is the       *)
(* function `step` on the set D that it stays in.                           *)

\* What the recursion of Iterate computes.
Iterates(after, D, step, start, n) ==
  /\ after = [i \in 0 .. n |-> after[i]]
  /\ after[0] = start
  /\ \A i \in 1 .. n : after[i - 1] \in D => after[i] = step[after[i - 1]]

\* A step that stays in a set can be taken n times.
LEMMA IterationExists ==
  ASSUME NEW D, NEW step, \A x \in D : step[x] \in D, NEW start \in D, NEW n \in Nat
  PROVE  \E after : /\ Iterates(after, D, step, start, n)
                    /\ \A i \in 0 .. n : after[i] \in D
<1> DEFINE Fits(after, m) ==
             Iterates(after, D, step, start, m) /\ \A i \in 0 .. m : after[i] \in D
           bad == {m \in Nat : ~ \E after : Fits(after, m)}
<1>1. SUFFICES ASSUME bad # {} PROVE FALSE
  OBVIOUS
<1>2. PICK m \in bad : \A k \in bad : m <= k
  BY <1>1, LeastNumber
<1>3. CASE m = 0
  <2> DEFINE h == [i \in 0 .. 0 |-> start]
  <2>1. h[0] = start /\ h = [i \in 0 .. 0 |-> h[i]] /\ \A i \in 0 .. 0 : h[i] \in D
    OBVIOUS
  <2>2. \A i : i \notin 1 .. 0
    OBVIOUS
  <2> HIDE DEF h
  <2>3. Fits(h, 0)
    BY <2>1, <2>2 DEF Iterates
  <2> QED  BY <1>2, <1>3, <2>3
<1>4. CASE m # 0
  <2>1. m \in Nat /\ m - 1 \in Nat /\ m - 1 \notin bad
    BY <1>2, <1>4
  <2>2. PICK g : Fits(g, m - 1)
    BY <2>1
  <2> DEFINE h == [i \in 0 .. m |-> IF i = m THEN step[g[m - 1]] ELSE g[i]]
  <2>3. /\ h = [i \in 0 .. m |-> h[i]]
        /\ h[m] = step[g[m - 1]]
        /\ \A i \in 0 .. m - 1 : h[i] = g[i]
    BY <2>1
  <2> HIDE DEF h
  <2>4. /\ g[0] = start
        /\ \A i \in 1 .. m - 1 : g[i - 1] \in D => g[i] = step[g[i - 1]]
        /\ \A i \in 0 .. m - 1 : g[i] \in D
    BY <2>2 DEF Iterates
  <2>5. h[0] = start
    <3>1. 0 \in 0 .. m - 1
      BY <2>1
    <3> QED  BY <2>3, <2>4, <3>1
  <2>6. ASSUME NEW i \in 1 .. m PROVE h[i] = step[h[i - 1]]
    <3>1. i - 1 \in 0 .. m - 1
      BY <2>1
    <3>2. h[i - 1] = g[i - 1] /\ g[i - 1] \in D
      BY <2>3, <2>4, <3>1
    <3>3. i = m \/ (i \in 1 .. m - 1 /\ i \in 0 .. m - 1)
      BY <2>1
    <3> QED  BY <2>3, <2>4, <3>2, <3>3
  <2>7. \A i \in 0 .. m : h[i] \in D
    <3>1. m - 1 \in 0 .. m - 1
      BY <2>1
    <3>2. \A i \in 0 .. m : i = m \/ i \in 0 .. m - 1
      BY <2>1
    <3> QED  BY <2>3, <2>4, <3>1, <3>2
  <2>8. Fits(h, m)
    BY <2>3, <2>5, <2>6, <2>7 DEF Iterates
  <2> QED  BY <1>2, <2>8
<1> QED  BY <1>3, <1>4

\* However it is written, what is computed stays in the set.
LEMMA IterationStays ==
  ASSUME NEW D, NEW step, \A x \in D : step[x] \in D, NEW start \in D, NEW n \in Nat,
         NEW after, Iterates(after, D, step, start, n)
  PROVE  \A i \in 0 .. n : after[i] \in D
<1> DEFINE bad == {i \in 0 .. n : after[i] \notin D}
<1>1. SUFFICES ASSUME bad # {} PROVE FALSE
  OBVIOUS
<1>2. PICK m \in bad : \A k \in bad : m <= k
  <2>1. bad \in SUBSET Nat
    OBVIOUS
  <2> HIDE DEF bad
  <2> QED  BY <1>1, <2>1, LeastNumber
<1>3. m # 0
  BY <1>2 DEF Iterates
<1>4. m \in 1 .. n /\ m - 1 \in 0 .. n /\ m - 1 \notin bad
  BY <1>2, <1>3
<1>5. after[m - 1] \in D /\ after[m] = step[after[m - 1]]
  BY <1>4 DEF Iterates
<1> QED  BY <1>2, <1>5

\* What of an inventory's capabilities can be reached is among them.
LEMMA ForwardReachableIsWithin ==
  ASSUME NEW specs, IsFiniteSet(DOMAIN specs), NEW initial
  PROVE  ForwardReachable(specs, initial) \subseteq DOMAIN specs
<1> DEFINE n == Cardinality(DOMAIN specs)
           D == SUBSET DOMAIN specs
           enabled(C) ==
             {c \in DOMAIN specs : InputKinds(specs, c) \subseteq ValueKinds(specs, initial, C)}
           step == [C \in D |-> enabled(C)]
           after == CHOOSE a : a = [i \in 0 .. n |-> IF i = 0 THEN {} ELSE enabled(a[i - 1])]
<1>1. ForwardReachable(specs, initial) = after[n]
  BY DEF ForwardReachable, Iterate
<1>2. n \in Nat
  BY FS_CardinalityType
<1>3. \A C \in D : step[C] = enabled(C) /\ step[C] \in D
  OBVIOUS
<1> HIDE DEF n, D, step, enabled
<1>4. {} \in D
  BY DEF D
<1>5. PICK a : Iterates(a, D, step, {}, n) /\ \A i \in 0 .. n : a[i] \in D
  BY <1>2, <1>3, <1>4, IterationExists
<1>6. a = [i \in 0 .. n |-> IF i = 0 THEN {} ELSE enabled(a[i - 1])]
  <2>1. ASSUME NEW i \in 0 .. n PROVE a[i] = IF i = 0 THEN {} ELSE enabled(a[i - 1])
    <3>1. i # 0 => i \in 1 .. n /\ i - 1 \in 0 .. n
      BY <1>2
    <3> QED  BY <1>3, <1>5, <3>1 DEF Iterates
  <2> QED  BY <1>5, <2>1 DEF Iterates
<1>7. after = [i \in 0 .. n |-> IF i = 0 THEN {} ELSE enabled(after[i - 1])]
  BY <1>6
<1> HIDE DEF after
<1>8. after[n] \in D
  <2>1. CASE n = 0
    BY <1>2, <1>4, <1>7, <2>1
  <2>2. CASE n # 0
    <3>1. n \in 0 .. n
      BY <1>2
    <3>2. after[n] = enabled(after[n - 1])
      BY <1>7, <2>2, <3>1
    <3> QED  BY <3>2 DEF enabled, D
  <2> QED  BY <2>1, <2>2
<1> QED  BY <1>1, <1>8 DEF D

\* What is relevant to a goal is among the capabilities too.
LEMMA RelevantIsWithin ==
  ASSUME NEW specs, IsFiniteSet(DOMAIN specs), NEW initial, NEW goal,
         goal.of # "kind" => goal.capability \in DOMAIN specs
  PROVE  Relevant(specs, initial, goal) \subseteq DOMAIN specs
<1> DEFINE forward == ForwardReachable(specs, initial)
           n == Cardinality(forward) + 1
           D == SUBSET DOMAIN specs
           root == IF goal.of = "kind" THEN {} ELSE {goal.capability}
           needed(C) == (IF goal.of = "kind" THEN {goal.kind} ELSE {})
                          \cup ((UNION {InputKinds(specs, c) : c \in C}) \ initial)
           producers(C) == C \cup {c \in forward : OutputKinds(specs, c) \cap needed(C) # {}}
           step == [C \in D |-> producers(C)]
           after == CHOOSE a : a = [i \in 0 .. n |-> IF i = 0 THEN root ELSE producers(a[i - 1])]
<1>1. Relevant(specs, initial, goal) = after[n]
  BY DEF Relevant, Iterate
<1>2. forward \in D
  BY ForwardReachableIsWithin
<1>3. n \in Nat
  <2>1. IsFiniteSet(forward)
    BY <1>2, FS_Subset
  <2> HIDE DEF forward
  <2> QED  BY <2>1, FS_CardinalityType
<1> HIDE DEF forward
<1>4. \A C \in D : step[C] = producers(C) /\ step[C] \in D
  BY <1>2
<1>5. root \in D
  OBVIOUS
<1> HIDE DEF n, D, step, producers, root
<1>6. PICK a : Iterates(a, D, step, root, n) /\ \A i \in 0 .. n : a[i] \in D
  BY <1>3, <1>4, <1>5, IterationExists
<1>7. a = [i \in 0 .. n |-> IF i = 0 THEN root ELSE producers(a[i - 1])]
  <2>1. ASSUME NEW i \in 0 .. n PROVE a[i] = IF i = 0 THEN root ELSE producers(a[i - 1])
    <3>1. i # 0 => i \in 1 .. n /\ i - 1 \in 0 .. n
      BY <1>3
    <3> QED  BY <1>4, <1>6, <3>1 DEF Iterates
  <2> QED  BY <1>6, <2>1 DEF Iterates
<1>8. after = [i \in 0 .. n |-> IF i = 0 THEN root ELSE producers(after[i - 1])]
  BY <1>7
<1> HIDE DEF after
<1>9. Iterates(after, D, step, root, n)
  <2>1. after = [i \in 0 .. n |-> after[i]]
    BY <1>8
  <2>2. after[0] = root
    BY <1>3, <1>8
  <2>3. ASSUME NEW i \in 1 .. n, after[i - 1] \in D PROVE after[i] = step[after[i - 1]]
    <3>1. i \in 0 .. n /\ i # 0
      BY <1>3
    <3>2. after[i] = producers(after[i - 1])
      BY <1>8, <3>1
    <3> QED  BY <1>4, <2>3, <3>2
  <2> QED  BY <2>1, <2>2, <2>3 DEF Iterates
<1>10. \A i \in 0 .. n : after[i] \in D
  BY <1>3, <1>4, <1>5, <1>9, IterationStays
<1>11. after[n] \in D
  BY <1>3, <1>10
<1> QED  BY <1>1, <1>11 DEF D

\* The capabilities of a route, in canonical order, are a list.
LEMMA CanonicalOrderIsList ==
  ASSUME NEW steps, IsFiniteSet(DOMAIN steps), DOMAIN steps \subseteq Nat
  PROVE  CanonicalOrder(steps) \in Seq(DOMAIN steps)
<1> DEFINE n == Cardinality(DOMAIN steps)
           D == Seq(DOMAIN steps)
           least(S) == CHOOSE c \in S : \A d \in S : c <= d
           ready(order) ==
             {c \in DOMAIN steps \ Range(order) : DependsOn(steps[c]) \subseteq Range(order)}
           extend(order) ==
             IF ready(order) = {} THEN order ELSE Append(order, least(ready(order)))
           step == [order \in D |-> extend(order)]
           after == CHOOSE a : a = [i \in 0 .. n |-> IF i = 0 THEN <<>> ELSE extend(a[i - 1])]
<1>1. CanonicalOrder(steps) = after[n]
  BY DEF CanonicalOrder, Iterate
<1>2. n \in Nat
  BY FS_CardinalityType
<1>3. ASSUME NEW order \in D PROVE extend(order) \in D
  <2>1. CASE ready(order) = {}
    BY <2>1
  <2>2. CASE ready(order) # {}
    <3>1. ready(order) \in SUBSET Nat
      OBVIOUS
    <3>2. least(ready(order)) \in ready(order)
      <4> HIDE DEF ready
      <4> QED  BY <2>2, <3>1, LeastNumber
    <3>3. least(ready(order)) \in DOMAIN steps
      BY <3>2
    <3> HIDE DEF least, ready
    <3>4. Append(order, least(ready(order))) \in D
      BY <3>3
    <3> QED  BY <2>2, <3>4
  <2> QED  BY <2>1, <2>2
<1> HIDE DEF extend
<1>31. \A order \in D : step[order] = extend(order) /\ step[order] \in D
  BY <1>3
<1>4. <<>> \in D
  OBVIOUS
<1> HIDE DEF n, D, step
<1>5. PICK a : Iterates(a, D, step, <<>>, n) /\ \A i \in 0 .. n : a[i] \in D
  BY <1>2, <1>31, <1>4, IterationExists
<1>6. a = [i \in 0 .. n |-> IF i = 0 THEN <<>> ELSE extend(a[i - 1])]
  <2>1. ASSUME NEW i \in 0 .. n PROVE a[i] = IF i = 0 THEN <<>> ELSE extend(a[i - 1])
    <3>1. i # 0 => i \in 1 .. n /\ i - 1 \in 0 .. n
      BY <1>2
    <3> QED  BY <1>31, <1>5, <3>1 DEF Iterates
  <2> QED  BY <1>5, <2>1 DEF Iterates
<1>7. after = [i \in 0 .. n |-> IF i = 0 THEN <<>> ELSE extend(after[i - 1])]
  BY <1>6
<1> HIDE DEF after
<1>8. Iterates(after, D, step, <<>>, n)
  <2>1. after = [i \in 0 .. n |-> after[i]]
    BY <1>7
  <2>2. after[0] = <<>>
    BY <1>2, <1>7
  <2>3. ASSUME NEW i \in 1 .. n, after[i - 1] \in D PROVE after[i] = step[after[i - 1]]
    <3>1. i \in 0 .. n /\ i # 0
      BY <1>2
    <3>2. after[i] = extend(after[i - 1])
      BY <1>7, <3>1
    <3> QED  BY <1>31, <2>3, <3>2
  <2> QED  BY <2>1, <2>2, <2>3 DEF Iterates
<1>9. \A i \in 0 .. n : after[i] \in D
  BY <1>2, <1>31, <1>4, <1>8, IterationStays
<1>10. after[n] \in D
  BY <1>2, <1>9
<1> QED  BY <1>1, <1>10 DEF D

\* A source that is there from the start needs no step.
LEMMA InitialNeedsNothing ==
  ASSUME NEW target, target.source = "initial", NEW steps, IsFiniteSet(DOMAIN steps)
  PROVE  Needed(target, steps) = {}
<1> DEFINE n == Cardinality(DOMAIN steps)
           start == DependsOn(<<target>>)
           producers(C) == C \cup UNION {DependsOn(steps[c]) : c \in C}
           step == [C \in {{}} |-> {}]
           after == CHOOSE a : a = [i \in 0 .. n |-> IF i = 0 THEN start ELSE producers(a[i - 1])]
<1>1. Needed(target, steps) = after[n]
  BY DEF Needed, Iterate
<1>2. n \in Nat
  BY FS_CardinalityType
<1>3. start = {}
  <2>1. Range(<<target>>) = {target}
    BY DEF Range
  <2> QED  BY <2>1 DEF DependsOn
<1>4. producers({}) = {} /\ step[{}] = {}
  OBVIOUS
<1> HIDE DEF n, start, producers, step
<1> DEFINE a == [i \in 0 .. n |-> {}]
<1>5. a = [i \in 0 .. n |-> IF i = 0 THEN start ELSE producers(a[i - 1])]
  <2>1. ASSUME NEW i \in 0 .. n, i # 0 PROVE a[i - 1] = {}
    <3>1. i - 1 \in 0 .. n
      BY <1>2, <2>1
    <3> QED  BY <3>1
  <2> QED  BY <1>3, <1>4, <2>1
<1> HIDE DEF a
<1>6. after = [i \in 0 .. n |-> IF i = 0 THEN start ELSE producers(after[i - 1])]
  BY <1>5
<1> HIDE DEF after
<1>7. Iterates(after, {{}}, step, {}, n)
  <2>1. after = [i \in 0 .. n |-> after[i]]
    BY <1>6
  <2>2. after[0] = {}
    BY <1>2, <1>3, <1>6
  <2>3. ASSUME NEW i \in 1 .. n, after[i - 1] \in {{}} PROVE after[i] = step[after[i - 1]]
    <3>1. i \in 0 .. n /\ i # 0
      BY <1>2
    <3>2. after[i] = producers(after[i - 1])
      BY <1>6, <3>1
    <3> QED  BY <1>4, <2>3, <3>2
  <2> QED  BY <2>1, <2>2, <2>3 DEF Iterates
<1>8. \A i \in 0 .. n : after[i] \in {{}}
  BY <1>2, <1>4, <1>7, IterationStays
<1>9. after[n] = {}
  BY <1>2, <1>8
<1> QED  BY <1>1, <1>9

-----------------------------------------------------------------------------
(* Routes that validate.                                                    *)

\* The steps of a valid route are a list of different capabilities of the plan.
LEMMA RouteIsList ==
  ASSUME NEW plan, NEW route, ValidRoute(plan, route),
         IsFiniteSet(DOMAIN plan.specifications), DOMAIN plan.specifications \subseteq Nat
  PROVE  /\ \E m \in Nat : DOMAIN route.steps = 1 .. m
         /\ \A i \in DOMAIN route.steps : route.steps[i].capability \in DOMAIN plan.specifications
         /\ \A i, j \in DOMAIN route.steps :
              route.steps[i].capability = route.steps[j].capability => i = j
<1> DEFINE steps == route.steps
           specs == plan.specifications
           before(i) == {steps[j].capability : j \in 1 .. i - 1}
           wiring == [c \in {steps[i].capability : i \in DOMAIN steps} |->
                        (CHOOSE s \in Range(steps) : s.capability = c).inputs]
<1>1. \A i \in DOMAIN steps : steps[i].capability \in DOMAIN specs \ before(i)
  BY DEF ValidRoute
<1>2. [i \in DOMAIN steps |-> steps[i].capability] = CanonicalOrder(wiring)
  BY DEF ValidRoute
<1>3. DOMAIN wiring \in SUBSET DOMAIN specs
  BY <1>1
<1> HIDE DEF wiring
<1>4. CanonicalOrder(wiring) \in Seq(DOMAIN wiring)
  <2>1. IsFiniteSet(DOMAIN wiring) /\ DOMAIN wiring \subseteq Nat
    BY <1>3, FS_Subset
  <2> QED  BY <2>1, CanonicalOrderIsList
<1>5. PICK m \in Nat : DOMAIN steps = 1 .. m
  <2> DEFINE order == CanonicalOrder(wiring)
  <2>1. DOMAIN order = 1 .. Len(order) /\ Len(order) \in Nat
    BY <1>4
  <2>2. DOMAIN order = DOMAIN steps
    BY <1>2
  <2> QED  BY <2>1, <2>2
<1>6. ASSUME NEW i \in DOMAIN steps, NEW j \in DOMAIN steps, i < j
      PROVE  steps[i].capability # steps[j].capability
  <2>1. i \in 1 .. j - 1
    BY <1>5, <1>6
  <2>2. steps[i].capability \in before(j)
    BY <2>1
  <2> QED  BY <1>1, <2>2
<1>7. ASSUME NEW i \in DOMAIN steps, NEW j \in DOMAIN steps,
             steps[i].capability = steps[j].capability
      PROVE  i = j
  <2>1. ~ (i < j) /\ ~ (j < i)
    BY <1>6, <1>7
  <2> QED  BY <1>5, <2>1
<1> QED  BY <1>1, <1>5, <1>7

\* A valid route to a value of the request has no steps.
LEMMA InitialTargetIsAlone ==
  ASSUME NEW plan, NEW route, ValidRoute(plan, route),
         IsFiniteSet(DOMAIN plan.specifications),
         route.target.source = "initial"
  PROVE  DOMAIN route.steps = {}
<1> DEFINE steps == route.steps
           wiring == [c \in {steps[i].capability : i \in DOMAIN steps} |->
                        (CHOOSE s \in Range(steps) : s.capability = c).inputs]
<1>1. Needed(route.target, wiring) = DOMAIN wiring
  BY DEF ValidRoute
<1>2. DOMAIN wiring \in SUBSET DOMAIN plan.specifications
  <2>1. \A i \in DOMAIN steps : steps[i].capability \in DOMAIN plan.specifications
    BY DEF ValidRoute
  <2> QED  BY <2>1
<1>3. DOMAIN wiring = {}
  <2>1. IsFiniteSet(DOMAIN wiring)
    BY <1>2, FS_Subset
  <2> HIDE DEF wiring
  <2> QED  BY <1>1, <2>1, InitialNeedsNothing
<1> QED  BY <1>3
-----------------------------------------------------------------------------
(* Preparation.                                                             *)

\* The plan is for the target, and a slice of the inventory.
PlansFor(f, plan, target) ==
  /\ plan.goal = target
  /\ plan.kind = GoalKind(f.inventory.specifications, target)
  /\ DOMAIN plan.specifications \subseteq DOMAIN f.inventory.specifications
  /\ \A c \in DOMAIN plan.specifications :
       plan.specifications[c] = f.inventory.specifications[c]
  /\ plan.offers \subseteq f.inventory.offers

\* A selection of a route of its plan that validates, with accepted attesters
\* for the steps that need one and for no others.
WellChosen(f, selection, target) ==
  LET route == selection.route
  IN  /\ ValidRoute(route.plan, route)
      /\ PlansFor(f, route.plan, target)
      /\ DOMAIN selection.attesters = {offer[1] : offer \in Attested(f, route)}
      /\ \A offer \in Attested(f, route) :
           selection.attesters[offer[1]] \in f.policy.conformance

\* The reference is one of those given, and resolves to a value of the kind.
GivenOfKind(l, given, reference, kind) ==
  /\ reference \in given
  /\ \E fact \in l.facts : ResolvesTo(l, reference, fact) /\ fact.kind = kind

\* The ports that take a value of the request have one, and so has the target
\* if it is such a value.
WellBound(l, given, selection) ==
  LET route == selection.route
  IN  /\ \A i \in InitialPorts(route) : GivenOfKind(l, given, selection.bindings[i.port], i.kind)
      /\ route.target.source = "initial" =>
           \E reference \in given : /\ selection.target_input = {reference}
                                   /\ GivenOfKind(l, given, reference, route.target.kind)

\* What the values of a request are.
LEMMA ValuesAreGiven ==
  ASSUME NEW l, NEW inputs, NEW kind,
         NEW reference \in OfKind(ResolvedInputs(l, inputs), kind)
  PROVE  GivenOfKind(l, Range(inputs), reference, kind)
BY DEF OfKind, ResolvedInputs, GivenOfKind

\* Bindings and target inputs are chosen from them by kind.
LEMMA ChoicesAreWellBound ==
  ASSUME NEW l, NEW inputs, NEW selection,
         selection.bindings \in BindingChoices(selection.route, ResolvedInputs(l, inputs)),
         selection.target_input \in TargetChoices(selection.route, ResolvedInputs(l, inputs))
  PROVE  WellBound(l, Range(inputs), selection)
<1> DEFINE values == ResolvedInputs(l, inputs)
           route == selection.route
<1>1. ASSUME NEW i \in InitialPorts(route)
      PROVE  GivenOfKind(l, Range(inputs), selection.bindings[i.port], i.kind)
  <2>1. selection.bindings[i.port] \in OfKind(values, i.kind)
    BY DEF BindingChoices
  <2> QED  BY <2>1, ValuesAreGiven
<1>2. ASSUME route.target.source = "initial"
      PROVE  \E reference \in Range(inputs) : /\ selection.target_input = {reference}
                                              /\ GivenOfKind(l, Range(inputs), reference, route.target.kind)
  <2>1. PICK reference \in OfKind(values, route.target.kind) : selection.target_input = {reference}
    BY <1>2 DEF TargetChoices
  <2> QED  BY <2>1, ValuesAreGiven DEF GivenOfKind
<1> QED  BY <1>1, <1>2 DEF WellBound

\* RouteAlternatives returns routes that validate, or something else.
LEMMA RoutesAreValid ==
  ASSUME NEW plan, NEW available,
         RouteAlternatives(plan, available).status = "routes",
         NEW route \in Range(RouteAlternatives(plan, available).routes)
  PROVE  ValidRoute(plan, route)
<1> DEFINE routes == SelectedRoutes(plan, available)
<1>1. RouteAlternatives(plan, available) = Alternatives(plan, available, routes)
  BY DEF RouteAlternatives
<1> HIDE DEF routes
<1> QED  BY <1>1 DEF Alternatives

\* The plan of a request is for its goal, and a slice of the inventory.
LEMMA PlanIsForTheGoal ==
  ASSUME NEW f \in Facades, NEW values, NEW target, PlanOf(f, values, target).status = "planned"
  PROVE  PlansFor(f, PlanOf(f, values, target).plan, target)
<1> DEFINE initial == KindsOf(values)
           specs == f.inventory.specifications
           over(capabilities) == PlanOver(f.inventory, initial, target, capabilities)
           made == PlanFor(f.inventory, initial, target)
<1>1. \A capabilities : /\ over(capabilities).goal = target
                        /\ over(capabilities).kind = GoalKind(specs, target)
                        /\ DOMAIN over(capabilities).specifications = capabilities
                        /\ \A c \in capabilities :
                             over(capabilities).specifications[c] = specs[c]
                        /\ over(capabilities).offers \subseteq f.inventory.offers
  BY DEF PlanOver, Restrict
<1>2. \A plan : Checked(plan).status = "planned" => Checked(plan).plan = plan
  BY DEF Checked, Planned, NotPlanned
<1>3. PlanOf(f, values, target) = made
  BY DEF PlanOf
<1>4. PICK capabilities : made = Checked(over(capabilities)) /\ capabilities \subseteq DOMAIN specs
  <2>1. CASE made = Checked(over({}))
    BY <2>1
  <2>2. CASE /\ made = Checked(over(Relevant(specs, initial, target)))
             /\ target.of = "output" => target.capability \in DOMAIN specs
             /\ Reachable(specs, initial, target)
    <3>1. IsFiniteSet(DOMAIN specs)
      BY FacadesAssumption
    <3>2. target.of # "kind" => target.capability \in DOMAIN specs
      BY <2>2, <3>1, ForwardReachableIsWithin DEF Reachable
    <3>3. Relevant(specs, initial, target) \subseteq DOMAIN specs
      BY <3>1, <3>2, RelevantIsWithin
    <3> QED  BY <2>2, <3>3
  <2> QED  BY <1>3, <2>1, <2>2 DEF PlanFor, NotPlanned
<1> HIDE DEF over, made
<1>5. made.plan = over(capabilities)
  BY <1>2, <1>3, <1>4
<1> QED  BY <1>1, <1>3, <1>4, <1>5 DEF PlansFor

\* Every complete selection of a valid route is well chosen and well bound.
LEMMA CompleteIsSound ==
  ASSUME NEW f, NEW l, NEW inputs, NEW target, NEW plan, NEW route,
         ValidRoute(plan, route),
         PlansFor(f, plan, target),
         NEW selection \in CompleteSelections(f, route, ResolvedInputs(l, inputs))
  PROVE  WellChosen(f, selection, target) /\ WellBound(l, Range(inputs), selection)
<1> DEFINE values == ResolvedInputs(l, inputs)
<1>1. PICK c \in BindingChoices(route, values) \X TargetChoices(route, values)
                   \X AttesterChoices(f, route) :
        selection = Selected(route, c[1], c[2], c[3])
  BY DEF CompleteSelections
<1>2. /\ selection.route = route
      /\ selection.bindings \in BindingChoices(route, values)
      /\ selection.target_input \in TargetChoices(route, values)
      /\ selection.attesters \in AttesterChoices(f, route)
  BY <1>1 DEF Selected
<1>3. WellBound(l, Range(inputs), selection)
  BY <1>2, ChoicesAreWellBound
<1>4. route.plan = plan
  BY DEF ValidRoute
<1>5. /\ DOMAIN selection.attesters = {offer[1] : offer \in Attested(f, route)}
      /\ \A offer \in Attested(f, route) :
           selection.attesters[offer[1]] \in f.policy.conformance
  BY <1>2 DEF AttesterChoices, AcceptedAttesters
<1> QED  BY <1>2, <1>3, <1>4, <1>5 DEF WellChosen

\* UniqueOnly goes ahead with a complete selection of a route that validates.
LEMMA UniqueIsSound ==
  ASSUME NEW f, NEW l, NEW inputs, NEW target, NEW plan,
         PlansFor(f, plan, target)
  PROVE  LET prepared == PrepareUnique(f, plan, ResolvedInputs(l, inputs))
         IN  \/ /\ prepared.status = "ready"
                /\ WellChosen(f, prepared.selection, target)
                /\ WellBound(l, Range(inputs), prepared.selection)
             \/ prepared.status \in {"refused", "blocked"}
<1> DEFINE values == ResolvedInputs(l, inputs)
           eligible == RouteAlternatives(plan, EligibleOffers(f, plan))
           selections == UNION {CompleteSelections(f, route, values) :
                                  route \in Range(eligible.routes)}
           prepared == PrepareUnique(f, plan, values)
<1>1. prepared = Decided(f, plan, values, eligible)
  BY DEF PrepareUnique
<1>2. CASE eligible.status = "routes" /\ Cardinality(selections) = 1
  <2>1. selections # {}
    <3>1. Cardinality({}) = 0
      BY FS_EmptySet
    <3> HIDE DEF selections
    <3> QED  BY <1>2, <3>1
  <2> DEFINE selection == CHOOSE s \in selections : TRUE
  <2>2. selection \in selections
    BY <2>1
  <2>3. prepared = Ready(selection)
    BY <1>1, <1>2 DEF Decided, OnlyOne
  <2> HIDE DEF selection, eligible, prepared
  <2>4. PICK route \in Range(eligible.routes) : selection \in CompleteSelections(f, route, values)
    BY <2>2
  <2>5. ValidRoute(plan, route)
    BY <1>2, <2>4, RoutesAreValid DEF eligible
  <2>6. WellChosen(f, selection, target) /\ WellBound(l, Range(inputs), selection)
    BY <2>4, <2>5, CompleteIsSound
  <2>7. prepared.status = "ready" /\ prepared.selection = selection
    BY <2>3 DEF Ready
  <2> QED  BY <2>6, <2>7 DEF prepared
<1>3. CASE ~ (eligible.status = "routes" /\ Cardinality(selections) = 1)
  <2> HIDE DEF eligible
  <2>1. prepared.status \in {"refused", "blocked"}
    BY <1>1, <1>3 DEF Decided, OnlyOne, NothingEligible, Answered, Refused
  <2> QED  BY <2>1
<1> QED  BY <1>2, <1>3

\* An explicit selection goes ahead after the same checks were made of it.
LEMMA ExplicitIsSound ==
  ASSUME NEW f, NEW l, NEW inputs, NEW target, NEW plan, NEW selection,
         PlansFor(f, plan, target)
  PROVE  LET prepared == PrepareExplicit(f, plan, ResolvedInputs(l, inputs), selection)
         IN  \/ /\ prepared.status = "ready"
                /\ WellChosen(f, prepared.selection, target)
                /\ WellBound(l, Range(inputs), prepared.selection)
             \/ prepared.status \in {"refused", "blocked"}
<1> DEFINE values == ResolvedInputs(l, inputs)
           prepared == PrepareExplicit(f, plan, values, selection)
<1>1. CASE /\ SelectionFits(f, plan, values, selection)
           /\ Range(selection.attesters) \subseteq f.policy.conformance
  <2>1. prepared.status = "ready" /\ prepared.selection = selection
    BY <1>1 DEF PrepareExplicit, Ready
  <2>2. WellBound(l, Range(inputs), selection)
    BY <1>1, ChoicesAreWellBound DEF SelectionFits
  <2>3. ValidRoute(plan, selection.route) /\ selection.route.plan = plan
    BY <1>1 DEF SelectionFits, ValidRoute
  <2>4. DOMAIN selection.attesters = {offer[1] : offer \in Attested(f, selection.route)}
    BY <1>1 DEF SelectionFits, AttestersFit
  <2>5. \A offer \in Attested(f, selection.route) :
          selection.attesters[offer[1]] \in f.policy.conformance
    <3>1. \A c \in DOMAIN selection.attesters : selection.attesters[c] \in Range(selection.attesters)
      BY DEF Range
    <3> QED  BY <1>1, <2>4, <3>1
  <2>6. WellChosen(f, selection, target)
    BY <2>3, <2>4, <2>5 DEF WellChosen
  <2> QED  BY <2>1, <2>2, <2>6
<1>2. CASE ~ (/\ SelectionFits(f, plan, values, selection)
              /\ Range(selection.attesters) \subseteq f.policy.conformance)
  <2>1. prepared.status = "refused"
    BY <1>2 DEF PrepareExplicit, Refused
  <2> QED  BY <2>1
<1> QED  BY <1>1, <1>2

\* Whatever is asked, a request that goes ahead has a selection that is well
\* chosen and well bound, and any other is refused, blocked or unreachable.
LEMMA PreparedIsSound ==
  ASSUME NEW f \in Facades, NEW l, NEW request
  PROVE  LET prepared == Prepare(f, l, request)
         IN  \/ /\ prepared.status = "ready"
                /\ WellChosen(f, prepared.selection, request.target)
                /\ WellBound(l, Range(request.inputs), prepared.selection)
             \/ prepared.status \in {"refused", "blocked", "unreachable"}
<1> DEFINE values == ResolvedInputs(l, request.inputs)
           made == PlanOf(f, values, request.target)
           prepared == Prepare(f, l, request)
<1>1. CASE ~ RequestResolves(f, l, request.inputs) \/ made.status # "planned"
  <2>1. prepared.status \in {"refused", "unreachable"}
    BY <1>1 DEF Prepare, PrepareResolved, PrepareSelection, Refused, Answered
  <2> QED  BY <2>1
<1>2. CASE RequestResolves(f, l, request.inputs) /\ made.status = "planned"
  <2>1. prepared = IF request.selection.mode = "unique" THEN PrepareUnique(f, made.plan, values)
                   ELSE PrepareExplicit(f, made.plan, values, request.selection.selection)
    BY <1>2 DEF Prepare, PrepareResolved, PrepareSelection
  <2>2. PlansFor(f, made.plan, request.target)
    BY <1>2, PlanIsForTheGoal
  <2> HIDE DEF made
  <2>3. CASE request.selection.mode = "unique"
    BY <2>1, <2>2, <2>3, UniqueIsSound
  <2>4. CASE request.selection.mode # "unique"
    BY <2>1, <2>2, <2>4, ExplicitIsSound
  <2> QED  BY <2>3, <2>4
<1> QED  BY <1>1, <1>2

-----------------------------------------------------------------------------
(* The inductive invariant.                                                 *)

\* The record was produced by the offer selected for its step, and assessed by
\* the attester selected for it or by none: what AssessedAsSelected asks of it.
AsSelected(record) ==
  LET b == record.basis
      selection == b.invocation.selection
      c == b.invocation.specification.id
  IN  /\ \E step \in Range(selection.route.steps) :
           step.capability = c /\ OfferOf[<<c, step.offer>>] = b.invocation.offer
      /\ IF b.kind = "derived" THEN b.assessment.authority = selection.attesters[c]
         ELSE c \notin DOMAIN selection.attesters /\ b.invocation.offer \in b.policy.offers

References(records) == {Reference(record) : record \in records}

\* The inputs are values of the request or outputs of these records.
TakesFrom(inputs, given, records) ==
  \A port \in DOMAIN inputs : inputs[port].admitted \in given \cup References(records)

\* The record is an output of a step of the plan, made from the request's values
\* and from what its other steps have produced.
OutputOfStep(record, plan, given, produced) ==
  LET b == record.basis
  IN  /\ b.kind \in {"derived", "provider_authorized"}
      /\ record.fact.kind = plan.specifications[b.invocation.specification.id].outputs[b.port]
      /\ TakesFrom(b.invocation.inputs, given, produced)
      /\ AsSelected(record)

\* Every output of the capability has a record among those produced.
HasOutputs(produced, plan, c) ==
  \A port \in DOMAIN plan.specifications[c].outputs : From(produced, OutputOf(c, port)) # {}

\* The invocation is of the step at this index of the selection.
LinkedTo(invocation, selection, index, given, produced) ==
  LET step == selection.route.steps[index]
      spec == invocation.specification
  IN  /\ index \in DOMAIN selection.route.steps
      /\ invocation.selection = selection
      /\ invocation.offer = OfferOf[<<step.capability, step.offer>>]
      /\ spec.id = step.capability
      /\ spec.output_kinds = selection.route.plan.specifications[step.capability].outputs
      /\ TakesFrom(invocation.inputs, given, produced)

\* The values of a request are references, and nothing but.
AreReferences(given) ==
  \A r \in given : r = [fact_id |-> r.fact_id, authority_record_id |-> r.authority_record_id]

\* What a request that is under way was given, and still has.
Selecting(f, l, r, a) ==
  /\ AreReferences(Range(a.inputs))
  /\ WellChosen(f, r.selection, a.target)
  /\ WellBound(l, Range(a.inputs), r.selection)

\* What it has produced: all it added to the ledger, every output of the steps
\* it has taken.
Producing(l, r, a) ==
  LET route == r.selection.route
  IN  /\ l.authorities \ a.before \subseteq r.produced
      /\ r.produced \subseteq l.authorities
      /\ \A record \in r.produced :
           OutputOfStep(record, route.plan, Range(a.inputs), r.produced)
      /\ \A i \in DOMAIN route.steps :
           i < r.index => HasOutputs(r.produced, route.plan, route.steps[i].capability)

\* A request under way, before its answer.
InProgress(f, l, r, a) ==
  /\ r.status \in {"linking", "invoking", "assessing"}
  /\ r.index \in Nat \ {0}
  /\ Selecting(f, l, r, a)
  /\ Producing(l, r, a)
  /\ r.status # "linking" =>
       LinkedTo(r.invocation, r.selection, r.index, Range(a.inputs), r.produced)

\* The strengthening: a request is answered, or under way and not yet answered.
DerivationInv ==
  /\ facade \in Facades
  /\ run = Idle \/ (answer.status = "none" /\ InProgress(facade, ledger, run, asked))
  /\ AdmittedIsReported
  /\ AssessedAsSelected
  /\ GroundedInTheRequest

-----------------------------------------------------------------------------
(* Requests.                                                                *)

\* A pair of references is listed in some order.
LEMMA PairIsListed ==
  ASSUME NEW r, NEW s
  PROVE  Range(SetToSeq({r, s})) \subseteq {r, s}
<1> DEFINE S == {r, s}
           n == Cardinality(S)
<1>1. IsFiniteSet(S)
  <2>1. S = {r} \cup {s}
    OBVIOUS
  <2> HIDE DEF S
  <2> QED  BY <2>1, FS_Singleton, FS_Union
<1>2. PICK f \in [1 .. n -> S] : IsInjective(f)
  <2>1. ExistsBijection(1 .. n, S)
    BY <1>1, FS_CardinalityType
  <2> HIDE DEF n, S
  <2> QED  BY <2>1 DEF ExistsBijection, Bijection, Injection
<1>3. SetToSeq(S) \in [1 .. n -> S]
  <2> HIDE DEF n, S
  <2> QED  BY <1>2 DEF SetToSeq, n
<1> HIDE DEF n
<1> QED  BY <1>3 DEF Range

\* Whatever is asked for, the values that are given are references.
LEMMA RequestsGiveReferences ==
  ASSUME NEW request \in Requests
  PROVE  AreReferences(Range(request.inputs))
<1> DEFINE AReference(r) ==
             r = [fact_id |-> r.fact_id, authority_record_id |-> r.authority_record_id]
<1>1. request.inputs \in InputLists
  BY DEF Requests, Request
<1>2. \A r \in Known : AReference(r)
  BY DEF Known, Reference
<1>3. CASE request.inputs = <<>>
  BY <1>3 DEF AreReferences, Range
<1>4. CASE \E r \in Known : request.inputs = <<r, r>>
  BY <1>2, <1>4 DEF AreReferences, Range
<1>5. CASE \E r, s \in Known : request.inputs = SetToSeq({r, s})
  <2>1. PICK r \in Known, s \in Known : Range(request.inputs) \subseteq {r, s}
    BY <1>5, PairIsListed
  <2> QED  BY <1>2, <2>1 DEF AreReferences
<1>6. CASE \E r, s \in Known :
             request.inputs = <<[fact_id |-> r.fact_id,
                                 authority_record_id |-> s.authority_record_id]>>
  <2>1. PICK r \in Known, s \in Known :
               Range(request.inputs) = {[fact_id |-> r.fact_id,
                                         authority_record_id |-> s.authority_record_id]}
    BY <1>6 DEF Range
  <2> QED  BY <2>1 DEF AreReferences
<1> HIDE DEF AReference
<1> DEFINE inputs == request.inputs
           twice(r) == <<r, r>>
           listed(r, s) == SetToSeq({r, s})
           mixed(r, s) == <<[fact_id |-> r.fact_id, authority_record_id |-> s.authority_record_id]>>
<1>7. InputLists =
        {<<>>} \cup {twice(r) : r \in Known} \cup {listed(r, s) : r, s \in Known}
          \cup {mixed(r, s) : r, s \in Known}
  BY DEF InputLists
<1>8. \/ inputs = <<>>
      \/ \E r \in Known : inputs = twice(r)
      \/ \E r, s \in Known : inputs = listed(r, s)
      \/ \E r, s \in Known : inputs = mixed(r, s)
  <2> HIDE DEF inputs, twice, listed, mixed
  <2>1. inputs \in InputLists
    BY <1>1 DEF inputs
  <2> QED  BY <1>7, <2>1
<1> QED  BY <1>3, <1>4, <1>5, <1>6, <1>8

\* A larger ledger resolves what a smaller one does.
LEMMA LedgersGrow ==
  ASSUME NEW l, NEW m, l.authorities \subseteq m.authorities, l.facts \subseteq m.facts
  PROVE  /\ \A reference, fact : ResolvesTo(l, reference, fact) => ResolvesTo(m, reference, fact)
         /\ \A given, selection : WellBound(l, given, selection) => WellBound(m, given, selection)
<1>1. \A reference, fact : ResolvesTo(l, reference, fact) => ResolvesTo(m, reference, fact)
  BY DEF ResolvesTo
<1>2. \A given, reference, kind :
        GivenOfKind(l, given, reference, kind) => GivenOfKind(m, given, reference, kind)
  BY <1>1 DEF GivenOfKind
<1>3. \A given, selection : WellBound(l, given, selection) => WellBound(m, given, selection)
  BY <1>2 DEF WellBound
<1> QED  BY <1>1, <1>3

\* More records leave what was produced as it was.
LEMMA ProductsGrow ==
  ASSUME NEW S, NEW T, S \subseteq T
  PROVE  /\ \A record, plan, given :
              OutputOfStep(record, plan, given, S) => OutputOfStep(record, plan, given, T)
         /\ \A plan, c : HasOutputs(S, plan, c) => HasOutputs(T, plan, c)
<1>1. References(S) \subseteq References(T)
  BY DEF References
<1>2. \A inputs, given : TakesFrom(inputs, given, S) => TakesFrom(inputs, given, T)
  BY <1>1 DEF TakesFrom
<1>3. \A record, plan, given :
        OutputOfStep(record, plan, given, S) => OutputOfStep(record, plan, given, T)
  BY <1>2 DEF OutputOfStep
<1>4. \A source : From(S, source) \subseteq From(T, source)
  BY DEF From
<1>5. \A plan, c : HasOutputs(S, plan, c) => HasOutputs(T, plan, c)
  BY <1>4 DEF HasOutputs
<1> QED  BY <1>3, <1>5

\* The steps of a well chosen route are a list of different capabilities.
LEMMA StepsAreListed ==
  ASSUME NEW f \in Facades, NEW selection, NEW target, WellChosen(f, selection, target)
  PROVE  LET steps == selection.route.steps
         IN  /\ \E m \in Nat : DOMAIN steps = 1 .. m
             /\ \A i, j \in DOMAIN steps : steps[i].capability = steps[j].capability => i = j
             /\ selection.route.target.source = "initial" => DOMAIN steps = {}
<1> DEFINE plan == selection.route.plan
           specs == f.inventory.specifications
<1>1. ValidRoute(plan, selection.route) /\ DOMAIN plan.specifications \in SUBSET DOMAIN specs
  BY DEF WellChosen, PlansFor
<1>2. IsFiniteSet(DOMAIN specs) /\ DOMAIN specs \subseteq Nat
  BY FacadesAssumption
<1>3. IsFiniteSet(DOMAIN plan.specifications) /\ DOMAIN plan.specifications \subseteq Nat
  BY <1>1, <1>2, FS_Subset
<1> QED  BY <1>1, <1>3, RouteIsList, InitialTargetIsAlone

-----------------------------------------------------------------------------
(* Steps.                                                                   *)

\* The input of a port is the value of the request that is bound to it, or the
\* record of an output that an earlier step of the request produced.
LEMMA LinkedInputsAreFound ==
  ASSUME facade \in Facades, InProgress(facade, ledger, run, asked),
         run.index \in DOMAIN Route.steps,
         NEW port \in DOMAIN Step.inputs
  PROVE  LET input  == LinkedInput(port)
             source == Step.inputs[port]
         IN  \/ /\ source.source = "initial"
                /\ GivenOfKind(ledger, Range(asked.inputs), input.admitted, source.kind)
                /\ ResolvesTo(ledger, input.admitted, input.fact)
             \/ /\ source.source # "initial"
                /\ \E record \in RecordsAt(source) :
                     input = [admitted |-> Reference(record), fact |-> record.fact]
<1> DEFINE route == run.selection.route
           given == Range(asked.inputs)
           source == Step.inputs[port]
           before == {route.steps[j].capability : j \in 1 .. run.index - 1}
<1>1. /\ WellChosen(facade, run.selection, asked.target)
      /\ WellBound(ledger, given, run.selection)
      /\ Producing(ledger, run, asked)
  BY DEF InProgress, Selecting
<1>2. ValidRoute(route.plan, route)
  BY <1>1 DEF WellChosen
<1>3. Step = route.steps[run.index] /\ Step \in Range(route.steps) /\ run.index \in DOMAIN route.steps
  BY DEF Step, Route, Range
<1>4. CASE source.source = "initial"
  <2> DEFINE i == [port |-> <<Step.capability, port>>, kind |-> source.kind]
             bound == run.selection.bindings[<<Step.capability, port>>]
             links == {input \in [admitted : {bound}, fact : ledger.facts] :
                         ResolvesTo(ledger, input.admitted, input.fact)}
  <2>1. i \in InitialPorts(route)
    <3> DEFINE ports(step) ==
                 {[port |-> <<step.capability, p>>, kind |-> step.inputs[p].kind] :
                    p \in {p \in DOMAIN step.inputs : step.inputs[p].source = "initial"}}
    <3>1. i \in ports(Step)
      BY <1>4
    <3>2. InitialPorts(route) = UNION {ports(step) : step \in Range(route.steps)}
      BY DEF InitialPorts
    <3> HIDE DEF ports, i
    <3> QED  BY <1>3, <3>1, <3>2
  <2>2. GivenOfKind(ledger, given, bound, source.kind)
    <3>1. GivenOfKind(ledger, given, run.selection.bindings[i.port], i.kind)
      BY <1>1, <2>1 DEF WellBound
    <3> QED  BY <3>1
  <2>3. PICK fact \in ledger.facts : ResolvesTo(ledger, bound, fact)
    BY <2>2 DEF GivenOfKind
  <2>4. links # {}
    <3> DEFINE link == [admitted |-> bound, fact |-> fact]
    <3>1. link \in [admitted : {bound}, fact : ledger.facts]
      OBVIOUS
    <3>2. ResolvesTo(ledger, link.admitted, link.fact)
      BY <2>3
    <3> QED  BY <3>1, <3>2
  <2>5. \A input \in links :
          input.admitted = bound /\ ResolvesTo(ledger, input.admitted, input.fact)
    OBVIOUS
  <2>6. LinkedInput(port) = CHOOSE input \in [admitted : {bound}, fact : ledger.facts] :
                              ResolvesTo(ledger, input.admitted, input.fact)
    BY <1>4 DEF LinkedInput
  <2>7. LinkedInput(port) \in links
    BY <2>4, <2>6
  <2>8. /\ LinkedInput(port).admitted = bound
        /\ ResolvesTo(ledger, LinkedInput(port).admitted, LinkedInput(port).fact)
    BY <2>5, <2>7
  <2> QED  BY <1>4, <2>2, <2>8
<1>5. CASE source.source # "initial"
  <2>1. SourceExists(route.plan, before, source)
    BY <1>2, <1>3 DEF ValidRoute
  <2>2. PICK j \in 1 .. run.index - 1 : source.capability = route.steps[j].capability
    BY <1>5, <2>1 DEF SourceExists
  <2>3. source.port \in DOMAIN route.plan.specifications[source.capability].outputs
    BY <1>5, <2>1 DEF SourceExists
  <2>4. j \in DOMAIN route.steps /\ j < run.index
    <3>1. PICK m \in Nat : DOMAIN route.steps = 1 .. m
      BY <1>1, StepsAreListed
    <3> QED  BY <1>3, <2>2, <3>1
  <2>5. HasOutputs(run.produced, route.plan, source.capability)
    BY <1>1, <2>2, <2>4 DEF Producing
  <2>6. From(run.produced, OutputOf(source.capability, source.port)) # {}
    BY <2>3, <2>5 DEF HasOutputs
  <2>7. From(run.produced, OutputOf(source.capability, source.port)) = RecordsAt(source)
    BY DEF From, OutputOf, RecordsAt
  <2> DEFINE record == CHOOSE record \in RecordsAt(source) : TRUE
  <2>8. record \in RecordsAt(source)
    BY <2>6, <2>7
  <2>9. LinkedInput(port) = [admitted |-> Reference(record), fact |-> record.fact]
    BY <1>5 DEF LinkedInput
  <2> QED  BY <1>5, <2>8, <2>9
<1> QED  BY <1>4, <1>5

\* It is never what the ledger has from elsewhere.
LEMMA LinkedInputsAreOwn ==
  ASSUME facade \in Facades, InProgress(facade, ledger, run, asked),
         run.index \in DOMAIN Route.steps,
         NEW port \in DOMAIN Step.inputs
  PROVE  LinkedInput(port).admitted \in Range(asked.inputs) \cup References(run.produced)
<1> DEFINE input  == LinkedInput(port)
           source == Step.inputs[port]
<1>1. CASE GivenOfKind(ledger, Range(asked.inputs), input.admitted, source.kind)
  BY <1>1 DEF GivenOfKind
<1>2. CASE \E record \in RecordsAt(source) :
             input = [admitted |-> Reference(record), fact |-> record.fact]
  <2>1. PICK record \in RecordsAt(source) :
               input = [admitted |-> Reference(record), fact |-> record.fact]
    BY <1>2
  <2>2. record \in run.produced /\ input.admitted = Reference(record)
    BY <2>1 DEF RecordsAt, From
  <2> QED  BY <2>2 DEF References
<1> QED  BY <1>1, <1>2, LinkedInputsAreFound

\* A step is linked to its own capability and offer.
LEMMA InvocationIsLinked ==
  ASSUME facade \in Facades, InProgress(facade, ledger, run, asked),
         run.index \in DOMAIN Route.steps
  PROVE  LinkedTo(Invocation, run.selection, run.index, Range(asked.inputs), run.produced)
<1> DEFINE given == Range(asked.inputs)
<1>1. Step = run.selection.route.steps[run.index] /\ Route = run.selection.route
  BY DEF Step, Route
<1>2. Invocation.inputs = [port \in DOMAIN Step.inputs |-> LinkedInput(port)]
  BY DEF Invocation
<1>3. TakesFrom(Invocation.inputs, given, run.produced)
  BY <1>2, LinkedInputsAreOwn DEF TakesFrom
<1>4. /\ Invocation.selection = run.selection
      /\ Invocation.offer = OfferOf[StepOffer]
      /\ Invocation.specification.id = Step.capability
      /\ Invocation.specification.output_kinds
           = Route.plan.specifications[Step.capability].outputs
  BY DEF Invocation
<1> QED  BY <1>1, <1>3, <1>4 DEF LinkedTo, StepOffer

\* A request that ends with a failure reports all it has produced.
LEMMA FailureReports ==
  ASSUME DerivationInv, run # Idle, NEW stage,
         Finish(Failed(stage)), UNCHANGED <<facade, ledger, asked>>
  PROVE  DerivationInv'
<1>1. InProgress(facade, ledger, run, asked)
  BY DEF DerivationInv
<1>2. run' = Idle /\ answer'.status = "failed" /\ answer'.admitted = run.produced
  BY DEF Finish, Failed
<1>3. AdmittedIsReported'
  BY <1>1, <1>2 DEF AdmittedIsReported, InProgress, Producing
<1>4. AssessedAsSelected'
  BY DEF DerivationInv, AssessedAsSelected
<1>5. GroundedInTheRequest'
  BY <1>2 DEF GroundedInTheRequest
<1> QED  BY <1>2, <1>3, <1>4, <1>5 DEF DerivationInv

\* What is admitted becomes part of what the request has produced.
LEMMA SettledKeeps ==
  ASSUME DerivationInv, run.status \in {"invoking", "assessing"},
         NEW outcome, NEW decision, NEW records,
         Admits(outcome, ledger, records),
         outcome.status = "withheld" => WithheldStage(decision) # "policy",
         outcome.status = "admitted" =>
           /\ \A record \in records :
                OutputOfStep(record, Route.plan, Range(asked.inputs), run.produced)
           /\ HasOutputs(records, Route.plan, Step.capability),
         Settle(outcome, decision), UNCHANGED <<facade, asked>>
  PROVE  DerivationInv'
<1> DEFINE route == run.selection.route
           given == Range(asked.inputs)
           whole == run.produced \cup records
<1>0. run # Idle /\ answer.status = "none" /\ InProgress(facade, ledger, run, asked)
  BY DEF DerivationInv, Idle
<1>1. CASE outcome.status \in {"withheld", "error"}
  <2>1. ledger' = ledger
    BY <1>1 DEF Settle, Admits
  <2>2. PICK stage : Finish(Failed(stage))
    BY <1>1 DEF Settle
  <2> QED  BY <1>0, <2>1, <2>2, FailureReports
<1>2. CASE outcome.status = "admitted"
  <2>1. /\ ledger'.authorities = ledger.authorities \cup records
        /\ ledger.authorities \subseteq ledger'.authorities
        /\ ledger.facts \subseteq ledger'.facts
        /\ AdmittedOutputs(outcome) = records
    BY <1>2 DEF Settle, Admits
  <2>2. run' = NextStep(records) /\ answer' = answer
    BY <1>2, <2>1 DEF Settle
  <2>3. /\ run'.status = "linking"
        /\ run'.selection = run.selection
        /\ run'.index = run.index + 1
        /\ run'.produced = whole
    BY <2>2 DEF NextStep
  <2>4. /\ run.index \in Nat
        /\ Selecting(facade, ledger, run, asked)
        /\ Producing(ledger, run, asked)
        /\ LinkedTo(run.invocation, run.selection, run.index, given, run.produced)
    BY <1>0 DEF InProgress
  <2>5. Selecting(facade, ledger', run', asked)
    <3>1. WellBound(ledger', given, run.selection)
      BY <2>1, <2>4, LedgersGrow DEF Selecting
    <3> QED  BY <2>3, <2>4, <3>1 DEF Selecting
  <2>6. ledger'.authorities \ asked.before \subseteq whole /\ whole \subseteq ledger'.authorities
    BY <2>1, <2>4 DEF Producing
  <2>7. \A record \in whole : OutputOfStep(record, route.plan, given, whole)
    <3>1. \A record \in whole : OutputOfStep(record, route.plan, given, run.produced)
      BY <1>2, <2>4 DEF Producing, Route
    <3>2. run.produced \subseteq whole
      OBVIOUS
    <3> HIDE DEF whole
    <3> QED  BY <3>1, <3>2, ProductsGrow
  <2>8. ASSUME NEW i \in DOMAIN route.steps, i < run.index + 1
        PROVE  HasOutputs(whole, route.plan, route.steps[i].capability)
    <3>1. i < run.index \/ i = run.index
      <4>1. PICK m \in Nat : DOMAIN route.steps = 1 .. m
        BY <2>4, StepsAreListed DEF Selecting, DerivationInv
      <4> QED  BY <2>4, <2>8, <4>1
    <3>2. CASE i < run.index
      <4>1. HasOutputs(run.produced, route.plan, route.steps[i].capability)
        BY <2>4, <3>2 DEF Producing
      <4>2. run.produced \subseteq whole
        OBVIOUS
      <4> HIDE DEF whole
      <4> QED  BY <4>1, <4>2, ProductsGrow
    <3>3. CASE i = run.index
      <4>1. HasOutputs(records, route.plan, route.steps[i].capability)
        BY <1>2, <3>3 DEF Step, Route
      <4>2. records \subseteq whole
        OBVIOUS
      <4> HIDE DEF whole
      <4> QED  BY <4>1, <4>2, ProductsGrow
    <3> QED  BY <3>1, <3>2, <3>3
  <2> HIDE DEF whole
  <2>9. Producing(ledger', run', asked)
    BY <2>3, <2>6, <2>7, <2>8 DEF Producing
  <2>10. InProgress(facade, ledger', run', asked)
    BY <2>3, <2>4, <2>5, <2>9 DEF InProgress
  <2>11. AdmittedIsReported'
    BY <1>0, <2>2, <2>3, <2>6 DEF AdmittedIsReported
  <2>12. AssessedAsSelected'
    <3>1. \A record \in ledger'.authorities \ asked.before : AsSelected(record)
      BY <2>6, <2>7 DEF OutputOfStep
    <3> QED  BY <3>1 DEF AssessedAsSelected, AsSelected
  <2>13. GroundedInTheRequest'
    BY <1>0, <2>2 DEF GroundedInTheRequest
  <2> QED  BY <1>0, <2>2, <2>10, <2>11, <2>12, <2>13 DEF DerivationInv
<1> QED  BY <1>1, <1>2 DEF Admits

\* What a candidate's record is of, whichever way the candidate is admitted.
OfCandidate(record, invocation, candidate, port) ==
  /\ port \in DOMAIN candidate.outputs
  /\ record.fact = candidate.outputs[port]
  /\ record.basis.port = port
  /\ record.basis.invocation = invocation

\* The records of a candidate are outputs of its step, one for every output
\* there is, if the attester is the selected one or none is needed.
LEMMA CandidateIsOfItsStep ==
  ASSUME NEW invocation, NEW selection, NEW index, NEW given, NEW produced,
         LinkedTo(invocation, selection, index, given, produced),
         NEW candidate, ValidCandidate(candidate, invocation), NEW records,
         \A record \in records :
           /\ record.basis.kind \in {"derived", "provider_authorized"}
           /\ \E port : OfCandidate(record, invocation, candidate, port)
           /\ LET c == selection.route.steps[index].capability
              IN  IF record.basis.kind = "derived"
                  THEN record.basis.assessment.authority = selection.attesters[c]
                  ELSE /\ c \notin DOMAIN selection.attesters
                       /\ invocation.offer \in record.basis.policy.offers,
         \A port \in DOMAIN candidate.outputs :
           \E record \in records : OfCandidate(record, invocation, candidate, port)
  PROVE  LET plan == selection.route.plan
         IN  /\ \A record \in records : OutputOfStep(record, plan, given, produced)
             /\ HasOutputs(records, plan, selection.route.steps[index].capability)
<1> DEFINE plan == selection.route.plan
           step == selection.route.steps[index]
           c == step.capability
           kinds == plan.specifications[c].outputs
<1>1. /\ invocation.selection = selection
      /\ invocation.offer = OfferOf[<<c, step.offer>>]
      /\ invocation.specification.id = c
      /\ invocation.specification.output_kinds = kinds
      /\ TakesFrom(invocation.inputs, given, produced)
      /\ step \in Range(selection.route.steps)
  BY DEF LinkedTo, Range
<1>2. /\ DOMAIN candidate.outputs = DOMAIN kinds
      /\ \A port \in DOMAIN kinds : candidate.outputs[port].kind = kinds[port]
  <2>1. FitsPorts(invocation.specification.output_kinds, candidate.outputs)
    BY DEF ValidCandidate
  <2> HIDE DEF kinds
  <2> QED  BY <1>1, <2>1 DEF FitsPorts
<1>3. ASSUME NEW record \in records
      PROVE  OutputOfStep(record, plan, given, produced)
  <2>1. PICK port : OfCandidate(record, invocation, candidate, port)
    OBVIOUS
  <2>2. record.fact.kind = plan.specifications[record.basis.invocation.specification.id]
                              .outputs[record.basis.port]
    <3>1. /\ record.basis.invocation.specification.id = c
          /\ record.basis.port = port
          /\ record.fact = candidate.outputs[port]
          /\ port \in DOMAIN candidate.outputs
      BY <1>1, <2>1 DEF OfCandidate
    <3>2. record.fact.kind = kinds[port]
      <4> HIDE DEF kinds
      <4> QED  BY <1>2, <3>1
    <3> QED  BY <3>1, <3>2
  <2>3. TakesFrom(record.basis.invocation.inputs, given, produced)
    BY <1>1, <2>1 DEF OfCandidate
  <2>4. AsSelected(record)
    <3>1. /\ record.basis.invocation.selection = selection
          /\ record.basis.invocation.specification.id = c
          /\ record.basis.invocation.offer = invocation.offer
      BY <1>1, <2>1 DEF OfCandidate
    <3> QED  BY <1>1, <3>1 DEF AsSelected
  <2> QED  BY <2>2, <2>3, <2>4 DEF OutputOfStep
<1>4. ASSUME NEW port \in DOMAIN kinds
      PROVE  From(records, OutputOf(c, port)) # {}
  <2>1. PICK record \in records : OfCandidate(record, invocation, candidate, port)
    BY <1>2
  <2>2. record.basis.kind # "source"
    OBVIOUS
  <2>3. record.basis.invocation.specification.id = c /\ record.basis.port = port
    BY <1>1, <2>1 DEF OfCandidate
  <2>4. record \in From(records, OutputOf(c, port))
    BY <2>2, <2>3 DEF From, OutputOf
  <2> QED  BY <2>4
<1> QED  BY <1>3, <1>4 DEF HasOutputs

\* The step of a request under way needs an attester if the policy does not
\* accept its offer, and then one the policy accepts is selected; otherwise
\* none is selected for it.
LEMMA StepIsAttested ==
  ASSUME facade \in Facades, WellChosen(facade, run.selection, asked.target),
         run.index \in DOMAIN Route.steps
  PROVE  \/ /\ StepAttesters = {}
            /\ AcceptsProviderOffer(facade.policy, OfferOf[StepOffer])
            /\ Step.capability \notin DOMAIN run.selection.attesters
         \/ /\ StepAttesters = {run.selection.attesters[Step.capability]}
            /\ run.selection.attesters[Step.capability] \in facade.policy.conformance
<1> DEFINE route == run.selection.route
<1>1. Route = route /\ Step = route.steps[run.index] /\ StepOffer = <<Step.capability, Step.offer>>
  BY DEF Route, Step, StepOffer
<1>2. Step \in Range(route.steps)
  BY <1>1 DEF Range
<1>3. CASE Direct(facade, StepOffer)
  <2>1. Step.capability \notin DOMAIN run.selection.attesters
    <3>1. SUFFICES ASSUME Step.capability \in DOMAIN run.selection.attesters PROVE FALSE
      OBVIOUS
    <3>2. PICK offer \in Attested(facade, route) : offer[1] = Step.capability
      BY <3>1 DEF WellChosen
    <3>3. PICK step \in Range(route.steps) : offer = <<step.capability, step.offer>>
      BY DEF Attested
    <3>4. ~ Direct(facade, offer)
      BY DEF Attested
    <3>5. PICK i \in DOMAIN route.steps : step = route.steps[i]
      BY DEF Range
    <3>6. step.capability = Step.capability
      BY <3>2, <3>3
    <3>7. i = run.index
      BY <1>1, <3>5, <3>6, StepsAreListed
    <3>8. offer = StepOffer
      BY <1>1, <3>3, <3>5, <3>7
    <3> QED  BY <1>3, <3>4, <3>8
  <2> QED  BY <1>3, <2>1 DEF Direct, StepAttesters
<1>4. CASE ~ Direct(facade, StepOffer)
  <2>1. StepOffer \in Attested(facade, route)
    BY <1>1, <1>2, <1>4 DEF Attested
  <2>2. run.selection.attesters[StepOffer[1]] \in facade.policy.conformance
    BY <2>1 DEF WellChosen
  <2>3. StepOffer[1] = Step.capability
    BY <1>1
  <2> QED  BY <1>4, <2>2, <2>3 DEF StepAttesters
<1> QED  BY <1>3, <1>4

\* A request that goes ahead is under way; any other is answered with no effect
\* and no record.
LEMMA AskKeeps ==
  ASSUME DerivationInv, NEW request \in Requests, Ask(request)
  PROVE  DerivationInv'
<1> DEFINE prepared == Prepare(facade, ledger, request)
           given == Range(request.inputs)
<1>1. /\ facade \in Facades /\ facade' = facade /\ ledger' = ledger /\ effects' = {}
      /\ asked'.before = ledger.authorities
      /\ asked'.inputs = request.inputs
      /\ asked'.target = request.target
  BY DEF Ask, DerivationInv
<1>2. ledger'.authorities \ asked'.before = {}
  BY <1>1
<1>3. AssessedAsSelected'
  BY <1>2 DEF AssessedAsSelected
<1>4. Begin(prepared)
  BY DEF Ask
<1>5. CASE /\ prepared.status = "ready"
           /\ WellChosen(facade, prepared.selection, request.target)
           /\ WellBound(ledger, given, prepared.selection)
  <2>1. /\ run'.status = "linking" /\ run'.selection = prepared.selection
        /\ run'.index = 1 /\ run'.produced = {} /\ answer'.status = "none"
    BY <1>4, <1>5 DEF Begin, Answered
  <2> HIDE DEF prepared
  <2>2. AreReferences(given)
    BY RequestsGiveReferences
  <2>3. Selecting(facade, ledger, run', asked')
    BY <1>1, <1>5, <2>1, <2>2 DEF Selecting
  <2>4. Producing(ledger, run', asked')
    <3>1. \A i \in DOMAIN prepared.selection.route.steps : ~ (i < 1)
      <4>1. PICK m \in Nat : DOMAIN prepared.selection.route.steps = 1 .. m
        BY <1>1, <1>5, StepsAreListed
      <4> QED  BY <4>1
    <3> QED  BY <1>1, <2>1, <3>1 DEF Producing
  <2>5. InProgress(facade, ledger, run', asked')
    BY <2>1, <2>3, <2>4 DEF InProgress
  <2>6. AdmittedIsReported'
    BY <1>2, <2>1 DEF AdmittedIsReported
  <2>7. GroundedInTheRequest'
    BY <2>1 DEF GroundedInTheRequest
  <2> QED  BY <1>1, <1>3, <2>1, <2>5, <2>6, <2>7 DEF DerivationInv
<1>6. CASE prepared.status \in {"refused", "blocked", "unreachable"}
  <2>1. run' = Idle /\ answer' = prepared
    BY <1>4, <1>6 DEF Begin, Finish
  <2> HIDE DEF prepared
  <2>2. AdmittedIsReported'
    BY <1>1, <1>2, <1>6, <2>1 DEF AdmittedIsReported
  <2>3. GroundedInTheRequest'
    BY <1>6, <2>1 DEF GroundedInTheRequest
  <2> QED  BY <1>1, <1>3, <2>1, <2>2, <2>3 DEF DerivationInv
<1> QED  BY <1>1, <1>5, <1>6, PreparedIsSound

\* Sources are admitted for no request.
LEMMA AdmitSourcesKeeps ==
  ASSUME DerivationInv, NEW observations, AdmitSources(observations)
  PROVE  DerivationInv'
<1>1. /\ facade' = facade /\ run' = Idle /\ answer'.status = "none"
      /\ asked'.before = ledger'.authorities
  BY DEF AdmitSources, Answered, NoRequest
<1>2. ledger'.authorities \ asked'.before = {}
  BY <1>1
<1>3. AdmittedIsReported' /\ AssessedAsSelected' /\ GroundedInTheRequest'
  BY <1>1, <1>2 DEF AdmittedIsReported, AssessedAsSelected, GroundedInTheRequest
<1> QED  BY <1>1, <1>3 DEF DerivationInv

\* A step that goes to the host is linked; one that does not ends the request.
LEMMA LinkKeeps ==
  ASSUME DerivationInv, Link
  PROVE  DerivationInv'
<1>0. /\ run # Idle /\ InProgress(facade, ledger, run, asked) /\ answer.status = "none"
      /\ UNCHANGED <<facade, ledger, asked>>
      /\ HandOver(Invocation, Preflight(Invocation))
  BY DEF Link, DerivationInv, Idle
<1>1. CASE Preflight(Invocation) # "invoke"
  <2>1. Finish(Failed(Preflight(Invocation)))
    BY <1>0, <1>1 DEF HandOver
  <2> QED  BY <1>0, <2>1, FailureReports
<1>2. CASE Preflight(Invocation) = "invoke"
  <2>1. /\ run'.status = "invoking" /\ run'.selection = run.selection
        /\ run'.index = run.index /\ run'.produced = run.produced
        /\ run'.invocation = Invocation /\ answer' = answer
    BY <1>0, <1>2 DEF HandOver
  <2>2. LinkedTo(Invocation, run.selection, run.index, Range(asked.inputs), run.produced)
    BY <1>0, InvocationIsLinked DEF Link, DerivationInv
  <2>3. InProgress(facade, ledger, run', asked)
    BY <1>0, <2>1, <2>2 DEF InProgress, Selecting, Producing
  <2>4. AdmittedIsReported'
    BY <1>0, <2>1, <2>3 DEF AdmittedIsReported, InProgress, Producing
  <2>5. AssessedAsSelected'
    BY <1>0 DEF DerivationInv, AssessedAsSelected
  <2>6. GroundedInTheRequest'
    BY <1>0, <2>1 DEF GroundedInTheRequest
  <2> QED  BY <1>0, <2>1, <2>3, <2>4, <2>5, <2>6 DEF DerivationInv
<1> QED  BY <1>1, <1>2

\* The records of an admitted candidate of an accepted offer, one for every output.
LEMMA ProviderRecordsOf ==
  ASSUME NEW policy, NEW invocation, NEW candidate
  PROVE  LET records == ProviderRecords(policy, invocation, candidate)
         IN  /\ \A record \in records :
                  /\ record.basis.kind = "provider_authorized"
                  /\ record.basis.policy = policy
                  /\ \E port : OfCandidate(record, invocation, candidate, port)
             /\ \A port \in DOMAIN candidate.outputs :
                  \E record \in records : OfCandidate(record, invocation, candidate, port)
<1> DEFINE made(port) == ProviderRecord(port, invocation, candidate, policy,
                                        ProviderDecision(policy, invocation, candidate))
<1>1. ASSUME NEW port \in DOMAIN candidate.outputs
      PROVE  /\ OfCandidate(made(port), invocation, candidate, port)
             /\ made(port).basis.kind = "provider_authorized"
             /\ made(port).basis.policy = policy
  BY DEF ProviderRecord, Record, OfCandidate
<1>2. ProviderRecords(policy, invocation, candidate) =
        {made(port) : port \in DOMAIN candidate.outputs}
  BY DEF ProviderRecords
<1> HIDE DEF made
<1> QED  BY <1>1, <1>2

\* The records of an admitted candidate that was assessed, one for every output.
LEMMA CandidateRecordsOf ==
  ASSUME NEW policy, NEW invocation, NEW candidate, NEW assessment
  PROVE  LET records == CandidateRecords(policy, invocation, candidate, assessment)
         IN  /\ \A record \in records :
                  /\ record.basis.kind = "derived"
                  /\ record.basis.assessment = assessment
                  /\ \E port : OfCandidate(record, invocation, candidate, port)
             /\ \A port \in DOMAIN candidate.outputs :
                  \E record \in records : OfCandidate(record, invocation, candidate, port)
<1> DEFINE made(port) == DerivedRecord(port, invocation, candidate, assessment, policy,
                                       CandidateDecision(policy, assessment, candidate))
<1>1. ASSUME NEW port \in DOMAIN candidate.outputs
      PROVE  /\ OfCandidate(made(port), invocation, candidate, port)
             /\ made(port).basis.kind = "derived"
             /\ made(port).basis.assessment = assessment
  BY DEF DerivedRecord, Record, OfCandidate
<1>2. CandidateRecords(policy, invocation, candidate, assessment) =
        {made(port) : port \in DOMAIN candidate.outputs}
  BY DEF CandidateRecords
<1> HIDE DEF made
<1> QED  BY <1>1, <1>2

\* A candidate of an accepted offer is admitted as an output of its step, and
\* the policy does not withhold it.
LEMMA ProviderCandidateKeeps ==
  ASSUME DerivationInv, run.status = "invoking", StepAttesters = {},
         NEW result, ValidCandidate(result, run.invocation),
         Settle(AdmitProviderCandidate(ledger, facade.policy, run.invocation, result),
                ProviderDecision(facade.policy, run.invocation, result)),
         UNCHANGED <<facade, asked>>
  PROVE  DerivationInv'
<1> DEFINE invocation == run.invocation
           policy == facade.policy
           outcome == AdmitProviderCandidate(ledger, policy, invocation, result)
           decision == ProviderDecision(policy, invocation, result)
           records == ProviderRecords(policy, invocation, result)
           c == Step.capability
<1>1. /\ facade \in Facades
      /\ LinkedTo(invocation, run.selection, run.index, Range(asked.inputs), run.produced)
      /\ WellChosen(facade, run.selection, asked.target)
  BY DEF DerivationInv, InProgress, Selecting, Idle
<1>2. Route = run.selection.route /\ Step = run.selection.route.steps[run.index]
  BY DEF Route, Step
<1>3. run.index \in DOMAIN Route.steps /\ invocation.offer = OfferOf[StepOffer]
  BY <1>1, <1>2 DEF LinkedTo, StepOffer
<1>4. AcceptsProviderOffer(policy, invocation.offer) /\ c \notin DOMAIN run.selection.attesters
  BY <1>1, <1>3, StepIsAttested
<1>5. /\ Admits(outcome, ledger, records)
      /\ outcome.status = "withheld" => ProviderVerdict(policy, invocation) # "admit"
  BY ProviderCandidateAdmits
<1>6. outcome.status # "withheld"
  BY <1>4, <1>5 DEF ProviderVerdict
<1> HIDE DEF outcome, decision, records, invocation, policy
<1>7. \A record \in records :
        /\ record.basis.kind = "provider_authorized"
        /\ \E port : OfCandidate(record, invocation, result, port)
        /\ c \notin DOMAIN run.selection.attesters
        /\ invocation.offer \in record.basis.policy.offers
  BY <1>4, ProviderRecordsOf DEF records, AcceptsProviderOffer
<1>8. \A port \in DOMAIN result.outputs :
        \E record \in records : OfCandidate(record, invocation, result, port)
  BY ProviderRecordsOf DEF records
<1>9. /\ \A record \in records :
           OutputOfStep(record, Route.plan, Range(asked.inputs), run.produced)
      /\ HasOutputs(records, Route.plan, c)
  BY <1>1, <1>2, <1>7, <1>8, CandidateIsOfItsStep DEF invocation
<1> QED  BY <1>5, <1>6, <1>9, SettledKeeps DEF outcome, decision, invocation, policy

\* An assessed candidate is admitted as an output of its step; what is withheld
\* failed its checks, for the policy accepts the attester that was selected.
LEMMA AssessedCandidateKeeps ==
  ASSUME DerivationInv, run.status = "assessing", NEW expected \in StepAttesters,
         NEW assessment,
         AssessmentStage(assessment, run.invocation, run.candidate, expected) = "admission",
         Settle(AdmitCandidate(ledger, facade.policy, run.invocation, run.candidate, assessment),
                CandidateDecision(facade.policy, assessment, run.candidate)),
         UNCHANGED <<facade, asked>>
  PROVE  DerivationInv'
<1> DEFINE invocation == run.invocation
           candidate == run.candidate
           policy == facade.policy
           outcome == AdmitCandidate(ledger, policy, invocation, candidate, assessment)
           decision == CandidateDecision(policy, assessment, candidate)
           records == CandidateRecords(policy, invocation, candidate, assessment)
           c == Step.capability
<1>1. /\ facade \in Facades
      /\ LinkedTo(invocation, run.selection, run.index, Range(asked.inputs), run.produced)
      /\ WellChosen(facade, run.selection, asked.target)
  BY DEF DerivationInv, InProgress, Selecting, Idle
<1>2. Route = run.selection.route /\ Step = run.selection.route.steps[run.index]
  BY DEF Route, Step
<1>3. run.index \in DOMAIN Route.steps
  BY <1>1, <1>2 DEF LinkedTo
<1>4. expected = run.selection.attesters[c] /\ expected \in policy.conformance
  BY <1>1, <1>3, StepIsAttested
<1>5. assessment.authority = expected /\ ValidAssessment(assessment, invocation, candidate)
  BY DEF AssessmentStage
<1>6. /\ Admits(outcome, ledger, records)
      /\ outcome.status # "error" => ValidCandidate(candidate, invocation)
  BY CandidateAdmits
<1>7. WithheldStage(decision) # "policy"
  <2>1. decision.verdict = CandidateVerdict(policy, assessment)
    BY DEF CandidateDecision, Decision
  <2>2. assessment.outcome \in {"failed", "indeterminate", "passed"}
    BY <1>5 DEF ValidAssessment, DerivedOutcome
  <2>3. CandidateVerdict(policy, assessment) # "not_accepted"
    BY <1>4, <1>5, <2>2 DEF CandidateVerdict
  <2> QED  BY <2>1, <2>3 DEF WithheldStage
<1> HIDE DEF outcome, decision, records, invocation, policy, candidate
<1>8. \A record \in records :
        /\ record.basis.kind = "derived"
        /\ \E port : OfCandidate(record, invocation, candidate, port)
        /\ record.basis.assessment.authority = run.selection.attesters[c]
  BY <1>4, <1>5, CandidateRecordsOf DEF records
<1>9. \A port \in DOMAIN candidate.outputs :
        \E record \in records : OfCandidate(record, invocation, candidate, port)
  BY CandidateRecordsOf DEF records
<1>10. ASSUME outcome.status = "admitted"
       PROVE  /\ \A record \in records :
                   OutputOfStep(record, Route.plan, Range(asked.inputs), run.produced)
              /\ HasOutputs(records, Route.plan, c)
  <2>1. ValidCandidate(candidate, invocation)
    BY <1>6, <1>10
  <2> DEFINE d == run.selection.route.steps[run.index].capability
  <2>2. d = c /\ run.selection.route.plan = Route.plan
    BY <1>2
  <2> HIDE DEF c, d
  <2>3. \A record \in records :
          /\ record.basis.kind \in {"derived", "provider_authorized"}
          /\ \E port : OfCandidate(record, invocation, candidate, port)
          /\ IF record.basis.kind = "derived"
             THEN record.basis.assessment.authority = run.selection.attesters[d]
             ELSE /\ d \notin DOMAIN run.selection.attesters
                  /\ invocation.offer \in record.basis.policy.offers
    BY <1>8, <2>2
  <2>4. /\ \A record \in records :
             OutputOfStep(record, run.selection.route.plan, Range(asked.inputs), run.produced)
        /\ HasOutputs(records, run.selection.route.plan, d)
    BY <1>1, <1>9, <2>1, <2>3, CandidateIsOfItsStep DEF d
  <2> QED  BY <2>2, <2>4
<1> QED  BY <1>6, <1>7, <1>10, SettledKeeps DEF outcome, decision, invocation, policy, candidate

\* The provider's reply.
LEMMA InvokedKeeps ==
  ASSUME DerivationInv, NEW result, Invoked(result)
  PROVE  DerivationInv'
<1> DEFINE stage == ResultStage(result, run.invocation)
<1>0. /\ run # Idle /\ run.status = "invoking" /\ answer.status = "none"
      /\ InProgress(facade, ledger, run, asked)
      /\ UNCHANGED <<facade, asked>>
  BY DEF Invoked, DerivationInv, Idle
<1>1. CASE stage # "candidate"
  <2>1. Finish(Failed(stage)) /\ ledger' = ledger
    BY <1>1 DEF Invoked
  <2> QED  BY <1>0, <2>1, FailureReports
<1>2. CASE stage = "candidate" /\ StepAttesters = {}
  <2>1. ValidCandidate(result, run.invocation)
    BY <1>2 DEF ResultStage, ValidResult
  <2>2. Settle(AdmitProviderCandidate(ledger, facade.policy, run.invocation, result),
               ProviderDecision(facade.policy, run.invocation, result))
    BY <1>2 DEF Invoked
  <2> QED  BY <1>0, <1>2, <2>1, <2>2, ProviderCandidateKeeps
<1>3. CASE stage = "candidate" /\ StepAttesters # {}
  <2>1. /\ run'.status = "assessing" /\ run'.selection = run.selection
        /\ run'.index = run.index /\ run'.produced = run.produced
        /\ run'.invocation = run.invocation /\ answer' = answer /\ ledger' = ledger
    BY <1>3 DEF Invoked
  <2>2. InProgress(facade, ledger, run', asked)
    BY <1>0, <2>1 DEF InProgress, Selecting, Producing
  <2>3. AdmittedIsReported'
    BY <1>0, <2>1, <2>2 DEF AdmittedIsReported, InProgress, Producing
  <2>4. AssessedAsSelected'
    BY <1>0, <2>1 DEF DerivationInv, AssessedAsSelected
  <2>5. GroundedInTheRequest'
    BY <1>0, <2>1 DEF GroundedInTheRequest
  <2> QED  BY <1>0, <2>1, <2>2, <2>3, <2>4, <2>5 DEF DerivationInv
<1> QED  BY <1>1, <1>2, <1>3

\* The attester's reply.
LEMMA AssessedKeeps ==
  ASSUME DerivationInv, NEW assessment, Assessed(assessment)
  PROVE  DerivationInv'
<1>0. run # Idle /\ run.status = "assessing" /\ UNCHANGED <<facade, asked>>
  BY DEF Assessed, Idle
<1>1. PICK expected \in StepAttesters :
        Admission(assessment, AssessmentStage(assessment, run.invocation, run.candidate, expected))
  BY DEF Assessed
<1> DEFINE stage == AssessmentStage(assessment, run.invocation, run.candidate, expected)
<1>2. CASE stage # "admission"
  <2>1. Finish(Failed(stage)) /\ ledger' = ledger
    BY <1>1, <1>2 DEF Admission
  <2> QED  BY <1>0, <2>1, FailureReports
<1>3. CASE stage = "admission"
  <2>1. Settle(AdmitCandidate(ledger, facade.policy, run.invocation, run.candidate, assessment),
               CandidateDecision(facade.policy, assessment, run.candidate))
    BY <1>1, <1>3 DEF Admission
  <2> QED  BY <1>0, <1>3, <2>1, AssessedCandidateKeeps
<1> QED  BY <1>2, <1>3

\* The target of a request that is concluded is a value it was given, or an
\* output it produced, and of the kind that was asked for.
LEMMA TargetIsOwn ==
  ASSUME DerivationInv, run.status = "linking",
         NEW target,
         target = IF Route.target.source = "initial" THEN run.selection.target_input
                  ELSE {Reference(record) : record \in RecordsAt(Route.target)},
         NEW reference \in target
  PROVE  LET given == Range(asked.inputs)
         IN  /\ \E record \in ledger.authorities :
                  /\ Reference(record) = reference
                  /\ record.fact.kind = GoalKind(facade.inventory.specifications, asked.target)
                  /\ asked.target.of = "output" => From({record}, asked.target) = {record}
                  /\ record \in run.produced \/ DOMAIN Route.steps = {}
             /\ DOMAIN Route.steps = {} => target \subseteq given
<1> DEFINE route == run.selection.route
           plan == route.plan
           given == Range(asked.inputs)
           kind == GoalKind(facade.inventory.specifications, asked.target)
<1>1. /\ facade \in Facades
      /\ AreReferences(given)
      /\ WellChosen(facade, run.selection, asked.target)
      /\ WellBound(ledger, given, run.selection)
      /\ Producing(ledger, run, asked)
      /\ Route = route
  BY DEF DerivationInv, InProgress, Selecting, Idle, Route
<1>2. /\ ValidRoute(plan, route) /\ plan.goal = asked.target /\ plan.kind = kind
  BY <1>1 DEF WellChosen, PlansFor
<1>3. /\ SourceKind(plan, route.target) = kind
      /\ asked.target.of = "output" =>
           route.target = OutputOf(asked.target.capability, asked.target.port)
  BY <1>2 DEF ValidRoute
<1>4. CASE route.target.source = "initial"
  <2>1. PICK own \in given : /\ target = {own}
                             /\ GivenOfKind(ledger, given, own, route.target.kind)
    BY <1>1, <1>4 DEF WellBound
  <2>2. PICK fact \in ledger.facts : ResolvesTo(ledger, reference, fact) /\ fact.kind = kind
    BY <1>3, <1>4, <2>1 DEF GivenOfKind, SourceKind
  <2>3. PICK record \in ledger.authorities :
               /\ record.authority_record_id = reference.authority_record_id
               /\ record.fact.id = reference.fact_id
               /\ record.fact = fact
    BY <2>2 DEF ResolvesTo
  <2>4. Reference(record) = reference
    BY <1>1, <2>1, <2>3 DEF AreReferences, Reference
  <2>5. asked.target.of # "output"
    BY <1>3, <1>4 DEF OutputOf
  <2>6. DOMAIN Route.steps = {}
    BY <1>1, <1>4, StepsAreListed
  <2> QED  BY <2>1, <2>2, <2>3, <2>4, <2>5, <2>6
<1>5. CASE route.target.source # "initial"
  <2>1. PICK record \in RecordsAt(route.target) : reference = Reference(record)
    BY <1>1, <1>5
  <2>2. /\ record \in run.produced
        /\ record.basis.kind # "source"
        /\ record.basis.invocation.specification.id = route.target.capability
        /\ record.basis.port = route.target.port
    BY DEF RecordsAt, From
  <2>3. OutputOfStep(record, plan, given, run.produced)
    BY <1>1, <2>2 DEF Producing
  <2>4. record.fact.kind = kind
    BY <1>3, <1>5, <2>2, <2>3 DEF OutputOfStep, SourceKind
  <2>5. asked.target.of = "output" => From({record}, asked.target) = {record}
    BY <1>3, <2>2 DEF From, OutputOf
  <2>6. record \in ledger.authorities
    BY <1>1, <2>2 DEF Producing
  <2>7. DOMAIN route.steps # {}
    <3> DEFINE wiring == [c \in {route.steps[i].capability : i \in DOMAIN route.steps} |->
                            (CHOOSE s \in Range(route.steps) : s.capability = c).inputs]
    <3>1. SourceExists(plan, DOMAIN wiring, route.target)
      BY <1>2 DEF ValidRoute
    <3>2. route.target.capability \in {route.steps[i].capability : i \in DOMAIN route.steps}
      BY <1>5, <3>1 DEF SourceExists
    <3> QED  BY <3>2
  <2> QED  BY <1>1, <2>1, <2>2, <2>4, <2>5, <2>6, <2>7
<1> QED  BY <1>4, <1>5

\* A request that is concluded has produced what was asked for, from its values
\* and the records it reports.
LEMMA ConcludeKeeps ==
  ASSUME DerivationInv, Conclude
  PROVE  DerivationInv'
<1> DEFINE given == Range(asked.inputs)
           target == IF Route.target.source = "initial" THEN run.selection.target_input
                     ELSE {Reference(record) : record \in RecordsAt(Route.target)}
           own == {r \in ledger.authorities : Reference(r) \in target}
           admitted == run.produced \cup (IF DOMAIN Route.steps = {} THEN own ELSE {})
           chosen == CHOOSE reference \in target : TRUE
<1>0. /\ run # Idle /\ run.status = "linking" /\ InProgress(facade, ledger, run, asked)
      /\ facade \in Facades /\ UNCHANGED <<facade, ledger, asked>>
  BY DEF Conclude, DerivationInv, Idle
<1>1. \/ target # {} /\ Finish(Produced(chosen, admitted))
      \/ Finish(Failed("admission"))
  BY DEF Conclude
<1>2. CASE Finish(Failed("admission"))
  BY <1>0, <1>2, FailureReports
<1>3. CASE target # {} /\ Finish(Produced(chosen, admitted))
  <2>1. chosen \in target
    BY <1>3
  <2>2. /\ run' = Idle /\ answer'.status = "produced"
        /\ answer'.target = chosen /\ answer'.admitted = admitted
    BY <1>3 DEF Finish, Produced
  <2>3. Producing(ledger, run, asked)
    BY <1>0 DEF InProgress
  <2> HIDE DEF target, chosen
  <2>4. /\ \E record \in ledger.authorities :
             /\ Reference(record) = chosen
             /\ record.fact.kind = GoalKind(facade.inventory.specifications, asked.target)
             /\ asked.target.of = "output" => From({record}, asked.target) = {record}
             /\ record \in run.produced \/ DOMAIN Route.steps = {}
        /\ DOMAIN Route.steps = {} => target \subseteq given
    <3>1. target = IF Route.target.source = "initial" THEN run.selection.target_input
                   ELSE {Reference(record) : record \in RecordsAt(Route.target)}
      BY DEF target
    <3> QED  BY <1>0, <2>1, <3>1, TargetIsOwn
  <2>5. PICK record \in ledger.authorities :
               /\ Reference(record) = chosen
               /\ record.fact.kind = GoalKind(facade.inventory.specifications, asked.target)
               /\ asked.target.of = "output" => From({record}, asked.target) = {record}
               /\ record \in run.produced \/ DOMAIN Route.steps = {}
    BY <2>4
  <2>6. record \in admitted
    BY <2>1, <2>5
  <2>7. chosen \in References(admitted)
    BY <2>5, <2>6 DEF References
  <2>8. ASSUME NEW r \in admitted
        PROVE  \/ Reference(r) \in given
               \/ \A port \in DOMAIN InputsOf(r) :
                    InputsOf(r)[port].admitted \in given \cup References(admitted)
    <3>1. CASE r \in run.produced
      <4>1. /\ r.basis.kind # "source"
            /\ TakesFrom(r.basis.invocation.inputs, given, run.produced)
        BY <2>3, <3>1 DEF Producing, OutputOfStep
      <4>2. References(run.produced) \subseteq References(admitted)
        BY DEF References
      <4>3. InputsOf(r) = r.basis.invocation.inputs
        BY <4>1 DEF InputsOf
      <4> QED  BY <4>1, <4>2, <4>3 DEF TakesFrom
    <3>2. CASE r \notin run.produced
      <4>1. DOMAIN Route.steps = {} /\ Reference(r) \in target
        BY <3>2
      <4> QED  BY <2>4, <4>1
    <3> QED  BY <3>1, <3>2
  <2>9. admitted \subseteq ledger.authorities /\ ledger.authorities \ asked.before \subseteq admitted
    BY <2>3 DEF Producing
  <2> HIDE DEF admitted
  <2>10. AdmittedIsReported'
    BY <1>0, <2>2, <2>9 DEF AdmittedIsReported
  <2>11. AssessedAsSelected'
    BY <1>0 DEF DerivationInv, AssessedAsSelected
  <2>12. GroundedInTheRequest'
    <3> DEFINE a == answer'
    <3>1. {Reference(r) : r \in admitted} = References(admitted)
      BY DEF References
    <3>2. \E r \in ledger.authorities :
            /\ Reference(r) = chosen
            /\ r.fact.kind = GoalKind(facade.inventory.specifications, asked.target)
            /\ asked.target.of = "output" => From({r}, asked.target) = {r}
      BY <2>5
    <3> QED  BY <1>0, <2>2, <2>7, <2>8, <3>1, <3>2 DEF GroundedInTheRequest
  <2> QED  BY <1>0, <2>2, <2>10, <2>11, <2>12 DEF DerivationInv
<1> QED  BY <1>1, <1>2, <1>3

\* No step breaks the invariant.
LEMMA NextKeeps ==
  ASSUME DerivationInv, [Next]_vars
  PROVE  DerivationInv'
<1>1. CASE UNCHANGED vars
  BY <1>1 DEF vars, DerivationInv, AdmittedIsReported, AssessedAsSelected, GroundedInTheRequest
<1>2. CASE Caller
  BY <1>2, AdmitSourcesKeeps, AskKeeps DEF Caller
<1>3. CASE Execute
  BY <1>3, LinkKeeps, InvokedKeeps, AssessedKeeps, ConcludeKeeps DEF Execute
<1> QED  BY <1>1, <1>2, <1>3 DEF Next

\* The strengthened invariant holds throughout.
LEMMA DerivationInvariant == Spec => []DerivationInv
<1>1. Init => DerivationInv
  BY DEF Init, DerivationInv, EmptyLedger, NoRequest, Answered, Idle,
         AdmittedIsReported, AssessedAsSelected, GroundedInTheRequest
<1> QED  BY <1>1, NextKeeps, PTL DEF Spec

-----------------------------------------------------------------------------
(* What a derivation promises, for all hosts.                               *)

\* Whatever the provider and attester executables answer, and at whatever step
\* a request fails, every record it added to the ledger is in its answer; one
\* that is refused, blocked or unreachable added none and called nobody.
THEOREM AdmittedIsReportedTheorem == Spec => []AdmittedIsReported
BY DerivationInvariant, PTL DEF DerivationInv

\* What a request adds to the ledger was made by the offer selected for its
\* step, and assessed by the attester selected for it if it needs one.
THEOREM AssessedAsSelectedTheorem == Spec => []AssessedAsSelected
BY DerivationInvariant, PTL DEF DerivationInv

\* A value that is produced is the one asked for, and was derived from the
\* inputs of this request and from what the request itself admitted.
THEOREM GroundedInTheRequestTheorem == Spec => []GroundedInTheRequest
BY DerivationInvariant, PTL DEF DerivationInv

-----------------------------------------------------------------------------
(* Ledgers of documents that are told apart by their identities.            *)

\* No two contents have one identity: what the code relies on SHA-256 for.
DigestsTellApart ==
  /\ \A k, p, l, q : FactDigest(k, p) = FactDigest(l, q) => k = l /\ p = q
  /\ \A p, s, v, q, t, w : DecisionDigest(p, s, v) = DecisionDigest(q, t, w) =>
                             p = q /\ s = t /\ v = w
  /\ \A f, b, g, c : RecordDigest(f, b) = RecordDigest(g, c) => f = g /\ b = c

IsMadeDecision(decision) ==
  decision = Decision(decision.policy, decision.subject, decision.verdict)

IsMadeRecord(record) == record = Record(record.fact, record.basis)

\* Every document has the identity its content derives, and the fact of every
\* record is stored.
Sound(l) ==
  /\ \A fact \in l.facts : ValidFact(fact)
  /\ \A record \in l.authorities : IsMadeRecord(record) /\ record.fact \in l.facts
  /\ \A decision \in l.decisions : IsMadeDecision(decision)

\* Then no two of them collide.
LEMMA IdentitiesTellApart ==
  ASSUME DigestsTellApart
  PROVE  /\ \A f, g : ValidFact(f) /\ ValidFact(g) /\ f.id = g.id => f = g
         /\ \A d, e : /\ IsMadeDecision(d) /\ IsMadeDecision(e)
                      /\ d.decision_id = e.decision_id
                      => d = e
         /\ \A r, s : /\ IsMadeRecord(r) /\ IsMadeRecord(s)
                      /\ r.authority_record_id = s.authority_record_id
                      => r = s
<1>1. ASSUME NEW f, NEW g, ValidFact(f), ValidFact(g), f.id = g.id
      PROVE  f = g
  <2>1. /\ f = NewFact(f.kind, f.payload) /\ f.id = FactDigest(f.kind, f.payload)
        /\ g = NewFact(g.kind, g.payload) /\ g.id = FactDigest(g.kind, g.payload)
    BY <1>1 DEF ValidFact, NewFact
  <2>2. FactDigest(f.kind, f.payload) = FactDigest(g.kind, g.payload)
    BY <1>1, <2>1
  <2>3. f.kind = g.kind /\ f.payload = g.payload
    BY <2>2 DEF DigestsTellApart
  <2> QED  BY <2>1, <2>3
<1>2. ASSUME NEW d, NEW e, IsMadeDecision(d), IsMadeDecision(e), d.decision_id = e.decision_id
      PROVE  d = e
  <2>1. /\ d = Decision(d.policy, d.subject, d.verdict)
        /\ d.decision_id = DecisionDigest(d.policy, d.subject, d.verdict)
        /\ e = Decision(e.policy, e.subject, e.verdict)
        /\ e.decision_id = DecisionDigest(e.policy, e.subject, e.verdict)
    BY <1>2 DEF IsMadeDecision, Decision
  <2>2. DecisionDigest(d.policy, d.subject, d.verdict) = DecisionDigest(e.policy, e.subject, e.verdict)
    BY <1>2, <2>1
  <2>3. d.policy = e.policy /\ d.subject = e.subject /\ d.verdict = e.verdict
    BY <2>2 DEF DigestsTellApart
  <2> QED  BY <2>1, <2>3
<1>3. ASSUME NEW r, NEW s, IsMadeRecord(r), IsMadeRecord(s),
             r.authority_record_id = s.authority_record_id
      PROVE  r = s
  <2>1. /\ r = Record(r.fact, r.basis) /\ r.authority_record_id = RecordDigest(r.fact, r.basis)
        /\ s = Record(s.fact, s.basis) /\ s.authority_record_id = RecordDigest(s.fact, s.basis)
    BY <1>3 DEF IsMadeRecord, Record
  <2>2. RecordDigest(r.fact, r.basis) = RecordDigest(s.fact, s.basis)
    BY <1>3, <2>1
  <2>3. r.fact = s.fact /\ r.basis = s.basis
    BY <2>2 DEF DigestsTellApart
  <2> QED  BY <2>1, <2>3
<1> QED  BY <1>1, <1>2, <1>3

\* So a reference resolves to one fact only.
LEMMA ResolvesToOne ==
  ASSUME DigestsTellApart, NEW l, Sound(l), NEW reference, NEW f, NEW g,
         ResolvesTo(l, reference, f), ResolvesTo(l, reference, g)
  PROVE  f = g
<1>1. PICK r \in l.authorities : r.authority_record_id = reference.authority_record_id /\ r.fact = f
  BY DEF ResolvesTo
<1>2. PICK s \in l.authorities : s.authority_record_id = reference.authority_record_id /\ s.fact = g
  BY DEF ResolvesTo
<1>3. IsMadeRecord(r) /\ IsMadeRecord(s)
  BY DEF Sound
<1>4. r = s
  BY <1>1, <1>2, <1>3, IdentitiesTellApart
<1> QED  BY <1>1, <1>2, <1>4

\* The record of a sound ledger is found by its reference, with its fact.
LEMMA StoredResolves ==
  ASSUME NEW l, Sound(l), NEW record \in l.authorities
  PROVE  /\ ResolvesTo(l, Reference(record), record.fact)
         /\ ValidFact(record.fact)
         /\ Reference(record).fact_id = record.fact.id
BY DEF Sound, ResolvesTo, Reference

\* A commit to a sound ledger leaves a sound one, and fails only for a record
\* that is not valid or is of another decision.
LEMMA CommitIsSound ==
  ASSUME DigestsTellApart, NEW l, Sound(l),
         NEW decision, IsMadeDecision(decision), NEW records
  PROVE  LET outcome == CommitAdmission(l, decision, records)
         IN  /\ Sound(outcome.ledger)
             /\ (\A record \in records : ValidRecord(record) /\ record.basis.decision = decision)
                  => outcome.status = "admitted"
<1> DEFINE outcome == CommitAdmission(l, decision, records)
           staged == {record.fact : record \in records}
<1>1. CASE CanCommit(l, decision, records)
  <2>1. /\ outcome.status = "admitted"
        /\ outcome.ledger.facts =
             l.facts \cup {f \in staged : f.id \notin FactIds(l.facts)}
        /\ outcome.ledger.decisions =
             l.decisions \cup {d \in {decision} : d.decision_id \notin DecisionIds(l.decisions)}
        /\ outcome.ledger.authorities =
             l.authorities \cup {r \in records :
                                   r.authority_record_id \notin RecordIds(l.authorities)}
    BY <1>1 DEF CommitAdmission, Outcome
  <2> HIDE DEF outcome
  <2>2. \A record \in records : ValidFact(record.fact) /\ IsMadeRecord(record)
    BY <1>1 DEF CanCommit, ValidRecord, IsMadeRecord
  <2>3. \A fact \in outcome.ledger.facts : ValidFact(fact)
    BY <2>1, <2>2 DEF Sound
  <2>4. l.facts \cup staged \subseteq outcome.ledger.facts
    BY <1>1, <2>1 DEF CanCommit, FactsCollide, FactIds
  <2>5. \A record \in outcome.ledger.authorities :
          IsMadeRecord(record) /\ record.fact \in outcome.ledger.facts
    BY <2>1, <2>2, <2>4 DEF Sound
  <2>6. \A d \in outcome.ledger.decisions : IsMadeDecision(d)
    BY <2>1 DEF Sound
  <2>7. Sound(outcome.ledger)
    BY <2>3, <2>5, <2>6 DEF Sound
  <2> QED  BY <2>1, <2>7 DEF outcome
<1>2. CASE ~ CanCommit(l, decision, records)
  <2>1. outcome.ledger = l
    BY <1>2 DEF CommitAdmission, Rejected, Outcome
  <2>2. ASSUME \A record \in records : ValidRecord(record) /\ record.basis.decision = decision
        PROVE  FALSE
    <3>1. \A record \in records : ValidFact(record.fact) /\ IsMadeRecord(record)
      BY <2>2 DEF ValidRecord, IsMadeRecord
    <3>2. ~ FactsCollide(l.facts \cup staged)
      <4>1. \A fact \in l.facts \cup staged : ValidFact(fact)
        BY <3>1 DEF Sound
      <4> QED  BY <4>1, IdentitiesTellApart DEF FactsCollide
    <3>3. ~ RecordsCollide(l.authorities \cup records)
      <4>1. \A record \in l.authorities \cup records : IsMadeRecord(record)
        BY <3>1 DEF Sound
      <4> QED  BY <4>1, IdentitiesTellApart DEF RecordsCollide
    <3>4. ~ DecisionsCollide(l.decisions \cup {decision})
      <4>1. \A d \in l.decisions \cup {decision} : IsMadeDecision(d)
        BY DEF Sound
      <4> QED  BY <4>1, IdentitiesTellApart DEF DecisionsCollide
    <3> QED  BY <1>2, <2>2, <3>2, <3>3, <3>4 DEF CanCommit
  <2> QED  BY <2>1, <2>2
<1> QED  BY <1>1, <1>2

\* So does a decision, whatever it is.
LEMMA DecideIsSound ==
  ASSUME DigestsTellApart, NEW l, Sound(l),
         NEW decision, IsMadeDecision(decision), NEW records
  PROVE  LET outcome == Decide(l, decision, records)
         IN  /\ Sound(outcome.ledger)
             /\ (decision.verdict = "admit" =>
                   \A record \in records : ValidRecord(record) /\ record.basis.decision = decision)
                  => outcome.status # "error"
<1>1. CASE decision.verdict = "admit"
  BY <1>1, CommitIsSound DEF Decide
<1>2. CASE decision.verdict # "admit"
  BY <1>2 DEF Decide, Withheld, Outcome
<1> QED  BY <1>1, <1>2

\* An observation leaves a sound ledger sound.
LEMMA ObservationIsSound ==
  ASSUME DigestsTellApart, NEW l, Sound(l), NEW policy, NEW observation
  PROVE  Sound(AdmitObservation(l, policy, observation).ledger)
<1>1. IsMadeDecision(ObservationDecision(policy, observation))
  BY DEF IsMadeDecision, ObservationDecision, Decision
<1>2. CASE ValidPolicy(policy) /\ ValidObservation(observation)
  BY <1>1, <1>2, DecideIsSound DEF AdmitObservation
<1>3. CASE ~ (ValidPolicy(policy) /\ ValidObservation(observation))
  BY <1>3 DEF AdmitObservation, Rejected, Outcome
<1> QED  BY <1>2, <1>3

\* Staging a list of observations leaves a sound ledger sound.
LEMMA SourcesAreSound ==
  ASSUME DigestsTellApart, Sound(ledger),
         NEW observations, NEW n \in Nat, DOMAIN observations = 1 .. n
  PROVE  Sound(Staged(observations).ledger)
<1> DEFINE start == Outcome("admitted", ledger, {})
           policy == facade.policy
<1>1. PICK stage : /\ Stages(stage, start, policy, observations, n)
                   /\ Staged(observations) = stage[1 .. n]
  BY StagedIsLastStage
<1>2. start.ledger = ledger
  BY DEF Outcome
<1> HIDE DEF start, policy
<1> DEFINE bad == {k \in 0 .. n : ~ Sound(stage[1 .. k].ledger)}
<1>3. SUFFICES ASSUME bad # {} PROVE FALSE
  <2>1. n \in 0 .. n
    OBVIOUS
  <2> QED  BY <1>1, <2>1
<1>4. PICK m \in bad : \A k \in bad : m <= k
  <2>1. bad \in SUBSET Nat
    OBVIOUS
  <2> HIDE DEF bad
  <2> QED  BY <1>3, <2>1, LeastNumber
<1>5. CASE m = 0
  <2>1. stage[1 .. 0] = start
    BY <1>1, StagesFollow
  <2> QED  BY <1>2, <1>4, <1>5, <2>1
<1>6. CASE m # 0
  <2>1. m \in 1 .. n /\ m - 1 \in 0 .. n /\ m - 1 \notin bad
    BY <1>4, <1>6
  <2>2. Sound(stage[1 .. m - 1].ledger)
    BY <2>1
  <2>3. stage[1 .. m] = AdmitNext(policy, stage[1 .. m - 1], observations[m])
    BY <1>1, <2>1, StagesFollow
  <2>4. Sound(stage[1 .. m].ledger)
    BY <2>2, <2>3, ObservationIsSound DEF AdmitNext
  <2> QED  BY <1>4, <2>4
<1> QED  BY <1>5, <1>6

\* An assessed candidate leaves a sound ledger sound, and its admission does not
\* fail when every document it looks at is valid.
LEMMA CandidateIsSound ==
  ASSUME DigestsTellApart, NEW l, Sound(l),
         NEW policy, NEW invocation, NEW candidate, NEW assessment
  PROVE  LET outcome == AdmitCandidate(l, policy, invocation, candidate, assessment)
         IN  /\ Sound(outcome.ledger)
             /\ (/\ ValidPolicy(policy)
                 /\ ValidInvocation(invocation)
                 /\ ValidCandidate(candidate, invocation)
                 /\ ValidAssessment(assessment, invocation, candidate)
                 /\ InputsResolve(l, invocation.inputs))
                  => outcome.status # "error"
<1> DEFINE accepted == /\ ValidPolicy(policy)
                       /\ ValidInvocation(invocation)
                       /\ ValidCandidate(candidate, invocation)
                       /\ ValidAssessment(assessment, invocation, candidate)
                       /\ InputsResolve(l, invocation.inputs)
           decision == CandidateDecision(policy, assessment, candidate)
           made(port) == DerivedRecord(port, invocation, candidate, assessment, policy, decision)
           records == {made(port) : port \in DOMAIN candidate.outputs}
<1>1. IsMadeDecision(decision)
  BY DEF IsMadeDecision, CandidateDecision, Decision
<1>2. CASE accepted
  <2>1. ASSUME NEW port \in DOMAIN candidate.outputs, decision.verdict = "admit"
        PROVE  ValidRecord(made(port)) /\ made(port).basis.decision = decision
    <3> DEFINE record == made(port)
               b == record.basis
    <3>1. /\ record.fact = candidate.outputs[port]
          /\ b.kind = "derived" /\ b.port = port /\ b.invocation = invocation
          /\ b.candidate = candidate /\ b.assessment = assessment
          /\ b.policy = policy /\ b.decision = decision
          /\ record = Record(record.fact, b)
      BY DEF DerivedRecord, Record
    <3>2. ValidFact(candidate.outputs[port])
      BY <1>2 DEF ValidCandidate, FitsPorts
    <3> HIDE DEF made, decision
    <3>3. OutputOfCandidate(record)
      BY <3>1 DEF OutputOfCandidate
    <3>4. ValidDerivedBasis(record)
      BY <1>2, <3>1, <3>3 DEF ValidDerivedBasis, decision
    <3> QED  BY <1>2, <2>1, <3>1, <3>2, <3>4 DEF ValidRecord
  <2>2. AdmitCandidate(l, policy, invocation, candidate, assessment)
          = Decide(l, decision, records)
    BY <1>2 DEF AdmitCandidate
  <2> HIDE DEF made, decision
  <2>3. decision.verdict = "admit" =>
          \A record \in records : ValidRecord(record) /\ record.basis.decision = decision
    BY <2>1
  <2> HIDE DEF records
  <2> QED  BY <1>1, <2>2, <2>3, DecideIsSound
<1>3. CASE ~ accepted
  BY <1>3 DEF AdmitCandidate, Rejected, Outcome
<1> QED  BY <1>2, <1>3

\* The same, for a candidate of an offer the policy accepts by itself.
LEMMA ProviderCandidateIsSound ==
  ASSUME DigestsTellApart, NEW l, Sound(l), NEW policy, NEW invocation, NEW candidate
  PROVE  LET outcome == AdmitProviderCandidate(l, policy, invocation, candidate)
         IN  /\ Sound(outcome.ledger)
             /\ (/\ ValidPolicy(policy)
                 /\ ValidInvocation(invocation)
                 /\ ValidCandidate(candidate, invocation)
                 /\ InputsResolve(l, invocation.inputs))
                  => outcome.status # "error"
<1> DEFINE accepted == /\ ValidPolicy(policy)
                       /\ ValidInvocation(invocation)
                       /\ ValidCandidate(candidate, invocation)
                       /\ InputsResolve(l, invocation.inputs)
           decision == ProviderDecision(policy, invocation, candidate)
           made(port) == ProviderRecord(port, invocation, candidate, policy, decision)
           records == {made(port) : port \in DOMAIN candidate.outputs}
<1>1. IsMadeDecision(decision)
  BY DEF IsMadeDecision, ProviderDecision, Decision
<1>2. CASE accepted
  <2>1. ASSUME NEW port \in DOMAIN candidate.outputs, decision.verdict = "admit"
        PROVE  ValidRecord(made(port)) /\ made(port).basis.decision = decision
    <3> DEFINE record == made(port)
               b == record.basis
    <3>1. /\ record.fact = candidate.outputs[port]
          /\ b.kind = "provider_authorized" /\ b.port = port /\ b.invocation = invocation
          /\ b.candidate = candidate /\ b.policy = policy /\ b.decision = decision
          /\ record = Record(record.fact, b)
      BY DEF ProviderRecord, Record
    <3>2. ValidFact(candidate.outputs[port])
      BY <1>2 DEF ValidCandidate, FitsPorts
    <3> HIDE DEF made, decision
    <3>3. OutputOfCandidate(record)
      BY <3>1 DEF OutputOfCandidate
    <3>4. ValidProviderBasis(record)
      BY <1>2, <3>1, <3>3 DEF ValidProviderBasis, decision
    <3> QED  BY <1>2, <2>1, <3>1, <3>2, <3>4 DEF ValidRecord
  <2>2. AdmitProviderCandidate(l, policy, invocation, candidate) = Decide(l, decision, records)
    BY <1>2 DEF AdmitProviderCandidate
  <2> HIDE DEF made, decision
  <2>3. decision.verdict = "admit" =>
          \A record \in records : ValidRecord(record) /\ record.basis.decision = decision
    BY <2>1
  <2> HIDE DEF records
  <2> QED  BY <1>1, <2>2, <2>3, DecideIsSound
<1>3. CASE ~ accepted
  BY <1>3 DEF AdmitProviderCandidate, Rejected, Outcome
<1> QED  BY <1>2, <1>3

-----------------------------------------------------------------------------
(* Failures.                                                                *)

\* What preflight has found of an invocation that is with the host.
Preflighted(invocation) ==
  LET spec == Route.plan.specifications[Step.capability]
  IN  /\ ValidInvocation(invocation)
      /\ InputsResolve(ledger, invocation.inputs)
      /\ invocation.specification = [id |-> Step.capability, input_kinds |-> spec.inputs,
                                     output_kinds |-> spec.outputs]
      /\ \A authority \in StepAttesters :
           /\ authority.suite = invocation.suite
           /\ Independent(authority.attester, invocation.offer)

\* With a sound ledger and a valid policy, no answer has failed in the linking
\* of a step or in admission; and none will.
FailureInv ==
  /\ Sound(ledger)
  /\ run # Idle => ValidPolicy(facade.policy)
  /\ run.status \in {"invoking", "assessing"} => Preflighted(run.invocation)
  /\ run.status = "assessing" => ValidCandidate(run.candidate, run.invocation)
  /\ answer.status = "failed" => answer.stage \notin {"linking", "admission"}

\* The step of a request under way is of a capability and an offer that are
\* installed, and its sources are of the kinds the capability takes.
LEMMA StepIsInstalled ==
  ASSUME facade \in Facades, WellChosen(facade, run.selection, asked.target),
         run.index \in DOMAIN Route.steps
  PROVE  LET specs == facade.inventory.specifications
             c == Step.capability
         IN  /\ Route.plan.specifications[c] = specs[c]
             /\ StepOffer \in facade.inventory.offers
             /\ OfferOf[StepOffer].capability = c
             /\ DOMAIN specs[c].outputs # {}
             /\ DOMAIN Step.inputs = DOMAIN specs[c].inputs
             /\ \A port \in DOMAIN Step.inputs :
                  SourceKind(Route.plan, Step.inputs[port]) = specs[c].inputs[port]
<1> DEFINE route == run.selection.route
           plan == route.plan
           specs == facade.inventory.specifications
           c == Step.capability
<1>1. Route = route /\ Step = route.steps[run.index] /\ StepOffer = <<c, Step.offer>>
  BY DEF Route, Step, StepOffer
<1>2. ValidRoute(plan, route) /\ PlansFor(facade, plan, asked.target)
  BY DEF WellChosen
<1>3. /\ c \in DOMAIN plan.specifications
      /\ StepOffer \in plan.offers
      /\ DOMAIN Step.inputs = DOMAIN plan.specifications[c].inputs
      /\ \A port \in DOMAIN Step.inputs :
           SourceKind(plan, Step.inputs[port]) = plan.specifications[c].inputs[port]
  BY <1>1, <1>2 DEF ValidRoute
<1>4. /\ plan.specifications[c] = specs[c] /\ c \in DOMAIN specs
      /\ StepOffer \in facade.inventory.offers
  BY <1>2, <1>3 DEF PlansFor
<1>5. DOMAIN specs[c].outputs # {} /\ OfferOf[StepOffer].capability = StepOffer[1]
  BY <1>4, FacadesAssumption
<1>6. StepOffer[1] = c
  BY <1>1
<1> QED  BY <1>1, <1>3, <1>4, <1>5, <1>6

\* Every input of it resolves to the fact that is linked, of the right kind.
LEMMA LinkedInputsFit ==
  ASSUME DigestsTellApart, Sound(ledger), facade \in Facades,
         InProgress(facade, ledger, run, asked),
         run.index \in DOMAIN Route.steps,
         NEW port \in DOMAIN Step.inputs
  PROVE  LET input == LinkedInput(port)
         IN  /\ ResolvesTo(ledger, input.admitted, input.fact)
             /\ input.admitted.fact_id = input.fact.id
             /\ ValidFact(input.fact)
             /\ input.fact.kind = SourceKind(Route.plan, Step.inputs[port])
<1> DEFINE source == Step.inputs[port]
           input == LinkedInput(port)
           given == Range(asked.inputs)
<1> HIDE DEF input
<1>1. CASE /\ source.source = "initial"
           /\ GivenOfKind(ledger, given, input.admitted, source.kind)
           /\ ResolvesTo(ledger, input.admitted, input.fact)
  <2>1. PICK fact \in ledger.facts : /\ ResolvesTo(ledger, input.admitted, fact)
                                     /\ fact.kind = source.kind
    BY <1>1 DEF GivenOfKind
  <2>2. fact = input.fact
    BY <1>1, <2>1, ResolvesToOne
  <2>3. input.admitted.fact_id = input.fact.id
    BY <1>1 DEF ResolvesTo
  <2>4. ValidFact(input.fact)
    BY <2>1, <2>2 DEF Sound
  <2>5. SourceKind(Route.plan, source) = source.kind
    BY <1>1 DEF SourceKind
  <2> QED  BY <1>1, <2>1, <2>2, <2>3, <2>4, <2>5 DEF input
<1>2. CASE /\ source.source # "initial"
           /\ \E record \in RecordsAt(source) :
                input = [admitted |-> Reference(record), fact |-> record.fact]
  <2>1. PICK record \in RecordsAt(source) :
               input = [admitted |-> Reference(record), fact |-> record.fact]
    BY <1>2
  <2>2. input.admitted = Reference(record) /\ input.fact = record.fact
    BY <2>1
  <2>3. /\ record \in run.produced
        /\ record.basis.invocation.specification.id = source.capability
        /\ record.basis.port = source.port
    BY DEF RecordsAt, From
  <2>4. record \in ledger.authorities /\ OutputOfStep(record, run.selection.route.plan, given, run.produced)
    BY <2>3 DEF InProgress, Producing
  <2>5. /\ ResolvesTo(ledger, Reference(record), record.fact)
        /\ ValidFact(record.fact)
        /\ Reference(record).fact_id = record.fact.id
    BY <2>4, StoredResolves
  <2>6. record.fact.kind = SourceKind(Route.plan, source)
    BY <1>2, <2>3, <2>4 DEF OutputOfStep, SourceKind, Route
  <2> QED  BY <2>2, <2>5, <2>6 DEF input
<1> QED  BY <1>1, <1>2, LinkedInputsAreFound DEF input

\* So what a step is linked to is valid, and resolves.
LEMMA InvocationIsValid ==
  ASSUME DigestsTellApart, Sound(ledger), facade \in Facades,
         InProgress(facade, ledger, run, asked),
         run.index \in DOMAIN Route.steps
  PROVE  ValidInvocation(Invocation) /\ InputsResolve(ledger, Invocation.inputs)
<1> DEFINE specs == facade.inventory.specifications
           c == Step.capability
           linked == Invocation
<1>1. WellChosen(facade, run.selection, asked.target)
  BY DEF InProgress, Selecting
<1>2. /\ linked.specification = [id |-> c, input_kinds |-> Route.plan.specifications[c].inputs,
                                 output_kinds |-> Route.plan.specifications[c].outputs]
      /\ linked.offer = OfferOf[StepOffer]
      /\ linked.inputs = [port \in DOMAIN Step.inputs |-> LinkedInput(port)]
  BY DEF Invocation
<1> HIDE DEF linked
<1>3. /\ DOMAIN linked.inputs = DOMAIN Step.inputs
      /\ \A port \in DOMAIN Step.inputs : linked.inputs[port] = LinkedInput(port)
  BY <1>2
<1>4. /\ linked.specification.id = c
      /\ linked.specification.input_kinds = specs[c].inputs
      /\ linked.specification.output_kinds = specs[c].outputs
  BY <1>1, <1>2, StepIsInstalled
<1>5. /\ DOMAIN linked.specification.output_kinds # {}
      /\ linked.offer.capability = linked.specification.id
      /\ DOMAIN linked.inputs = DOMAIN linked.specification.input_kinds
  BY <1>1, <1>2, <1>3, <1>4, StepIsInstalled
<1>6. \A port \in DOMAIN linked.inputs :
        /\ ResolvesTo(ledger, linked.inputs[port].admitted, linked.inputs[port].fact)
        /\ linked.inputs[port].admitted.fact_id = linked.inputs[port].fact.id
        /\ ValidFact(linked.inputs[port].fact)
        /\ linked.inputs[port].fact.kind = linked.specification.input_kinds[port]
  <2> SUFFICES ASSUME NEW port \in DOMAIN Step.inputs
               PROVE  /\ ResolvesTo(ledger, LinkedInput(port).admitted, LinkedInput(port).fact)
                      /\ LinkedInput(port).admitted.fact_id = LinkedInput(port).fact.id
                      /\ ValidFact(LinkedInput(port).fact)
                      /\ LinkedInput(port).fact.kind = linked.specification.input_kinds[port]
    BY <1>3
  <2>1. SourceKind(Route.plan, Step.inputs[port]) = specs[c].inputs[port]
    BY <1>1, StepIsInstalled
  <2> QED  BY <1>4, <2>1, LinkedInputsFit
<1>7. FitsPorts(linked.specification.input_kinds,
                [port \in DOMAIN linked.inputs |-> linked.inputs[port].fact])
  BY <1>5, <1>6 DEF FitsPorts
<1>8. ValidInvocation(linked)
  BY <1>5, <1>6, <1>7 DEF ValidInvocation
<1>9. InputsResolve(ledger, linked.inputs)
  BY <1>6 DEF InputsResolve
<1> QED  BY <1>8, <1>9 DEF linked

\* Preflight finds nothing wrong with the linking of a step.
LEMMA LinkingNeverFails ==
  ASSUME DigestsTellApart, Sound(ledger), facade \in Facades,
         InProgress(facade, ledger, run, asked), ValidPolicy(facade.policy),
         run.index \in DOMAIN Route.steps
  PROVE  /\ Preflight(Invocation) # "linking"
         /\ Preflight(Invocation) = "invoke" => Preflighted(Invocation)
<1>1. ValidInvocation(Invocation) /\ InputsResolve(ledger, Invocation.inputs)
  BY InvocationIsValid
<1>2. ProviderPreflight(ledger, facade.policy, Invocation)
  BY <1>1 DEF ProviderPreflight
<1>3. WellChosen(facade, run.selection, asked.target)
  BY DEF InProgress, Selecting
<1>4. Invocation.offer = OfferOf[StepOffer]
  BY DEF Invocation
<1>5. StepAttesters = {} => AcceptsProviderOffer(facade.policy, Invocation.offer)
  BY <1>3, <1>4, StepIsAttested
<1>6. Preflight(Invocation) # "linking"
  BY <1>2, <1>5 DEF Preflight
<1>7. ASSUME Preflight(Invocation) = "invoke"
      PROVE  Preflighted(Invocation)
  <2>1. \A a \in StepAttesters : LinkedPreflight(ledger, facade.policy, Invocation, a)
    BY <1>7 DEF Preflight
  <2>2. \A a \in StepAttesters : /\ a.suite = Invocation.suite
                                 /\ Independent(a.attester, Invocation.offer)
    BY <2>1 DEF LinkedPreflight
  <2>3. Invocation.specification =
          [id |-> Step.capability,
           input_kinds |-> Route.plan.specifications[Step.capability].inputs,
           output_kinds |-> Route.plan.specifications[Step.capability].outputs]
    BY DEF Invocation
  <2> QED  BY <1>1, <2>2, <2>3 DEF Preflighted
<1> QED  BY <1>6, <1>7

\* What is asked for begins with a valid policy, or is refused, blocked or
\* unreachable; nothing has failed.
LEMMA AskFailsNothing ==
  ASSUME DerivationInv, FailureInv, NEW request, Ask(request)
  PROVE  FailureInv'
<1> DEFINE prepared == Prepare(facade, ledger, request)
<1>1. /\ facade \in Facades /\ facade' = facade /\ ledger' = ledger /\ Begin(prepared)
  BY DEF Ask, DerivationInv
<1>2. CASE prepared.status = "ready"
  <2>1. RequestResolves(facade, ledger, request.inputs)
    BY <1>2 DEF Prepare, Refused
  <2>2. run'.status = "linking" /\ answer'.status = "none"
    BY <1>1, <1>2 DEF Begin, Answered
  <2> QED  BY <1>1, <2>1, <2>2 DEF FailureInv, RequestResolves
<1>3. CASE prepared.status \in {"refused", "blocked", "unreachable"}
  <2>1. run' = Idle /\ run'.status = "idle" /\ answer' = prepared
    BY <1>1, <1>3 DEF Begin, Finish, Idle
  <2> HIDE DEF prepared
  <2> QED  BY <1>1, <1>3, <2>1 DEF FailureInv
<1> QED  BY <1>1, <1>2, <1>3, PreparedIsSound

\* Admitting sources keeps the ledger sound.
LEMMA AdmitSourcesFailsNothing ==
  ASSUME DigestsTellApart, FailureInv, NEW observations \in Sources, AdmitSources(observations)
  PROVE  FailureInv'
<1>1. Sound(ledger')
  <2>1. ledger' = AdmittedSources(observations)
    BY DEF AdmitSources
  <2>2. PICK n \in Nat : DOMAIN observations = 1 .. n
    <3>1. observations \in Seq(Range(observations))
      BY SourcesAssumption
    <3> QED  BY <3>1
  <2>3. Sound(Staged(observations).ledger)
    BY <2>2, SourcesAreSound DEF FailureInv
  <2> QED  BY <2>1, <2>3 DEF AdmittedSources, FailureInv
<1>2. run' = Idle /\ run'.status = "idle" /\ answer'.status = "none"
  BY DEF AdmitSources, Idle, Answered
<1> QED  BY <1>1, <1>2 DEF FailureInv

\* A request that ends with the failure of another stage leaves the rest.
LEMMA OtherFailures ==
  ASSUME FailureInv, NEW stage, stage \notin {"linking", "admission"},
         Finish(Failed(stage)), UNCHANGED <<facade, ledger>>
  PROVE  FailureInv'
<1>1. run' = Idle /\ run'.status = "idle" /\ answer'.status = "failed" /\ answer'.stage = stage
  BY DEF Finish, Failed, Idle
<1> QED  BY <1>1 DEF FailureInv

\* The linking of a step never fails.
LEMMA LinkFailsNothing ==
  ASSUME DigestsTellApart, DerivationInv, FailureInv, Link
  PROVE  FailureInv'
<1>0. /\ facade \in Facades /\ InProgress(facade, ledger, run, asked) /\ answer.status = "none"
      /\ ValidPolicy(facade.policy) /\ Sound(ledger)
      /\ UNCHANGED <<facade, ledger, asked>>
      /\ HandOver(Invocation, Preflight(Invocation))
  BY DEF Link, DerivationInv, FailureInv, Idle
<1>1. /\ Preflight(Invocation) # "linking"
      /\ Preflight(Invocation) = "invoke" => Preflighted(Invocation)
  BY <1>0, LinkingNeverFails DEF Link
<1>2. CASE Preflight(Invocation) # "invoke"
  <2>1. Finish(Failed(Preflight(Invocation))) /\ Preflight(Invocation) # "admission"
    BY <1>0, <1>2 DEF HandOver, Preflight
  <2> QED  BY <1>0, <1>1, <2>1, OtherFailures
<1>3. CASE Preflight(Invocation) = "invoke"
  <2>1. /\ run'.status = "invoking" /\ run'.selection = run.selection /\ run'.index = run.index
        /\ run'.invocation = Invocation /\ answer' = answer
    BY <1>0, <1>3 DEF HandOver
  <2>2. Preflighted(Invocation)
    BY <1>1, <1>3
  <2> DEFINE linked == Invocation
  <2>3. Preflighted(linked)
    BY <2>2
  <2>4. run'.invocation = linked
    BY <2>1
  <2>5. Route' = Route /\ Step' = Step /\ StepOffer' = StepOffer /\ StepAttesters' = StepAttesters
    BY <1>0, <2>1 DEF Route, Step, StepOffer, StepAttesters
  <2> HIDE DEF linked
  <2>6. Preflighted(run.invocation)'
    BY <1>0, <2>3, <2>4, <2>5 DEF Preflighted
  <2> QED  BY <1>0, <2>1, <2>6 DEF FailureInv
<1> QED  BY <1>2, <1>3

\* What is settled without an error fails in neither.
LEMMA SettledFailsNothing ==
  ASSUME FailureInv, run # Idle, answer.status = "none",
         NEW outcome, NEW decision, Sound(outcome.ledger), outcome.status # "error",
         Settle(outcome, decision), facade' = facade
  PROVE  FailureInv'
<1>1. Sound(ledger')
  BY DEF Settle
<1>2. CASE /\ outcome.status = "admitted"
           /\ run' = NextStep(AdmittedOutputs(outcome))
           /\ answer' = answer
  <2>1. run'.status = "linking"
    BY <1>2 DEF NextStep
  <2> QED  BY <1>1, <1>2, <2>1 DEF FailureInv
<1>3. CASE Finish(Refused("policy")) \/ Finish(Failed("conformance"))
  <2>1. /\ run' = Idle /\ run'.status = "idle"
        /\ answer'.status = "failed" => answer'.stage = "conformance"
    BY <1>3 DEF Finish, Refused, Failed, Idle
  <2> QED  BY <1>1, <2>1 DEF FailureInv
<1> QED  BY <1>2, <1>3 DEF Settle

\* A candidate that answers the invocation is admitted or withheld.
LEMMA InvokedFailsNothing ==
  ASSUME DigestsTellApart, DerivationInv, FailureInv, NEW result, Invoked(result)
  PROVE  FailureInv'
<1> DEFINE stage == ResultStage(result, run.invocation)
           outcome == AdmitProviderCandidate(ledger, facade.policy, run.invocation, result)
           decision == ProviderDecision(facade.policy, run.invocation, result)
<1>0. /\ run # Idle /\ run.status = "invoking" /\ answer.status = "none"
      /\ UNCHANGED <<facade, asked>>
      /\ Sound(ledger) /\ ValidPolicy(facade.policy) /\ Preflighted(run.invocation)
  BY DEF Invoked, DerivationInv, FailureInv, Idle
<1>1. CASE stage # "candidate"
  <2>1. Finish(Failed(stage)) /\ ledger' = ledger
    BY <1>1 DEF Invoked
  <2>2. stage \notin {"linking", "admission"}
    BY DEF ResultStage
  <2> QED  BY <1>0, <2>1, <2>2, OtherFailures
<1>2. CASE stage = "candidate"
  <2>1. ValidCandidate(result, run.invocation)
    BY <1>2 DEF ResultStage, ValidResult
  <2>2. CASE StepAttesters = {}
    <3>1. Settle(outcome, decision)
      BY <1>2, <2>2 DEF Invoked
    <3>2. Sound(outcome.ledger) /\ outcome.status # "error"
      BY <1>0, <2>1, ProviderCandidateIsSound DEF Preflighted
    <3> HIDE DEF outcome, decision
    <3> QED  BY <1>0, <3>1, <3>2, SettledFailsNothing
  <2>3. CASE StepAttesters # {}
    <3>1. /\ run'.status = "assessing" /\ run'.selection = run.selection
          /\ run'.index = run.index /\ run'.invocation = run.invocation
          /\ run'.candidate = result /\ answer' = answer /\ ledger' = ledger
      BY <1>2, <2>3 DEF Invoked
    <3>2. Route' = Route /\ Step' = Step /\ StepOffer' = StepOffer /\ StepAttesters' = StepAttesters
      BY <1>0, <3>1 DEF Route, Step, StepOffer, StepAttesters
    <3>3. Preflighted(run.invocation)'
      BY <1>0, <3>1, <3>2 DEF Preflighted
    <3> QED  BY <1>0, <2>1, <3>1, <3>3 DEF FailureInv
  <2> QED  BY <2>2, <2>3
<1> QED  BY <1>1, <1>2

\* So is an assessed one.
LEMMA AssessedFailsNothing ==
  ASSUME DigestsTellApart, DerivationInv, FailureInv, NEW assessment, Assessed(assessment)
  PROVE  FailureInv'
<1>0. /\ run # Idle /\ run.status = "assessing" /\ answer.status = "none"
      /\ UNCHANGED <<facade, asked>>
      /\ Sound(ledger) /\ ValidPolicy(facade.policy) /\ Preflighted(run.invocation)
      /\ ValidCandidate(run.candidate, run.invocation)
  BY DEF Assessed, DerivationInv, FailureInv, Idle
<1>1. PICK expected \in StepAttesters :
        Admission(assessment, AssessmentStage(assessment, run.invocation, run.candidate, expected))
  BY DEF Assessed
<1> DEFINE stage == AssessmentStage(assessment, run.invocation, run.candidate, expected)
           outcome == AdmitCandidate(ledger, facade.policy, run.invocation, run.candidate, assessment)
           decision == CandidateDecision(facade.policy, assessment, run.candidate)
<1>2. CASE stage # "admission"
  <2>1. Finish(Failed(stage)) /\ ledger' = ledger
    BY <1>1, <1>2 DEF Admission
  <2>2. stage \notin {"linking", "admission"}
    BY <1>2 DEF AssessmentStage
  <2> QED  BY <1>0, <2>1, <2>2, OtherFailures
<1>3. CASE stage = "admission"
  <2>1. Settle(outcome, decision)
    BY <1>1, <1>3 DEF Admission
  <2>2. ValidAssessment(assessment, run.invocation, run.candidate)
    BY <1>3 DEF AssessmentStage
  <2>3. Sound(outcome.ledger) /\ outcome.status # "error"
    BY <1>0, <2>2, CandidateIsSound DEF Preflighted
  <2> HIDE DEF outcome, decision
  <2> QED  BY <1>0, <2>1, <2>3, SettledFailsNothing
<1> QED  BY <1>2, <1>3

\* When all steps are taken the target is there.
LEMMA ConcludeFailsNothing ==
  ASSUME DerivationInv, FailureInv, Conclude
  PROVE  FailureInv'
<1> DEFINE route == run.selection.route
           plan == route.plan
           target == IF Route.target.source = "initial" THEN run.selection.target_input
                     ELSE {Reference(record) : record \in RecordsAt(Route.target)}
<1>0. /\ run # Idle /\ run.status = "linking" /\ UNCHANGED <<facade, ledger>>
      /\ Sound(ledger) /\ ValidPolicy(facade.policy)
      /\ facade \in Facades /\ InProgress(facade, ledger, run, asked)
      /\ run.index \notin DOMAIN route.steps
      /\ Route = route
  BY DEF Conclude, DerivationInv, FailureInv, Idle, Route
<1>1. /\ WellChosen(facade, run.selection, asked.target)
      /\ WellBound(ledger, Range(asked.inputs), run.selection)
      /\ Producing(ledger, run, asked)
      /\ run.index \in Nat \ {0}
  BY <1>0 DEF InProgress, Selecting
<1>2. \E reference \in target, fact \in ledger.facts : ResolvesTo(ledger, reference, fact)
  <2>1. CASE route.target.source = "initial"
    <3>1. PICK own \in Range(asked.inputs) :
                 /\ run.selection.target_input = {own}
                 /\ GivenOfKind(ledger, Range(asked.inputs), own, route.target.kind)
      BY <1>1, <2>1 DEF WellBound
    <3>2. own \in target
      BY <1>0, <2>1, <3>1
    <3> QED  BY <3>1, <3>2 DEF GivenOfKind
  <2>2. CASE route.target.source # "initial"
    <3> DEFINE c == route.target.capability
               wiring == [d \in {route.steps[i].capability : i \in DOMAIN route.steps} |->
                            (CHOOSE s \in Range(route.steps) : s.capability = d).inputs]
    <3>1. SourceExists(plan, DOMAIN wiring, route.target)
      BY <1>1 DEF WellChosen, ValidRoute
    <3>2. /\ c \in {route.steps[i].capability : i \in DOMAIN route.steps}
          /\ route.target.port \in DOMAIN plan.specifications[c].outputs
      BY <2>2, <3>1 DEF SourceExists
    <3>3. PICK i \in DOMAIN route.steps : c = route.steps[i].capability
      BY <3>2
    <3>4. i < run.index
      <4>1. PICK m \in Nat : DOMAIN route.steps = 1 .. m
        BY <1>0, <1>1, StepsAreListed
      <4> QED  BY <1>0, <1>1, <4>1
    <3>5. HasOutputs(run.produced, plan, c)
      BY <1>1, <3>3, <3>4 DEF Producing
    <3>6. From(run.produced, OutputOf(c, route.target.port)) # {}
      BY <3>2, <3>5 DEF HasOutputs
    <3>7. PICK record \in From(run.produced, OutputOf(c, route.target.port)) : TRUE
      BY <3>6
    <3>8. record \in RecordsAt(route.target) /\ record \in run.produced
      BY <3>7 DEF From, OutputOf, RecordsAt
    <3>9. record \in ledger.authorities
      BY <1>1, <3>8 DEF Producing
    <3>10. Reference(record) \in target
      BY <1>0, <2>2, <3>8
    <3>11. /\ ResolvesTo(ledger, Reference(record), record.fact)
           /\ record.fact \in ledger.facts
      BY <1>0, <3>9, StoredResolves DEF Sound
    <3> QED  BY <3>10, <3>11
  <2> QED  BY <2>1, <2>2
<1>3. run' = Idle /\ run'.status = "idle" /\ answer'.status = "produced"
  <2>1. PICK admitted : Finish(Produced(CHOOSE reference \in target : TRUE, admitted))
    BY <1>2 DEF Conclude
  <2> QED  BY <2>1 DEF Finish, Produced, Idle
<1> QED  BY <1>0, <1>3 DEF FailureInv

\* No step breaks the invariant.
LEMMA NextFailsNothing ==
  ASSUME DigestsTellApart, DerivationInv, FailureInv, [Next]_vars
  PROVE  FailureInv'
<1>1. CASE UNCHANGED vars
  <2>1. /\ UNCHANGED <<facade, ledger, run, answer>>
        /\ Route' = Route /\ Step' = Step /\ StepAttesters' = StepAttesters
    BY <1>1 DEF vars, Route, Step, StepOffer, StepAttesters
  <2> QED  BY <2>1 DEF FailureInv, Preflighted
<1>2. CASE Caller
  BY <1>2, AdmitSourcesFailsNothing, AskFailsNothing DEF Caller
<1>3. CASE Execute
  BY <1>3, LinkFailsNothing, InvokedFailsNothing, AssessedFailsNothing, ConcludeFailsNothing
     DEF Execute
<1> QED  BY <1>1, <1>2, <1>3 DEF Next

\* Nothing ever fails in the linking of a step, or in admission.
LEMMA FailureInvariant ==
  ASSUME DigestsTellApart
  PROVE  Spec => []FailureInv
<1>1. Init => FailureInv
  BY DEF Init, FailureInv, EmptyLedger, Answered, Idle, Sound
<1>2. DerivationInv /\ FailureInv /\ [Next]_vars => FailureInv'
  BY NextFailsNothing
<1> QED  BY <1>1, <1>2, DerivationInvariant, PTL DEF Spec

-----------------------------------------------------------------------------
(* Hosts that run what is installed.                                        *)

\* What the code of an author that named every output once comes to: outputs
\* that fit the declared ports, each with the payload it was named with.
LEMMA NamedOutputsFit ==
  ASSUME NEW spec, NEW calls, Finishes(spec, calls)
  PROVE  /\ FitsPorts(spec.output_kinds, Outputs(spec, calls))
         /\ \A call \in Range(calls) : Outputs(spec, calls)[call.port].payload = call.payload
<1> DEFINE ports == [i \in DOMAIN calls |-> calls[i].port]
           kinds == spec.output_kinds
           outputs == Outputs(spec, calls)
           at(port) == CHOOSE i \in DOMAIN calls : calls[i].port = port
<1>0. \A kind, payload : LET fact == NewFact(kind, payload)
                         IN  ValidFact(fact) /\ fact.kind = kind /\ fact.payload = payload
  BY DEF ValidFact, NewFact
<1>1. /\ \A i, j \in DOMAIN calls : calls[i].port = calls[j].port => i = j
      /\ \A port \in DOMAIN kinds : \E i \in DOMAIN calls : calls[i].port = port
      /\ \A i \in DOMAIN calls : calls[i].port \in DOMAIN kinds
  <2>1. IsInjective(ports) /\ Range(ports) = DOMAIN kinds
    BY DEF Finishes
  <2>2. /\ DOMAIN ports = DOMAIN calls
        /\ \A i \in DOMAIN calls : ports[i] = calls[i].port
    OBVIOUS
  <2> HIDE DEF ports
  <2>3. \A i, j \in DOMAIN calls : ports[i] = ports[j] => i = j
    BY <2>1, <2>2 DEF IsInjective
  <2>4. \A port \in DOMAIN kinds : \E i \in DOMAIN calls : port = ports[i]
    BY <2>1, <2>2 DEF Range
  <2>5. \A i \in DOMAIN calls : ports[i] \in DOMAIN kinds
    BY <2>1, <2>2 DEF Range
  <2> QED  BY <2>2, <2>3, <2>4, <2>5
<1>2. /\ DOMAIN outputs = DOMAIN kinds
      /\ \A port \in DOMAIN kinds : outputs[port] = NewFact(kinds[port], calls[at(port)].payload)
  BY DEF Outputs
<1>3. \A port \in DOMAIN kinds : at(port) \in DOMAIN calls /\ calls[at(port)].port = port
  BY <1>1
<1> HIDE DEF outputs, at
<1>4. FitsPorts(kinds, outputs)
  <2>1. \A port \in DOMAIN kinds : ValidFact(outputs[port]) /\ outputs[port].kind = kinds[port]
    BY <1>2, <1>0
  <2> QED  BY <1>2, <2>1 DEF FitsPorts
<1>5. ASSUME NEW call \in Range(calls)
      PROVE  outputs[call.port].payload = call.payload
  <2>1. PICK i \in DOMAIN calls : call = calls[i]
    BY DEF Range
  <2>2. call.port \in DOMAIN kinds /\ at(call.port) = i
    BY <1>1, <1>3, <2>1
  <2> QED  BY <1>0, <1>2, <2>1, <2>2
<1> QED  BY <1>4, <1>5 DEF outputs

\* The kit has a registration for every offer that is installed.
LEMMA InstalledIsRegistered ==
  ASSUME facade \in Facades, WellChosen(facade, run.selection, asked.target),
         NEW invocation, Preflighted(invocation),
         run.index \in DOMAIN Route.steps, invocation.offer = OfferOf[StepOffer]
  PROVE  Registered(KitApp, invocation) # {}
<1> DEFINE specs == facade.inventory.specifications
           c == Step.capability
           spec(offer) == [id |-> offer[1], input_kinds |-> specs[offer[1]].inputs,
                           output_kinds |-> specs[offer[1]].outputs]
           registration(offer) == [specification |-> spec(offer),
                                   implementation |-> OfferOf[offer].implementation]
           own == registration(StepOffer)
<1>1. KitApp = {registration(offer) : offer \in facade.inventory.offers}
  BY DEF KitApp
<1>2. StepOffer \in facade.inventory.offers /\ Route.plan.specifications[c] = specs[c]
  BY StepIsInstalled
<1>3. StepOffer[1] = c
  BY DEF StepOffer
<1>4. invocation.specification = spec(StepOffer)
  BY <1>2, <1>3 DEF Preflighted
<1>5. /\ own.specification = invocation.specification
      /\ own.implementation = invocation.offer.implementation
  BY <1>4
<1>6. own \in KitApp
  <2> HIDE DEF registration
  <2> QED  BY <1>1, <1>2
<1> HIDE DEF own
<1>7. own \in Registered(KitApp, invocation)
  BY <1>5, <1>6 DEF Registered
<1> QED  BY <1>7

\* A provider written with the kit is heard as its author meant it.
LEMMA ProvidersAreHeard ==
  ASSUME DerivationInv, FailureInv, run.status = "invoking"
  PROVE  ProviderIsHeard
<1> DEFINE invocation == run.invocation
           spec == invocation.specification
<1>1. ValidInvocation(invocation) /\ Registered(KitApp, invocation) # {}
  <2>1. /\ facade \in Facades /\ Preflighted(invocation)
        /\ WellChosen(facade, run.selection, asked.target)
        /\ LinkedTo(invocation, run.selection, run.index, Range(asked.inputs), run.produced)
    BY DEF DerivationInv, FailureInv, InProgress, Selecting, Idle
  <2>2. run.index \in DOMAIN Route.steps /\ invocation.offer = OfferOf[StepOffer]
    BY <2>1 DEF LinkedTo, Route, Step, StepOffer
  <2> QED  BY <2>1, <2>2, InstalledIsRegistered DEF Preflighted
<1> HIDE DEF invocation
<1> SUFFICES ASSUME NEW code \in AuthorsCode(spec)
             PROVE  LET reply == ProviderReply(KitApp, invocation, code)
                        whole == code.returns = "produced" /\ Finishes(spec, code.calls)
                    IN  /\ ResultStage(reply, invocation) =
                             IF whole THEN "candidate"
                             ELSE IF code.returns = "unable" THEN "provider_unable"
                             ELSE "provider_host"
                        /\ whole => \A call \in Range(code.calls) :
                                      reply.outputs[call.port].payload = call.payload
  BY DEF ProviderIsHeard, invocation
<1> DEFINE reply == ProviderReply(KitApp, invocation, code)
<1>2. code.returns \in {"produced", "unable", "error"}
  BY DEF AuthorsCode
<1>3. CASE code.returns = "unable"
  <2> DEFINE result == Result(invocation, "unable", <<>>)
  <2>1. result.status = "unable" /\ result.invocation = invocation
    BY DEF Result
  <2>2. ValidResult(result, invocation)
    BY <2>1 DEF ValidResult
  <2>3. reply = result
    BY <1>1, <1>3, <2>2 DEF ProviderReply, Framed
  <2>4. result # HostError
    BY <2>1 DEF HostError
  <2> HIDE DEF result, reply
  <2>5. ResultStage(reply, invocation) = "provider_unable"
    BY <2>1, <2>2, <2>3, <2>4 DEF ResultStage
  <2> QED  BY <1>3, <2>5 DEF reply
<1>4. CASE code.returns = "error" \/ (code.returns = "produced" /\ ~ Finishes(spec, code.calls))
  <2>1. reply = HostError
    BY <1>1, <1>4 DEF ProviderReply
  <2> HIDE DEF reply
  <2>2. ResultStage(reply, invocation) = "provider_host"
    BY <2>1 DEF ResultStage
  <2> QED  BY <1>4, <2>2 DEF reply
<1>5. CASE code.returns = "produced" /\ Finishes(spec, code.calls)
  <2> DEFINE outputs == Outputs(spec, code.calls)
             result == Result(invocation, "produced", outputs)
  <2>1. /\ FitsPorts(spec.output_kinds, outputs)
        /\ \A call \in Range(code.calls) : outputs[call.port].payload = call.payload
    BY <1>5, NamedOutputsFit
  <2> HIDE DEF outputs
  <2>2. /\ result.status = "produced" /\ result.invocation = invocation
        /\ result.outputs = outputs
    BY DEF Result
  <2>3. ValidResult(result, invocation)
    BY <2>1, <2>2 DEF ValidResult, ValidCandidate
  <2>4. reply = result
    BY <1>1, <1>5, <2>3 DEF ProviderReply, Framed, outputs
  <2>5. result # HostError
    BY <2>2 DEF HostError
  <2> HIDE DEF result, reply
  <2>6. ResultStage(reply, invocation) = "candidate"
    BY <2>2, <2>3, <2>4, <2>5 DEF ResultStage
  <2>7. reply.outputs = outputs
    BY <2>2, <2>4
  <2> QED  BY <1>5, <2>1, <2>6, <2>7 DEF reply
<1> QED  BY <1>2, <1>3, <1>4, <1>5

\* An attester written with the kit is heard too: only one that made no check
\* gives no assessment.
LEMMA AttestersAreHeard ==
  ASSUME FailureInv, run.status = "assessing"
  PROVE  AttesterIsHeard
<1> DEFINE invocation == run.invocation
           candidate == run.candidate
<1>1. Preflighted(invocation) /\ ValidCandidate(candidate, invocation)
  BY DEF FailureInv
<1> HIDE DEF invocation, candidate
<1> SUFFICES ASSUME NEW authority \in StepAttesters,
                    NEW checks \in SUBSET {"passed", "failed", "indeterminate"}
             PROVE  LET kit   == [suite |-> authority.suite,
                                  implementation |-> authority.attester.implementation]
                        reply == AttesterReply(kit, invocation, candidate, authority, checks)
                    IN  AssessmentStage(reply, invocation, candidate, authority) =
                          IF checks = {} THEN "attester_host" ELSE "admission"
  BY DEF AttesterIsHeard, invocation, candidate
<1> DEFINE kit == [suite |-> authority.suite, implementation |-> authority.attester.implementation]
           reply == AttesterReply(kit, invocation, candidate, authority, checks)
           assessment == [candidate |-> candidate, authority |-> authority, checks |-> checks,
                          outcome |-> DerivedOutcome(checks)]
<1>2. /\ assessment.candidate = candidate /\ assessment.authority = authority
      /\ assessment.checks = checks /\ assessment.outcome = DerivedOutcome(checks)
  OBVIOUS
<1>3. ValidAssessmentRequest(invocation, candidate, authority)
  BY <1>1 DEF Preflighted, ValidAssessmentRequest
<1>4. /\ kit.suite = authority.suite
      /\ kit.implementation = authority.attester.implementation
  OBVIOUS
<1>5. reply = IF ValidAssessment(assessment, invocation, candidate) THEN assessment ELSE HostError
  BY <1>3, <1>4 DEF AttesterReply
<1>6. assessment # HostError
  <2>1. "checks" \in DOMAIN assessment /\ "checks" \notin DOMAIN HostError
    BY DEF HostError
  <2> QED  BY <2>1
<1> HIDE DEF assessment, reply, kit
<1>7. ValidAssessment(assessment, invocation, candidate) <=> checks # {}
  BY <1>1, <1>2 DEF Preflighted, ValidAssessment
<1>8. AssessmentStage(reply, invocation, candidate, authority) =
        IF checks = {} THEN "attester_host" ELSE "admission"
  BY <1>2, <1>5, <1>6, <1>7 DEF AssessmentStage
<1> QED  BY <1>8 DEF reply, kit

\* When no two contents have one identity, a prepared selection links and is
\* admitted whenever the host does its part, and a provider or attester written
\* with the kit is heard as its author meant it.
THEOREM FailuresAreTheHostsTheorem ==
  ASSUME DigestsTellApart
  PROVE  Spec => []FailuresAreTheHosts
<1>1. DerivationInv /\ FailureInv => FailuresAreTheHosts
  BY ProvidersAreHeard, AttestersAreHeard DEF FailureInv, FailuresAreTheHosts
<1> QED  BY <1>1, DerivationInvariant, FailureInvariant, PTL

-----------------------------------------------------------------------------
(* What the planner can reach, and the least sets its loops end in.         *)

\* A step that makes no less of more within a finite set S, and more of `start`.
GrowsWithin(S, step, start) ==
  /\ IsFiniteSet(S)
  /\ \A X \in SUBSET S : step[X] \in SUBSET S
  /\ \A X, Y \in SUBSET S : X \subseteq Y => step[X] \subseteq step[Y]
  /\ start \in SUBSET S
  /\ start \subseteq step[start]

\* The least subset of S that contains `start` and what a step makes of it.
IsLeastClosed(least, S, step, start) ==
  /\ least \in SUBSET S
  /\ start \subseteq least
  /\ step[least] = least
  /\ \A Y \in SUBSET S : start \subseteq Y /\ step[Y] \subseteq Y => least \subseteq Y

\* A set that only grows, within a finite set, no longer grows after as many
\* steps as that has elements; and then it is the least one that is closed.
LEMMA IterationSaturates ==
  ASSUME NEW S, NEW step, NEW start, GrowsWithin(S, step, start),
         NEW n \in Nat, Cardinality(S) <= n,
         NEW after, Iterates(after, SUBSET S, step, start, n)
  PROVE  IsLeastClosed(after[n], S, step, start)
<1> USE DEF GrowsWithin
<1> DEFINE D == SUBSET S
<1>1. \A i \in 0 .. n : after[i] \in D
  <2>1. \A X \in D : step[X] \in D
    OBVIOUS
  <2>2. start \in D /\ Iterates(after, D, step, start, n)
    OBVIOUS
  <2> HIDE DEF D
  <2> QED  BY <2>1, <2>2, IterationStays
<1>2. after[0] = start /\ \A i \in 0 .. n : i # 0 => i - 1 \in 0 .. n /\ after[i] = step[after[i - 1]]
  <2>1. \A i \in 0 .. n : i # 0 => i \in 1 .. n /\ i - 1 \in 0 .. n
    OBVIOUS
  <2> QED  BY <1>1, <2>1 DEF Iterates
<1>3. ASSUME NEW i \in 0 .. n PROVE after[i] \subseteq step[after[i]]
  <2> DEFINE bad == {j \in 0 .. n : ~ (after[j] \subseteq step[after[j]])}
  <2>1. SUFFICES ASSUME bad # {} PROVE FALSE
    OBVIOUS
  <2>2. bad \in SUBSET Nat
    OBVIOUS
  <2>3. PICK m \in bad : \A k \in bad : m <= k
    <3> HIDE DEF bad
    <3> QED  BY <2>1, <2>2, LeastNumber
  <2>4. m # 0
    BY <1>2, <2>3
  <2>5. m - 1 \in 0 .. n /\ after[m] = step[after[m - 1]] /\ m - 1 \notin bad
    BY <1>2, <2>3, <2>4
  <2>6. after[m - 1] \subseteq after[m]
    BY <2>5
  <2>7. step[after[m - 1]] \subseteq step[after[m]]
    BY <1>1, <2>3, <2>5, <2>6
  <2> QED  BY <2>3, <2>5, <2>7
<1>4. ASSUME NEW i \in 0 .. n PROVE start \subseteq after[i]
  <2> DEFINE bad == {j \in 0 .. n : ~ (start \subseteq after[j])}
  <2>1. SUFFICES ASSUME bad # {} PROVE FALSE
    OBVIOUS
  <2>2. bad \in SUBSET Nat
    OBVIOUS
  <2>3. PICK m \in bad : \A k \in bad : m <= k
    <3> HIDE DEF bad
    <3> QED  BY <2>1, <2>2, LeastNumber
  <2>4. m # 0
    BY <1>2, <2>3
  <2>5. m - 1 \in 0 .. n /\ after[m] = step[after[m - 1]] /\ m - 1 \notin bad
    BY <1>2, <2>3, <2>4
  <2> QED  BY <1>3, <2>3, <2>5
<1>5. ASSUME NEW Y \in D, start \subseteq Y, step[Y] \subseteq Y, NEW i \in 0 .. n
      PROVE  after[i] \subseteq Y
  <2> DEFINE bad == {j \in 0 .. n : ~ (after[j] \subseteq Y)}
  <2>1. SUFFICES ASSUME bad # {} PROVE FALSE
    OBVIOUS
  <2>2. bad \in SUBSET Nat
    OBVIOUS
  <2>3. PICK m \in bad : \A k \in bad : m <= k
    <3> HIDE DEF bad
    <3> QED  BY <2>1, <2>2, LeastNumber
  <2>4. m # 0
    BY <1>2, <1>5, <2>3
  <2>5. m - 1 \in 0 .. n /\ after[m] = step[after[m - 1]] /\ m - 1 \notin bad
    BY <1>2, <2>3, <2>4
  <2>6. step[after[m - 1]] \subseteq step[Y]
    BY <1>1, <1>5, <2>5
  <2> QED  BY <1>5, <2>3, <2>5, <2>6
<1>6. ASSUME step[after[n]] # after[n], NEW i \in 0 .. n
      PROVE  step[after[i]] # after[i] /\ Cardinality(after[i]) >= i
  <2> DEFINE fixed == {j \in 0 .. n : step[after[j]] = after[j]}
  <2>1. fixed = {}
    <3> DEFINE late == {n - j : j \in fixed}
    <3>1. SUFFICES ASSUME late # {} PROVE FALSE
      OBVIOUS
    <3>2. late \in SUBSET Nat
      OBVIOUS
    <3>3. PICK m \in late : \A k \in late : m <= k
      <4> HIDE DEF late
      <4> QED  BY <3>1, <3>2, LeastNumber
    <3>4. PICK j \in fixed : m = n - j
      BY <3>3
    <3>5. j # n
      BY <1>6, <3>4
    <3>6. j + 1 \in 0 .. n /\ j + 1 # 0 /\ (j + 1) - 1 = j
      BY <3>4, <3>5
    <3>7. after[j + 1] = step[after[j]]
      BY <1>2, <3>6
    <3>8. j + 1 \in fixed
      BY <3>4, <3>6, <3>7
    <3>9. n - (j + 1) \in late
      BY <3>8
    <3>10. j \in Nat /\ ~ (n - j <= n - (j + 1))
      BY <3>4
    <3> HIDE DEF late
    <3> QED  BY <3>3, <3>4, <3>9, <3>10
  <2>2. \A j \in 0 .. n : step[after[j]] # after[j]
    BY <2>1
  <2>3. ASSUME NEW j \in 0 .. n PROVE IsFiniteSet(after[j]) /\ Cardinality(after[j]) \in Nat
    BY <1>1, FS_Subset, FS_CardinalityType
  <2> DEFINE small == {j \in 0 .. n : ~ (Cardinality(after[j]) >= j)}
  <2>4. small = {}
    <3>1. SUFFICES ASSUME small # {} PROVE FALSE
      OBVIOUS
    <3>2. small \in SUBSET Nat
      OBVIOUS
    <3>3. PICK m \in small : \A k \in small : m <= k
      <4> HIDE DEF small
      <4> QED  BY <3>1, <3>2, LeastNumber
    <3>4. m # 0
      BY <2>3, <3>3
    <3>5. m - 1 \in 0 .. n /\ after[m] = step[after[m - 1]] /\ m - 1 \notin small
      BY <1>2, <3>3, <3>4
    <3>6. after[m - 1] \subseteq after[m] /\ after[m - 1] # after[m]
      BY <1>3, <2>2, <3>5
    <3>7. Cardinality(after[m - 1]) < Cardinality(after[m])
      BY <2>3, <3>3, <3>6, FS_Subset
    <3> QED  BY <2>3, <3>3, <3>5, <3>7
  <2> QED  BY <2>2, <2>4
<1>7. n \in 0 .. n
  OBVIOUS
<1>8. step[after[n]] = after[n]
  <2> SUFFICES ASSUME step[after[n]] # after[n] PROVE FALSE
    OBVIOUS
  <2>1. Cardinality(after[n]) >= n
    BY <1>6, <1>7
  <2>2. after[n] \in D /\ step[after[n]] \in D
    BY <1>1, <1>7
  <2>3. after[n] \subseteq step[after[n]]
    BY <1>3, <1>7
  <2>4. /\ Cardinality(after[n]) < Cardinality(step[after[n]])
        /\ Cardinality(step[after[n]]) <= Cardinality(S)
    <3>1. IsFiniteSet(step[after[n]]) /\ IsFiniteSet(after[n])
      BY <2>2, FS_Subset
    <3>2. /\ Cardinality(after[n]) <= Cardinality(step[after[n]])
          /\ Cardinality(after[n]) # Cardinality(step[after[n]])
      BY <2>3, <3>1, FS_Subset
    <3>3. Cardinality(step[after[n]]) <= Cardinality(S)
      BY <2>2, FS_Subset
    <3>4. Cardinality(after[n]) \in Nat /\ Cardinality(step[after[n]]) \in Nat
      BY <3>1, FS_CardinalityType
    <3> QED  BY <3>2, <3>3, <3>4
  <2>5. /\ Cardinality(after[n]) \in Nat /\ Cardinality(step[after[n]]) \in Nat
        /\ Cardinality(S) \in Nat
    BY <2>2, FS_Subset, FS_CardinalityType
  <2> QED  BY <2>1, <2>4, <2>5
<1> QED  BY <1>1, <1>4, <1>5, <1>7, <1>8 DEF IsLeastClosed

-----------------------------------------------------------------------------
(* Plans.                                                                   *)

\* The capabilities whose inputs can be had from what these make.
EnabledBy(specs, initial, C) ==
  {c \in DOMAIN specs : InputKinds(specs, c) \subseteq ValueKinds(specs, initial, C)}

\* What is forward reachable is the least set that contains what it enables.
LEMMA ForwardIsLeast ==
  ASSUME NEW specs, IsFiniteSet(DOMAIN specs), NEW initial
  PROVE  LET F == ForwardReachable(specs, initial)
         IN  /\ F \subseteq DOMAIN specs
             /\ EnabledBy(specs, initial, F) = F
             /\ \A Y \in SUBSET DOMAIN specs : EnabledBy(specs, initial, Y) \subseteq Y => F \subseteq Y
<1> DEFINE n == Cardinality(DOMAIN specs)
           D == SUBSET DOMAIN specs
           enabled(C) ==
             {c \in DOMAIN specs : InputKinds(specs, c) \subseteq ValueKinds(specs, initial, C)}
           step == [C \in D |-> enabled(C)]
           after == CHOOSE a : a = [i \in 0 .. n |-> IF i = 0 THEN {} ELSE enabled(a[i - 1])]
<1>1. ForwardReachable(specs, initial) = after[n]
  BY DEF ForwardReachable, Iterate
<1>2. n \in Nat
  BY FS_CardinalityType
<1>3. \A C \in D : step[C] = enabled(C) /\ step[C] \in D
  OBVIOUS
<1>4. {} \in D
  OBVIOUS
<1>5. \A X, Y \in D : X \subseteq Y => step[X] \subseteq step[Y]
  <2> SUFFICES ASSUME NEW X \in D, NEW Y \in D, X \subseteq Y
               PROVE  enabled(X) \subseteq enabled(Y)
    BY <1>3
  <2>1. ValueKinds(specs, initial, X) \subseteq ValueKinds(specs, initial, Y)
    BY DEF ValueKinds
  <2> QED  BY <2>1
<1>6. \A C : enabled(C) = EnabledBy(specs, initial, C)
  BY DEF EnabledBy
<1> HIDE DEF n, D, step, enabled
<1>7. PICK a : Iterates(a, D, step, {}, n) /\ \A i \in 0 .. n : a[i] \in D
  BY <1>2, <1>3, <1>4, IterationExists
<1>8. a = [i \in 0 .. n |-> IF i = 0 THEN {} ELSE enabled(a[i - 1])]
  <2>1. ASSUME NEW i \in 0 .. n PROVE a[i] = IF i = 0 THEN {} ELSE enabled(a[i - 1])
    <3>1. i # 0 => i \in 1 .. n /\ i - 1 \in 0 .. n
      BY <1>2
    <3> QED  BY <1>3, <1>7, <3>1 DEF Iterates
  <2> QED  BY <1>7, <2>1 DEF Iterates
<1>9. after = [i \in 0 .. n |-> IF i = 0 THEN {} ELSE enabled(after[i - 1])]
  BY <1>8
<1> HIDE DEF after
<1>10. Iterates(after, D, step, {}, n)
  <2>1. after = [i \in 0 .. n |-> after[i]]
    BY <1>9
  <2>2. after[0] = {}
    BY <1>2, <1>9
  <2>3. ASSUME NEW i \in 1 .. n, after[i - 1] \in D PROVE after[i] = step[after[i - 1]]
    <3>1. i \in 0 .. n /\ i # 0
      BY <1>2
    <3>2. after[i] = enabled(after[i - 1])
      BY <1>9, <3>1
    <3> QED  BY <1>3, <2>3, <3>2
  <2> QED  BY <2>1, <2>2, <2>3 DEF Iterates
<1>11. /\ after[n] \in D
       /\ step[after[n]] = after[n]
       /\ \A Y \in D : {} \subseteq Y /\ step[Y] \subseteq Y => after[n] \subseteq Y
  <2>1. Cardinality(DOMAIN specs) <= n
    BY <1>2 DEF n
  <2>2. \A X \in SUBSET DOMAIN specs : step[X] \in SUBSET DOMAIN specs
    BY <1>3 DEF D
  <2>3. \A X, Y \in SUBSET DOMAIN specs : X \subseteq Y => step[X] \subseteq step[Y]
    BY <1>5 DEF D
  <2>4. {} \in SUBSET DOMAIN specs /\ {} \subseteq step[{}]
    OBVIOUS
  <2>5. Iterates(after, SUBSET DOMAIN specs, step, {}, n)
    BY <1>10 DEF D
  <2>6. GrowsWithin(DOMAIN specs, step, {})
    BY <2>2, <2>3, <2>4 DEF GrowsWithin
  <2>7. IsLeastClosed(after[n], DOMAIN specs, step, {})
    BY <1>2, <2>1, <2>5, <2>6, IterationSaturates
  <2> QED  BY <2>7 DEF D, IsLeastClosed
<1>12. /\ after[n] \in D
       /\ enabled(after[n]) = after[n]
       /\ \A Y \in D : enabled(Y) \subseteq Y => after[n] \subseteq Y
  BY <1>3, <1>11
<1> QED  BY <1>1, <1>6, <1>12 DEF D

\* The kinds that these capabilities take and the goal is, which are to be made.
NeededBy(specs, initial, goal, C) ==
  (IF goal.of = "kind" THEN {goal.kind} ELSE {})
    \cup ((UNION {InputKinds(specs, c) : c \in C}) \ initial)

\* The capabilities that can be reached and make one of them.
SuppliersOf(specs, initial, goal, C) ==
  {c \in ForwardReachable(specs, initial) :
     OutputKinds(specs, c) \cap NeededBy(specs, initial, goal, C) # {}}

GoalRoot(goal) == IF goal.of = "kind" THEN {} ELSE {goal.capability}

\* What is relevant is the least set that has the goal's root and the
\* suppliers of its own members.
LEMMA RelevantIsLeast ==
  ASSUME NEW specs, IsFiniteSet(DOMAIN specs), NEW initial, NEW goal,
         GoalRoot(goal) \subseteq ForwardReachable(specs, initial)
  PROVE  LET R == Relevant(specs, initial, goal)
         IN  /\ R \subseteq ForwardReachable(specs, initial)
             /\ GoalRoot(goal) \subseteq R
             /\ SuppliersOf(specs, initial, goal, R) \subseteq R
             /\ \A Y \in SUBSET ForwardReachable(specs, initial) :
                  /\ GoalRoot(goal) \subseteq Y
                  /\ SuppliersOf(specs, initial, goal, Y) \subseteq Y
                  => R \subseteq Y
<1> DEFINE forward == ForwardReachable(specs, initial)
           n == Cardinality(forward) + 1
           D == SUBSET forward
           root == IF goal.of = "kind" THEN {} ELSE {goal.capability}
           needed(C) == (IF goal.of = "kind" THEN {goal.kind} ELSE {})
                          \cup ((UNION {InputKinds(specs, c) : c \in C}) \ initial)
           producers(C) == C \cup {c \in forward : OutputKinds(specs, c) \cap needed(C) # {}}
           step == [C \in D |-> producers(C)]
           after == CHOOSE a : a = [i \in 0 .. n |-> IF i = 0 THEN root ELSE producers(a[i - 1])]
<1>1. Relevant(specs, initial, goal) = after[n]
  BY DEF Relevant, Iterate
<1>2. IsFiniteSet(forward)
  BY ForwardIsLeast, FS_Subset
<1>3. root = GoalRoot(goal) /\ root \in D
  BY DEF GoalRoot
<1>4. \A C : producers(C) = C \cup SuppliersOf(specs, initial, goal, C)
  BY DEF SuppliersOf, NeededBy
<1> HIDE DEF forward
<1>5. n \in Nat /\ Cardinality(forward) <= n
  BY <1>2, FS_CardinalityType
<1>6. \A C \in D : step[C] = producers(C) /\ step[C] \in D
  OBVIOUS
<1>7. \A X, Y \in D : X \subseteq Y => step[X] \subseteq step[Y]
  <2> SUFFICES ASSUME NEW X \in D, NEW Y \in D, X \subseteq Y
               PROVE  producers(X) \subseteq producers(Y)
    BY <1>6
  <2>1. needed(X) \subseteq needed(Y)
    OBVIOUS
  <2> QED  BY <2>1
<1>8. root \subseteq step[root]
  BY <1>3, <1>6
<1> HIDE DEF n, D, step, producers, root
<1>9. PICK a : Iterates(a, D, step, root, n) /\ \A i \in 0 .. n : a[i] \in D
  BY <1>3, <1>5, <1>6, IterationExists
<1>10. a = [i \in 0 .. n |-> IF i = 0 THEN root ELSE producers(a[i - 1])]
  <2>1. ASSUME NEW i \in 0 .. n PROVE a[i] = IF i = 0 THEN root ELSE producers(a[i - 1])
    <3>1. i # 0 => i \in 1 .. n /\ i - 1 \in 0 .. n
      BY <1>5
    <3> QED  BY <1>6, <1>9, <3>1 DEF Iterates
  <2> QED  BY <1>9, <2>1 DEF Iterates
<1>11. after = [i \in 0 .. n |-> IF i = 0 THEN root ELSE producers(after[i - 1])]
  BY <1>10
<1> HIDE DEF after
<1>12. Iterates(after, D, step, root, n)
  <2>1. after = [i \in 0 .. n |-> after[i]]
    BY <1>11
  <2>2. after[0] = root
    BY <1>5, <1>11
  <2>3. ASSUME NEW i \in 1 .. n, after[i - 1] \in D PROVE after[i] = step[after[i - 1]]
    <3>1. i \in 0 .. n /\ i # 0
      BY <1>5
    <3>2. after[i] = producers(after[i - 1])
      BY <1>11, <3>1
    <3> QED  BY <1>6, <2>3, <3>2
  <2> QED  BY <2>1, <2>2, <2>3 DEF Iterates
<1>13. /\ after[n] \in D
       /\ root \subseteq after[n]
       /\ step[after[n]] = after[n]
       /\ \A Y \in D : root \subseteq Y /\ step[Y] \subseteq Y => after[n] \subseteq Y
  <2>1. \A X \in SUBSET forward : step[X] \in SUBSET forward
    BY <1>6 DEF D
  <2>2. \A X, Y \in SUBSET forward : X \subseteq Y => step[X] \subseteq step[Y]
    BY <1>7 DEF D
  <2>3. root \in SUBSET forward
    BY <1>3 DEF D
  <2>4. Iterates(after, SUBSET forward, step, root, n)
    BY <1>12 DEF D
  <2>5. GrowsWithin(forward, step, root)
    BY <1>2, <1>8, <2>1, <2>2, <2>3 DEF GrowsWithin
  <2>6. IsLeastClosed(after[n], forward, step, root)
    BY <1>5, <2>4, <2>5, IterationSaturates
  <2> QED  BY <2>6 DEF D, IsLeastClosed
<1>14. /\ after[n] \in D
       /\ producers(after[n]) = after[n]
       /\ \A Y \in D : root \subseteq Y /\ producers(Y) \subseteq Y => after[n] \subseteq Y
  BY <1>6, <1>13
<1> QED  BY <1>1, <1>3, <1>4, <1>13, <1>14 DEF D, forward

\* Restricted to some capabilities, an inventory says the same of these.
LEMMA RestrictedSpecs ==
  ASSUME NEW specs, NEW C
  PROVE  /\ DOMAIN Restrict(specs, C) = C
         /\ \A c \in C : /\ InputKinds(Restrict(specs, C), c) = InputKinds(specs, c)
                         /\ OutputKinds(Restrict(specs, C), c) = OutputKinds(specs, c)
         /\ \A initial : \A B \in SUBSET C :
              ValueKinds(Restrict(specs, C), initial, B) = ValueKinds(specs, initial, B)
<1>1. \A c \in C : Restrict(specs, C)[c] = specs[c]
  BY DEF Restrict
<1>2. \A c \in C : /\ InputKinds(Restrict(specs, C), c) = InputKinds(specs, c)
                   /\ OutputKinds(Restrict(specs, C), c) = OutputKinds(specs, c)
  BY <1>1 DEF InputKinds, OutputKinds
<1>3. ASSUME NEW initial, NEW B \in SUBSET C
      PROVE  ValueKinds(Restrict(specs, C), initial, B) = ValueKinds(specs, initial, B)
  <2>1. {OutputKinds(Restrict(specs, C), c) : c \in B} = {OutputKinds(specs, c) : c \in B}
    BY <1>2
  <2> QED  BY <2>1 DEF ValueKinds
<1>4. DOMAIN Restrict(specs, C) = C
  BY DEF Restrict
<1> QED  BY <1>2, <1>3, <1>4

\* A kind is among the values of some capabilities when it is there from the
\* start or made by one of them.
LEMMA ValueKindsAre ==
  ASSUME NEW specs, NEW initial, NEW C, NEW kind
  PROVE  kind \in ValueKinds(specs, initial, C) <=>
           kind \in initial \/ \E c \in C : kind \in OutputKinds(specs, c)
BY DEF ValueKinds

\* Whatever is relevant can be reached by what is relevant alone: the suppliers
\* of its members are relevant too.
LEMMA SliceReachesItself ==
  ASSUME NEW specs, IsFiniteSet(DOMAIN specs), NEW initial, NEW goal,
         GoalRoot(goal) \subseteq ForwardReachable(specs, initial)
  PROVE  LET R == Relevant(specs, initial, goal)
         IN  ForwardReachable(Restrict(specs, R), initial) = R
<1> DEFINE F == ForwardReachable(specs, initial)
           R == Relevant(specs, initial, goal)
           slice == Restrict(specs, R)
           G == ForwardReachable(slice, initial)
           Y == {c \in F : c \in R => c \in G}
<1>1. /\ F \subseteq DOMAIN specs
      /\ EnabledBy(specs, initial, F) = F
      /\ \A Z \in SUBSET DOMAIN specs : EnabledBy(specs, initial, Z) \subseteq Z => F \subseteq Z
  BY ForwardIsLeast
<1>2. R \subseteq F /\ SuppliersOf(specs, initial, goal, R) \subseteq R
  BY RelevantIsLeast
<1>3. DOMAIN slice = R /\ IsFiniteSet(R)
  BY <1>1, <1>2, FS_Subset, RestrictedSpecs
<1>4. G \subseteq R /\ EnabledBy(slice, initial, G) = G
  BY <1>3, ForwardIsLeast
<1>5. /\ \A c \in R : InputKinds(slice, c) = InputKinds(specs, c)
      /\ \A B \in SUBSET R : ValueKinds(slice, initial, B) = ValueKinds(specs, initial, B)
  BY RestrictedSpecs
<1> HIDE DEF F, R, G, slice
<1>6. ASSUME NEW c \in EnabledBy(specs, initial, Y) PROVE c \in Y
  <2>1. c \in DOMAIN specs /\ InputKinds(specs, c) \subseteq ValueKinds(specs, initial, Y)
    BY DEF EnabledBy
  <2>2. c \in F
    <3>1. ValueKinds(specs, initial, Y) \subseteq ValueKinds(specs, initial, F)
      BY DEF ValueKinds
    <3> QED  BY <1>1, <2>1, <3>1 DEF EnabledBy
  <2>3. ASSUME c \in R PROVE c \in G
    <3>1. ASSUME NEW kind \in InputKinds(specs, c) PROVE kind \in ValueKinds(specs, initial, G)
      <4>1. CASE kind \in initial
        BY <4>1, ValueKindsAre
      <4>2. CASE kind \notin initial
        <5>1. PICK d \in Y : kind \in OutputKinds(specs, d)
          BY <2>1, <4>2, ValueKindsAre
        <5>2. kind \in NeededBy(specs, initial, goal, R)
          <6>1. InputKinds(specs, c) \in {InputKinds(specs, b) : b \in R}
            BY <2>3
          <6>2. kind \in (UNION {InputKinds(specs, b) : b \in R}) \ initial
            BY <4>2, <6>1
          <6> QED  BY <6>2 DEF NeededBy
        <5>3. d \in SuppliersOf(specs, initial, goal, R)
          BY <5>1, <5>2 DEF SuppliersOf, F
        <5>4. d \in G
          BY <1>2, <5>1, <5>3
        <5> QED  BY <5>1, <5>4, ValueKindsAre
      <4> QED  BY <4>1, <4>2
    <3>2. InputKinds(slice, c) \subseteq ValueKinds(slice, initial, G)
      BY <1>4, <1>5, <2>3, <3>1
    <3> QED  BY <1>3, <1>4, <2>3, <3>2 DEF EnabledBy
  <2> QED  BY <2>2, <2>3
<1>7. F \subseteq Y
  BY <1>1, <1>6
<1>8. R = G
  BY <1>2, <1>4, <1>7
<1> QED  BY <1>8 DEF R, G, slice

\* A slice taken by itself is relevant as a whole.
LEMMA SliceIsRelevant ==
  ASSUME NEW specs, IsFiniteSet(DOMAIN specs), NEW initial, NEW goal,
         GoalRoot(goal) \subseteq ForwardReachable(specs, initial)
  PROVE  LET R == Relevant(specs, initial, goal)
         IN  Relevant(Restrict(specs, R), initial, goal) = R
<1> DEFINE F == ForwardReachable(specs, initial)
           R == Relevant(specs, initial, goal)
           slice == Restrict(specs, R)
           Q == Relevant(slice, initial, goal)
<1>1. /\ F \subseteq DOMAIN specs
      /\ R \subseteq F
      /\ GoalRoot(goal) \subseteq R
      /\ SuppliersOf(specs, initial, goal, R) \subseteq R
      /\ \A Z \in SUBSET F :
           GoalRoot(goal) \subseteq Z /\ SuppliersOf(specs, initial, goal, Z) \subseteq Z => R \subseteq Z
  BY ForwardIsLeast, RelevantIsLeast
<1>2. DOMAIN slice = R /\ IsFiniteSet(R) /\ ForwardReachable(slice, initial) = R
  BY <1>1, FS_Subset, RestrictedSpecs, SliceReachesItself
<1>3. /\ Q \subseteq R
      /\ GoalRoot(goal) \subseteq Q
      /\ SuppliersOf(slice, initial, goal, Q) \subseteq Q
  BY <1>1, <1>2, RelevantIsLeast
<1>4. /\ \A c \in R : /\ InputKinds(slice, c) = InputKinds(specs, c)
                      /\ OutputKinds(slice, c) = OutputKinds(specs, c)
  BY RestrictedSpecs
<1> HIDE DEF F, R, Q, slice
<1>5. SuppliersOf(specs, initial, goal, Q) \subseteq Q
  <2>1. NeededBy(slice, initial, goal, Q) = NeededBy(specs, initial, goal, Q)
    <3>1. {InputKinds(slice, c) : c \in Q} = {InputKinds(specs, c) : c \in Q}
      BY <1>3, <1>4
    <3> QED  BY <3>1 DEF NeededBy
  <2>2. NeededBy(specs, initial, goal, Q) \subseteq NeededBy(specs, initial, goal, R)
    BY <1>3 DEF NeededBy
  <2>3. ASSUME NEW c \in SuppliersOf(specs, initial, goal, Q) PROVE c \in Q
    <3>1. /\ c \in F
          /\ OutputKinds(specs, c) \cap NeededBy(specs, initial, goal, Q) # {}
      BY DEF SuppliersOf, F
    <3>2. c \in R
      BY <1>1, <2>2, <3>1 DEF SuppliersOf, F
    <3>3. c \in SuppliersOf(slice, initial, goal, Q)
      BY <1>2, <1>4, <2>1, <3>1, <3>2 DEF SuppliersOf
    <3> QED  BY <1>3, <3>3
  <2> QED  BY <2>3
<1>6. R \subseteq Q
  BY <1>1, <1>3, <1>5
<1> QED  BY <1>3, <1>6 DEF R, Q, slice

\* Something that can be reached is made by something that can be reached.
LEMMA ReachableHasRoot ==
  ASSUME NEW specs, NEW initial, NEW goal, Reachable(specs, initial, goal)
  PROVE  GoalRoot(goal) \subseteq ForwardReachable(specs, initial)
BY DEF Reachable, GoalRoot

\* The slice that a plan is made of is its own slice.
LEMMA SlicesAreValid ==
  ASSUME NEW inventory, IsFiniteSet(DOMAIN inventory.specifications), NEW initial, NEW goal,
         ~ AlreadyThere(initial, goal), Reachable(inventory.specifications, initial, goal)
  PROVE  ValidSlice(PlanOver(inventory, initial, goal,
                             Relevant(inventory.specifications, initial, goal)))
<1> DEFINE specs == inventory.specifications
           R == Relevant(specs, initial, goal)
           plan == PlanOver(inventory, initial, goal, R)
           slice == Restrict(specs, R)
<1>1. plan.initial = initial /\ plan.goal = goal /\ plan.specifications = slice
  BY DEF PlanOver
<1>2. GoalRoot(goal) \subseteq ForwardReachable(specs, initial)
  BY ReachableHasRoot
<1>3. /\ ForwardReachable(slice, initial) = R
      /\ Relevant(slice, initial, goal) = R
      /\ DOMAIN slice = R
  BY <1>2, SliceReachesItself, SliceIsRelevant, RestrictedSpecs
<1>4. /\ GoalRoot(goal) \subseteq R
      /\ R \subseteq ForwardReachable(specs, initial)
      /\ SuppliersOf(specs, initial, goal, R) \subseteq R
  BY <1>2, RelevantIsLeast
<1>5. Reachable(slice, initial, goal)
  <2>1. CASE goal.of # "kind"
    BY <1>3, <1>4, <2>1 DEF Reachable, GoalRoot
  <2>2. CASE goal.of = "kind"
    <3>1. goal.kind \notin initial
      BY <2>2 DEF AlreadyThere
    <3>2. goal.kind \in ValueKinds(specs, initial, ForwardReachable(specs, initial))
      BY <2>2 DEF Reachable
    <3>3. PICK c \in ForwardReachable(specs, initial) : goal.kind \in OutputKinds(specs, c)
      BY <3>1, <3>2, ValueKindsAre
    <3>4. c \in R
      BY <1>4, <2>2, <3>3 DEF SuppliersOf, NeededBy
    <3>5. goal.kind \in OutputKinds(slice, c)
      BY <3>3, <3>4, RestrictedSpecs
    <3>6. goal.kind \in ValueKinds(slice, initial, R)
      BY <3>4, <3>5, ValueKindsAre
    <3> QED  BY <1>3, <2>2, <3>6 DEF Reachable
  <2> QED  BY <2>1, <2>2
<1> HIDE DEF plan, slice
<1> QED  BY <1>1, <1>3, <1>5 DEF ValidSlice, plan

\* Every plan that is made validates, so what cannot be planned is not installed
\* or cannot be reached.
LEMMA PlansAreMade ==
  ASSUME NEW inventory, IsFiniteSet(DOMAIN inventory.specifications), NEW initial, NEW goal
  PROVE  LET specs == inventory.specifications
             made == PlanFor(inventory, initial, goal)
             slice == IF AlreadyThere(initial, goal) THEN {} ELSE Relevant(specs, initial, goal)
         IN  \/ made.status = "not_installed" /\ goal.of = "output"
             \/ /\ made.status = "unreachable"
                /\ ~ AlreadyThere(initial, goal) /\ ~ Reachable(specs, initial, goal)
             \/ /\ made = Planned(PlanOver(inventory, initial, goal, slice))
                /\ AlreadyThere(initial, goal) \/ Reachable(specs, initial, goal)
<1> DEFINE specs == inventory.specifications
<1>1. NotPlanned("not_installed").status = "not_installed" /\ NotPlanned("unreachable").status = "unreachable"
  BY DEF NotPlanned
<1>2. ASSUME AlreadyThere(initial, goal)
      PROVE  Checked(PlanOver(inventory, initial, goal, {})) = Planned(PlanOver(inventory, initial, goal, {}))
  <2>1. ValidSlice(PlanOver(inventory, initial, goal, {}))
    <3>1. /\ PlanOver(inventory, initial, goal, {}).initial = initial
          /\ PlanOver(inventory, initial, goal, {}).goal = goal
          /\ PlanOver(inventory, initial, goal, {}).specifications = Restrict(specs, {})
      BY DEF PlanOver
    <3> QED  BY <1>2, <3>1, RestrictedSpecs DEF ValidSlice
  <2> QED  BY <2>1 DEF Checked
<1>3. ASSUME ~ AlreadyThere(initial, goal), Reachable(specs, initial, goal)
      PROVE  Checked(PlanOver(inventory, initial, goal, Relevant(specs, initial, goal)))
               = Planned(PlanOver(inventory, initial, goal, Relevant(specs, initial, goal)))
  BY <1>3, SlicesAreValid DEF Checked
<1> QED  BY <1>1, <1>2, <1>3 DEF PlanFor

-----------------------------------------------------------------------------
(* What is blocked.                                                         *)

\* With more capabilities no less can be reached.
LEMMA MoreReachesMore ==
  ASSUME NEW specs, IsFiniteSet(DOMAIN specs), NEW initial,
         NEW B, NEW C, B \subseteq C, C \subseteq DOMAIN specs
  PROVE  ForwardReachable(Restrict(specs, B), initial)
           \subseteq ForwardReachable(Restrict(specs, C), initial)
<1> DEFINE few == Restrict(specs, B)
           many == Restrict(specs, C)
           F == ForwardReachable(many, initial)
           Y == F \cap B
<1>1. IsFiniteSet(B) /\ IsFiniteSet(C) /\ DOMAIN few = B /\ DOMAIN many = C
  BY FS_Subset, RestrictedSpecs
<1>2. F \subseteq C /\ EnabledBy(many, initial, F) = F
  BY <1>1, ForwardIsLeast
<1>3. /\ \A c \in B : InputKinds(few, c) = InputKinds(specs, c)
      /\ \A D \in SUBSET B : ValueKinds(few, initial, D) = ValueKinds(specs, initial, D)
  BY RestrictedSpecs
<1>4. /\ \A c \in C : InputKinds(many, c) = InputKinds(specs, c)
      /\ \A D \in SUBSET C : ValueKinds(many, initial, D) = ValueKinds(specs, initial, D)
  BY RestrictedSpecs
<1>5. \A Z \in SUBSET B : EnabledBy(few, initial, Z) \subseteq Z => ForwardReachable(few, initial) \subseteq Z
  BY <1>1, ForwardIsLeast
<1> HIDE DEF few, many, F
<1>6. ASSUME NEW c \in EnabledBy(few, initial, Y) PROVE c \in Y
  <2>1. c \in B /\ InputKinds(specs, c) \subseteq ValueKinds(specs, initial, Y)
    BY <1>1, <1>3 DEF EnabledBy
  <2>2. ValueKinds(specs, initial, Y) \subseteq ValueKinds(specs, initial, F)
    BY DEF ValueKinds
  <2>3. InputKinds(many, c) \subseteq ValueKinds(many, initial, F)
    BY <1>2, <1>4, <2>1, <2>2
  <2>4. c \in F
    BY <1>1, <1>2, <2>1, <2>3 DEF EnabledBy
  <2> QED  BY <2>1, <2>4
<1>7. Y \in SUBSET B /\ EnabledBy(few, initial, Y) \subseteq Y
  BY <1>6
<1>8. ForwardReachable(few, initial) \subseteq Y
  BY <1>5, <1>7
<1> QED  BY <1>8 DEF F, few, many

\* The capabilities of a plan that have an offer among these.
OfferedIn(plan, offers) == {c \in DOMAIN plan.specifications : OffersOf(offers, c) # {}}

\* What these offers let a plan have, at once.
Had(plan, offers) ==
  ValueKinds(plan.specifications, plan.initial, Executable(plan, offers))

\* The capabilities that could make the goal of a plan.
BlockedRoots(plan) ==
  IF plan.goal.of = "output" THEN {plan.goal.capability} ELSE Producers(plan, plan.kind)

\* The blocked nodes have the producers of everything that they take and that
\* cannot be had.
LEMMA BlockedNodesAreClosed ==
  ASSUME NEW plan, IsFiniteSet(DOMAIN plan.specifications), NEW available,
         BlockedRoots(plan) \subseteq DOMAIN plan.specifications
  PROVE  LET nodes == Blockage(plan, available).nodes
         IN  /\ BlockedRoots(plan) \subseteq nodes
             /\ nodes \subseteq DOMAIN plan.specifications
             /\ \A c \in nodes : \A kind \in InputKinds(plan.specifications, c) \ Had(plan, available) :
                  Producers(plan, kind) \subseteq nodes
<1> DEFINE specs == plan.specifications
           n == Cardinality(DOMAIN specs)
           D == SUBSET DOMAIN specs
           had == ValueKinds(specs, plan.initial, Executable(plan, available))
           blocked(c) == InputKinds(specs, c) \ had
           roots == IF plan.goal.of = "output" THEN {plan.goal.capability}
                    ELSE Producers(plan, plan.kind)
           below(C) == C \cup UNION {Producers(plan, kind) : kind \in UNION {blocked(c) : c \in C}}
           step == [C \in D |-> below(C)]
           after == CHOOSE a : a = [i \in 0 .. n |-> IF i = 0 THEN roots ELSE below(a[i - 1])]
<1>1. Blockage(plan, available).nodes = after[n]
  BY DEF Blockage, Iterate
<1>2. roots = BlockedRoots(plan) /\ roots \in D /\ had = Had(plan, available)
  BY DEF BlockedRoots, Had
<1>3. n \in Nat /\ Cardinality(DOMAIN specs) <= n
  BY FS_CardinalityType
<1>4. \A C, c, kind, d : c \in C /\ kind \in blocked(c) /\ d \in Producers(plan, kind) => d \in below(C)
  OBVIOUS
<1>5. \A C : C \subseteq below(C)
  OBVIOUS
<1>6. \A C \in D : below(C) \in D
  BY DEF Producers
<1>7. \A X, Y \in D : X \subseteq Y => below(X) \subseteq below(Y)
  OBVIOUS
<1> HIDE DEF n, D, step, below, roots, had
<1>8. \A C \in D : step[C] = below(C) /\ step[C] \in D
  BY <1>6 DEF step
<1>9. PICK a : Iterates(a, D, step, roots, n) /\ \A i \in 0 .. n : a[i] \in D
  BY <1>2, <1>3, <1>8, IterationExists
<1>10. a = [i \in 0 .. n |-> IF i = 0 THEN roots ELSE below(a[i - 1])]
  <2>1. ASSUME NEW i \in 0 .. n PROVE a[i] = IF i = 0 THEN roots ELSE below(a[i - 1])
    <3>1. i # 0 => i \in 1 .. n /\ i - 1 \in 0 .. n
      BY <1>3
    <3> QED  BY <1>8, <1>9, <3>1 DEF Iterates
  <2> QED  BY <1>9, <2>1 DEF Iterates
<1>11. after = [i \in 0 .. n |-> IF i = 0 THEN roots ELSE below(after[i - 1])]
  BY <1>10
<1> HIDE DEF after
<1>12. Iterates(after, D, step, roots, n)
  <2>1. after = [i \in 0 .. n |-> after[i]]
    BY <1>11
  <2>2. after[0] = roots
    BY <1>3, <1>11
  <2>3. ASSUME NEW i \in 1 .. n, after[i - 1] \in D PROVE after[i] = step[after[i - 1]]
    <3>1. i \in 0 .. n /\ i # 0
      BY <1>3
    <3>2. after[i] = below(after[i - 1])
      BY <1>11, <3>1
    <3> QED  BY <1>8, <2>3, <3>2
  <2> QED  BY <2>1, <2>2, <2>3 DEF Iterates
<1>13. GrowsWithin(DOMAIN specs, step, roots)
  BY <1>2, <1>5, <1>7, <1>8 DEF GrowsWithin, D
<1>14. IsLeastClosed(after[n], DOMAIN specs, step, roots)
  BY <1>3, <1>12, <1>13, IterationSaturates DEF D
<1>15. after[n] \in D /\ roots \subseteq after[n] /\ below(after[n]) = after[n]
  BY <1>8, <1>14 DEF D, IsLeastClosed
<1>16. \A c \in after[n] : \A kind \in InputKinds(specs, c) \ Had(plan, available) :
         Producers(plan, kind) \subseteq after[n]
  BY <1>2, <1>4, <1>15
<1> QED  BY <1>1, <1>2, <1>15, <1>16 DEF D

\* A plan all of which can be reached, and which makes its goal.
ReachesGoal(plan) ==
  /\ IsFiniteSet(DOMAIN plan.specifications)
  /\ ForwardReachable(plan.specifications, plan.initial) = DOMAIN plan.specifications
  /\ IF plan.goal.of = "output" THEN plan.goal.capability \in DOMAIN plan.specifications
     ELSE plan.kind \in plan.initial \/ Producers(plan, plan.kind) # {}

\* When every blocked node has an offer, nothing blocks the goal.
LEMMA OffersUnblock ==
  ASSUME NEW plan, ReachesGoal(plan), NEW available, NEW offers, available \subseteq offers,
         \A c \in Blockage(plan, available).nodes : OffersOf(offers, c) # {}
  PROVE  ~ TargetBlocked(plan, offers)
<1> DEFINE specs == plan.specifications
           initial == plan.initial
           nodes == Blockage(plan, available).nodes
           before == OfferedIn(plan, available)
           then == OfferedIn(plan, offers)
           E == Executable(plan, available)
           G == Executable(plan, offers)
           Y == {c \in DOMAIN specs : c \in nodes => c \in G}
<1>1. /\ E = ForwardReachable(Restrict(specs, before), initial)
      /\ G = ForwardReachable(Restrict(specs, then), initial)
  BY DEF Executable, OfferedIn
<1>2. before \subseteq then /\ then \subseteq DOMAIN specs /\ IsFiniteSet(DOMAIN specs)
  BY DEF OfferedIn, OffersOf, ReachesGoal
<1>3. E \subseteq G
  BY <1>1, <1>2, MoreReachesMore
<1>4. /\ BlockedRoots(plan) \subseteq DOMAIN specs
      /\ plan.goal.of = "output" \/ plan.kind \in initial \/ Producers(plan, plan.kind) # {}
  BY DEF BlockedRoots, ReachesGoal, Producers
<1>5. /\ BlockedRoots(plan) \subseteq nodes
      /\ nodes \subseteq DOMAIN specs
      /\ \A c \in nodes : \A kind \in InputKinds(specs, c) \ Had(plan, available) :
           Producers(plan, kind) \subseteq nodes
  BY <1>2, <1>4, BlockedNodesAreClosed
<1>6. nodes \subseteq then
  BY <1>5 DEF OfferedIn
<1>7. Had(plan, available) = ValueKinds(specs, initial, E)
  BY DEF Had
<1>8. /\ G \subseteq then
      /\ EnabledBy(Restrict(specs, then), initial, G) = G
  BY <1>1, <1>2, FS_Subset, RestrictedSpecs, ForwardIsLeast
<1>9. /\ DOMAIN Restrict(specs, then) = then
      /\ \A c \in then : InputKinds(Restrict(specs, then), c) = InputKinds(specs, c)
      /\ ValueKinds(Restrict(specs, then), initial, G) = ValueKinds(specs, initial, G)
  BY <1>8, RestrictedSpecs
<1>10. \A Z \in SUBSET DOMAIN specs : EnabledBy(specs, initial, Z) \subseteq Z => DOMAIN specs \subseteq Z
  BY <1>2, ForwardIsLeast DEF ReachesGoal
<1>11. ~ TargetBlocked(plan, offers) <=>
         IF plan.goal.of = "output" THEN plan.goal.capability \in G
         ELSE plan.kind \in ValueKinds(specs, initial, G)
  BY DEF TargetBlocked
<1> HIDE DEF nodes, before, then, E, G
<1>12. ASSUME NEW c \in EnabledBy(specs, initial, Y) PROVE c \in Y
  <2>1. c \in DOMAIN specs /\ InputKinds(specs, c) \subseteq ValueKinds(specs, initial, Y)
    BY DEF EnabledBy
  <2>2. ASSUME c \in nodes PROVE c \in G
    <3>1. ASSUME NEW kind \in InputKinds(specs, c) PROVE kind \in ValueKinds(specs, initial, G)
      <4>1. CASE kind \in ValueKinds(specs, initial, E)
        BY <1>3, <4>1, ValueKindsAre
      <4>2. CASE kind \notin ValueKinds(specs, initial, E)
        <5>1. kind \notin initial /\ Producers(plan, kind) \subseteq nodes
          BY <1>5, <1>7, <2>2, <4>2, ValueKindsAre
        <5>2. PICK d \in Y : kind \in OutputKinds(specs, d)
          BY <2>1, <5>1, ValueKindsAre
        <5>3. d \in nodes
          BY <5>1, <5>2 DEF Producers
        <5> QED  BY <5>2, <5>3, ValueKindsAre
      <4> QED  BY <4>1, <4>2
    <3>2. c \in then
      BY <1>6, <2>2
    <3>3. InputKinds(Restrict(specs, then), c) \subseteq ValueKinds(Restrict(specs, then), initial, G)
      BY <1>9, <3>1, <3>2
    <3>4. c \in EnabledBy(Restrict(specs, then), initial, G)
      BY <1>9, <3>2, <3>3 DEF EnabledBy
    <3> QED  BY <1>8, <3>4
  <2> QED  BY <2>1, <2>2
<1>13. Y \in SUBSET DOMAIN specs /\ EnabledBy(specs, initial, Y) \subseteq Y
  BY <1>12
<1>14. DOMAIN specs \subseteq Y
  BY <1>10, <1>13
<1>15. nodes \subseteq G
  BY <1>5, <1>14
<1>16. CASE plan.goal.of = "output"
  BY <1>5, <1>11, <1>15, <1>16 DEF BlockedRoots
<1>17. CASE plan.goal.of # "output"
  <2>1. CASE plan.kind \in initial
    BY <1>11, <1>17, <2>1, ValueKindsAre
  <2>2. CASE plan.kind \notin initial
    <3>1. PICK d : d \in Producers(plan, plan.kind)
      BY <1>4, <1>17, <2>2
    <3>2. d \in G /\ plan.kind \in OutputKinds(specs, d)
      BY <1>5, <1>15, <1>17, <3>1 DEF BlockedRoots, Producers
    <3> QED  BY <1>11, <1>17, <3>2, ValueKindsAre
  <2> QED  BY <2>1, <2>2
<1> QED  BY <1>16, <1>17

-----------------------------------------------------------------------------
(* Which routes there are.                                                  *)

Offered(specs, offers) == {c \in DOMAIN specs : OffersOf(offers, c) # {}}

\* The outputs of this kind, one by one.
LEMMA OutputsOfAre ==
  ASSUME NEW specs, NEW C, NEW kind, NEW x
  PROVE  x \in OutputsOf(specs, C, kind) <=>
           \E c \in C : \E port \in DOMAIN specs[c].outputs :
             specs[c].outputs[port] = kind /\ x = OutputOf(c, port)
<1> DEFINE all == UNION {{c} \X DOMAIN specs[c].outputs : c \in C}
           some == {o \in all : specs[o[1]].outputs[o[2]] = kind}
<1>1. ASSUME NEW c \in C, NEW port \in DOMAIN specs[c].outputs, specs[c].outputs[port] = kind
      PROVE  <<c, port>> \in some /\ <<c, port>>[1] = c /\ <<c, port>>[2] = port
  <2>1. <<c, port>> \in {c} \X DOMAIN specs[c].outputs
    OBVIOUS
  <2>2. <<c, port>> \in all
    BY <2>1
  <2> QED  BY <1>1, <2>2
<1>2. ASSUME NEW o \in some
      PROVE  o[1] \in C /\ o[2] \in DOMAIN specs[o[1]].outputs /\ specs[o[1]].outputs[o[2]] = kind
  <2>1. PICK c \in C : o \in {c} \X DOMAIN specs[c].outputs
    OBVIOUS
  <2> QED  BY <2>1
<1>3. OutputsOf(specs, C, kind) = {OutputOf(o[1], o[2]) : o \in some}
  BY DEF OutputsOf
<1> HIDE DEF some
<1>4. ASSUME NEW c \in C, NEW port \in DOMAIN specs[c].outputs, specs[c].outputs[port] = kind,
             x = OutputOf(c, port)
      PROVE  x \in {OutputOf(o[1], o[2]) : o \in some}
  <2>1. <<c, port>> \in some /\ <<c, port>>[1] = c /\ <<c, port>>[2] = port
    BY <1>1, <1>4
  <2> QED  BY <1>4, <2>1
<1> QED  BY <1>2, <1>3, <1>4

\* What the outputs among some sources are of.
LEMMA DependsOnIs ==
  ASSUME NEW inputs, NEW c
  PROVE  c \in DependsOn(inputs) <=>
           \E p \in DOMAIN inputs : inputs[p].source = "output" /\ inputs[p].capability = c
<1> DEFINE outputs == {s \in Range(inputs) : s.source = "output"}
<1>1. \A s : s \in outputs <=> \E p \in DOMAIN inputs : inputs[p] = s /\ s.source = "output"
  BY DEF Range
<1>2. DependsOn(inputs) = {s.capability : s \in outputs}
  BY DEF DependsOn
<1> HIDE DEF outputs
<1> QED  BY <1>1, <1>2

\* Where a value comes from, as the two kinds of source record it.
LEMMA SourcesAre ==
  /\ \A kind : Initially(kind).source = "initial" /\ Initially(kind).kind = kind
  /\ \A c, port : /\ OutputOf(c, port).source = "output"
                  /\ OutputOf(c, port).capability = c
                  /\ OutputOf(c, port).port = port
BY DEF Initially, OutputOf

\* These steps are wired among themselves, and well founded.
WiredAmong(steps, specs, initial, C) ==
  /\ steps = [c \in C |-> steps[c]]
  /\ \A c \in C : steps[c] \in WiringsOf(specs, initial, C, c)
  /\ WellFounded(steps)

\* What a step depends on is wired too.
LEMMA WiringsStayAmong ==
  ASSUME NEW specs, NEW initial, NEW C, NEW c, NEW w \in WiringsOf(specs, initial, C, c)
  PROVE  DependsOn(w) \subseteq C
<1> SUFFICES ASSUME NEW d \in DependsOn(w) PROVE d \in C
  OBVIOUS
<1>1. PICK p \in DOMAIN w : w[p].source = "output" /\ w[p].capability = d
  BY DependsOnIs
<1>2. w[p] \in SourcesOf(specs, initial, C, specs[c].inputs[p])
  BY DEF WiringsOf
<1>3. w[p] \in OutputsOf(specs, C, specs[c].inputs[p])
  BY <1>1, <1>2, SourcesAre DEF SourcesOf
<1> QED  BY <1>1, <1>3, OutputsOfAre, SourcesAre

\* A capability all of whose inputs can be had has a wiring.
LEMMA WiringExists ==
  ASSUME NEW specs, NEW initial, NEW C, NEW c,
         InputKinds(specs, c) \subseteq ValueKinds(specs, initial, C)
  PROVE  WiringsOf(specs, initial, C, c) # {}
<1> DEFINE ports == DOMAIN specs[c].inputs
           sources(p) == SourcesOf(specs, initial, C, specs[c].inputs[p])
           w == [p \in ports |-> CHOOSE s \in sources(p) : TRUE]
<1>1. ASSUME NEW p \in ports PROVE sources(p) # {}
  <2>1. specs[c].inputs[p] \in ValueKinds(specs, initial, C)
    BY DEF InputKinds, Range
  <2>2. CASE specs[c].inputs[p] \in initial
    BY <2>2 DEF SourcesOf
  <2>3. CASE specs[c].inputs[p] \notin initial
    <3>1. PICK d \in C : specs[c].inputs[p] \in OutputKinds(specs, d)
      BY <2>1, <2>3, ValueKindsAre
    <3>2. PICK q \in DOMAIN specs[d].outputs : specs[d].outputs[q] = specs[c].inputs[p]
      BY <3>1 DEF OutputKinds, Range
    <3>3. OutputOf(d, q) \in OutputsOf(specs, C, specs[c].inputs[p])
      BY <3>2, OutputsOfAre
    <3> QED  BY <2>3, <3>3 DEF SourcesOf
  <2> QED  BY <2>2, <2>3
<1>2. WiringsOf(specs, initial, C, c) =
        {v \in [ports -> UNION {sources(p) : p \in ports}] : \A p \in ports : v[p] \in sources(p)}
  BY DEF WiringsOf
<1> HIDE DEF sources
<1>3. \A p \in ports : w[p] \in sources(p)
  BY <1>1
<1>4. w \in [ports -> UNION {sources(p) : p \in ports}]
  BY <1>3
<1>5. w \in WiringsOf(specs, initial, C, c)
  BY <1>2, <1>3, <1>4
<1> QED  BY <1>5

\* A wiring among some capabilities is one among more.
LEMMA WiringsAmongMore ==
  ASSUME NEW specs, NEW initial, NEW C, NEW D, C \subseteq D, NEW c,
         NEW w \in WiringsOf(specs, initial, C, c)
  PROVE  w \in WiringsOf(specs, initial, D, c)
<1> DEFINE ports == DOMAIN specs[c].inputs
           few(p) == SourcesOf(specs, initial, C, specs[c].inputs[p])
           many(p) == SourcesOf(specs, initial, D, specs[c].inputs[p])
<1>1. ASSUME NEW p \in ports PROVE few(p) \subseteq many(p)
  <2>1. OutputsOf(specs, C, specs[c].inputs[p]) \subseteq OutputsOf(specs, D, specs[c].inputs[p])
    BY OutputsOfAre
  <2> QED  BY <2>1 DEF SourcesOf
<1>2. /\ WiringsOf(specs, initial, C, c) =
           {v \in [ports -> UNION {few(p) : p \in ports}] : \A p \in ports : v[p] \in few(p)}
      /\ WiringsOf(specs, initial, D, c) =
           {v \in [ports -> UNION {many(p) : p \in ports}] : \A p \in ports : v[p] \in many(p)}
  BY DEF WiringsOf
<1> HIDE DEF few, many
<1>3. w \in [ports -> UNION {many(p) : p \in ports}] /\ \A p \in ports : w[p] \in many(p)
  <2>1. w \in [ports -> UNION {few(p) : p \in ports}] /\ \A p \in ports : w[p] \in few(p)
    BY <1>2
  <2>2. UNION {few(p) : p \in ports} \subseteq UNION {many(p) : p \in ports}
    BY <1>1
  <2> QED  BY <1>1, <2>1, <2>2
<1> QED  BY <1>2, <1>3

\* One more capability, wired to those there are, closes no circle.
LEMMA WiringExtends ==
  ASSUME NEW specs, NEW initial, NEW C, NEW steps, WiredAmong(steps, specs, initial, C),
         NEW c, c \notin C, NEW w \in WiringsOf(specs, initial, C, c)
  PROVE  WiredAmong([x \in C \cup {c} |-> IF x = c THEN w ELSE steps[x]],
                    specs, initial, C \cup {c})
<1> DEFINE D == C \cup {c}
           more == [x \in D |-> IF x = c THEN w ELSE steps[x]]
<1>1. /\ DOMAIN more = D
      /\ more = [x \in D |-> more[x]]
      /\ more[c] = w
      /\ \A x \in C : more[x] = steps[x]
  OBVIOUS
<1>2. /\ DOMAIN steps = C
      /\ \A x \in C : steps[x] \in WiringsOf(specs, initial, C, x)
      /\ WellFounded(steps)
  BY DEF WiredAmong
<1> HIDE DEF more
<1>3. \A x \in D : more[x] \in WiringsOf(specs, initial, D, x)
  BY <1>1, <1>2, WiringsAmongMore
<1>4. WellFounded(more)
  <2> SUFFICES ASSUME NEW S \in SUBSET D, S # {}
               PROVE  \E x \in S : DependsOn(more[x]) \cap S = {}
    BY <1>1 DEF WellFounded
  <2>1. CASE S \cap C = {}
    <3>1. c \in S /\ S = {c}
      BY <2>1
    <3>2. DependsOn(more[c]) \subseteq C
      BY <1>1, WiringsStayAmong
    <3> QED  BY <2>1, <3>1, <3>2
  <2>2. CASE S \cap C # {}
    <3>1. S \cap C \in (SUBSET DOMAIN steps) \ {{}}
      BY <1>2, <2>2
    <3>2. PICK x \in S \cap C : DependsOn(steps[x]) \cap (S \cap C) = {}
      BY <1>2, <3>1 DEF WellFounded
    <3>3. DependsOn(steps[x]) \subseteq C
      BY <1>2, <3>2, WiringsStayAmong
    <3> QED  BY <1>1, <3>2, <3>3
  <2> QED  BY <2>1, <2>2
<1> QED  BY <1>1, <1>3, <1>4 DEF WiredAmong, more

\* Everything that can be reached can be wired at once: a largest set that is
\* wired has all that it enables.
LEMMA ReachableIsWired ==
  ASSUME NEW specs, IsFiniteSet(DOMAIN specs), NEW initial
  PROVE  \E steps : WiredAmong(steps, specs, initial, ForwardReachable(specs, initial))
<1> DEFINE F == ForwardReachable(specs, initial)
           wired == {C \in SUBSET F : \E steps : WiredAmong(steps, specs, initial, C)}
           rest == {Cardinality(F) - Cardinality(C) : C \in wired}
<1>1. /\ F \subseteq DOMAIN specs
      /\ EnabledBy(specs, initial, F) = F
      /\ \A Y \in SUBSET DOMAIN specs : EnabledBy(specs, initial, Y) \subseteq Y => F \subseteq Y
  BY ForwardIsLeast
<1>2. IsFiniteSet(F) /\ Cardinality(F) \in Nat
  BY <1>1, FS_Subset, FS_CardinalityType
<1> HIDE DEF F
<1>3. \A C \in SUBSET F : /\ IsFiniteSet(C) /\ Cardinality(C) \in Nat
                          /\ Cardinality(C) <= Cardinality(F)
  BY <1>2, FS_Subset, FS_CardinalityType
<1>4. rest \in SUBSET Nat
  BY <1>2, <1>3
<1>5. rest # {}
  <2> DEFINE none == [c \in {} |-> c]
  <2>1. DOMAIN none = {} /\ none = [c \in {} |-> none[c]]
    OBVIOUS
  <2>2. WiredAmong(none, specs, initial, {})
    BY <2>1 DEF WiredAmong, WellFounded
  <2> HIDE DEF none
  <2>3. {} \in wired
    BY <2>2
  <2> QED  BY <2>3
<1>6. PICK C \in wired : \A B \in wired : Cardinality(F) - Cardinality(C) <= Cardinality(F) - Cardinality(B)
  <2>1. \E k \in rest : \A m \in rest : k <= m
    <3> HIDE DEF rest
    <3> QED  BY <1>4, <1>5, LeastNumber
  <2> QED  BY <2>1
<1>7. PICK steps : WiredAmong(steps, specs, initial, C)
  BY <1>6
<1>8. ASSUME NEW c \in EnabledBy(specs, initial, C) PROVE c \in C
  <2> SUFFICES ASSUME c \notin C PROVE FALSE
    OBVIOUS
  <2>1. c \in DOMAIN specs /\ InputKinds(specs, c) \subseteq ValueKinds(specs, initial, C)
    BY DEF EnabledBy
  <2>2. ValueKinds(specs, initial, C) \subseteq ValueKinds(specs, initial, F)
    BY <1>6 DEF ValueKinds
  <2>3. c \in F
    BY <1>1, <2>1, <2>2 DEF EnabledBy
  <2>4. PICK w : w \in WiringsOf(specs, initial, C, c)
    BY <2>1, WiringExists
  <2>5. \E more : WiredAmong(more, specs, initial, C \cup {c})
    BY <1>7, <2>4, WiringExtends
  <2>6. C \cup {c} \in wired
    BY <1>6, <2>3, <2>5
  <2>7. Cardinality(C \cup {c}) = Cardinality(C) + 1
    BY <1>3, <1>6, FS_AddElement
  <2>8. Cardinality(F) - Cardinality(C) <= Cardinality(F) - (Cardinality(C) + 1)
    BY <1>6, <2>6, <2>7
  <2> QED  BY <1>2, <1>3, <1>6, <2>8
<1>9. C = F
  <2>1. C \in SUBSET DOMAIN specs /\ EnabledBy(specs, initial, C) \subseteq C
    BY <1>1, <1>6, <1>8
  <2> QED  BY <1>1, <1>6, <2>1
<1> QED  BY <1>7, <1>9 DEF F

\* A set of steps that has what its members depend on.
Complete(steps, T) == \A x \in T : DependsOn(steps[x]) \subseteq T

\* A step with the least that it needs makes a route.
LEMMA RouteFromWiring ==
  ASSUME NEW specs, NEW offers, NEW initial, NEW kind, kind \notin initial,
         NEW C, C \subseteq Offered(specs, offers),
         NEW steps, WiredAmong(steps, specs, initial, C),
         NEW c \in C, NEW port \in DOMAIN specs[c].outputs, specs[c].outputs[port] = kind
  PROVE  AllRoutes(specs, offers, initial, KindGoal(kind)) # {}
<1> DEFINE target == OutputOf(c, port)
           N == {x \in C : \A T \in SUBSET C : c \in T /\ Complete(steps, T) => x \in T}
           wiring == [x \in N |-> steps[x]]
           pick == [x \in N |-> CHOOSE offer \in OffersOf(offers, x) : TRUE]
<1>1. /\ DOMAIN steps = C
      /\ \A x \in C : steps[x] \in WiringsOf(specs, initial, C, x)
      /\ WellFounded(steps)
  BY DEF WiredAmong
<1>2. \A x \in C : DependsOn(steps[x]) \subseteq C
  BY <1>1, WiringsStayAmong
<1>3. c \in N /\ N \subseteq C
  OBVIOUS
<1>4. Complete(steps, N)
  <2> SUFFICES ASSUME NEW x \in N, NEW d \in DependsOn(steps[x]),
                      NEW T \in SUBSET C, c \in T, Complete(steps, T)
               PROVE  d \in T
    BY <1>2 DEF Complete
  <2> QED  BY DEF Complete
<1>5. \A T \in SUBSET N : c \in T /\ Complete(steps, T) => T = N
  OBVIOUS
<1>6. \A x \in N : wiring[x] = steps[x]
  OBVIOUS
<1>7. DOMAIN wiring = N /\ DOMAIN pick = N
  OBVIOUS
<1>8. \A x \in N : pick[x] \in offers /\ pick[x][1] = x
  <2> SUFFICES ASSUME NEW x \in N PROVE pick[x] \in OffersOf(offers, x)
    BY DEF OffersOf
  <2>1. OffersOf(offers, x) # {}
    BY <1>3 DEF Offered
  <2> QED  BY <2>1
<1>9. N \in SUBSET Offered(specs, offers)
  BY <1>3
<1>101. pick = [x \in N |-> pick[x]] /\ wiring = [x \in N |-> wiring[x]]
  OBVIOUS
<1> HIDE DEF N, wiring, pick
<1>10. \A x \in N : wiring[x] \in WiringsOf(specs, initial, N, x)
  <2> SUFFICES ASSUME NEW x \in N PROVE steps[x] \in WiringsOf(specs, initial, N, x)
    BY <1>6
  <2> DEFINE ports == DOMAIN specs[x].inputs
             many(p) == SourcesOf(specs, initial, C, specs[x].inputs[p])
             few(p) == SourcesOf(specs, initial, N, specs[x].inputs[p])
             w == steps[x]
  <2>1. w \in {v \in [ports -> UNION {many(p) : p \in ports}] : \A p \in ports : v[p] \in many(p)}
    BY <1>1, <1>3 DEF WiringsOf
  <2>2. w = [p \in ports |-> w[p]] /\ DOMAIN w = ports /\ \A p \in ports : w[p] \in many(p)
    <3> HIDE DEF many
    <3> QED  BY <2>1
  <2> HIDE DEF w
  <2>3. ASSUME NEW p \in ports PROVE w[p] \in few(p)
    <3>1. CASE specs[x].inputs[p] \in initial
      BY <2>2, <3>1 DEF SourcesOf
    <3>2. CASE specs[x].inputs[p] \notin initial
      <4>1. w[p] \in OutputsOf(specs, C, specs[x].inputs[p])
        BY <2>2, <3>2 DEF SourcesOf
      <4>2. PICK d \in C : \E q \in DOMAIN specs[d].outputs :
              specs[d].outputs[q] = specs[x].inputs[p] /\ w[p] = OutputOf(d, q)
        BY <4>1, OutputsOfAre
      <4>3. d \in DependsOn(w)
        BY <2>2, <4>2, DependsOnIs, SourcesAre
      <4>4. d \in N
        BY <1>4, <4>3 DEF Complete, w
      <4>5. w[p] \in OutputsOf(specs, N, specs[x].inputs[p])
        BY <4>2, <4>4, OutputsOfAre
      <4> QED  BY <3>2, <4>5 DEF SourcesOf
    <3> QED  BY <3>1, <3>2
  <2>4. w \in {v \in [ports -> UNION {few(p) : p \in ports}] : \A p \in ports : v[p] \in few(p)}
    <3> HIDE DEF few
    <3>1. w \in [ports -> UNION {few(p) : p \in ports}]
      BY <2>2, <2>3
    <3> QED  BY <2>3, <3>1
  <2> QED  BY <2>4 DEF WiringsOf, w
<1>11. WellFounded(wiring)
  <2> SUFFICES ASSUME NEW S \in SUBSET N, S # {}
               PROVE  \E x \in S : DependsOn(wiring[x]) \cap S = {}
    BY <1>7 DEF WellFounded
  <2>1. S \in (SUBSET DOMAIN steps) \ {{}}
    BY <1>1, <1>3
  <2> QED  BY <1>1, <1>6, <2>1 DEF WellFounded
<1>12. DependsOn(<<target>>) = {c}
  BY DependsOnIs, SourcesAre
<1>13. NothingUnused(target, wiring)
  <2> SUFFICES ASSUME NEW S \in SUBSET N,
                      DependsOn(<<target>>) \cup UNION {DependsOn(wiring[x]) : x \in S} \subseteq S
               PROVE  S = N
    BY <1>7 DEF NothingUnused
  <2>1. c \in S
    BY <1>12
  <2>2. Complete(steps, S)
    BY <1>6 DEF Complete
  <2> QED  BY <1>5, <2>1, <2>2
<1>14. target \in Targets(specs, initial, N, KindGoal(kind))
  <2>1. target \in OutputsOf(specs, N, kind)
    BY <1>3, OutputsOfAre
  <2>2. KindGoal(kind).of = "kind" /\ KindGoal(kind).kind = kind
    BY DEF KindGoal
  <2> QED  BY <2>1, <2>2 DEF Targets, SourcesOf
<1> DEFINE wirings == UNION {WiringsOf(specs, initial, N, x) : x \in N}
           every == {f \in [N -> wirings] : \A x \in N : f[x] \in WiringsOf(specs, initial, N, x)}
           picks == {f \in [N -> offers] : \A x \in N : f[x][1] = x}
           route == <<target, wiring, pick>>
           routes(B) ==
             LET ws == UNION {WiringsOf(specs, initial, B, x) : x \in B}
                 steps_ == {f \in [B -> ws] : \A x \in B : f[x] \in WiringsOf(specs, initial, B, x)}
                 picks_ == {f \in [B -> offers] : \A x \in B : f[x][1] = x}
             IN  {[target |-> r[1], wiring |-> r[2], offers |-> r[3]] :
                    r \in {r \in Targets(specs, initial, B, KindGoal(kind)) \X steps_ \X picks_ :
                             WellFounded(r[2]) /\ NothingUnused(r[1], r[2])}}
<1>15. wiring \in every
  <2>1. \A x \in N : wiring[x] \in wirings
    BY <1>10
  <2> HIDE DEF wirings
  <2>2. wiring \in [N -> wirings]
    BY <1>101, <2>1
  <2> QED  BY <1>10, <2>2
<1>16. pick \in picks
  BY <1>8, <1>101
<1> DEFINE whole == {r \in Targets(specs, initial, N, KindGoal(kind)) \X every \X picks :
                       WellFounded(r[2]) /\ NothingUnused(r[1], r[2])}
<1>17. route \in whole
  <2> HIDE DEF every, picks, target
  <2> QED  BY <1>11, <1>13, <1>14, <1>15, <1>16
<1>18. routes(N) # {}
  <2>1. routes(N) = {[target |-> r[1], wiring |-> r[2], offers |-> r[3]] : r \in whole}
    OBVIOUS
  <2> HIDE DEF whole, routes, route
  <2> QED  BY <1>17, <2>1
<1>19. AllRoutes(specs, offers, initial, KindGoal(kind)) = UNION {routes(B) : B \in SUBSET Offered(specs, offers)}
  BY DEF AllRoutes, Offered
<1> HIDE DEF routes
<1> QED  BY <1>9, <1>18, <1>19

\* What a route is made of, apart from the offers it picks.
LEMMA RouteIsWired ==
  ASSUME NEW specs, NEW offers, NEW initial, NEW kind,
         AllRoutes(specs, offers, initial, KindGoal(kind)) # {}
  PROVE  \E C \in SUBSET Offered(specs, offers) : \E steps :
           WiredAmong(steps, specs, initial, C) /\ SourcesOf(specs, initial, C, kind) # {}
<1> DEFINE routes(B) ==
             LET wirings == UNION {WiringsOf(specs, initial, B, x) : x \in B}
                 steps == {f \in [B -> wirings] : \A x \in B : f[x] \in WiringsOf(specs, initial, B, x)}
                 picks == {f \in [B -> offers] : \A x \in B : f[x][1] = x}
             IN  {[target |-> r[1], wiring |-> r[2], offers |-> r[3]] :
                    r \in {r \in Targets(specs, initial, B, KindGoal(kind)) \X steps \X picks :
                             WellFounded(r[2]) /\ NothingUnused(r[1], r[2])}}
<1>1. AllRoutes(specs, offers, initial, KindGoal(kind)) = UNION {routes(B) : B \in SUBSET Offered(specs, offers)}
  BY DEF AllRoutes, Offered
<1>2. PICK C \in SUBSET Offered(specs, offers) : routes(C) # {}
  <2> HIDE DEF routes
  <2> QED  BY <1>1
<1> DEFINE wirings == UNION {WiringsOf(specs, initial, C, x) : x \in C}
           every == {f \in [C -> wirings] : \A x \in C : f[x] \in WiringsOf(specs, initial, C, x)}
           picks == {f \in [C -> offers] : \A x \in C : f[x][1] = x}
           whole == {r \in Targets(specs, initial, C, KindGoal(kind)) \X every \X picks :
                       WellFounded(r[2]) /\ NothingUnused(r[1], r[2])}
<1>3. routes(C) = {[target |-> r[1], wiring |-> r[2], offers |-> r[3]] : r \in whole}
  OBVIOUS
<1>4. PICK r : r \in whole
  <2> HIDE DEF routes, whole
  <2> QED  BY <1>2, <1>3
<1>5. /\ r[1] \in Targets(specs, initial, C, KindGoal(kind))
      /\ r[2] \in every
      /\ WellFounded(r[2])
  <2> HIDE DEF every, picks
  <2> QED  BY <1>4
<1>6. r[2] = [x \in C |-> r[2][x]] /\ \A x \in C : r[2][x] \in WiringsOf(specs, initial, C, x)
  <2> HIDE DEF wirings
  <2> QED  BY <1>5
<1>7. WiredAmong(r[2], specs, initial, C)
  BY <1>5, <1>6 DEF WiredAmong
<1>8. SourcesOf(specs, initial, C, kind) # {}
  BY <1>5 DEF Targets, KindGoal
<1> QED  BY <1>7, <1>8

\* What is wired can be reached: of what could not, a first one would depend
\* only on what can.
LEMMA WiredIsReached ==
  ASSUME NEW specs, IsFiniteSet(DOMAIN specs), NEW initial, NEW C, C \subseteq DOMAIN specs,
         NEW steps, WiredAmong(steps, specs, initial, C)
  PROVE  C \subseteq ForwardReachable(specs, initial)
<1> DEFINE F == ForwardReachable(specs, initial)
           S == C \ F
<1>1. EnabledBy(specs, initial, F) = F
  BY ForwardIsLeast
<1>2. /\ DOMAIN steps = C
      /\ \A x \in C : steps[x] \in WiringsOf(specs, initial, C, x)
      /\ WellFounded(steps)
  BY DEF WiredAmong
<1> HIDE DEF F
<1>3. SUFFICES ASSUME S # {} PROVE FALSE
  BY DEF F
<1>4. PICK c \in S : DependsOn(steps[c]) \cap S = {}
  <2>1. S \in (SUBSET DOMAIN steps) \ {{}}
    BY <1>2, <1>3
  <2> QED  BY <1>2, <2>1 DEF WellFounded
<1> DEFINE w == steps[c]
           ports == DOMAIN specs[c].inputs
           sources(p) == SourcesOf(specs, initial, C, specs[c].inputs[p])
<1>5. DOMAIN w = ports /\ \A p \in ports : w[p] \in sources(p)
  <2>1. w \in {v \in [ports -> UNION {sources(p) : p \in ports}] : \A p \in ports : v[p] \in sources(p)}
    BY <1>2, <1>4 DEF WiringsOf
  <2> HIDE DEF sources, w
  <2> QED  BY <2>1
<1> HIDE DEF w
<1>6. ASSUME NEW kind \in InputKinds(specs, c) PROVE kind \in ValueKinds(specs, initial, F)
  <2>1. PICK p \in ports : specs[c].inputs[p] = kind
    BY DEF InputKinds, Range
  <2>2. CASE kind \in initial
    BY <2>2, ValueKindsAre
  <2>3. CASE kind \notin initial
    <3>1. w[p] \in OutputsOf(specs, C, kind)
      BY <1>5, <2>1, <2>3 DEF SourcesOf
    <3>2. PICK d \in C : \E q \in DOMAIN specs[d].outputs : specs[d].outputs[q] = kind /\ w[p] = OutputOf(d, q)
      BY <3>1, OutputsOfAre
    <3>3. d \in DependsOn(w)
      BY <1>5, <2>1, <3>2, DependsOnIs, SourcesAre
    <3>4. d \in F
      BY <1>4, <3>2, <3>3 DEF w
    <3>5. kind \in OutputKinds(specs, d)
      BY <3>2 DEF OutputKinds, Range
    <3> QED  BY <3>4, <3>5, ValueKindsAre
  <2> QED  BY <2>2, <2>3
<1>7. c \in F
  BY <1>1, <1>4, <1>6 DEF EnabledBy
<1> QED  BY <1>4, <1>7

\* The reference depends on no more of an inventory than what is offered.
LEMMA WiringsOfRestricted ==
  ASSUME NEW specs, NEW initial, NEW C, NEW B, B \subseteq C
  PROVE  /\ \A c \in C : WiringsOf(Restrict(specs, C), initial, B, c) = WiringsOf(specs, initial, B, c)
         /\ \A kind : SourcesOf(Restrict(specs, C), initial, B, kind) = SourcesOf(specs, initial, B, kind)
<1> DEFINE part == Restrict(specs, C)
<1>1. \A c \in C : part[c] = specs[c]
  BY DEF Restrict
<1> HIDE DEF part
<1>2. ASSUME NEW kind PROVE OutputsOf(part, B, kind) = OutputsOf(specs, B, kind)
  <2>1. \A x : x \in OutputsOf(part, B, kind) <=> x \in OutputsOf(specs, B, kind)
    BY <1>1, OutputsOfAre
  <2> QED  BY <2>1
<1>3. \A kind : SourcesOf(part, initial, B, kind) = SourcesOf(specs, initial, B, kind)
  BY <1>2 DEF SourcesOf
<1>4. ASSUME NEW c \in C PROVE WiringsOf(part, initial, B, c) = WiringsOf(specs, initial, B, c)
  <2> DEFINE ports == DOMAIN specs[c].inputs
             here(p) == SourcesOf(part, initial, B, specs[c].inputs[p])
             there(p) == SourcesOf(specs, initial, B, specs[c].inputs[p])
  <2>1. /\ WiringsOf(part, initial, B, c) =
             {v \in [ports -> UNION {here(p) : p \in ports}] : \A p \in ports : v[p] \in here(p)}
        /\ WiringsOf(specs, initial, B, c) =
             {v \in [ports -> UNION {there(p) : p \in ports}] : \A p \in ports : v[p] \in there(p)}
    BY <1>1 DEF WiringsOf
  <2>2. \A p : here(p) = there(p)
    BY <1>3
  <2> HIDE DEF here, there
  <2>3. {here(p) : p \in ports} = {there(p) : p \in ports}
    BY <2>2
  <2> QED  BY <2>1, <2>2, <2>3
<1> QED  BY <1>3, <1>4 DEF part

\* There is a route to a kind exactly when the offered capabilities can reach it.
LEMMA RoutesReachTheKind ==
  ASSUME NEW specs, IsFiniteSet(DOMAIN specs), NEW offers, NEW initial, NEW kind, kind \notin initial
  PROVE  AllRoutes(specs, offers, initial, KindGoal(kind)) # {} <=>
           \E c \in ForwardReachable(Restrict(specs, Offered(specs, offers)), initial) :
             kind \in OutputKinds(specs, c)
<1> DEFINE O == Offered(specs, offers)
           part == Restrict(specs, O)
           F == ForwardReachable(part, initial)
<1>1. IsFiniteSet(O) /\ O \subseteq DOMAIN specs
  BY FS_Subset DEF Offered
<1>2. DOMAIN part = O /\ F \subseteq O
  BY <1>1, RestrictedSpecs, ForwardIsLeast
<1>3. ASSUME NEW B \in SUBSET O, NEW steps
      PROVE  WiredAmong(steps, part, initial, B) <=> WiredAmong(steps, specs, initial, B)
  <2>1. \A c \in B : WiringsOf(part, initial, B, c) = WiringsOf(specs, initial, B, c)
    BY WiringsOfRestricted
  <2> QED  BY <2>1 DEF WiredAmong
<1>4. ASSUME AllRoutes(specs, offers, initial, KindGoal(kind)) # {}
      PROVE  \E c \in F : kind \in OutputKinds(specs, c)
  <2>1. PICK C \in SUBSET O : \E steps :
          WiredAmong(steps, specs, initial, C) /\ SourcesOf(specs, initial, C, kind) # {}
    BY <1>4, RouteIsWired
  <2>2. PICK steps : WiredAmong(steps, specs, initial, C) /\ SourcesOf(specs, initial, C, kind) # {}
    BY <2>1
  <2>3. WiredAmong(steps, part, initial, C)
    BY <1>3, <2>2
  <2>4. C \subseteq F
    <3> HIDE DEF part
    <3> QED  BY <1>1, <1>2, <2>3, WiredIsReached
  <2>5. PICK x : x \in OutputsOf(specs, C, kind)
    BY <2>2 DEF SourcesOf
  <2>6. PICK c \in C : \E port \in DOMAIN specs[c].outputs : specs[c].outputs[port] = kind
    BY <2>5, OutputsOfAre
  <2>7. kind \in OutputKinds(specs, c)
    BY <2>6 DEF OutputKinds, Range
  <2> QED  BY <2>4, <2>7
<1>5. ASSUME NEW c \in F, kind \in OutputKinds(specs, c)
      PROVE  AllRoutes(specs, offers, initial, KindGoal(kind)) # {}
  <2>1. PICK port \in DOMAIN specs[c].outputs : specs[c].outputs[port] = kind
    BY <1>5 DEF OutputKinds, Range
  <2>2. PICK steps : WiredAmong(steps, part, initial, F)
    <3> HIDE DEF part
    <3> QED  BY <1>1, <1>2, ReachableIsWired
  <2>3. WiredAmong(steps, specs, initial, F)
    BY <1>2, <1>3, <2>2
  <2> QED  BY <1>2, <2>1, <2>3, RouteFromWiring
<1> QED  BY <1>4, <1>5

-----------------------------------------------------------------------------
(* Diagnoses.                                                               *)

\* The kinds that the doctor finds to be available are those that the offered
\* capabilities make: after each of its passes it has what one more round of
\* capabilities makes.
LEMMA DoctorFindsTheOffered ==
  ASSUME NEW plan, IsFiniteSet(DOMAIN plan.specifications)
  PROVE  OfferedRouteExists(plan) <=> plan.kind \in Had(plan, plan.offers)
<1> DEFINE specs == plan.specifications
           initial == plan.initial
           n == Cardinality(DOMAIN specs)
           O == OfferedIn(plan, plan.offers)
           part == Restrict(specs, O)
           F == ForwardReachable(part, initial)
           D == SUBSET O
           grow == [C \in D |-> EnabledBy(part, initial, C)]
           K == {ValueKinds(specs, initial, C) : C \in D}
           more(available) ==
             available \cup UNION {OutputKinds(specs, c) :
               c \in {c \in DOMAIN specs : /\ OffersOf(plan.offers, c) # {}
                                           /\ InputKinds(specs, c) \subseteq available}}
           after == CHOOSE a : a = [i \in 0 .. n |-> IF i = 0 THEN initial ELSE more(a[i - 1])]
<1>1. OfferedRouteExists(plan) <=> plan.kind \in after[n]
  BY DEF OfferedRouteExists, Iterate
<1>2. Had(plan, plan.offers) = ValueKinds(specs, initial, F)
  BY DEF Had, Executable, OfferedIn
<1>3. O \subseteq DOMAIN specs /\ IsFiniteSet(O) /\ DOMAIN part = O
  BY FS_Subset, RestrictedSpecs DEF OfferedIn
<1>4. n \in Nat /\ Cardinality(O) <= n
  BY <1>3, FS_CardinalityType, FS_Subset
<1>5. /\ F \in D
      /\ EnabledBy(part, initial, F) = F
      /\ \A Y \in D : EnabledBy(part, initial, Y) \subseteq Y => F \subseteq Y
  BY <1>3, ForwardIsLeast
<1>6. /\ \A c \in O : InputKinds(part, c) = InputKinds(specs, c)
      /\ \A B \in D : ValueKinds(part, initial, B) = ValueKinds(specs, initial, B)
  BY RestrictedSpecs
<1>7. \A k, B : k \in more(B) <=>
        k \in B \/ \E c \in O : InputKinds(specs, c) \subseteq B /\ k \in OutputKinds(specs, c)
  BY DEF OfferedIn
<1> HIDE DEF n, O, part, F, more
<1>8. \A C \in D : /\ grow[C] \in D
                   /\ \A c : c \in grow[C] <=>
                        c \in O /\ InputKinds(specs, c) \subseteq ValueKinds(specs, initial, C)
  BY <1>3, <1>6 DEF EnabledBy
<1>9. GrowsWithin(O, grow, {})
  <2>1. \A X, Y \in D : X \subseteq Y => grow[X] \subseteq grow[Y]
    <3> SUFFICES ASSUME NEW X \in D, NEW Y \in D, X \subseteq Y PROVE grow[X] \subseteq grow[Y]
      OBVIOUS
    <3>1. ValueKinds(specs, initial, X) \subseteq ValueKinds(specs, initial, Y)
      BY DEF ValueKinds
    <3> HIDE DEF grow
    <3> QED  BY <1>8, <3>1
  <2> HIDE DEF grow
  <2> QED  BY <1>3, <1>8, <2>1 DEF GrowsWithin
<1> HIDE DEF grow
<1>10. PICK b : Iterates(b, D, grow, {}, n) /\ \A i \in 0 .. n : b[i] \in D
  BY <1>4, <1>8, IterationExists
<1>11. ASSUME NEW C \in D, C \subseteq grow[C]
       PROVE  more(ValueKinds(specs, initial, C)) = ValueKinds(specs, initial, grow[C])
  <2>1. \A k : k \in more(ValueKinds(specs, initial, C)) <=> k \in ValueKinds(specs, initial, grow[C])
    BY <1>7, <1>8, <1>11, ValueKindsAre
  <2> QED  BY <2>1
<1>12. \A i \in 0 .. n : b[i] \subseteq grow[b[i]]
  <2> DEFINE bad == {i \in 0 .. n : ~ (b[i] \subseteq grow[b[i]])}
  <2>1. SUFFICES ASSUME bad # {} PROVE FALSE
    OBVIOUS
  <2>2. bad \in SUBSET Nat
    BY <1>4
  <2>3. PICK m \in bad : \A k \in bad : m <= k
    <3> HIDE DEF bad
    <3> QED  BY <2>1, <2>2, LeastNumber
  <2>4. m # 0
    BY <1>10, <2>3 DEF Iterates
  <2>5. m \in 1 .. n /\ m - 1 \in 0 .. n /\ m - 1 \notin bad
    BY <1>4, <2>3, <2>4
  <2>6. b[m] = grow[b[m - 1]] /\ b[m - 1] \in D /\ b[m] \in D
    BY <1>10, <2>3, <2>5 DEF Iterates
  <2>7. b[m - 1] \subseteq b[m]
    BY <2>5, <2>6
  <2>8. grow[b[m - 1]] \subseteq grow[b[m]]
    BY <1>9, <2>6, <2>7 DEF GrowsWithin
  <2> QED  BY <2>3, <2>6, <2>8
<1> DEFINE h == [i \in 0 .. n |-> ValueKinds(specs, initial, b[i])]
<1>13. h = [i \in 0 .. n |-> IF i = 0 THEN initial ELSE more(h[i - 1])]
  <2>1. ASSUME NEW i \in 0 .. n
        PROVE  ValueKinds(specs, initial, b[i]) = IF i = 0 THEN initial ELSE more(h[i - 1])
    <3>1. CASE i = 0
      <4>1. b[0] = {}
        BY <1>10 DEF Iterates
      <4> QED  BY <3>1, <4>1 DEF ValueKinds
    <3>2. CASE i # 0
      <4>1. i \in 1 .. n /\ i - 1 \in 0 .. n
        BY <1>4, <3>2
      <4>2. b[i] = grow[b[i - 1]] /\ b[i - 1] \in D
        BY <1>10, <4>1 DEF Iterates
      <4>3. h[i - 1] = ValueKinds(specs, initial, b[i - 1])
        BY <4>1
      <4> QED  BY <1>11, <1>12, <3>2, <4>1, <4>2, <4>3
    <3> QED  BY <3>1, <3>2
  <2> QED  BY <2>1
<1>14. after = [i \in 0 .. n |-> IF i = 0 THEN initial ELSE more(after[i - 1])]
  <2> HIDE DEF h
  <2> QED  BY <1>13
<1> HIDE DEF after
<1>15. \A i \in 0 .. n : after[i] = h[i]
  <2> HIDE DEF h
  <2> DEFINE bad == {i \in 0 .. n : after[i] # h[i]}
  <2>1. SUFFICES ASSUME bad # {} PROVE FALSE
    OBVIOUS
  <2>2. bad \in SUBSET Nat
    BY <1>4
  <2>3. PICK m \in bad : \A k \in bad : m <= k
    <3> HIDE DEF bad
    <3> QED  BY <2>1, <2>2, LeastNumber
  <2>4. \A i \in 0 .. n : i # 0 => i - 1 \in 0 .. n /\ after[i] = more(after[i - 1]) /\ h[i] = more(h[i - 1])
    <3>1. \A i \in 0 .. n : i # 0 => i - 1 \in 0 .. n
      BY <1>4
    <3>2. \A i \in 0 .. n : i # 0 => after[i] = more(after[i - 1])
      BY <1>14
    <3>3. \A i \in 0 .. n : i # 0 => h[i] = more(h[i - 1])
      BY <1>13
    <3> QED  BY <3>1, <3>2, <3>3
  <2>5. 0 \in 0 .. n
    BY <1>4
  <2>6. after[0] = initial /\ h[0] = initial
    BY <1>13, <1>14, <2>5
  <2>7. m # 0
    BY <2>3, <2>6
  <2>8. m - 1 \in 0 .. n /\ m - 1 \notin bad
    BY <1>4, <2>3, <2>4, <2>7
  <2> QED  BY <2>3, <2>4, <2>7, <2>8
<1>16. IsLeastClosed(b[n], O, grow, {})
  BY <1>4, <1>9, <1>10, IterationSaturates
<1>17. b[n] = F
  <2>1. b[n] \in D /\ grow[b[n]] = b[n] /\ \A Y \in D : grow[Y] \subseteq Y => b[n] \subseteq Y
    BY <1>16 DEF IsLeastClosed
  <2>2. \A C \in D : grow[C] = EnabledBy(part, initial, C)
    BY DEF grow
  <2>3. b[n] \subseteq F
    BY <1>5, <2>1, <2>2
  <2>4. F \subseteq b[n]
    BY <1>5, <2>1, <2>2
  <2> HIDE DEF D
  <2> QED  BY <2>3, <2>4
<1>18. after[n] = ValueKinds(specs, initial, F)
  <2>1. n \in 0 .. n
    BY <1>4
  <2> QED  BY <1>15, <1>17, <2>1
<1> QED  BY <1>1, <1>2, <1>18

\* What the offered capabilities can reach of what is relevant, they reach
\* without the others.
LEMMA SliceKeepsReach ==
  ASSUME NEW specs, IsFiniteSet(DOMAIN specs), NEW initial, NEW goal,
         GoalRoot(goal) \subseteq ForwardReachable(specs, initial),
         NEW O, O \subseteq DOMAIN specs
  PROVE  LET R == Relevant(specs, initial, goal)
         IN  ForwardReachable(Restrict(specs, O), initial) \cap R
               \subseteq ForwardReachable(Restrict(specs, O \cap R), initial)
<1> DEFINE F == ForwardReachable(specs, initial)
           R == Relevant(specs, initial, goal)
           few == Restrict(specs, O \cap R)
           many == Restrict(specs, O)
           E == ForwardReachable(many, initial)
           G == ForwardReachable(few, initial)
           Y == {c \in E : c \in R => c \in G}
<1>1. /\ F \subseteq DOMAIN specs
      /\ EnabledBy(specs, initial, F) = F
      /\ R \subseteq F
      /\ SuppliersOf(specs, initial, goal, R) \subseteq R
  BY ForwardIsLeast, RelevantIsLeast
<1>2. /\ DOMAIN few = O \cap R /\ IsFiniteSet(O \cap R)
      /\ DOMAIN many = O /\ IsFiniteSet(O)
  BY <1>1, FS_Subset, RestrictedSpecs
<1>3. G \subseteq O \cap R /\ EnabledBy(few, initial, G) = G
  BY <1>2, ForwardIsLeast
<1>4. /\ E \subseteq O
      /\ EnabledBy(many, initial, E) = E
      /\ \A Z \in SUBSET O : EnabledBy(many, initial, Z) \subseteq Z => E \subseteq Z
  BY <1>2, ForwardIsLeast
<1>5. /\ \A c \in O \cap R : InputKinds(few, c) = InputKinds(specs, c)
      /\ \A B \in SUBSET (O \cap R) : ValueKinds(few, initial, B) = ValueKinds(specs, initial, B)
  BY RestrictedSpecs
<1>6. /\ \A c \in O : InputKinds(many, c) = InputKinds(specs, c)
      /\ \A B \in SUBSET O : ValueKinds(many, initial, B) = ValueKinds(specs, initial, B)
  BY RestrictedSpecs
<1> HIDE DEF F, R, E, G, few, many
<1>7. E \subseteq F
  <2>1. ASSUME NEW c \in EnabledBy(many, initial, E \cap F) PROVE c \in E \cap F
    <3>1. c \in O /\ InputKinds(specs, c) \subseteq ValueKinds(specs, initial, E \cap F)
      BY <1>2, <1>4, <1>6 DEF EnabledBy
    <3>2. /\ ValueKinds(specs, initial, E \cap F) \subseteq ValueKinds(specs, initial, E)
          /\ ValueKinds(specs, initial, E \cap F) \subseteq ValueKinds(specs, initial, F)
      BY DEF ValueKinds
    <3>3. c \in F
      BY <1>1, <3>1, <3>2 DEF EnabledBy
    <3>4. c \in E
      BY <1>2, <1>4, <1>6, <3>1, <3>2 DEF EnabledBy
    <3> QED  BY <3>3, <3>4
  <2>2. E \cap F \in SUBSET O /\ EnabledBy(many, initial, E \cap F) \subseteq E \cap F
    BY <1>4, <2>1
  <2>3. E \subseteq E \cap F
    BY <1>4, <2>2
  <2> QED  BY <2>3
<1>8. ASSUME NEW c \in EnabledBy(many, initial, Y) PROVE c \in Y
  <2>1. c \in O /\ InputKinds(specs, c) \subseteq ValueKinds(specs, initial, Y)
    BY <1>2, <1>4, <1>6 DEF EnabledBy
  <2>2. c \in E
    <3>1. ValueKinds(specs, initial, Y) \subseteq ValueKinds(specs, initial, E)
      BY DEF ValueKinds
    <3> QED  BY <1>2, <1>4, <1>6, <2>1, <3>1 DEF EnabledBy
  <2>3. ASSUME c \in R PROVE c \in G
    <3>1. ASSUME NEW kind \in InputKinds(specs, c) PROVE kind \in ValueKinds(specs, initial, G)
      <4>1. CASE kind \in initial
        BY <4>1, ValueKindsAre
      <4>2. CASE kind \notin initial
        <5>1. PICK d \in Y : kind \in OutputKinds(specs, d)
          BY <2>1, <4>2, ValueKindsAre
        <5>2. kind \in NeededBy(specs, initial, goal, R)
          <6>1. InputKinds(specs, c) \in {InputKinds(specs, b) : b \in R}
            BY <2>3
          <6>2. kind \in (UNION {InputKinds(specs, b) : b \in R}) \ initial
            BY <4>2, <6>1
          <6> QED  BY <6>2 DEF NeededBy
        <5>3. d \in SuppliersOf(specs, initial, goal, R)
          BY <1>7, <5>1, <5>2 DEF SuppliersOf, F
        <5>4. d \in G
          BY <1>1, <5>1, <5>3
        <5> QED  BY <5>1, <5>4, ValueKindsAre
      <4> QED  BY <4>1, <4>2
    <3>2. InputKinds(few, c) \subseteq ValueKinds(few, initial, G)
      BY <1>3, <1>5, <2>1, <2>3, <3>1
    <3> QED  BY <1>2, <1>3, <2>1, <2>3, <3>2 DEF EnabledBy
  <2> QED  BY <2>2, <2>3
<1>9. Y \in SUBSET O /\ EnabledBy(many, initial, Y) \subseteq Y
  BY <1>4, <1>8
<1>10. E \subseteq Y
  BY <1>4, <1>9
<1>11. E \cap R \subseteq G
  BY <1>10
<1> QED  BY <1>11 DEF E, G, R, few, many

\* An inventory restricted to all its capabilities reaches as much.
LEMMA RestrictedToAll ==
  ASSUME NEW specs, IsFiniteSet(DOMAIN specs), NEW initial
  PROVE  ForwardReachable(Restrict(specs, DOMAIN specs), initial) = ForwardReachable(specs, initial)
<1> DEFINE all == Restrict(specs, DOMAIN specs)
           F == ForwardReachable(specs, initial)
           G == ForwardReachable(all, initial)
<1>1. DOMAIN all = DOMAIN specs
  BY RestrictedSpecs
<1>2. \A B \in SUBSET DOMAIN specs : EnabledBy(all, initial, B) = EnabledBy(specs, initial, B)
  <2> SUFFICES ASSUME NEW B \in SUBSET DOMAIN specs
               PROVE  EnabledBy(all, initial, B) = EnabledBy(specs, initial, B)
    OBVIOUS
  <2>1. /\ \A c \in DOMAIN specs : InputKinds(all, c) = InputKinds(specs, c)
        /\ ValueKinds(all, initial, B) = ValueKinds(specs, initial, B)
    BY RestrictedSpecs
  <2> HIDE DEF all
  <2> QED  BY <1>1, <2>1 DEF EnabledBy
<1>3. /\ F \in SUBSET DOMAIN specs
      /\ EnabledBy(specs, initial, F) = F
      /\ \A Y \in SUBSET DOMAIN specs : EnabledBy(specs, initial, Y) \subseteq Y => F \subseteq Y
  BY ForwardIsLeast
<1>4. /\ G \in SUBSET DOMAIN specs
      /\ EnabledBy(all, initial, G) = G
      /\ \A Y \in SUBSET DOMAIN specs : EnabledBy(all, initial, Y) \subseteq Y => G \subseteq Y
  BY <1>1, ForwardIsLeast
<1> HIDE DEF F, G, all
<1>5. F \subseteq G /\ G \subseteq F
  BY <1>2, <1>3, <1>4
<1> QED  BY <1>5 DEF F, G, all

\* A kind that an inventory makes is planned for exactly when it can be reached.
LEMMA KindsArePlanned ==
  ASSUME NEW inventory, IsFiniteSet(DOMAIN inventory.specifications),
         NEW kind \in ProducedKinds(inventory.specifications)
  PROVE  LET specs == inventory.specifications
             initial == Roots(specs)
             goal == KindGoal(kind)
             made == PlanFromRoots(inventory, kind)
         IN  /\ kind \notin initial
             /\ GoalRoot(goal) = {}
             /\ made.status = "planned" <=>
                  \E c \in ForwardReachable(specs, initial) : kind \in OutputKinds(specs, c)
             /\ made.status = "planned" =>
                  made.plan = PlanOver(inventory, initial, goal, Relevant(specs, initial, goal))
<1> DEFINE specs == inventory.specifications
           initial == Roots(specs)
           goal == KindGoal(kind)
           made == PlanFromRoots(inventory, kind)
<1>1. kind \notin initial
  BY DEF Roots
<1>2. goal.of = "kind" /\ goal.kind = kind
  BY DEF KindGoal
<1>3. ~ AlreadyThere(initial, goal) /\ GoalRoot(goal) = {}
  BY <1>1, <1>2 DEF AlreadyThere, GoalRoot
<1>4. Reachable(specs, initial, goal) <=>
        \E c \in ForwardReachable(specs, initial) : kind \in OutputKinds(specs, c)
  BY <1>1, <1>2, ValueKindsAre DEF Reachable
<1>5. \/ /\ made.status = "unreachable"
         /\ ~ Reachable(specs, initial, goal)
      \/ /\ made = Planned(PlanOver(inventory, initial, goal, Relevant(specs, initial, goal)))
         /\ Reachable(specs, initial, goal)
  BY <1>2, <1>3, PlansAreMade DEF PlanFromRoots
<1>6. \A p : Planned(p).status = "planned" /\ Planned(p).plan = p
  BY DEF Planned
<1> QED  BY <1>1, <1>3, <1>4, <1>5, <1>6

\* What a diagnosis says of a terminal is so.
LEMMA TerminalsAreExact ==
  ASSUME NEW inventory, IsFiniteSet(DOMAIN inventory.specifications),
         NEW kind \in ProducedKinds(inventory.specifications),
         PlanFromRoots(inventory, kind).status = "planned"
  PROVE  LET specs == inventory.specifications
             t == Terminal(inventory, kind)
             routes(offers) == AllRoutes(specs, offers, Roots(specs), KindGoal(kind))
         IN  /\ t.kind = kind
             /\ t.offered <=> routes(inventory.offers) # {}
             /\ routes(inventory.offers \cup {<<c, "new">> : c \in t.unoffered}) # {}
<1> DEFINE specs == inventory.specifications
           initial == Roots(specs)
           goal == KindGoal(kind)
           R == Relevant(specs, initial, goal)
           p == PlanOver(inventory, initial, goal, R)
           t == Terminal(inventory, kind)
           O == Offered(specs, inventory.offers)
           added == {<<c, "new">> : c \in t.unoffered}
           P == Offered(specs, inventory.offers \cup added)
<1>1. /\ kind \notin initial
      /\ GoalRoot(goal) \subseteq ForwardReachable(specs, initial)
      /\ \E c \in ForwardReachable(specs, initial) : kind \in OutputKinds(specs, c)
      /\ PlanFromRoots(inventory, kind).plan = p
  BY KindsArePlanned
<1>2. goal.of = "kind" /\ goal.kind = kind
  BY DEF KindGoal
<1>3. /\ p.kind = kind
      /\ p.initial = initial
      /\ p.specifications = Restrict(specs, R)
      /\ p.offers = {offer \in inventory.offers : offer[1] \in R}
  BY <1>2 DEF PlanOver, GoalKind
<1>4. /\ R \subseteq ForwardReachable(specs, initial)
      /\ SuppliersOf(specs, initial, goal, R) \subseteq R
      /\ ForwardReachable(specs, initial) \subseteq DOMAIN specs
  BY <1>1, RelevantIsLeast, ForwardIsLeast
<1>5. DOMAIN p.specifications = R /\ IsFiniteSet(R) /\ R \subseteq DOMAIN specs
  BY <1>3, <1>4, FS_Subset, RestrictedSpecs
<1>6. \A c \in ForwardReachable(specs, initial) : kind \in OutputKinds(specs, c) => c \in R
  BY <1>2, <1>4 DEF SuppliersOf, NeededBy
<1>7. t.kind = kind /\ t.offered = OfferedRouteExists(p) /\ t.unoffered = Unoffered(p)
  BY <1>1 DEF Terminal
<1>8. \A c \in R : OffersOf(p.offers, c) = OffersOf(inventory.offers, c)
  BY <1>3 DEF OffersOf
<1> HIDE DEF p, t, R
<1>9. t.offered <=> \E c \in ForwardReachable(Restrict(specs, O), initial) : kind \in OutputKinds(specs, c)
  <2> DEFINE E == ForwardReachable(Restrict(specs, O), initial)
             G == ForwardReachable(Restrict(specs, O \cap R), initial)
  <2>1. OfferedIn(p, p.offers) = O \cap R
    BY <1>5, <1>8 DEF OfferedIn, Offered
  <2>2. Restrict(p.specifications, O \cap R) = Restrict(specs, O \cap R)
    BY <1>3 DEF Restrict
  <2>3. Executable(p, p.offers) = G
    BY <1>3, <2>1, <2>2 DEF Executable, OfferedIn
  <2>4. t.offered <=> kind \in ValueKinds(p.specifications, initial, G)
    BY <1>3, <1>5, <1>7, <2>3, DoctorFindsTheOffered DEF Had
  <2>5. O \subseteq DOMAIN specs /\ O \cap R \subseteq O
    BY DEF Offered
  <2>6. G \subseteq E
    BY <2>5, MoreReachesMore
  <2>7. E \cap R \subseteq G
    BY <1>1, <2>5, SliceKeepsReach DEF R
  <2>8. E \subseteq ForwardReachable(specs, initial)
    BY <2>5, MoreReachesMore, RestrictedToAll
  <2>9. G \subseteq R
    <3>1. IsFiniteSet(O \cap R) /\ DOMAIN Restrict(specs, O \cap R) = O \cap R
      BY <1>5, FS_Subset, RestrictedSpecs
    <3> QED  BY <3>1, ForwardIsLeast
  <2>10. ValueKinds(p.specifications, initial, G) = ValueKinds(specs, initial, G)
    <3> HIDE DEF G
    <3> QED  BY <1>3, <2>9, RestrictedSpecs
  <2> HIDE DEF E, G
  <2>11. t.offered <=> \E c \in G : kind \in OutputKinds(specs, c)
    BY <1>1, <2>4, <2>10, ValueKindsAre
  <2>12. (\E c \in G : kind \in OutputKinds(specs, c)) <=> (\E c \in E : kind \in OutputKinds(specs, c))
    BY <1>6, <2>6, <2>7, <2>8
  <2> QED  BY <2>11, <2>12 DEF E
<1>10. t.offered <=> AllRoutes(specs, inventory.offers, initial, goal) # {}
  BY <1>1, <1>9, RoutesReachTheKind
<1>11. R \subseteq P
  <2> SUFFICES ASSUME NEW c \in R PROVE OffersOf(inventory.offers \cup added, c) # {}
    BY <1>5 DEF Offered
  <2>1. CASE OffersOf(inventory.offers, c) # {}
    BY <2>1 DEF OffersOf
  <2>2. CASE OffersOf(inventory.offers, c) = {}
    <3>1. c \in t.unoffered
      BY <1>5, <1>7, <1>8, <2>2 DEF Unoffered
    <3>2. <<c, "new">> \in added /\ <<c, "new">>[1] = c
      BY <3>1
    <3> QED  BY <3>2 DEF OffersOf
  <2> QED  BY <2>1, <2>2
<1>12. AllRoutes(specs, inventory.offers \cup added, initial, goal) # {}
  <2>1. ForwardReachable(Restrict(specs, R), initial) = R
    BY <1>1, SliceReachesItself DEF R
  <2>2. P \subseteq DOMAIN specs
    BY DEF Offered
  <2>3. R \subseteq ForwardReachable(Restrict(specs, P), initial)
    BY <1>11, <2>1, <2>2, MoreReachesMore
  <2>4. \E c \in R : kind \in OutputKinds(specs, c)
    BY <1>1, <1>6
  <2> HIDE DEF added
  <2> QED  BY <1>1, <2>3, <2>4, RoutesReachTheKind
<1> QED  BY <1>7, <1>10, <1>12 DEF t

\* What a diagnosis says of a whole inventory is so.
LEMMA DiagnosesAreExact ==
  ASSUME NEW inventory, IsFiniteSet(DOMAIN inventory.specifications)
  PROVE  LET specs  == inventory.specifications
             report == Diagnose(inventory)
             routes(kind, offers) == AllRoutes(specs, offers, Roots(specs), KindGoal(kind))
             every  == {<<c, "any">> : c \in DOMAIN specs}
             reached == {k \in ProducedKinds(specs) : routes(k, every) # {}}
         IN  /\ report.unreachable = ProducedKinds(specs) \ reached
             /\ {t.kind : t \in report.terminals} = reached \ RequiredKinds(specs)
             /\ \A t \in report.terminals :
                  /\ t.offered <=> routes(t.kind, inventory.offers) # {}
                  /\ routes(t.kind, inventory.offers \cup {<<c, "new">> : c \in t.unoffered}) # {}
<1> DEFINE specs == inventory.specifications
           initial == Roots(specs)
           every  == {<<c, "any">> : c \in DOMAIN specs}
           reached == {k \in ProducedKinds(specs) : AllRoutes(specs, every, initial, KindGoal(k)) # {}}
           planned(k) == PlanFromRoots(inventory, k).status = "planned"
           terminals == {k \in ProducedKinds(specs) \ RequiredKinds(specs) : planned(k)}
           report == Diagnose(inventory)
<1>1. report.unreachable = {k \in ProducedKinds(specs) : ~ planned(k)}
  BY DEF Diagnose
<1>2. report.terminals = {Terminal(inventory, k) : k \in terminals}
  BY DEF Diagnose
<1>3. Offered(specs, every) = DOMAIN specs
  <2>1. \A c \in DOMAIN specs : <<c, "any">> \in every /\ <<c, "any">>[1] = c
    OBVIOUS
  <2> HIDE DEF every
  <2> QED  BY <2>1 DEF Offered, OffersOf
<1> HIDE DEF every, report
<1>4. ASSUME NEW k \in ProducedKinds(specs)
      PROVE  planned(k) <=> AllRoutes(specs, every, initial, KindGoal(k)) # {}
  <2>1. k \notin initial
    BY KindsArePlanned
  <2>2. planned(k) <=> \E c \in ForwardReachable(specs, initial) : k \in OutputKinds(specs, c)
    BY KindsArePlanned
  <2>3. AllRoutes(specs, every, initial, KindGoal(k)) # {} <=>
          \E c \in ForwardReachable(specs, initial) : k \in OutputKinds(specs, c)
    BY <1>3, <2>1, RoutesReachTheKind, RestrictedToAll
  <2> QED  BY <2>2, <2>3
<1>5. report.unreachable = ProducedKinds(specs) \ reached
  <2> HIDE DEF planned
  <2> QED  BY <1>1, <1>4
<1>6. ASSUME NEW k \in terminals
      PROVE  /\ Terminal(inventory, k).kind = k
             /\ Terminal(inventory, k).offered <=> AllRoutes(specs, inventory.offers, initial, KindGoal(k)) # {}
             /\ AllRoutes(specs, inventory.offers \cup {<<c, "new">> : c \in Terminal(inventory, k).unoffered},
                          initial, KindGoal(k)) # {}
  BY TerminalsAreExact
<1>7. {t.kind : t \in report.terminals} = reached \ RequiredKinds(specs)
  <2>1. terminals = reached \ RequiredKinds(specs)
    <3> HIDE DEF planned
    <3> QED  BY <1>4
  <2>2. {t.kind : t \in report.terminals} = {Terminal(inventory, k).kind : k \in terminals}
    <3> HIDE DEF terminals
    <3> QED  BY <1>2
  <2>3. {Terminal(inventory, k).kind : k \in terminals} = {k : k \in terminals}
    <3> HIDE DEF terminals
    <3> QED  BY <1>6
  <2> HIDE DEF terminals, reached
  <2> QED  BY <2>1, <2>2, <2>3
<1>8. ASSUME NEW t \in report.terminals
      PROVE  /\ t.offered <=> AllRoutes(specs, inventory.offers, initial, KindGoal(t.kind)) # {}
             /\ AllRoutes(specs, inventory.offers \cup {<<c, "new">> : c \in t.unoffered},
                          initial, KindGoal(t.kind)) # {}
  <2>1. PICK k \in terminals : t = Terminal(inventory, k)
    <3> HIDE DEF terminals
    <3> QED  BY <1>2
  <2> HIDE DEF terminals
  <2>2. t.kind = k
    BY <1>6, <2>1
  <2> QED  BY <1>6, <2>1, <2>2
<1> QED  BY <1>5, <1>7, <1>8 DEF report, every

-----------------------------------------------------------------------------
(* The planner over time.                                                   *)

\* A plan that this planner made over some installed inventory.
IsMade(p) ==
  /\ p.scope \in Inventories
  /\ p.goal.of \in {"kind", "output"}
  /\ PlanFor(p.scope, p.initial, p.goal) = Planned(p)

\* The inductive invariant: what is kept was made by this planner.
PlannerInv ==
  /\ installed \in Inventories
  /\ \A p, q \in kept : p = q
  /\ \A p \in kept : IsMade(p)
  /\ PlanAcceptsItself
  /\ NeedsUnblock
  /\ DiagnosisExact

\* A plan that was made is the slice for its goal, all of which can be reached
\* and which makes the goal.
LEMMA MadePlansReachTheGoal ==
  ASSUME InventoriesAssumption, NEW p, IsMade(p)
  PROVE  ReachesGoal(p)
<1> DEFINE specs == p.scope.specifications
           initial == p.initial
           goal == p.goal
           R == Relevant(specs, initial, goal)
           slice == IF AlreadyThere(initial, goal) THEN {} ELSE R
           made == PlanFor(p.scope, initial, goal)
<1>1. IsFiniteSet(DOMAIN specs) /\ goal.of \in {"kind", "output"}
  BY DEF IsMade, InventoriesAssumption
<1>2. made.status = "planned" /\ made.plan = p
  BY DEF IsMade, Planned
<1>3. /\ made = Planned(PlanOver(p.scope, initial, goal, slice))
      /\ AlreadyThere(initial, goal) \/ Reachable(specs, initial, goal)
  BY <1>1, <1>2, PlansAreMade
<1>4. p = PlanOver(p.scope, initial, goal, slice)
  BY <1>2, <1>3 DEF Planned
<1>5. p.specifications = Restrict(specs, slice) /\ p.kind = GoalKind(specs, goal)
  BY <1>4 DEF PlanOver
<1> HIDE DEF made
<1>6. CASE AlreadyThere(initial, goal)
  <2>1. p.kind \in p.initial /\ p.goal.of = "kind"
    BY <1>5, <1>6 DEF AlreadyThere, GoalKind
  <2>2. slice = {} /\ DOMAIN p.specifications = {}
    BY <1>5, <1>6, RestrictedSpecs
  <2>3. ForwardReachable(p.specifications, p.initial) = {} /\ IsFiniteSet({})
    BY <2>2, ForwardIsLeast, FS_EmptySet
  <2> QED  BY <2>1, <2>2, <2>3 DEF ReachesGoal
<1>7. CASE ~ AlreadyThere(initial, goal)
  <2>1. GoalRoot(goal) \subseteq ForwardReachable(specs, initial)
    BY <1>3, <1>7, ReachableHasRoot
  <2>2. /\ GoalRoot(goal) \subseteq R
        /\ R \subseteq ForwardReachable(specs, initial)
        /\ SuppliersOf(specs, initial, goal, R) \subseteq R
    BY <1>1, <2>1, RelevantIsLeast
  <2>3. IsFiniteSet(R)
    BY <1>1, <2>2, ForwardIsLeast, FS_Subset
  <2>4. slice = R /\ DOMAIN p.specifications = R
    BY <1>5, <1>7, RestrictedSpecs
  <2>5. ForwardReachable(p.specifications, p.initial) = R
    BY <1>1, <1>5, <1>7, <2>1, SliceReachesItself
  <2>6. CASE goal.of = "output"
    BY <2>2, <2>3, <2>4, <2>5, <2>6 DEF ReachesGoal, GoalRoot
  <2>7. CASE goal.of = "kind"
    <3>1. p.kind = goal.kind /\ goal.kind \notin initial
      BY <1>5, <1>7, <2>7 DEF GoalKind, AlreadyThere
    <3>2. goal.kind \in ValueKinds(specs, initial, ForwardReachable(specs, initial))
      BY <1>3, <1>7, <2>7 DEF Reachable
    <3>3. PICK c \in ForwardReachable(specs, initial) : goal.kind \in OutputKinds(specs, c)
      BY <3>1, <3>2, ValueKindsAre
    <3>4. c \in R
      BY <2>2, <2>7, <3>3 DEF SuppliersOf, NeededBy
    <3>5. c \in Producers(p, p.kind)
      BY <1>5, <2>4, <3>1, <3>3, <3>4, RestrictedSpecs DEF Producers
    <3> QED  BY <2>3, <2>4, <2>5, <2>7, <3>5 DEF ReachesGoal
  <2> QED  BY <1>1, <2>6, <2>7
<1> QED  BY <1>6, <1>7

\* A blocked selection over a plan that was made names enough to unblock it.
LEMMA BlockedNamesEnough ==
  ASSUME InventoriesAssumption, NEW p, IsMade(p), NEW available
  PROVE  LET b     == Blockage(p, available)
             needs == b.missing_offer \cup MissingAttesters(p, b.nodes, available)
         IN  ~ TargetBlocked(p, available \cup {<<c, "new">> : c \in needs})
<1> DEFINE b     == Blockage(p, available)
           needs == b.missing_offer \cup MissingAttesters(p, b.nodes, available)
           added == {<<c, "new">> : c \in needs}
           offers == available \cup added
<1>1. b.missing_offer = {c \in b.nodes : OffersOf(p.offers, c) = {}}
  BY DEF Blockage
<1>2. ASSUME NEW c \in b.nodes PROVE OffersOf(offers, c) # {}
  <2>1. CASE OffersOf(available, c) # {}
    BY <2>1 DEF OffersOf
  <2>2. CASE OffersOf(available, c) = {}
    <3>1. c \in needs
      <4> HIDE DEF b
      <4> QED  BY <1>1, <2>2 DEF MissingAttesters
    <3> HIDE DEF needs
    <3>2. <<c, "new">> \in added
      BY <3>1
    <3> HIDE DEF added
    <3>3. <<c, "new">> \in offers /\ <<c, "new">>[1] = c
      BY <3>2
    <3> QED  BY <3>3 DEF OffersOf
  <2> QED  BY <2>1, <2>2
<1>3. available \subseteq offers
  OBVIOUS
<1> HIDE DEF added, needs
<1>4. ReachesGoal(p)
  BY MadePlansReachTheGoal
<1>5. ~ TargetBlocked(p, offers)
  <2> HIDE DEF offers
  <2> QED  BY <1>2, <1>3, <1>4, OffersUnblock DEF b
<1> QED  BY <1>5 DEF offers, added, needs, b

\* What a caller is told by a diagnosis is exact.
LEMMA ExaminationsAreExact ==
  ASSUME InventoriesAssumption, installed \in Inventories,
         returned' = [status |-> "diagnosed", report |-> Diagnose(installed)],
         UNCHANGED installed
  PROVE  DiagnosisExact'
<1> DEFINE specs  == installed.specifications
           report == Diagnose(installed)
           routes(kind, offers) == AllRoutes(specs, offers, Roots(specs), KindGoal(kind))
           every  == {<<c, "any">> : c \in DOMAIN specs}
           reached == {k \in ProducedKinds(specs) : routes(k, every) # {}}
<1>1. IsFiniteSet(DOMAIN installed.specifications)
  BY DEF InventoriesAssumption
<1>2. /\ report.unreachable = ProducedKinds(specs) \ reached
      /\ {t.kind : t \in report.terminals} = reached \ RequiredKinds(specs)
      /\ \A t \in report.terminals :
           /\ t.offered <=> routes(t.kind, installed.offers) # {}
           /\ routes(t.kind, installed.offers \cup {<<c, "new">> : c \in t.unoffered}) # {}
  BY <1>1, DiagnosesAreExact
<1>3. returned'.report = report
  OBVIOUS
<1> HIDE DEF report
<1> QED  BY <1>2, <1>3 DEF DiagnosisExact

\* A plan is made, or is not for a reason that is not its slice.
LEMMA MakingAPlan ==
  ASSUME InventoriesAssumption, PlannerInv,
         NEW initial, NEW goal \in GoalsFor(installed), MakePlan(initial, goal)
  PROVE  PlannerInv'
<1> DEFINE made == PlanFor(installed, initial, goal)
           slice == IF AlreadyThere(initial, goal) THEN {}
                    ELSE Relevant(installed.specifications, initial, goal)
           plan == PlanOver(installed, initial, goal, slice)
<1>1. /\ IsFiniteSet(DOMAIN installed.specifications)
      /\ installed \in Inventories /\ goal.of \in {"kind", "output"}
  BY DEF PlannerInv, InventoriesAssumption
<1>2. /\ returned' = NotPlanned(made.status)
      /\ kept' = IF made.status = "planned" THEN {made.plan} ELSE kept
      /\ installed' = installed
  BY DEF MakePlan
<1>3. made.status \in {"not_installed", "unreachable"} \/ made = Planned(plan)
  BY <1>1, PlansAreMade
<1>4. Planned(plan).status = "planned" /\ Planned(plan).plan = plan
  BY DEF Planned
<1>5. plan.scope = installed /\ plan.initial = initial /\ plan.goal = goal
  BY DEF PlanOver
<1> HIDE DEF plan
<1>6. made = Planned(plan) => IsMade(plan)
  BY <1>1, <1>5 DEF IsMade
<1> HIDE DEF made
<1>7. \/ kept' = kept
      \/ made = Planned(plan) /\ kept' = {plan}
  BY <1>2, <1>3, <1>4
<1>8. /\ \A p, q \in kept' : p = q
      /\ \A p \in kept' : IsMade(p)
  BY <1>6, <1>7 DEF PlannerInv
<1>9. returned'.status \in {"not_installed", "unreachable", "planned"}
  BY <1>2, <1>3, <1>4 DEF NotPlanned
<1>10. PlanAcceptsItself'
  BY <1>8, <1>9 DEF PlanAcceptsItself, ExactPlan, IsMade
<1>11. NeedsUnblock' /\ DiagnosisExact'
  BY <1>9 DEF NeedsUnblock, DiagnosisExact
<1> QED  BY <1>1, <1>2, <1>8, <1>10, <1>11 DEF PlannerInv

\* A selection over the plan that is kept.
LEMMA SelectingRoutes ==
  ASSUME InventoriesAssumption, PlannerInv, NEW available, Select(available)
  PROVE  PlannerInv'
<1>1. PICK p \in kept :
        returned' = IF ExactPlan(installed, p) THEN RouteAlternatives(p, available)
                    ELSE [status |-> "not_this_plan"]
  BY DEF Select
<1>2. presented' = available /\ installed' = installed /\ kept' = kept
  BY DEF Select
<1>3. IsMade(p) /\ \A q \in kept : q = p
  BY <1>1 DEF PlannerInv
<1>4. \/ returned'.status \in {"not_this_plan", "unknown_offer", "invalid_route", "routes"}
      \/ returned' = [status |-> "blocked", blockage |-> Blockage(p, available)]
  BY <1>1 DEF RouteAlternatives, Alternatives
<1>5. returned'.status \notin {"invalid_slice", "diagnosed"}
  BY <1>4
<1>6. ASSUME returned'.status = "blocked"
      PROVE  returned'.blockage = Blockage(p, available)
  BY <1>4, <1>6
<1>7. NeedsUnblock'
  <2>1. ASSUME returned'.status = "blocked", NEW q \in kept'
        PROVE  LET b     == returned'.blockage
                   needs == b.missing_offer \cup MissingAttesters(q, b.nodes, available)
               IN  ~ TargetBlocked(q, available \cup {<<c, "new">> : c \in needs})
    BY <1>2, <1>3, <1>6, <2>1, BlockedNamesEnough
  <2> QED  BY <1>2, <2>1 DEF NeedsUnblock
<1>8. PlanAcceptsItself' /\ DiagnosisExact'
  BY <1>2, <1>5 DEF PlannerInv, PlanAcceptsItself, DiagnosisExact
<1> QED  BY <1>2, <1>7, <1>8 DEF PlannerInv

\* The planner keeps at most one plan, one that it made, and answers as promised.
LEMMA PlannerInvariant == PlannerSpec => []PlannerInv
<1>1. PlannerInit => PlannerInv
  BY DEF PlannerInit, PlannerInv, Nothing, PlanAcceptsItself, NeedsUnblock, DiagnosisExact
<1>2. PlannerInv /\ [PlannerNext]_plannerVars => PlannerInv'
  <2> SUFFICES ASSUME PlannerInv, [PlannerNext]_plannerVars
               PROVE  PlannerInv'
    OBVIOUS
  <2> USE InventoriesAssumption
  <2>1. ASSUME Examine PROVE PlannerInv'
    <3>1. /\ returned' = [status |-> "diagnosed", report |-> Diagnose(installed)]
          /\ UNCHANGED installed /\ UNCHANGED kept /\ installed \in Inventories
      BY <2>1 DEF Examine, PlannerInv
    <3>2. returned'.status = "diagnosed"
      BY <3>1
    <3>3. PlanAcceptsItself' /\ NeedsUnblock'
      BY <3>1, <3>2 DEF PlannerInv, PlanAcceptsItself, NeedsUnblock
    <3>4. DiagnosisExact'
      BY <3>1, ExaminationsAreExact
    <3> QED  BY <3>1, <3>3, <3>4 DEF PlannerInv
  <2>2. ASSUME NEW next \in Upgrades(installed), Install(next) PROVE PlannerInv'
    <3>1. returned' = Nothing /\ kept' = kept /\ installed' = next /\ next \in Inventories
      BY <2>2 DEF Install, PlannerInv, InventoriesAssumption
    <3>2. returned'.status = "nothing"
      BY <3>1 DEF Nothing
    <3>3. PlanAcceptsItself' /\ NeedsUnblock' /\ DiagnosisExact'
      BY <3>1, <3>2 DEF PlannerInv, IsMade, PlanAcceptsItself, ExactPlan, NeedsUnblock, DiagnosisExact
    <3> QED  BY <3>1, <3>3 DEF PlannerInv
  <2>3. ASSUME NEW initial, NEW goal \in GoalsFor(installed), MakePlan(initial, goal)
        PROVE  PlannerInv'
    BY <2>3, MakingAPlan
  <2>4. ASSUME NEW available, Select(available) PROVE PlannerInv'
    BY <2>4, SelectingRoutes
  <2>5. CASE UNCHANGED plannerVars
    BY <2>5 DEF plannerVars, PlannerInv, PlanAcceptsItself, NeedsUnblock, DiagnosisExact
  <2> QED  BY <2>1, <2>2, <2>3, <2>4, <2>5 DEF PlannerNext
<1> QED  BY <1>1, <1>2, PTL DEF PlannerSpec

\* The slice cut out for a goal is always one the planner accepts again, for
\* any inventory, start and goal.
THEOREM PlanAcceptsItselfTheorem == PlannerSpec => []PlanAcceptsItself
BY PlannerInvariant, PTL DEF PlannerInv

\* Whoever meets every need that a blocked answer names has unblocked the goal.
THEOREM NeedsUnblockTheorem == PlannerSpec => []NeedsUnblock
BY PlannerInvariant, PTL DEF PlannerInv

\* What a diagnosis says of the kinds of an inventory is what its routes say.
THEOREM DiagnosisExactTheorem == PlannerSpec => []DiagnosisExact
BY PlannerInvariant, PTL DEF PlannerInv
=============================================================================
