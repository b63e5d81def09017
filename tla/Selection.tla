------------------------------ MODULE Selection ------------------------------
(***************************************************************************)
(* Preparation of a derivation request by the facade of gooir-derive       *)
(* (crates/gooir-derive/src/facade.rs): which selections of a route, of    *)
(* admitted inputs and of attesters are complete, available and eligible   *)
(* under the admission policy.  Nothing here has an effect.                *)
(*                                                                         *)
(* A facade is [inventory, policy, attesters].  A specification is         *)
(* [inputs, outputs, suite]; an offer <<c, n>> of the planner stands for   *)
(* the document OfferOf[<<c, n>>].  Bindings and attesters of a selection  *)
(* are functions, so an entry given twice, which the code refuses, cannot  *)
(* be written down; a target input is a set of at most one reference.      *)
(***************************************************************************)
EXTENDS Membrane, Routes

CONSTANTS
  OfferOf,     \* offer pair -> offer document
  MaxInputs    \* limits.max_inputs

Request(target, inputs, selection) ==
  [target |-> target, inputs |-> inputs, selection |-> selection]

UniqueOnly == [mode |-> "unique"]
Explicit(selection) == [mode |-> "explicit", selection |-> selection]

Selected(route, bindings, target_input, attesters) ==
  [route |-> route, bindings |-> bindings, target_input |-> target_input,
   attesters |-> attesters]

-----------------------------------------------------------------------------
(* Request values.                                                          *)

\* The admitted values among the inputs, each with its authority.
ResolvedInputs(ledger, inputs) ==
  {v \in [reference : Range(inputs), fact : ledger.facts] :
     ResolvesTo(ledger, v.reference, v.fact)}

RequestResolves(facade, ledger, inputs) ==
  /\ Len(inputs) <= MaxInputs
  /\ ValidPolicy(facade.policy)
  /\ IsInjective(inputs)
  /\ {v.reference : v \in ResolvedInputs(ledger, inputs)} = Range(inputs)

KindsOf(values) == {v.fact.kind : v \in values}

OfKind(values, kind) == {v.reference : v \in {v \in values : v.fact.kind = kind}}

-----------------------------------------------------------------------------
(* Offers and attesters.                                                    *)

Direct(facade, offer) == AcceptsProviderOffer(facade.policy, OfferOf[offer])

IndependentAttesters(facade, offer) ==
  {a \in facade.attesters :
     /\ a.suite = facade.inventory.specifications[offer[1]].suite
     /\ Independent(a.attester, OfferOf[offer])}

AcceptedAttesters(facade, offer) ==
  IndependentAttesters(facade, offer) \cap facade.policy.conformance

AvailableOffers(facade, plan) ==
  {offer \in plan.offers : Direct(facade, offer) \/ IndependentAttesters(facade, offer) # {}}

EligibleOffers(facade, plan) ==
  {offer \in plan.offers : Direct(facade, offer) \/ AcceptedAttesters(facade, offer) # {}}

-----------------------------------------------------------------------------
(* Complete selections.                                                     *)

\* The ports of a route that take a value of the request, with its kind.
InitialPorts(route) ==
  UNION {{[port |-> <<step.capability, p>>, kind |-> step.inputs[p].kind] :
            p \in {p \in DOMAIN step.inputs : step.inputs[p].source = "initial"}} :
           step \in Range(route.steps)}

\* Fault: any value of the request will do for a port.
BindingChoices_AnyKind(route, values) ==
  [{i.port : i \in InitialPorts(route)} -> {v.reference : v \in values}]

BindingChoices(route, values) ==
  LET ports == InitialPorts(route)
  IN  {b \in [{i.port : i \in ports} -> {v.reference : v \in values}] :
         \A i \in ports : b[i.port] \in OfKind(values, i.kind)}

TargetChoices(route, values) ==
  IF route.target.source = "initial"
  THEN {{reference} : reference \in OfKind(values, route.target.kind)} ELSE {{}}

\* The offers of a route that need an attester.
Attested(facade, route) ==
  {offer \in {<<step.capability, step.offer>> : step \in Range(route.steps)} :
     ~ Direct(facade, offer)}

\* Fault: any attester the policy accepts, be it the provider's own.
AttesterChoices_NotIndependent(facade, route) ==
  LET attested == Attested(facade, route)
  IN  [{offer[1] : offer \in attested} -> facade.attesters \cap facade.policy.conformance]

AttesterChoices(facade, route) ==
  LET attested == Attested(facade, route)
  IN  {a \in [{offer[1] : offer \in attested} -> facade.attesters] :
         \A offer \in attested : a[offer[1]] \in AcceptedAttesters(facade, offer)}

CompleteSelections(facade, route, values) ==
  {Selected(route, c[1], c[2], c[3]) :
     c \in BindingChoices(route, values) \X TargetChoices(route, values)
             \X AttesterChoices(facade, route)}

-----------------------------------------------------------------------------
(* Preparation.                                                             *)

Ready(selection) == [status |-> "ready", selection |-> selection]
Answered(status) == [status |-> status]
Refused(refusal) == [status |-> "refused", refusal |-> refusal]

\* Nothing is eligible: is it the policy, or are there no routes at all?
NothingEligible(available) ==
  IF available.status = "blocked" THEN Answered("blocked")
  ELSE IF available.status = "routes" THEN Refused("policy")
  ELSE Refused("invalid_selection")

OnlyOne(selections) ==
  IF Cardinality(selections) # 1 THEN Refused("ambiguous")
  ELSE Ready(CHOOSE selection \in selections : TRUE)

Decided(facade, plan, values, eligible) ==
  IF eligible.status = "blocked"
  THEN NothingEligible(RouteAlternatives(plan, AvailableOffers(facade, plan)))
  ELSE IF eligible.status # "routes" THEN Refused("invalid_selection")
  ELSE OnlyOne(UNION {CompleteSelections(facade, route, values) :
                        route \in Range(eligible.routes)})

\* UniqueOnly goes ahead with the one eligible complete selection there is.
PrepareUnique(facade, plan, values) ==
  Decided(facade, plan, values, RouteAlternatives(plan, EligibleOffers(facade, plan)))

\* An explicit selection names an attester for every step that needs one, and
\* for no other; the suite is the attester's, whatever the default is.
AttestersFit(facade, selection) ==
  LET attested == Attested(facade, selection.route)
  IN  /\ DOMAIN selection.attesters = {offer[1] : offer \in attested}
      /\ \A offer \in attested :
           /\ selection.attesters[offer[1]] \in facade.attesters
           /\ Independent(selection.attesters[offer[1]].attester, OfferOf[offer])

SelectionFits(facade, plan, values, selection) ==
  /\ ValidRoute(plan, selection.route)
  /\ selection.bindings \in BindingChoices(selection.route, values)
  /\ selection.target_input \in TargetChoices(selection.route, values)
  /\ AttestersFit(facade, selection)

\* Fault: the policy is left to the admission that follows the effects.
PrepareExplicit_PolicyLater(facade, plan, values, selection) ==
  IF SelectionFits(facade, plan, values, selection)
  THEN Ready(selection) ELSE Refused("invalid_selection")

PrepareExplicit(facade, plan, values, selection) ==
  IF ~ SelectionFits(facade, plan, values, selection) THEN Refused("invalid_selection")
  ELSE IF ~ (Range(selection.attesters) \subseteq facade.policy.conformance)
  THEN Refused("policy")
  ELSE Ready(selection)

PlanOf(facade, values, target) == PlanFor(facade.inventory, KindsOf(values), target)

\* prepare, for the values the request resolves to and what was planned.
PrepareSelection(facade, values, selection, made) ==
  IF made.status = "unreachable" THEN Answered("unreachable")
  ELSE IF made.status # "planned" THEN Refused("invalid_request")
  ELSE IF selection.mode = "unique" THEN PrepareUnique(facade, made.plan, values)
  ELSE PrepareExplicit(facade, made.plan, values, selection.selection)

PrepareResolved(facade, values, request) ==
  PrepareSelection(facade, values, request.selection, PlanOf(facade, values, request.target))

Prepare(facade, ledger, request) ==
  IF RequestResolves(facade, ledger, request.inputs)
  THEN PrepareResolved(facade, ResolvedInputs(ledger, request.inputs), request)
  ELSE Refused("invalid_request")
=============================================================================
