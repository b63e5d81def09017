------------------------------- MODULE Diagnosis -------------------------------
(***************************************************************************)
(* gooir-doctor (crates/gooir-doctor/src/lib.rs): what an installed graph  *)
(* can make of its roots, the kinds it takes and nothing in it makes.  The *)
(* report selects nothing and runs nothing.                                *)
(***************************************************************************)
EXTENDS Planning, FiniteSetsExt

ProducedKinds(specs) == UNION {OutputKinds(specs, c) : c \in DOMAIN specs}
RequiredKinds(specs) == UNION {InputKinds(specs, c) : c \in DOMAIN specs}

\* known_value_kinds of the command line, and the report's `all`.
KnownKinds(specs) == ProducedKinds(specs) \cup RequiredKinds(specs)

Roots(specs) == RequiredKinds(specs) \ ProducedKinds(specs)

ProducedBy(specs, kind) == {c \in DOMAIN specs : kind \in OutputKinds(specs, c)}
RequiredBy(specs, kind) == {c \in DOMAIN specs : kind \in InputKinds(specs, c)}

\* Fault: one pass over the planned capabilities, in the order of their names.
OfferedRouteExists_OnePass(plan) ==
  LET specs == plan.specifications
      pass[n \in Nat] ==
        IF n = 0 THEN plan.initial
        ELSE IF n \in DOMAIN specs /\ OffersOf(plan.offers, n) # {}
                /\ InputKinds(specs, n) \subseteq pass[n - 1]
        THEN pass[n - 1] \cup OutputKinds(specs, n) ELSE pass[n - 1]
  IN  plan.kind \in pass[Max({0} \cup DOMAIN specs)]

\* Every offered capability whose inputs are all available makes its outputs
\* available, until nothing changes.
OfferedRouteExists(plan) ==
  LET specs == plan.specifications
      more(available) ==
        available \cup UNION {OutputKinds(specs, c) :
          c \in {c \in DOMAIN specs : /\ OffersOf(plan.offers, c) # {}
                                      /\ InputKinds(specs, c) \subseteq available}}
  IN  plan.kind \in Iterate(more, plan.initial, Cardinality(DOMAIN specs))

Unoffered(plan) == {c \in DOMAIN plan.specifications : OffersOf(plan.offers, c) = {}}

PlanFromRoots(inventory, kind) ==
  PlanFor(inventory, Roots(inventory.specifications), KindGoal(kind))

Terminal(inventory, kind) ==
  LET plan == PlanFromRoots(inventory, kind).plan
  IN  [kind        |-> kind,
       produced_by |-> ProducedBy(inventory.specifications, kind),
       offered     |-> OfferedRouteExists(plan),
       unoffered   |-> Unoffered(plan)]

Diagnose(inventory) ==
  LET specs == inventory.specifications
      planned(kind) == PlanFromRoots(inventory, kind).status = "planned"
      terminals == {k \in ProducedKinds(specs) \ RequiredKinds(specs) : planned(k)}
  IN  [roots              |-> [k \in Roots(specs) |-> RequiredBy(specs, k)],
       terminals          |-> {Terminal(inventory, k) : k \in terminals},
       unreachable        |-> {k \in ProducedKinds(specs) : ~ planned(k)},
       unimplemented      |-> {c \in DOMAIN specs : OffersOf(inventory.offers, c) = {}},
       multiple_producers |-> {k \in ProducedKinds(specs) : Cardinality(ProducedBy(specs, k)) > 1}]
=============================================================================
