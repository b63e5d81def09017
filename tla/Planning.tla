------------------------------- MODULE Planning -------------------------------
(***************************************************************************)
(* Semantic plans of gooir-planning (crates/gooir-planning/src/lib.rs): a  *)
(* plan is the slice of an inventory that can matter for one goal, and     *)
(* chooses nothing.                                                        *)
(*                                                                         *)
(* An inventory has `specifications`, a function from capabilities to the  *)
(* value kinds of their input and output ports, and `offers`, pairs of a   *)
(* capability and an offer for it.  Capabilities are numbers, for the code *)
(* walks them in the order of their identities; ports are positions.  The  *)
(* scope digest of a plan is the inventory it was made from.               *)
(***************************************************************************)
EXTENDS Naturals, FiniteSets, Sequences, Functions

\* A set or sequence after n applications of a step: the code's loops that go
\* on until nothing changes, for which n applications are always enough.
Iterate(Again(_), start, n) ==
  LET after[i \in 0 .. n] == IF i = 0 THEN start ELSE Again(after[i - 1])
  IN  after[n]

KindGoal(kind) == [of |-> "kind", kind |-> kind]
OutputGoal(capability, port) == [of |-> "output", capability |-> capability, port |-> port]

-----------------------------------------------------------------------------
(* The declared graph.                                                      *)

InputKinds(specs, c)  == Range(specs[c].inputs)
OutputKinds(specs, c) == Range(specs[c].outputs)

ValueKinds(specs, initial, capabilities) ==
  initial \cup UNION {OutputKinds(specs, c) : c \in capabilities}

\* The capabilities whose inputs can all be had, from nothing but `initial`:
\* the least fixed point of the code's rescanning loop.
ForwardReachable(specs, initial) ==
  LET enabled(capabilities) ==
        {c \in DOMAIN specs : InputKinds(specs, c) \subseteq ValueKinds(specs, initial, capabilities)}
  IN  Iterate(enabled, {}, Cardinality(DOMAIN specs))

GoalKind(specs, goal) ==
  IF goal.of = "kind" THEN goal.kind ELSE specs[goal.capability].outputs[goal.port]

\* Fault: one pass over the capabilities, instead of until nothing changes.
Relevant_OnePass(specs, initial, goal) ==
  LET root   == IF goal.of = "kind" THEN {} ELSE {goal.capability}
      needed == (IF goal.of = "kind" THEN {goal.kind} ELSE {})
                  \cup ((UNION {InputKinds(specs, c) : c \in root}) \ initial)
  IN  root \cup {c \in ForwardReachable(specs, initial) :
                   OutputKinds(specs, c) \cap needed # {}}

\* Which of the forward reachable capabilities can contribute to the goal:
\* a kind that is already there at the start needs no producer.
Relevant(specs, initial, goal) ==
  LET forward == ForwardReachable(specs, initial)
      needed(capabilities) ==
        (IF goal.of = "kind" THEN {goal.kind} ELSE {})
          \cup ((UNION {InputKinds(specs, c) : c \in capabilities}) \ initial)
      root == IF goal.of = "kind" THEN {} ELSE {goal.capability}
      producers(capabilities) ==
        LET kinds == needed(capabilities)
        IN  capabilities \cup {c \in forward : OutputKinds(specs, c) \cap kinds # {}}
  IN  Iterate(producers, root, Cardinality(forward) + 1)

Reachable(specs, initial, goal) ==
  LET forward == ForwardReachable(specs, initial)
  IN  IF goal.of = "kind" THEN goal.kind \in ValueKinds(specs, initial, forward)
      ELSE goal.capability \in forward

-----------------------------------------------------------------------------
(* Plans.                                                                   *)

AlreadyThere(initial, goal) == goal.of = "kind" /\ goal.kind \in initial

PlanOver(inventory, initial, goal, capabilities) ==
  [initial        |-> initial,
   goal           |-> goal,
   kind           |-> GoalKind(inventory.specifications, goal),
   specifications |-> Restrict(inventory.specifications, capabilities),
   offers         |-> {offer \in inventory.offers : offer[1] \in capabilities},
   scope          |-> inventory]

\* validate_graph_slice: the slice, taken by itself, is its own slice.
ValidSlice(plan) ==
  IF AlreadyThere(plan.initial, plan.goal) THEN DOMAIN plan.specifications = {}
  ELSE /\ Reachable(plan.specifications, plan.initial, plan.goal)
       /\ Relevant(plan.specifications, plan.initial, plan.goal) = DOMAIN plan.specifications

Planned(plan) == [status |-> "planned", plan |-> plan]
NotPlanned(status) == [status |-> status]

\* Fault: only capabilities somebody offers are planned with.
PlanFor_OfferedOnly(inventory, initial, goal) ==
  LET offered == {c \in DOMAIN inventory.specifications : \E o \in inventory.offers : o[1] = c}
      specs   == Restrict(inventory.specifications, offered)
  IN  IF goal.of = "output" /\ goal.capability \notin offered THEN NotPlanned("not_installed")
      ELSE IF goal.of = "output" /\ goal.port \notin DOMAIN specs[goal.capability].outputs
      THEN NotPlanned("not_installed")
      ELSE IF AlreadyThere(initial, goal) THEN Planned(PlanOver(inventory, initial, goal, {}))
      ELSE IF ~ Reachable(specs, initial, goal) THEN NotPlanned("unreachable")
      ELSE Planned(PlanOver(inventory, initial, goal, Relevant(specs, initial, goal)))

Checked(plan) == IF ValidSlice(plan) THEN Planned(plan) ELSE NotPlanned("invalid_slice")

PlanFor(inventory, initial, goal) ==
  LET specs == inventory.specifications
  IN  IF goal.of = "output" /\ goal.capability \notin DOMAIN specs
      THEN NotPlanned("not_installed")
      ELSE IF goal.of = "output" /\ goal.port \notin DOMAIN specs[goal.capability].outputs
      THEN NotPlanned("not_installed")
      ELSE IF AlreadyThere(initial, goal) THEN Checked(PlanOver(inventory, initial, goal, {}))
      ELSE IF ~ Reachable(specs, initial, goal) THEN NotPlanned("unreachable")
      ELSE Checked(PlanOver(inventory, initial, goal, Relevant(specs, initial, goal)))

\* Fault: a plan that is valid by itself is accepted.
ExactPlan_AnyInventory(inventory, plan) == ValidSlice(plan)

\* A planner accepts only the plan it would make itself.
ExactPlan(inventory, plan) ==
  /\ plan.scope = inventory
  /\ PlanFor(inventory, plan.initial, plan.goal) = Planned(plan)

-----------------------------------------------------------------------------
(* What the available offers leave executable, and why nothing is.          *)

OffersOf(offers, c) == {offer \in offers : offer[1] = c}

Executable(plan, available) ==
  LET offered == {c \in DOMAIN plan.specifications : OffersOf(available, c) # {}}
  IN  ForwardReachable(Restrict(plan.specifications, offered), plan.initial)

TargetBlocked(plan, available) ==
  IF plan.goal.of = "output" THEN plan.goal.capability \notin Executable(plan, available)
  ELSE plan.kind \notin
         ValueKinds(plan.specifications, plan.initial, Executable(plan, available))

Producers(plan, kind) ==
  {c \in DOMAIN plan.specifications : kind \in OutputKinds(plan.specifications, c)}

\* Fault: only the goal's own producers are looked at.
Blockage_RootsOnly(plan, available) ==
  LET had   == ValueKinds(plan.specifications, plan.initial, Executable(plan, available))
      nodes == IF plan.goal.of = "output" THEN {plan.goal.capability}
               ELSE Producers(plan, plan.kind)
  IN  [nodes          |-> nodes,
       blocked_inputs |-> [c \in nodes |-> InputKinds(plan.specifications, c) \ had],
       missing_offer  |-> {c \in nodes : OffersOf(plan.offers, c) = {}}]

\* The blocked part of the graph: from the goal's producers down through the
\* producers of every input that cannot be had.
Blockage(plan, available) ==
  LET specs   == plan.specifications
      had     == ValueKinds(specs, plan.initial, Executable(plan, available))
      blocked(c) == InputKinds(specs, c) \ had
      roots   == IF plan.goal.of = "output" THEN {plan.goal.capability}
                 ELSE Producers(plan, plan.kind)
      below(nodes) ==
        nodes \cup UNION {Producers(plan, kind) : kind \in UNION {blocked(c) : c \in nodes}}
      nodes   == Iterate(below, roots, Cardinality(DOMAIN specs))
  IN  [nodes          |-> nodes,
       blocked_inputs |-> [c \in nodes |-> blocked(c)],
       missing_offer  |-> {c \in nodes : OffersOf(plan.offers, c) = {}}]

\* What the derivation facade adds for offers that exist but are not available.
MissingAttesters(plan, nodes, available) ==
  {c \in nodes : OffersOf(plan.offers, c) # {} /\ OffersOf(available, c) = {}}
=============================================================================
