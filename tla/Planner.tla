-------------------------------- MODULE Planner --------------------------------
(***************************************************************************)
(* A caller of gooir-planning over time: the installed inventory changes   *)
(* between calls, and plans made under one inventory are presented, with   *)
(* any set of available offers, to the planner of another.  The caller may *)
(* also have the installed inventory diagnosed.                            *)
(***************************************************************************)
EXTENDS Routes, Diagnosis, FiniteSetsExt

CONSTANTS
  Inventories,      \* inventories that may be installed
  Upgrades(_),      \* those that may replace the installed one
  InitialKinds(_),  \* the sets of value kinds a request may start from
  GoalsFor(_),      \* the goals a request may have
  Availability(_)   \* sets of offers a caller may say are available for a plan

\* An inventory has finitely many capabilities, and a goal is a kind or an output.
ASSUME InventoriesAssumption ==
  \A inventory \in Inventories :
    /\ IsFiniteSet(DOMAIN inventory.specifications)
    /\ Upgrades(inventory) \subseteq Inventories
    /\ \A goal \in GoalsFor(inventory) : goal.of \in {"kind", "output"}

VARIABLES
  installed,  \* SemanticPlanner: the inventory it was built from
  kept,       \* the last plan made, a record in a set of at most one
  presented,  \* the available offers of the last selection
  returned    \* what the last call returned

plannerVars == <<installed, kept, presented, returned>>

Nothing == [status |-> "nothing"]

PlannerInit ==
  /\ installed \in Inventories
  /\ kept = {}
  /\ presented = {}
  /\ returned = Nothing

\* SemanticPlanner::new over another inventory; the caller keeps its plan.
Install(next) ==
  /\ installed' = next
  /\ presented' = {}
  /\ returned' = Nothing
  /\ UNCHANGED kept

MakePlan(initial, goal) ==
  LET made == PlanFor(installed, initial, goal)
  IN  /\ returned' = NotPlanned(made.status)
      /\ kept' = IF made.status = "planned" THEN {made.plan} ELSE kept
      /\ presented' = {}
      /\ UNCHANGED installed

\* route_alternatives_with_available_offers.
Select(available) ==
  /\ \E p \in kept :
       returned' = IF ExactPlan(installed, p) THEN RouteAlternatives(p, available)
                      ELSE [status |-> "not_this_plan"]
  /\ presented' = available
  /\ UNCHANGED <<installed, kept>>

\* gooir_doctor::diagnose, before anything is planned.
Examine ==
  /\ kept = {} /\ returned = Nothing
  /\ returned' = [status |-> "diagnosed", report |-> Diagnose(installed)]
  /\ UNCHANGED <<installed, kept, presented>>

PlannerNext ==
  \/ Examine
  \/ \E next \in Upgrades(installed) : Install(next)
  \/ \E initial \in InitialKinds(installed), goal \in GoalsFor(installed) : MakePlan(initial, goal)
  \/ \E p \in kept : \E available \in Availability(p) : Select(available)

PlannerSpec == PlannerInit /\ [][PlannerNext]_plannerVars

-----------------------------------------------------------------------------
(* What planning promises.                                                  *)

\* A selection returns routes of the inventory installed now, all of them when
\* there is at most one and two of them otherwise: pruning the plan, capping
\* the search at two and keeping an old plan never lose, invent or repeat a
\* route, so `UniqueOnly` answers exactly when there is one.
RoutesExact ==
  returned.status \in {"routes", "blocked", "invalid_route"} =>
    \A p \in kept :
      LET all   == AllRoutes(installed.specifications, presented, p.initial, p.goal)
          found == IF returned.status = "routes"
                   THEN [i \in DOMAIN returned.routes |-> Unordered(returned.routes[i])]
                   ELSE <<>>
      IN  /\ returned.status # "invalid_route"
          /\ Range(found) \subseteq all
          /\ IsInjective(found)
          /\ Len(found) = Min({Cardinality(all), 2})

\* The slice cut out for a goal is always one the planner accepts again, with
\* nothing but the slice itself to recompute it from.
PlanAcceptsItself ==
  /\ returned.status # "invalid_slice"
  /\ \A p \in kept : p.scope = installed => ExactPlan(installed, p)

\* A blocked answer names enough: once every need it names is met, by an offer
\* where there is none and by making one available where none is, the goal is
\* no longer blocked.
NeedsUnblock ==
  returned.status = "blocked" =>
    \A p \in kept :
      LET b     == returned.blockage
          needs == b.missing_offer \cup MissingAttesters(p, b.nodes, presented)
      IN  ~ TargetBlocked(p, presented \cup {<<c, "new">> : c \in needs})

\* A diagnosis says of every kind what routes there are: unreachable are those
\* no choice of offers could lead to, a terminal has an offered route exactly
\* when the installed offers lead to it, and offers for what it lists as
\* unoffered would give it one.
DiagnosisExact ==
  returned.status = "diagnosed" =>
    LET specs  == installed.specifications
        report == returned.report
        routes(kind, offers) == AllRoutes(specs, offers, Roots(specs), KindGoal(kind))
        every  == {<<c, "any">> : c \in DOMAIN specs}
        reached == {k \in ProducedKinds(specs) : routes(k, every) # {}}
    IN  /\ report.unreachable = ProducedKinds(specs) \ reached
        /\ {t.kind : t \in report.terminals} = reached \ RequiredKinds(specs)
        /\ \A t \in report.terminals :
             /\ t.offered <=> routes(t.kind, installed.offers) # {}
             /\ routes(t.kind, installed.offers \cup {<<c, "new">> : c \in t.unoffered}) # {}
=============================================================================
