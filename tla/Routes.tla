-------------------------------- MODULE Routes --------------------------------
(***************************************************************************)
(* What a route is, said without a search: a choice of capabilities, of a  *)
(* source for each of their inputs and of an offer for each, that is well  *)
(* founded, ends at the goal and has nothing in it the goal does not need. *)
(* A kind that is there from the start is never derived again, unless an   *)
(* output is asked for by name.  This is the reference RouteSearch is      *)
(* checked against; no code corresponds to it.                             *)
(***************************************************************************)
EXTENDS RouteSearch

OutputsOf(specs, capabilities, kind) ==
  {OutputOf(o[1], o[2]) :
     o \in {o \in UNION {{c} \X DOMAIN specs[c].outputs : c \in capabilities} :
              specs[o[1]].outputs[o[2]] = kind}}

SourcesOf(specs, initial, capabilities, kind) ==
  IF kind \in initial THEN {Initially(kind)} ELSE OutputsOf(specs, capabilities, kind)

Targets(specs, initial, capabilities, goal) ==
  IF goal.of = "kind" THEN SourcesOf(specs, initial, capabilities, goal.kind)
  ELSE IF goal.capability \in capabilities THEN {OutputOf(goal.capability, goal.port)} ELSE {}

WiringsOf(specs, initial, capabilities, c) ==
  LET sources(p) == SourcesOf(specs, initial, capabilities, specs[c].inputs[p])
      ports == DOMAIN specs[c].inputs
  IN  {w \in [ports -> UNION {sources(p) : p \in ports}] : \A p \in ports : w[p] \in sources(p)}

WellFounded(steps) ==
  \A S \in (SUBSET DOMAIN steps) \ {{}} : \E c \in S : DependsOn(steps[c]) \cap S = {}

\* Every set of steps that has what the goal and its own steps need is all.
NothingUnused(target, steps) ==
  \A S \in SUBSET DOMAIN steps :
    DependsOn(<<target>>) \cup UNION {DependsOn(steps[c]) : c \in S} \subseteq S => S = DOMAIN steps

AllRoutes(specs, offers, initial, goal) ==
  UNION {
    LET wirings == UNION {WiringsOf(specs, initial, C, c) : c \in C}
        steps   == {f \in [C -> wirings] : \A c \in C : f[c] \in WiringsOf(specs, initial, C, c)}
        picks   == {f \in [C -> offers] : \A c \in C : f[c][1] = c}
    IN  {[target |-> r[1], wiring |-> r[2], offers |-> r[3]] :
           r \in {r \in Targets(specs, initial, C, goal) \X steps \X picks :
                    WellFounded(r[2]) /\ NothingUnused(r[1], r[2])}} :
    C \in SUBSET {c \in DOMAIN specs : OffersOf(offers, c) # {}}}

\* A returned route, without the order of its steps.
Unordered(route) ==
  LET capabilities == {route.steps[i].capability : i \in DOMAIN route.steps}
      step(c) == CHOOSE s \in Range(route.steps) : s.capability = c
  IN  [target |-> route.target,
       wiring |-> [c \in capabilities |-> step(c).inputs],
       offers |-> [c \in capabilities |-> <<c, step(c).offer>>]]
=============================================================================
