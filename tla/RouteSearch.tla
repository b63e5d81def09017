------------------------------ MODULE RouteSearch ------------------------------
(***************************************************************************)
(* The depth-first route search of gooir-planning, which keeps at most two *)
(* alternatives at every level, and the validity of a selected route       *)
(* (crates/gooir-planning/src/lib.rs).                                     *)
(*                                                                         *)
(* A draft is a source together with the steps it depends on: a set of     *)
(* pairs of a capability and the sources of its input ports.               *)
(***************************************************************************)
EXTENDS Planning, SequencesExt

Initially(kind) == [source |-> "initial", kind |-> kind]
OutputOf(capability, port) ==
  [source |-> "output", capability |-> capability, port |-> port]

Draft(source, steps) == [source |-> source, steps |-> steps]

MapSeq(F(_), s) == [i \in DOMAIN s |-> F(s[i])]

-----------------------------------------------------------------------------
(* Search.                                                                  *)

PushDistinctCapped(items, item) ==
  IF Len(items) < 2 /\ ~ Contains(items, item) THEN Append(items, item) ELSE items

CapAtTwo(items) == FoldLeft(PushDistinctCapped, <<>>, items)

\* The outputs of this kind, by capability and then by port.
OutputsInOrder(plan, kind) ==
  SetToSortSeq({o \in UNION {{c} \X DOMAIN plan.specifications[c].outputs :
                               c \in DOMAIN plan.specifications} :
                  plan.specifications[o[1]].outputs[o[2]] = kind},
               LAMBDA o, p : o[1] < p[1] \/ (o[1] = p[1] /\ o[2] < p[2]))

\* derive_value, with what is found for each output in turn.
DeriveValue(plan, kind, selected, visiting, derive) ==
  LET outputs == OutputsInOrder(plan, kind)
  IN  IF kind \in plan.initial THEN <<Draft(Initially(kind), selected)>>
      ELSE CapAtTwo(FlattenSeq([i \in DOMAIN outputs |->
             derive[OutputGoal(outputs[i][1], outputs[i][2]), selected, visiting]]))

\* Fault: every input is derived from the steps selected for the capability,
\* and what the earlier inputs selected is forgotten.
DeriveOutput_SiblingsForgotten(plan, c, port, selected, visiting, executable, derive) ==
  LET Extend(partials, kind) ==
        CapAtTwo(FlattenSeq([i \in DOMAIN partials |->
          LET derived == derive[KindGoal(kind), selected, visiting \cup {c}]
          IN  [j \in DOMAIN derived |->
                 [steps  |-> derived[j].steps,
                  inputs |-> Append(partials[i].inputs, derived[j].source)]]]))
      partials == FoldLeft(Extend, <<[steps |-> selected, inputs |-> <<>>]>>,
                           plan.specifications[c].inputs)
  IN  IF c \notin DOMAIN plan.specifications \cap executable THEN <<>>
      ELSE IF port \notin DOMAIN plan.specifications[c].outputs THEN <<>>
      ELSE IF \E step \in selected : step[1] = c THEN <<Draft(OutputOf(c, port), selected)>>
      ELSE IF c \in visiting THEN <<>>
      ELSE CapAtTwo([i \in DOMAIN partials |->
             Draft(OutputOf(c, port), partials[i].steps \cup {<<c, partials[i].inputs>>})])

\* derive_output, with what is found for each input: they are derived in
\* declaration order, each from the steps the earlier ones already selected, so
\* that a capability is wired once per route.
DeriveOutput(plan, c, port, selected, visiting, executable, derive) ==
  LET Extend(partials, kind) ==
        CapAtTwo(FlattenSeq([i \in DOMAIN partials |->
          LET derived == derive[KindGoal(kind), partials[i].steps, visiting \cup {c}]
          IN  [j \in DOMAIN derived |->
                 [steps  |-> derived[j].steps,
                  inputs |-> Append(partials[i].inputs, derived[j].source)]]]))
      partials == FoldLeft(Extend, <<[steps |-> selected, inputs |-> <<>>]>>,
                           plan.specifications[c].inputs)
  IN  IF c \notin DOMAIN plan.specifications \/ c \notin executable THEN <<>>
      ELSE IF port \notin DOMAIN plan.specifications[c].outputs THEN <<>>
      ELSE IF \E step \in selected : step[1] = c THEN <<Draft(OutputOf(c, port), selected)>>
      ELSE IF c \in visiting THEN <<>>
      ELSE CapAtTwo([i \in DOMAIN partials |->
             Draft(OutputOf(c, port), partials[i].steps \cup {<<c, partials[i].inputs>>})])

\* What the two search for, calling one another, and what they may have selected.
OutputGoals(plan) ==
  UNION {{OutputGoal(c, port) : port \in DOMAIN plan.specifications[c].outputs} :
           c \in DOMAIN plan.specifications}

Sought(plan) ==
  {plan.goal} \cup OutputGoals(plan)
    \cup {KindGoal(kind) : kind \in UNION {InputKinds(plan.specifications, c) :
                                            c \in DOMAIN plan.specifications}}

WiredSteps(plan) ==
  LET sources == {Initially(kind) : kind \in plan.initial}
                   \cup {OutputOf(goal.capability, goal.port) : goal \in OutputGoals(plan)}
  IN  (DOMAIN plan.specifications) \X Seq(sources)

Derivations(plan, executable) ==
  LET derive[goal \in Sought(plan), selected \in SUBSET WiredSteps(plan),
             visiting \in SUBSET DOMAIN plan.specifications] ==
        IF goal.of = "kind" THEN DeriveValue(plan, goal.kind, selected, visiting, derive)
        ELSE DeriveOutput(plan, goal.capability, goal.port, selected, visiting, executable, derive)
  IN  derive[plan.goal, {}, {}]

\* A draft's steps, each capability being wired once.
Wiring(steps) ==
  [c \in {step[1] : step \in steps} |-> (CHOOSE step \in steps : step[1] = c)[2]]

DraftRoutes(plan, available) ==
  IF TargetBlocked(plan, available) THEN <<>>
  ELSE CapAtTwo(Derivations(plan, Executable(plan, available)))

-----------------------------------------------------------------------------
(* Selected routes.                                                         *)

DependsOn(inputs) ==
  {source.capability : source \in {s \in Range(inputs) : s.source = "output"}}

\* The smallest capability that waits for nothing still to come, again and
\* again; shorter than the steps when they wait for one another.
CanonicalOrder(steps) ==
  LET least(S) == CHOOSE c \in S : \A d \in S : c <= d
      extend(order) ==
        LET before == Range(order)
            ready  == {c \in DOMAIN steps \ before : DependsOn(steps[c]) \subseteq before}
        IN  IF ready = {} THEN order ELSE Append(order, least(ready))
  IN  Iterate(extend, <<>>, Cardinality(DOMAIN steps))

\* The offers for a draft's steps in canonical order, capped like the drafts.
StepAlternatives(steps, available) ==
  LET order == CanonicalOrder(steps)
      Choose(partials, c) ==
        LET offers == SetToSeq(OffersOf(available, c))
        IN  CapAtTwo(FlattenSeq([i \in DOMAIN offers |->
              [j \in DOMAIN partials |->
                 Append(partials[j],
                        [capability |-> c, offer |-> offers[i][2], inputs |-> steps[c]])]]))
  IN  FoldLeft(Choose, << <<>> >>, order)

SourceKind(plan, source) ==
  IF source.source = "initial" THEN source.kind
  ELSE plan.specifications[source.capability].outputs[source.port]

\* A source names an initial kind, or an output of a preceding step.
SourceExists(plan, preceding, source) ==
  IF source.source = "initial" THEN source.kind \in plan.initial
  ELSE /\ source.capability \in preceding
       /\ source.port \in DOMAIN plan.specifications[source.capability].outputs

Needed(target, steps) ==
  LET producers(capabilities) == capabilities \cup UNION {DependsOn(steps[c]) : c \in capabilities}
  IN  Iterate(producers, DependsOn(<<target>>), Cardinality(DOMAIN steps))

\* SelectedRoute.validate: the route is one of this plan, in canonical order.
ValidRoute(plan, route) ==
  LET steps == route.steps
      before(i) == {steps[j].capability : j \in 1 .. i - 1}
      wiring == [c \in {steps[i].capability : i \in DOMAIN steps} |->
                   (CHOOSE s \in Range(steps) : s.capability = c).inputs]
      specs  == plan.specifications
  IN  /\ route.plan = plan
      /\ \A i \in DOMAIN steps :
           /\ steps[i].capability \in DOMAIN specs \ before(i)
           /\ <<steps[i].capability, steps[i].offer>> \in plan.offers
           /\ DOMAIN steps[i].inputs = DOMAIN specs[steps[i].capability].inputs
           /\ \A p \in DOMAIN steps[i].inputs :
                /\ SourceExists(plan, before(i), steps[i].inputs[p])
                /\ SourceKind(plan, steps[i].inputs[p])
                     = specs[steps[i].capability].inputs[p]
      /\ [i \in DOMAIN steps |-> steps[i].capability] = CanonicalOrder(wiring)
      /\ SourceExists(plan, DOMAIN wiring, route.target)
      /\ SourceKind(plan, route.target) = plan.kind
      /\ plan.goal.of = "output" =>
           route.target = OutputOf(plan.goal.capability, plan.goal.port)
      /\ Needed(route.target, wiring) = DOMAIN wiring

\* A draft with each choice of offers.
RoutesOf(plan, available, draft) ==
  MapSeq(LAMBDA steps : [plan |-> plan, target |-> draft.source, steps |-> steps],
         StepAlternatives(Wiring(draft.steps), available))

SelectedRoutes(plan, available) ==
  CapAtTwo(FlattenSeq(MapSeq(LAMBDA draft : RoutesOf(plan, available, draft),
                             DraftRoutes(plan, available))))

Alternatives(plan, available, routes) ==
  IF \E route \in Range(routes) : ~ ValidRoute(plan, route) THEN [status |-> "invalid_route"]
  ELSE IF routes = <<>> THEN [status |-> "blocked", blockage |-> Blockage(plan, available)]
  ELSE [status |-> "routes", routes |-> routes]

\* At most two routes, enough to tell one from several; none when blocked, and
\* an error when the search built a route that does not validate.
RouteAlternatives(plan, available) ==
  IF available \subseteq plan.offers
  THEN Alternatives(plan, available, SelectedRoutes(plan, available))
  ELSE [status |-> "unknown_offer"]
=============================================================================
