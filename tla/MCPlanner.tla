------------------------------- MODULE MCPlanner -------------------------------
(* Small instances of Planner for TLC.                                        *)
EXTENDS Planner

Capability(inputs, outputs) == [inputs |-> inputs, outputs |-> outputs]

OneOffer(specs) == {<<c, 1>> : c \in DOMAIN specs}
TwoOffers(specs) == OneOffer(specs) \cup {<<c, 2>> : c \in DOMAIN specs}

-----------------------------------------------------------------------------
(* Every graph of three capabilities of these shapes, one offer each, where  *)
(* the value at hand is of use to at least one.                              *)

Shapes ==
  {Capability(inputs, outputs) :
     inputs \in {<<"x">>, <<"y">>, <<"z">>, <<"y", "z">>, <<"y", "y">>},
     outputs \in {<<"y">>, <<"z">>, <<"y", "z">>}}

Graphs ==
  {[specifications |-> specs, offers |-> OneOffer(specs)] :
     specs \in {s \in [1 .. 3 -> Shapes] : \E c \in 1 .. 3 : s[c].inputs = <<"x">>}}

-----------------------------------------------------------------------------
(* A few graphs that replace one another, with every availability and        *)
(* offers for some of their capabilities only, or two for one.               *)

Chain   == <<Capability(<<"x">>, <<"y">>), Capability(<<"y">>, <<"z">>)>>
Diamond == <<Capability(<<"x">>, <<"y">>), Capability(<<"x">>, <<"w">>),
             Capability(<<"y", "w">>, <<"z">>)>>
Cycle   == <<Capability(<<"z">>, <<"y">>), Capability(<<"y">>, <<"z">>),
             Capability(<<"x">>, <<"y">>)>>
Deep    == <<Capability(<<"x">>, <<"y">>), Capability(<<"y">>, <<"w">>),
             Capability(<<"w">>, <<"z">>), Capability(<<"v">>, <<"z">>)>>

Replaced ==
  {[specifications |-> Chain, offers |-> TwoOffers(Chain)],
   [specifications |-> Chain, offers |-> {<<1, 1>>}],
   [specifications |-> Diamond, offers |-> OneOffer(Diamond) \cup {<<3, 2>>}],
   [specifications |-> Diamond, offers |-> {<<3, 1>>}],
   [specifications |-> Cycle, offers |-> OneOffer(Cycle) \cup {<<3, 2>>}],
   [specifications |-> Deep, offers |-> {<<3, 1>>, <<4, 1>>}]}

-----------------------------------------------------------------------------
(* The constants.                                                            *)

MCInventories == Graphs \cup Replaced

MCUpgrades(inventory) == IF inventory \in Replaced THEN Replaced \ {inventory} ELSE {}

MCInitialKinds(inventory) ==
  IF inventory \in Replaced THEN {{"x"}, {"x", "y"}} ELSE {{"x"}}

MCGoals(inventory) ==
  IF inventory \in Replaced
  THEN {KindGoal("z"), OutputGoal(2, 1), OutputGoal(3, 1), OutputGoal(9, 1)}
  ELSE {KindGoal("z"), OutputGoal(1, 1)}

MCAvailability(p) == IF p.scope \in Replaced THEN SUBSET p.offers ELSE {p.offers}
=============================================================================
