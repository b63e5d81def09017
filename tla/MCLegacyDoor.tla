---------------------------- MODULE MCLegacyDoor ----------------------------
(* Two routes from a to c, one of one step and one of two, a capability    *)
(* with two outputs, one with two inputs of one kind, and declarations the *)
(* registry refuses; providers for some of them, in the process or out.    *)
EXTENDS LegacyDoor

In(kind, acceptance) == [name |-> kind, kind |-> kind, acceptance |-> acceptance]
Out(kind) == [name |-> kind, kind |-> kind]

Declared(id, inputs, outputs) ==
    [id |-> id, parses |-> TRUE, suite |-> "s1", extension |-> "none",
     inputs |-> inputs, outputs |-> outputs]

Long1 == Declared(1, <<In("a", "partial_allowed")>>, <<Out("b")>>)
Long2 == Declared(2, <<In("b", "complete_only")>>, <<Out("c")>>)
Short == Declared(3, <<In("a", "complete_only")>>, <<Out("c")>>)
Both  == Declared(4, <<In("a", "complete_only")>>, <<Out("b"), Out("c")>>)
Twice == Declared(5, <<[In("b", "complete_only") EXCEPT !.name = "l"],
                       [In("b", "complete_only") EXCEPT !.name = "r"]>>, <<Out("d")>>)
SameName == [Both EXCEPT !.id = 6, !.outputs = <<Out("b"), Out("b")>>]

MCKinds == {"a", "b", "c", "d"}

Pack(capabilities) == [protocol |-> TRUE, capabilities |-> capabilities]
MCPacks == {Pack(<<Long1, Long2>>), Pack(<<Short, SameName, Twice>>),
            Pack(<<Both, Twice, Long1>>)}

Descriptor(id, capability, implementation) ==
    [id |-> id, wellFormed |-> TRUE, capability |-> capability,
     implementation |-> implementation]
MCDescriptors == {Descriptor(1, 1, "i1"), Descriptor(2, 2, "i2"), Descriptor(3, 3, "i3"),
                  Descriptor(4, 4, "i1"), Descriptor(5, 5, "i5")}

AllComplete == [p \in 1 .. 5 |-> "complete"]
MCBehaviours == {AllComplete, [AllComplete EXCEPT ![1] = "defeated", ![4] = "exhaustive"],
                 [AllComplete EXCEPT ![1] = "partial", ![2] = "fails", ![4] = "wrong"]}

Attester(id, suite, implementation) ==
    [id |-> id, wellFormed |-> TRUE, suite |-> suite, implementation |-> implementation]
Trusted == Attester(11, "s1", "i2")
MCAttesters == {Trusted, Attester(12, "s1", "i9"), Attester(11, "s2", "i2")}
MCPolicy == {Trusted}

Check(passed) == [name |-> "check", passed |-> passed]
MCCheckLists == {<<>>, <<Check(TRUE)>>, <<Check(TRUE), Check(FALSE)>>}
MCSuites == {"s1", "s2"}

Made(kind, coverage) == [kind |-> kind, coverage |-> coverage]
MCOutputLists == {<<Made("b", "complete")>>, <<Made("c", "complete")>>,
                  <<Made("c", "partial")>>, <<Made("c", "complete"), Made("c", "partial")>>}

Given(kind, coverage, intact) ==
    [kind |-> kind, coverage |-> coverage, intact |-> intact,
     derivation |-> [by |-> "initial"]]
MCInitial == {{Given("a", "complete", TRUE)}, {Given("a", "partial", TRUE)},
              {Given("a", "complete", FALSE)}}
=============================================================================
