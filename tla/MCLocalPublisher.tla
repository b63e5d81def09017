--------------------------- MODULE MCLocalPublisher ---------------------------
(* Small instances of LocalPublisher for TLC.                                 *)
EXTENDS LocalPublisher, TLC

\* Two artifacts, and one that is over the limits.
MCContents(artifact) ==
  CASE artifact = "a" -> ("f" :> 1)
    [] artifact = "b" -> ("g" :> 1)
    [] artifact = "huge" -> ("f" :> 3)

Request(op, owner, artifact) == [op |-> op, owner |-> owner, artifact |-> artifact]

MCRequests ==
  {Request("publish", "o", "a"), Request("publish", "o", "b"), Request("publish", "o", "huge"),
   Request("publish", "other", "a"), Request("check", "o", "a"), Request("diff", "o", "b"),
   Request("snapshot", "o", "a")}

MCFewRequests ==
  {Request("publish", "o", "a"), Request("publish", "o", "b"), Request("snapshot", "o", "a")}

Tree(owner, artifact, files) ==
  [marker |-> [owner |-> owner, artifact |-> artifact], files |-> files]

\* Nothing of a publisher, a changed file, an added one, and a whole tree of
\* either owner.
MCForeignTrees ==
  {[marker |-> NoMarker, files |-> ("f" :> 1)], Tree("o", "a", ("f" :> 2)),
   Tree("o", "a", ("f" :> 1) @@ ("g" :> 2)), Tree("o", "a", MCContents("a")),
   Tree("other", "b", MCContents("b"))}
=============================================================================
