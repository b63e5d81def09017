------------------------------ MODULE ContentSet ------------------------------
(***************************************************************************)
(* The portable content set (gooir-artifact-sdk/src/lib.rs): files under   *)
(* relative paths that no filesystem, one that ignores the case of names   *)
(* included, can confuse.  A path is its sequence of components; a set of  *)
(* files is what its canonical order makes of a list with distinct paths.  *)
(* Extensions are abstracted.                                              *)
(***************************************************************************)
EXTENDS Naturals, Sequences, FiniteSets

CONSTANTS Marker,         \* name the managed-output host keeps for itself
          PortableNames,  \* names every filesystem accepts as a component
          Fold(_)         \* the name in ASCII lower case

Folded(path) == [k \in DOMAIN path |-> Fold(path[k])]

Reserved(path) == Folded(path) = <<Fold(Marker)>>

ValidPath(path) ==
  /\ path # <<>>
  /\ \A k \in DOMAIN path : path[k] \in PortableNames
  /\ ~ Reserved(path)

Collide(f, g) == f.path # g.path /\ Folded(f.path) = Folded(g.path)

\* f is where a directory of g must be.
Ancestor(f, g) ==
  /\ Len(f.path) < Len(g.path)
  /\ Folded(f.path) = Folded(SubSeq(g.path, 1, Len(f.path)))

\* What validate says of files with distinct paths, "none" when it accepts
\* them.  Equal paths are refused as NonCanonicalOrder, since the test of the
\* order is strict: DuplicatePath is never returned.
ContentSetError(files) ==
  CASE \E f \in files : ~ ValidPath(f.path) -> "invalid_path"
    [] \E f, g \in files : f # g /\ f.path = g.path -> "non_canonical_order"
    [] \E f, g \in files : Collide(f, g) -> "portable_collision"
    [] \E f, g \in files : Ancestor(f, g) -> "ancestor_collision"
    [] OTHER -> "none"
=============================================================================
