---------------------------- MODULE MCSourceTreeRead ----------------------------
(* Small instances of SourceTreeRead for TLC.                                 *)
EXTENDS SourceTreeRead, TLC

\* "F" and "f" are one name where case is ignored; "aux" is no portable name.
MCNameOrder == <<"marker", "F", "aux", "d", "f">>
MCPortableNames == {"marker", "F", "d", "f"}
MCFold(name) == IF name = "F" THEN "f" ELSE name
MCSize == [one |-> 1, other |-> 1, three |-> 3]

Call(marker, files, directories, bytes, total) ==
  [marker |-> marker, manifest |-> 1, files |-> files, directories |-> directories, bytes |-> bytes,
   total |-> total]

MCRequests ==
  {Call("permitted", 2, 1, 2, 2), Call("required", 1, 2, 3, 3), Call("forbidden", 2, 2, 3, 3)}

File(content) == FileObject(content, 0)
Dir(entries) == DirectoryObject(entries, 0)
Disk(used) == [i \in Inodes |-> IF i \in DOMAIN used THEN used[i] ELSE Free]

\* Trees that are edited: a file beside a directory with a file, and a file
\* beside a marker.
Edited ==
  {Disk("r" :> Dir(("f" :> "i") @@ ("d" :> "j")) @@ "i" :> File("one") @@ "j" :> Dir("f" :> "k")
          @@ "k" :> File("one")),
   Disk("r" :> Dir(("marker" :> "i") @@ ("f" :> "k")) @@ "i" :> File("one") @@ "k" :> File("one"))}

\* Trees that are not: two of each kind of object, markers and names that are
\* not portable, names that collide, and no directory at all.
Objects == {File("one"), File("three"), Dir(<<>>), OtherObject(0)}
Quiet ==
  {Disk("r" :> Dir(("f" :> "i") @@ ("d" :> "j")) @@ "i" :> x @@ "j" :> y) : x, y \in Objects}
    \cup {Disk("r" :> Dir((n :> "i") @@ ("d" :> "j")) @@ "i" :> x @@ "j" :> Dir(n :> "k")
                 @@ "k" :> File("one")) : n \in {"marker", "aux"}, x \in Objects}
    \cup {Disk("r" :> Dir(("F" :> "i") @@ ("f" :> "j")) @@ "i" :> x @@ "j" :> Dir("f" :> "k")
                 @@ "k" :> y) : x, y \in Objects}
    \cup {Disk("r" :> File("one"))}

MCStarts ==
  {[disk |-> d, edits |-> 0] : d \in Edited} \cup {[disk |-> d, edits |-> MaxEdits] : d \in Quiet}
=============================================================================
