------------------------- MODULE SourceTreeRead_proofs -------------------------
(***************************************************************************)
(* Proofs about SourceTreeRead, for every set of names, every depth, all   *)
(* file systems of that depth, every request and every number of edits.    *)
(* What the reader knows of an object is true of any file system in which  *)
(* the object has the stamp it was seen with; when every stamp has been    *)
(* compared again, what it knows is true of one and the same moment.       *)
(***************************************************************************)
EXTENDS SourceTreeRead, DataTheorems, SequenceTheorems

-----------------------------------------------------------------------------
(* What reader r knows of a file system d with stamps up to e.               *)

Reading == {"enumerate", "entry", "open", "read", "reinspect", "open_directory"}
Validating == {"validate_directories", "validate_files"}
Running == {"marker"} \cup Reading \cup Validating \cup {"failing"}
Expecting == {"open", "read", "reinspect", "open_directory"}

IsList(s) == s \in Seq(ToSet(s))
Manages(r) == r.request.marker # "forbidden"
MarkerPath(r, path) == Manages(r) /\ path = <<Marker>>

\* Directories that were opened, and named or about to be.
Frames(r) == ToSet(r.stack) \cup ToSet(r.retained)
OpenFrames(r) == Frames(r) \cup (IF r.at = "enumerate" THEN {r.frame} ELSE {})

\* An object was not changed since it was looked at.
Stands(d, seen) == d[seen.inode].stamp = seen.stamp
Seen(e, seen) == seen.inode \in Inodes /\ seen.stamp \in 0 .. e

\* The path is that of an entry of this directory, as long as that stands.
EntryOf(d, frame, path, inode) ==
  \E n \in Names :
    /\ path = Append(frame.path, n)
    /\ Stands(d, frame) => n \in DOMAIN d[frame.inode].entries /\ d[frame.inode].entries[n] = inode
Linked(r, d, path, inode) == \E frame \in OpenFrames(r) : EntryOf(d, frame, path, inode)

IsRootFrame(frame) == frame.path = <<>> /\ frame.inode = Root

FrameOK(r, d, e, frame) ==
  /\ Seen(e, frame) /\ frame.path \in Seq(Names)
  /\ d[frame.inode].kind = "directory"
  /\ IsRootFrame(frame) \/ Linked(r, d, frame.path, frame.inode)

HoldsFile(d, seen, content) ==
  Stands(d, seen) => d[seen.inode].kind = "file" /\ d[seen.inode].content = content

FileOK(r, d, e, f) ==
  /\ Seen(e, f) /\ HoldsFile(d, f, f.content)
  /\ Linked(r, d, f.path, f.inode) /\ ~ MarkerPath(r, f.path)

MarkerOK(r, d, e) ==
  \/ r.marker = <<>>
  \/ /\ Manages(r) /\ Len(r.marker) = 1 /\ r.marker = <<r.marker[1]>>
     /\ Seen(e, r.marker[1]) /\ HoldsFile(d, r.marker[1], r.marker[1].content)

\* An entry that was read is a directory, a file or the marker.
Recorded(r, path, inode) ==
  \/ \E frame \in OpenFrames(r) : frame.path = path /\ frame.inode = inode
  \/ \E f \in ToSet(r.files) : f.path = path /\ f.inode = inode
  \/ MarkerPath(r, path) /\ r.marker # <<>> /\ r.marker[1].inode = inode

Walked(r, d, frame) ==
  Stands(d, frame) =>
    \A n \in (frame.names \ frame.left) \cap DOMAIN d[frame.inode].entries :
      Recorded(r, Append(frame.path, n), d[frame.inode].entries[n])

Knows(r, d, e) ==
  /\ \A frame \in OpenFrames(r) : FrameOK(r, d, e, frame)
  /\ \A f \in ToSet(r.files) : FileOK(r, d, e, f)
  /\ MarkerOK(r, d, e)
  /\ \A frame \in Frames(r) : Walked(r, d, frame)

\* What it has of the object it is about to read or open.
PendingOK(r, d, e) ==
  /\ "pending" \in DOMAIN r /\ Seen(e, r.pending)
  /\ r.at = "reinspect" => "content" \in DOMAIN r
  /\ Stands(d, r.pending) =>
       /\ r.at # "open_directory" => d[r.pending.inode].kind = "file"
       /\ r.at = "reinspect" => r.content = d[r.pending.inode].content
  /\ IF r.stack = <<>>
     THEN Manages(r) /\ r.pending.path = <<Marker>> /\ r.at # "open_directory"
     ELSE /\ EntryOf(d, Last(r.stack), r.pending.path, r.pending.inode)
          /\ r.pending.path = Append(Last(r.stack).path, First(Last(r.stack).left))
          /\ ~ MarkerPath(r, r.pending.path)

\* Before the root is named, nothing was read.
Untouched(r) ==
  /\ r.stack = <<>> /\ r.retained = <<>> /\ r.files = <<>> /\ r.marker = <<>>
  /\ r.directories = {}
BeforeNames(r) == r.at = "marker" \/ (r.at \in {"open", "read", "reinspect"} /\ r.stack = <<>>)

Fields == {"at", "request", "began", "stack", "entries", "directories", "files", "retained", "marker"}
FrameFields == {"path", "inode", "stamp"}

\* The root is among the directories that were opened, and the others are those
\* the call tells of.
Rooted(r) ==
  /\ \E frame \in OpenFrames(r) : IsRootFrame(frame)
  /\ r.directories = {frame.path : frame \in OpenFrames(r)} \ {<<>>}

ListsOK(r) ==
  /\ Fields \subseteq DOMAIN r
  /\ IsList(r.stack) /\ IsList(r.retained) /\ IsList(r.files)
  /\ \A frame \in ToSet(r.stack) : FrameFields \cup {"names", "left"} \subseteq DOMAIN frame
  /\ \A frame \in ToSet(r.retained) : frame.left = {}

\* Before its names are told, the root was opened and nothing else read.
Beginning(r, e) == Untouched(r) /\ IsRootFrame(r.frame) /\ Seen(e, r.frame)

PhaseOK(r, e) ==
  /\ r.at \in {"idle", "returned"} \cup Running
  /\ r.at = "idle" => Untouched(r)
  /\ r.at = "marker" => Manages(r)
  /\ r.at \in {"marker"} \cup Reading => "frame" \in DOMAIN r /\ FrameFields \subseteq DOMAIN r.frame
  /\ BeforeNames(r) => Beginning(r, e)
  /\ r.at \in Reading \cup Validating /\ ~ BeforeNames(r) => Rooted(r)
  /\ r.at = "open_directory" => r.stack # <<>>
  /\ r.at \in Validating => r.stack = <<>>

ReaderOK(r, e) == ListsOK(r) /\ PhaseOK(r, e)

\* What was looked at again stood when the marker was.
Checked(d, frame) == Stands(d, frame) /\ DOMAIN d[frame.inode].entries = frame.names
Validated(r, d) ==
  /\ "unchecked" \in DOMAIN r
  /\ IsList(r.unchecked)
  /\ \A frame \in ToSet(r.retained) :
       \/ Checked(d, frame)
       \/ r.at = "validate_directories" /\ frame \in ToSet(r.unchecked)
  /\ r.at = "validate_directories" => ToSet(r.unchecked) \subseteq ToSet(r.retained)
  /\ r.at = "validate_files" =>
       /\ ToSet(r.unchecked) \subseteq ToSet(r.files)
       /\ \A f \in ToSet(r.files) : Stands(d, f) \/ f \in ToSet(r.unchecked)

\* What edits leave of an earlier file system.
Since(d, e) ==
  \A i \in Inodes : disk[i] = d[i] \/ (disk[i].stamp \in Nat /\ disk[i].stamp > e)

MarkerStandsIn(r, d) ==
  \/ r.marker = <<>>
  \/ /\ Marker \in DOMAIN d[Root].entries /\ d[Root].entries[Marker] = r.marker[1].inode
     /\ Stands(d, r.marker[1])

\* A file system the root has held, of which the reader knows, and which what was
\* not touched since has not left.
WasHeld(r, d, e) ==
  /\ e \in 0 .. edits /\ FileSystem(d, e) /\ TreeOf(d) \in moments /\ Since(d, e)
  /\ Knows(r, d, e) /\ MarkerStandsIn(r, d)

\* The moment the marker was looked at again.
WasSeen(r, d, e) == WasHeld(r, d, e) /\ Validated(r, d)

Inv ==
  /\ edits \in Nat /\ FileSystem(disk, edits)
  /\ ReaderOK(reader, edits)
  /\ reader.at \in Running =>
       IsDirectory(Root) /\ TreeOf(disk) \in moments /\ MarkerOK(reader, disk, edits)
  /\ reader.at \in Reading => Knows(reader, disk, edits)
  /\ reader.at \in Expecting => PendingOK(reader, disk, edits)
  /\ reader.at \in Validating => \E d, e : WasSeen(reader, d, e)
  /\ OneMoment

-----------------------------------------------------------------------------
(* Lists by their elements.                                                  *)

\* A list by what it holds.
LEMMA ListElements ==
  ASSUME NEW X, NEW s \in Seq(X)
  PROVE  /\ ToSet(s) \subseteq X /\ s \in Seq(ToSet(s))
         /\ \A i \in 1 .. Len(s) : s[i] \in ToSet(s)
         /\ s = <<>> <=> ToSet(s) = {}
<1>1. DOMAIN s = 1 .. Len(s) /\ Len(s) \in Nat /\ \A i \in 1 .. Len(s) : s[i] \in X
  OBVIOUS
<1>2. ToSet(s) \subseteq X /\ \A i \in 1 .. Len(s) : s[i] \in ToSet(s)
  BY <1>1 DEF ToSet
<1>3. s \in Seq(ToSet(s))
  BY <1>1, <1>2
<1>4. s = <<>> => ToSet(s) = {}
  BY <1>1 DEF ToSet
<1>5. s # <<>> => 1 \in 1 .. Len(s)
  OBVIOUS
<1> QED  BY <1>2, <1>3, <1>4, <1>5

\* One element more.
LEMMA AppendedElements ==
  ASSUME NEW s, NEW x, IsList(s)
  PROVE  ToSet(Append(s, x)) = ToSet(s) \cup {x} /\ IsList(Append(s, x))
<1> DEFINE X == ToSet(s)
           t == Append(s, x)
           n == Len(s)
<1>1. s \in Seq(X)
  BY DEF IsList
<1> HIDE DEF X
<1>2. n \in Nat /\ s \in Seq(X \cup {x}) /\ x \in X \cup {x}
  BY <1>1
<1>3. /\ t \in Seq(X \cup {x}) /\ Len(t) = n + 1 /\ t[n + 1] = x
      /\ \A i \in 1 .. n : t[i] = s[i]
  BY <1>2
<1>4. DOMAIN t = 1 .. n + 1 /\ DOMAIN s = 1 .. n
  BY <1>2, <1>3
<1> HIDE DEF t, n
<1>5. ToSet(t) = ToSet(s) \cup {x}
  <2>1. \A i \in 1 .. n + 1 : i \in 1 .. n \/ i = n + 1
    BY <1>2
  <2>2. \A i \in 1 .. n : i \in 1 .. n + 1
    BY <1>2
  <2>3. n + 1 \in 1 .. n + 1
    BY <1>2
  <2> QED  BY <1>3, <1>4, <2>1, <2>2, <2>3 DEF ToSet
<1>6. IsList(t)
  BY <1>3, <1>5 DEF IsList, X
<1> QED  BY <1>5, <1>6 DEF t

\* The last element apart.
LEMMA LastElement ==
  ASSUME NEW X, NEW s \in Seq(X), s # <<>>
  PROVE  ToSet(s) = ToSet(Front(s)) \cup {Last(s)} /\ Front(s) \in Seq(X) /\ Last(s) \in X
<1> DEFINE n == Len(s)
<1>1. /\ n \in Nat \ {0} /\ Front(s) \in Seq(X) /\ Len(Front(s)) = n - 1
      /\ \A i \in 1 .. n - 1 : Front(s)[i] = s[i]
  BY FrontElements
<1>2. DOMAIN s = 1 .. n /\ DOMAIN Front(s) = 1 .. n - 1 /\ s[n] \in X
  BY <1>1
<1>3. Last(s) = s[n]
  BY DEF Last
<1> HIDE DEF n
<1>4. \A i \in 1 .. n : i \in 1 .. n - 1 \/ i = n
  BY <1>1
<1>5. n \in 1 .. n /\ \A i \in 1 .. n - 1 : i \in 1 .. n
  BY <1>1
<1>6. ToSet(s) = ToSet(Front(s)) \cup {Last(s)}
  BY <1>1, <1>2, <1>3, <1>4, <1>5 DEF ToSet
<1> QED  BY <1>1, <1>2, <1>3, <1>6

\* Another last element.
IsLastReplaced(s, t, x) == t = [s EXCEPT ![Len(s)] = x]

\* The elements of a list that ends with another.
LEMMA LastReplaced ==
  ASSUME NEW X, NEW s, NEW t, NEW x, s \in Seq(X), s # <<>>, IsLastReplaced(s, t, x)
  PROVE  /\ ToSet(t) = ToSet(Front(s)) \cup {x} /\ t \in Seq(X \cup {x}) /\ t # <<>>
         /\ Last(t) = x
<1> DEFINE n == Len(s)
<1>1. /\ n \in Nat \ {0} /\ Front(s) \in Seq(X) /\ Len(Front(s)) = n - 1
      /\ \A i \in 1 .. n - 1 : Front(s)[i] = s[i]
  BY FrontElements
<1>2. DOMAIN s = 1 .. n /\ DOMAIN Front(s) = 1 .. n - 1 /\ \A i \in 1 .. n : s[i] \in X
  BY <1>1
<1>3. /\ DOMAIN t = 1 .. n /\ n \in 1 .. n /\ t[n] = x
      /\ \A i \in 1 .. n - 1 : t[i] = s[i] /\ i \in 1 .. n
  BY <1>1, <1>2 DEF IsLastReplaced
<1> HIDE DEF n
<1>4. \A i \in 1 .. n : i \in 1 .. n - 1 \/ i = n
  BY <1>1
<1>5. t = [i \in 1 .. n |-> t[i]] /\ \A i \in 1 .. n : t[i] \in X \cup {x}
  <2>1. t = [i \in 1 .. n |-> t[i]]
    BY <1>2 DEF IsLastReplaced
  <2> QED  BY <2>1, <1>2, <1>3, <1>4
<1>6. t \in Seq(X \cup {x}) /\ Len(t) = n
  <2>1. t \in [1 .. n -> X \cup {x}]
    BY <1>5
  <2> QED  BY <1>1, <2>1
<1>7. Last(t) = x /\ t # <<>>
  BY <1>1, <1>3, <1>6 DEF Last
<1>8. ToSet(t) = ToSet(Front(s)) \cup {x}
  BY <1>1, <1>2, <1>3, <1>4 DEF ToSet
<1> QED  BY <1>6, <1>7, <1>8

\* The first element apart.
LEMMA FirstElement ==
  ASSUME NEW X, NEW s \in Seq(X), s # <<>>
  PROVE  ToSet(s) = {Head(s)} \cup ToSet(Tail(s)) /\ Tail(s) \in Seq(X)
<1> DEFINE n == Len(s)
<1>1. n \in Nat \ {0} /\ DOMAIN s = 1 .. n
  OBVIOUS
<1>2. /\ Tail(s) \in Seq(X) /\ Len(Tail(s)) = n - 1 /\ Head(s) = s[1]
      /\ \A i \in 1 .. n - 1 : Tail(s)[i] = s[i + 1]
  BY <1>1
<1>3. DOMAIN Tail(s) = 1 .. n - 1
  BY <1>2
<1> HIDE DEF n
<1>4. \A i \in 1 .. n - 1 : i + 1 \in 1 .. n
  BY <1>1
<1>5. \A i \in 1 .. n : i = 1 \/ (i - 1 \in 1 .. n - 1 /\ (i - 1) + 1 = i)
  BY <1>1
<1>6. \A x \in ToSet(s) : x = Head(s) \/ x \in ToSet(Tail(s))
  <2> SUFFICES ASSUME NEW i \in 1 .. n, s[i] # Head(s) PROVE s[i] \in ToSet(Tail(s))
    BY <1>1 DEF ToSet
  <2>1. i - 1 \in 1 .. n - 1 /\ (i - 1) + 1 = i
    BY <1>2, <1>5
  <2>2. Tail(s)[i - 1] = s[i]
    BY <1>2, <2>1
  <2> QED  BY <1>3, <2>1, <2>2 DEF ToSet
<1>7. \A x \in ToSet(Tail(s)) : x \in ToSet(s)
  BY <1>1, <1>2, <1>3, <1>4 DEF ToSet
<1>8. Head(s) \in ToSet(s)
  BY <1>1, <1>2 DEF ToSet
<1> QED  BY <1>2, <1>6, <1>7, <1>8

-----------------------------------------------------------------------------
(* Levels of a file system.                                                  *)

\* What the places of each level are computed to be.
Climbs(f, d, n) ==
  f = [k \in 0 .. n |->
         IF k = 0 THEN {RootPlace} ELSE UNION {Below(d, place) : place \in f[k - 1]}]

\* There is a function that climbs.
LEMMA ClimbExists ==
  ASSUME NEW d, NEW n \in Nat
  PROVE  \E f : Climbs(f, d, n)
<1> DEFINE bad == {m \in Nat : ~ \E f : Climbs(f, d, m)}
<1>1. SUFFICES ASSUME bad # {} PROVE FALSE
  OBVIOUS
<1>2. PICK m \in bad : \A k \in bad : m <= k
  BY <1>1, LeastNumber
<1> DEFINE next(g, k) == IF k = 0 THEN {RootPlace} ELSE UNION {Below(d, place) : place \in g[k - 1]}
<1>3. CASE m = 0
  <2> DEFINE f == [k \in 0 .. 0 |-> {RootPlace}]
  <2>1. f = [k \in 0 .. 0 |-> next(f, k)]
    OBVIOUS
  <2> HIDE DEF f
  <2>2. Climbs(f, d, 0)
    BY <2>1 DEF Climbs
  <2> QED  BY <1>3, <2>2
<1>4. CASE m # 0
  <2>1. m - 1 \in Nat /\ m - 1 \notin bad
    BY <1>2, <1>4
  <2>2. PICK g : Climbs(g, d, m - 1)
    BY <2>1
  <2>3. \A k \in 0 .. m - 1 : g[k] = next(g, k)
    BY <2>2 DEF Climbs
  <2> DEFINE last == next(g, m)
             f == [k \in 0 .. m |-> IF k = m THEN last ELSE g[k]]
  <2>4. \A k \in 0 .. m : f[k] = IF k = m THEN last ELSE g[k]
    OBVIOUS
  <2>5. f = [k \in 0 .. m |-> f[k]]
    OBVIOUS
  <2> HIDE DEF f, last
  <2>6. \A k \in 1 .. m : f[k - 1] = g[k - 1]
    BY <1>4, <2>4
  <2>7. \A k \in 0 .. m : f[k] = next(f, k)
    <3> SUFFICES ASSUME NEW k \in 0 .. m PROVE f[k] = next(f, k)
      OBVIOUS
    <3>1. f[k] = next(g, k)
      <4>1. CASE k = m
        BY <2>4, <4>1 DEF last
      <4>2. CASE k # m
        <5>1. k \in 0 .. m - 1
          BY <2>1, <4>2
        <5>2. f[k] = g[k]
          BY <2>4, <4>2
        <5> HIDE DEF next
        <5> QED  BY <2>3, <5>1, <5>2
      <4> QED  BY <4>1, <4>2
    <3>2. CASE k = 0
      BY <3>1, <3>2
    <3>3. CASE k # 0
      <4>1. f[k - 1] = g[k - 1]
        BY <2>6, <3>3
      <4> QED  BY <3>1, <4>1
    <3> QED  BY <3>2, <3>3
  <2>8. f = [k \in 0 .. m |-> next(f, k)]
    <3> HIDE DEF next
    <3> QED  BY <2>5, <2>7
  <2>9. Climbs(f, d, m)
    BY <2>8 DEF Climbs
  <2> QED  BY <2>9
<1> QED  BY <1>3, <1>4

\* The root is alone on its level, and the next level is what is below this one.
LEMMA LevelsClimb ==
  ASSUME NEW d
  PROVE  /\ Levels(d)[0] = {RootPlace}
         /\ \A k \in 1 .. Depth : Levels(d)[k] = UNION {Below(d, place) : place \in Levels(d)[k - 1]}
<1>1. Levels(d) = CHOOSE f : Climbs(f, d, Depth)
  BY DEF Levels, Climbs
<1>2. \E f : Climbs(f, d, Depth)
  BY ClimbExists, DepthIsNumber
<1>3. Climbs(Levels(d), d, Depth)
  BY <1>1, <1>2
<1> DEFINE levels == Levels(d)
           next(k) == IF k = 0 THEN {RootPlace} ELSE UNION {Below(d, place) : place \in levels[k - 1]}
<1>4. \A k \in 0 .. Depth : levels[k] = next(k)
  <2>1. levels = [k \in 0 .. Depth |-> next(k)]
    BY <1>3 DEF Climbs
  <2> HIDE DEF levels, next
  <2> QED  BY <2>1
<1>5. 0 \in 0 .. Depth /\ \A k \in 1 .. Depth : k \in 0 .. Depth /\ k # 0
  BY DepthIsNumber
<1> HIDE DEF levels
<1> QED  BY <1>4, <1>5 DEF levels

\* A place of level k has a path of that length, and a directory there has that
\* level.
IsPlaceOf(d, level, place, k) ==
  /\ place = [path |-> place.path, inode |-> place.inode]
  /\ place.path \in Seq(Names) /\ Len(place.path) = k /\ place.inode \in Inodes
  /\ d[place.inode].kind = "directory" => level[place.inode] = k

\* Every place of level k is such a place.
LEMMA PlacesHaveLevels ==
  ASSUME NEW d, NEW e \in Nat, FileSystem(d, e),
         NEW level \in [Inodes -> 0 .. Depth - 1], IsLeveled(d, level),
         NEW n \in 0 .. Depth
  PROVE  \A place \in Levels(d)[n] : IsPlaceOf(d, level, place, n)
<1> DEFINE bad == {k \in Nat : k <= Depth /\ ~ \A place \in Levels(d)[k] : IsPlaceOf(d, level, place, k)}
<1>1. SUFFICES ASSUME bad # {} PROVE FALSE
  BY DepthIsNumber
<1>2. PICK m \in bad : \A k \in bad : m <= k
  BY <1>1, LeastNumber
<1>3. CASE m = 0
  <2>1. IsPlaceOf(d, level, RootPlace, 0)
    BY RootIsAnInode DEF IsPlaceOf, RootPlace, IsLeveled
  <2> QED  BY <1>2, <1>3, <2>1, LevelsClimb
<1>4. CASE m # 0
  <2>1. m - 1 \in Nat /\ m - 1 \notin bad /\ m - 1 <= Depth /\ m \in 1 .. Depth
    BY <1>2, <1>4, DepthIsNumber
  <2>2. \A place \in Levels(d)[m - 1] : IsPlaceOf(d, level, place, m - 1)
    BY <2>1
  <2>3. Levels(d)[m] = UNION {Below(d, place) : place \in Levels(d)[m - 1]}
    BY <2>1, LevelsClimb
  <2>4. ASSUME NEW place \in Levels(d)[m - 1], NEW below \in Below(d, place)
        PROVE  IsPlaceOf(d, level, below, m)
    <3>1. IsPlaceOf(d, level, place, m - 1)
      BY <2>2
    <3>2. d[place.inode].kind = "directory"
      BY DEF Below
    <3>3. PICK name \in DOMAIN d[place.inode].entries :
            below = [path |-> Append(place.path, name), inode |-> d[place.inode].entries[name]]
      BY <3>2 DEF Below
    <3>4. /\ name \in Names /\ below.inode \in Inodes
      BY <3>1, <3>2, <3>3 DEF FileSystem, EntriesName, IsPlaceOf
    <3>5. below.path \in Seq(Names) /\ Len(below.path) = m
      BY <2>1, <3>1, <3>3, <3>4 DEF IsPlaceOf
    <3>6. d[below.inode].kind = "directory" => level[below.inode] = m
      <4>1. level[place.inode] = m - 1 /\ place.inode \in Inodes
        BY <3>1, <3>2 DEF IsPlaceOf
      <4>2. d[below.inode].kind = "directory" => level[below.inode] = level[place.inode] + 1
        BY <3>2, <3>3, <4>1 DEF IsLeveled
      <4> QED  BY <2>1, <4>1, <4>2
    <3>7. below = [path |-> below.path, inode |-> below.inode]
      BY <3>3
    <3> QED  BY <3>4, <3>5, <3>6, <3>7 DEF IsPlaceOf
  <2>5. \A place \in Levels(d)[m] : IsPlaceOf(d, level, place, m)
    BY <2>3, <2>4
  <2> QED  BY <1>2, <2>5
<1> QED  BY <1>3, <1>4

-----------------------------------------------------------------------------
(* What was seen and stands is what the root held.                           *)

\* Everything the reader knows of d stands in d.
AllStand(r, d, e) ==
  /\ e \in Nat /\ FileSystem(d, e) /\ Knows(r, d, e) /\ MarkerStandsIn(r, d)
  /\ Frames(r) = OpenFrames(r)
  /\ \A frame \in OpenFrames(r) : Checked(d, frame) /\ frame.left = {}
  /\ \A f \in ToSet(r.files) : Stands(d, f)
  /\ \E frame \in OpenFrames(r) : IsRootFrame(frame)
  /\ r.directories = {frame.path : frame \in OpenFrames(r)} \ {<<>>}

\* The ways an entry was recorded.
IsOpened(r, d, path, inode) ==
  d[inode].kind = "directory" /\ \E frame \in OpenFrames(r) : frame.path = path /\ frame.inode = inode
IsRead(r, d, path, inode) ==
  /\ d[inode].kind = "file" /\ ~ MarkerPath(r, path)
  /\ \E f \in ToSet(r.files) : f.path = path /\ f.inode = inode /\ f.content = d[inode].content
IsTheMarker(r, d, path, inode) ==
  /\ d[inode].kind = "file" /\ MarkerPath(r, path)
  /\ r.marker # <<>> /\ r.marker[1].content = d[inode].content

\* Every entry of a directory that was read is of one of these kinds.
LEMMA EntriesWereRecorded ==
  ASSUME NEW r, NEW d, NEW e, AllStand(r, d, e), NEW frame \in OpenFrames(r), NEW n \in DOMAIN d[frame.inode].entries
  PROVE  LET path == Append(frame.path, n)
             inode == d[frame.inode].entries[n]
         IN  IsOpened(r, d, path, inode) \/ IsRead(r, d, path, inode) \/ IsTheMarker(r, d, path, inode)
<1> DEFINE path == Append(frame.path, n)
           inode == d[frame.inode].entries[n]
<1>1. Recorded(r, path, inode)
  <2>1. Stands(d, frame) /\ n \in frame.names /\ frame.left = {} /\ frame \in Frames(r)
    BY DEF AllStand, Checked
  <2>2. Walked(r, d, frame)
    BY <2>1 DEF AllStand, Knows
  <2> QED  BY <2>1, <2>2 DEF Walked
<1> HIDE DEF path, inode
<1>2. ASSUME NEW g \in OpenFrames(r), g.path = path, g.inode = inode
      PROVE  IsOpened(r, d, path, inode)
  BY <1>2 DEF IsOpened, AllStand, Knows, FrameOK
<1>3. ASSUME NEW f \in ToSet(r.files), f.path = path, f.inode = inode
      PROVE  IsRead(r, d, path, inode)
  BY <1>3 DEF IsRead, AllStand, Knows, FileOK, HoldsFile
<1>4. ASSUME MarkerPath(r, path), r.marker # <<>>, r.marker[1].inode = inode
      PROVE  IsTheMarker(r, d, path, inode)
  BY <1>4 DEF IsTheMarker, AllStand, Knows, MarkerOK, HoldsFile, MarkerStandsIn
<1>5. IsOpened(r, d, path, inode) \/ IsRead(r, d, path, inode) \/ IsTheMarker(r, d, path, inode)
  BY <1>1, <1>2, <1>3, <1>4 DEF Recorded
<1> QED  BY <1>5 DEF path, inode

\* Every directory of the tree was opened.
LEMMA DirectoriesWereOpened ==
  ASSUME NEW r, NEW d, NEW e, AllStand(r, d, e), NEW n \in 0 .. Depth
  PROVE  \A place \in Levels(d)[n] : d[place.inode].kind = "directory" =>
           \E frame \in OpenFrames(r) : frame.path = place.path /\ frame.inode = place.inode
<1> DEFINE WasOpened(place) == \E frame \in OpenFrames(r) : frame.path = place.path /\ frame.inode = place.inode
           Fine(k) == \A place \in Levels(d)[k] : d[place.inode].kind = "directory" => WasOpened(place)
           bad == {k \in Nat : k <= Depth /\ ~ Fine(k)}
<1>1. SUFFICES ASSUME bad # {} PROVE FALSE
  BY DepthIsNumber
<1>2. PICK m \in bad : \A k \in bad : m <= k
  BY <1>1, LeastNumber
<1>3. CASE m = 0
  <2>1. WasOpened(RootPlace)
    BY DEF AllStand, IsRootFrame, RootPlace
  <2>2. Fine(0)
    BY <2>1, LevelsClimb
  <2> QED  BY <1>2, <1>3, <2>2
<1>4. CASE m # 0
  <2>1. m - 1 \in Nat /\ m - 1 \notin bad /\ m - 1 <= Depth /\ m \in 1 .. Depth
    BY <1>2, <1>4, DepthIsNumber
  <2>2. Fine(m - 1)
    BY <2>1
  <2>3. Levels(d)[m] = UNION {Below(d, place) : place \in Levels(d)[m - 1]}
    BY <2>1, LevelsClimb
  <2>4. ASSUME NEW place \in Levels(d)[m - 1], NEW below \in Below(d, place),
               d[below.inode].kind = "directory"
        PROVE  WasOpened(below)
    <3>1. d[place.inode].kind = "directory"
      BY DEF Below
    <3>2. PICK frame \in OpenFrames(r) : frame.path = place.path /\ frame.inode = place.inode
      BY <2>2, <3>1
    <3>3. PICK name \in DOMAIN d[frame.inode].entries :
            below = [path |-> Append(frame.path, name), inode |-> d[frame.inode].entries[name]]
      BY <3>1, <3>2 DEF Below
    <3>4. \/ IsOpened(r, d, below.path, below.inode) \/ IsRead(r, d, below.path, below.inode)
          \/ IsTheMarker(r, d, below.path, below.inode)
      BY <3>3, EntriesWereRecorded
    <3> QED  BY <2>4, <3>4 DEF IsOpened, IsRead, IsTheMarker
  <2>5. Fine(m)
    BY <2>3, <2>4
  <2> QED  BY <1>2, <2>5
<1> QED  BY <1>3, <1>4

\* So each entry in the tree was recorded.
LEMMA PlacesWereRecorded ==
  ASSUME NEW r, NEW d, NEW e, AllStand(r, d, e), NEW n \in 1 .. Depth, NEW place \in Levels(d)[n]
  PROVE  \/ IsOpened(r, d, place.path, place.inode) \/ IsRead(r, d, place.path, place.inode)
         \/ IsTheMarker(r, d, place.path, place.inode)
<1>1. n - 1 \in 0 .. Depth
  BY DepthIsNumber
<1>2. PICK above \in Levels(d)[n - 1] : place \in Below(d, above)
  BY LevelsClimb
<1>3. d[above.inode].kind = "directory"
  BY <1>2 DEF Below
<1>4. PICK frame \in OpenFrames(r) : frame.path = above.path /\ frame.inode = above.inode
  BY <1>1, <1>3, DirectoriesWereOpened
<1>5. PICK name \in DOMAIN d[frame.inode].entries :
        place = [path |-> Append(frame.path, name), inode |-> d[frame.inode].entries[name]]
  BY <1>2, <1>3, <1>4 DEF Below
<1> QED  BY <1>5, EntriesWereRecorded

\* An entry of a directory at its place is at its place.
IsPlaced(d, path, inode) ==
  /\ path \in Seq(Names) /\ Len(path) \in 0 .. Depth
  /\ [path |-> path, inode |-> inode] \in Levels(d)[Len(path)]

\* So are its entries, one level below.
LEMMA EntriesArePlaced ==
  ASSUME NEW r, NEW d, NEW e, AllStand(r, d, e), NEW frame \in OpenFrames(r), IsPlaced(d, frame.path, frame.inode),
         NEW path, NEW inode, EntryOf(d, frame, path, inode)
  PROVE  /\ IsPlaced(d, path, inode) /\ Len(path) = Len(frame.path) + 1 /\ Len(path) \in 1 .. Depth
<1>1. PICK level \in [Inodes -> 0 .. Depth - 1] : IsLeveled(d, level)
  BY DEF AllStand, FileSystem
<1> DEFINE place == [path |-> frame.path, inode |-> frame.inode]
           k == Len(frame.path)
<1>2. place \in Levels(d)[k] /\ k \in 0 .. Depth /\ frame.path \in Seq(Names)
  BY DEF IsPlaced
<1>3. d[frame.inode].kind = "directory" /\ frame.inode \in Inodes /\ Stands(d, frame)
  BY DEF AllStand, Knows, FrameOK, Checked, Seen
<1>4. IsPlaceOf(d, level, place, k)
  BY <1>1, <1>2, PlacesHaveLevels DEF AllStand
<1>5. k = level[frame.inode] /\ level[frame.inode] \in 0 .. Depth - 1
  BY <1>1, <1>3, <1>4 DEF IsPlaceOf
<1>6. PICK n \in Names : /\ path = Append(frame.path, n)
                         /\ n \in DOMAIN d[frame.inode].entries /\ d[frame.inode].entries[n] = inode
  BY <1>3 DEF EntryOf
<1>7. [path |-> path, inode |-> inode] \in Below(d, place)
  BY <1>3, <1>6 DEF Below
<1> HIDE DEF k
<1>8. k + 1 \in 1 .. Depth /\ (k + 1) - 1 = k
  BY <1>2, <1>5, DepthIsNumber
<1>9. Levels(d)[k + 1] = UNION {Below(d, p) : p \in Levels(d)[k]}
  BY <1>8, LevelsClimb
<1>10. [path |-> path, inode |-> inode] \in Levels(d)[k + 1]
  BY <1>2, <1>7, <1>9
<1>11. path \in Seq(Names) /\ Len(path) = k + 1
  BY <1>2, <1>6 DEF k
<1> QED  BY <1>8, <1>10, <1>11 DEF IsPlaced, k

\* Every directory that was opened is in the tree.
LEMMA OpenedArePlaced ==
  ASSUME NEW r, NEW d, NEW e, AllStand(r, d, e)
  PROVE  \A frame \in OpenFrames(r) : IsPlaced(d, frame.path, frame.inode)
<1> DEFINE bad == {k \in Nat : \E frame \in OpenFrames(r) :
                     Len(frame.path) = k /\ ~ IsPlaced(d, frame.path, frame.inode)}
<1>1. \A frame \in OpenFrames(r) : frame.path \in Seq(Names) /\ Len(frame.path) \in Nat
  BY DEF AllStand, Knows, FrameOK
<1>2. SUFFICES ASSUME bad # {} PROVE FALSE
  BY <1>1
<1>3. PICK m \in bad : \A k \in bad : m <= k
  BY <1>2, LeastNumber
<1>4. PICK frame \in OpenFrames(r) : Len(frame.path) = m /\ ~ IsPlaced(d, frame.path, frame.inode)
  BY <1>3
<1>5. IsRootFrame(frame) \/ Linked(r, d, frame.path, frame.inode)
  BY DEF AllStand, Knows, FrameOK
<1>6. CASE IsRootFrame(frame)
  <2>1. frame.path = <<>> /\ frame.inode = Root /\ Len(<<>>) = 0 /\ <<>> \in Seq(Names)
    BY <1>6 DEF IsRootFrame
  <2>2. [path |-> <<>>, inode |-> Root] \in Levels(d)[0]
    BY LevelsClimb DEF RootPlace
  <2>3. IsPlaced(d, frame.path, frame.inode)
    BY <2>1, <2>2, DepthIsNumber DEF IsPlaced
  <2> QED  BY <1>4, <2>3
<1>7. CASE Linked(r, d, frame.path, frame.inode)
  <2>1. PICK above \in OpenFrames(r) : EntryOf(d, above, frame.path, frame.inode)
    BY <1>7 DEF Linked
  <2>2. PICK n \in Names : frame.path = Append(above.path, n)
    BY <2>1 DEF EntryOf
  <2>3. Len(above.path) \in Nat /\ Len(above.path) < m
    BY <1>1, <1>4, <2>2
  <2>4. IsPlaced(d, above.path, above.inode)
    BY <1>3, <2>3
  <2> QED  BY <1>4, <2>1, <2>4, EntriesArePlaced
<1> QED  BY <1>5, <1>6, <1>7

-----------------------------------------------------------------------------
(* The tree that the root held, by its places.                               *)

Places(d) == UNION {Levels(d)[k] : k \in 1 .. Depth}
Kept(r, tree) == IF Manages(r) THEN {f \in tree.files : f.path = <<Marker>>} ELSE {}
FilesRead(r) == {[path |-> f.path, content |-> f.content] : f \in ToSet(r.files)}
MarkerTold(r) == {r.marker[k].content : k \in DOMAIN r.marker}

\* A tree is its places by what is there.
LEMMA TreeByPlaces ==
  ASSUME NEW d
  PROVE  /\ TreeOf(d).files = {[path |-> p.path, content |-> d[p.inode].content] :
                                 p \in {q \in Places(d) : d[q.inode].kind = "file"}}
         /\ TreeOf(d).directories = {p.path : p \in {q \in Places(d) : d[q.inode].kind = "directory"}}
         /\ TreeOf(d).others = {p.path : p \in {q \in Places(d) : d[q.inode].kind = "other"}}
BY DEF TreeOf, Places

\* Everything that was read is in the tree.
LEMMA ReadIsPlaced ==
  ASSUME NEW r, NEW d, NEW e, AllStand(r, d, e)
  PROVE  /\ \A frame \in OpenFrames(r) : frame.path # <<>> =>
              /\ [path |-> frame.path, inode |-> frame.inode] \in Places(d)
              /\ d[frame.inode].kind = "directory"
         /\ \A f \in ToSet(r.files) :
              /\ [path |-> f.path, inode |-> f.inode] \in Places(d) /\ ~ MarkerPath(r, f.path)
              /\ d[f.inode].kind = "file" /\ d[f.inode].content = f.content
         /\ r.marker # <<>> =>
              /\ [path |-> <<Marker>>, inode |-> r.marker[1].inode] \in Places(d)
              /\ Manages(r) /\ MarkerTold(r) = {d[r.marker[1].inode].content}
              /\ d[r.marker[1].inode].kind = "file"
<1>1. ASSUME NEW path, NEW inode, IsPlaced(d, path, inode), path # <<>>
      PROVE  [path |-> path, inode |-> inode] \in Places(d)
  <2>1. Len(path) \in 1 .. Depth
    BY <1>1, DepthIsNumber DEF IsPlaced
  <2> QED  BY <1>1, <2>1 DEF IsPlaced, Places
<1>2. ASSUME NEW frame \in OpenFrames(r), NEW path, NEW inode, EntryOf(d, frame, path, inode)
      PROVE  [path |-> path, inode |-> inode] \in Places(d)
  <2>1. IsPlaced(d, path, inode) /\ Len(path) = Len(frame.path) + 1 /\ Len(path) \in 1 .. Depth
    BY <1>2, OpenedArePlaced, EntriesArePlaced
  <2>2. path # <<>>
    BY <2>1
  <2> QED  BY <1>1, <2>1, <2>2
<1>3. ASSUME NEW frame \in OpenFrames(r), frame.path # <<>>
      PROVE  /\ [path |-> frame.path, inode |-> frame.inode] \in Places(d)
             /\ d[frame.inode].kind = "directory"
  <2>1. IsPlaced(d, frame.path, frame.inode)
    BY OpenedArePlaced
  <2>2. d[frame.inode].kind = "directory"
    BY DEF AllStand, Knows, FrameOK
  <2> QED  BY <1>1, <1>3, <2>1, <2>2
<1>4. ASSUME NEW f \in ToSet(r.files)
      PROVE  /\ [path |-> f.path, inode |-> f.inode] \in Places(d) /\ ~ MarkerPath(r, f.path)
             /\ d[f.inode].kind = "file" /\ d[f.inode].content = f.content
  <2>1. Linked(r, d, f.path, f.inode) /\ ~ MarkerPath(r, f.path) /\ HoldsFile(d, f, f.content) /\ Stands(d, f)
    BY DEF AllStand, Knows, FileOK
  <2>2. PICK frame \in OpenFrames(r) : EntryOf(d, frame, f.path, f.inode)
    BY <2>1 DEF Linked
  <2>3. [path |-> f.path, inode |-> f.inode] \in Places(d)
    BY <1>2, <2>2
  <2> QED  BY <2>1, <2>3 DEF HoldsFile
<1>5. ASSUME r.marker # <<>>
      PROVE  /\ [path |-> <<Marker>>, inode |-> r.marker[1].inode] \in Places(d)
             /\ Manages(r) /\ MarkerTold(r) = {d[r.marker[1].inode].content}
             /\ d[r.marker[1].inode].kind = "file"
  <2> DEFINE inode == r.marker[1].inode
  <2>1. /\ Manages(r) /\ r.marker = <<r.marker[1]>> /\ HoldsFile(d, r.marker[1], r.marker[1].content)
        /\ Marker \in DOMAIN d[Root].entries /\ d[Root].entries[Marker] = inode /\ Stands(d, r.marker[1])
    BY <1>5 DEF AllStand, Knows, MarkerOK, MarkerStandsIn
  <2>2. DOMAIN r.marker = {1}
    BY <2>1
  <2>3. MarkerTold(r) = {r.marker[1].content}
    BY <2>2 DEF MarkerTold
  <2>4. d[inode].kind = "file" /\ d[inode].content = r.marker[1].content
    BY <2>1 DEF HoldsFile
  <2>5. PICK frame \in OpenFrames(r) : IsRootFrame(frame)
    BY DEF AllStand
  <2>6. d[Root].kind = "directory"
    BY <2>5 DEF AllStand, Knows, FrameOK, IsRootFrame
  <2>7. Marker \in Names
    BY <2>1, <2>6, RootIsAnInode DEF AllStand, FileSystem, EntriesName
  <2>8. EntryOf(d, frame, <<Marker>>, inode)
    <3>1. <<Marker>> = Append(frame.path, Marker)
      BY <2>5 DEF IsRootFrame
    <3> QED  BY <2>1, <2>5, <2>7, <3>1 DEF EntryOf, IsRootFrame
  <2>9. [path |-> <<Marker>>, inode |-> inode] \in Places(d)
    BY <1>2, <2>8
  <2> QED  BY <2>1, <2>3, <2>4, <2>9
<1> QED  BY <1>3, <1>4, <1>5

\* What was read, when all of it stands, is what the root holds.
LEMMA WhatStandsIsHeld ==
  ASSUME NEW r, NEW d, NEW e, AllStand(r, d, e)
  PROVE  LET tree == TreeOf(d)
         IN  /\ tree.others = {} /\ r.directories = tree.directories
             /\ FilesRead(r) = tree.files \ Kept(r, tree)
             /\ MarkerTold(r) = {f.content : f \in Kept(r, tree)}
<1>1. /\ \A frame \in OpenFrames(r) : frame.path # <<>> =>
           /\ [path |-> frame.path, inode |-> frame.inode] \in Places(d)
           /\ d[frame.inode].kind = "directory"
      /\ \A f \in ToSet(r.files) :
           /\ [path |-> f.path, inode |-> f.inode] \in Places(d) /\ ~ MarkerPath(r, f.path)
           /\ d[f.inode].kind = "file" /\ d[f.inode].content = f.content
  BY ReadIsPlaced
<1> DEFINE tree == TreeOf(d)
<1>2. \A p \in Places(d) : IsOpened(r, d, p.path, p.inode) \/ IsRead(r, d, p.path, p.inode)
                             \/ IsTheMarker(r, d, p.path, p.inode)
  BY PlacesWereRecorded DEF Places
<1>3. \A p \in Places(d) : p.path # <<>>
  <2> SUFFICES ASSUME NEW k \in 1 .. Depth, NEW p \in Levels(d)[k] PROVE p.path # <<>>
    BY DEF Places
  <2>1. PICK level \in [Inodes -> 0 .. Depth - 1] : IsLeveled(d, level)
    BY DEF AllStand, FileSystem
  <2>2. k \in 0 .. Depth
    BY DepthIsNumber
  <2>3. IsPlaceOf(d, level, p, k)
    BY <2>1, <2>2, PlacesHaveLevels DEF AllStand
  <2> QED  BY <2>3 DEF IsPlaceOf
<1>4. tree.others = {}
  BY <1>2, TreeByPlaces DEF IsOpened, IsRead, IsTheMarker
<1>5. r.directories = tree.directories
  <2>1. \A p \in Places(d) : d[p.inode].kind = "directory" => p.path \in r.directories
    BY <1>2, <1>3 DEF IsOpened, IsRead, IsTheMarker, AllStand
  <2>2. ASSUME NEW path \in r.directories PROVE path \in tree.directories
    <3>1. PICK frame \in OpenFrames(r) : frame.path = path /\ path # <<>>
      BY DEF AllStand
    <3> DEFINE p == [path |-> frame.path, inode |-> frame.inode]
    <3>2. p.path = path /\ p.inode = frame.inode
      BY <3>1
    <3>3. [path |-> frame.path, inode |-> frame.inode] \in Places(d) /\ d[frame.inode].kind = "directory"
      BY <1>1, <3>1
    <3>4. p \in Places(d)
      BY <3>3
    <3> HIDE DEF p
    <3> QED  BY <3>2, <3>3, <3>4, TreeByPlaces
  <2>3. \A path \in tree.directories : path \in r.directories
    <3> HIDE DEF tree
    <3>1. tree.directories = {p.path : p \in {q \in Places(d) : d[q.inode].kind = "directory"}}
      BY TreeByPlaces DEF tree
    <3> QED  BY <2>1, <3>1
  <2> HIDE DEF tree
  <2> QED  BY <2>2, <2>3
<1>6. FilesRead(r) \subseteq tree.files \ Kept(r, tree)
  <2> SUFFICES ASSUME NEW f \in ToSet(r.files)
               PROVE  [path |-> f.path, content |-> f.content] \in tree.files \ Kept(r, tree)
    BY DEF FilesRead
  <2> DEFINE p == [path |-> f.path, inode |-> f.inode]
  <2>9. p.path = f.path /\ p.inode = f.inode
    OBVIOUS
  <2>1. /\ [path |-> f.path, inode |-> f.inode] \in Places(d) /\ ~ MarkerPath(r, f.path)
        /\ d[f.inode].kind = "file" /\ d[f.inode].content = f.content
    BY <1>1
  <2>2. [path |-> p.path, content |-> d[p.inode].content] \in tree.files
    <3>1. p \in Places(d)
      BY <2>1
    <3> HIDE DEF p
    <3> QED  BY <2>9, <2>1, <3>1, TreeByPlaces
  <2>3. [path |-> f.path, content |-> f.content] \in tree.files
    BY <2>9, <2>1, <2>2
  <2> QED  BY <2>1, <2>3 DEF Kept, MarkerPath
<1>7. ASSUME NEW f \in tree.files
      PROVE  IF f \in Kept(r, tree) THEN r.marker # <<>> /\ f.content \in MarkerTold(r) ELSE f \in FilesRead(r)
  <2>1. PICK p \in Places(d) : /\ d[p.inode].kind = "file"
                               /\ f = [path |-> p.path, content |-> d[p.inode].content]
    BY <1>7, TreeByPlaces
  <2>2. f \in Kept(r, tree) <=> MarkerPath(r, p.path)
    BY <1>7, <2>1 DEF Kept, MarkerPath
  <2>3. ~ IsOpened(r, d, p.path, p.inode)
    BY <2>1 DEF IsOpened
  <2>4. CASE IsRead(r, d, p.path, p.inode)
    BY <2>1, <2>2, <2>4 DEF IsRead, FilesRead
  <2>5. CASE IsTheMarker(r, d, p.path, p.inode)
    <3>1. r.marker # <<>> /\ r.marker[1].content = d[p.inode].content /\ MarkerPath(r, p.path)
      BY <2>5 DEF IsTheMarker
    <3>2. 1 \in DOMAIN r.marker
      BY <3>1 DEF AllStand, Knows, MarkerOK
    <3> QED  BY <2>1, <2>2, <3>1, <3>2 DEF MarkerTold
  <2> QED  BY <1>2, <2>3, <2>4, <2>5
<1>8. MarkerTold(r) \subseteq {f.content : f \in Kept(r, tree)}
  <2>1. CASE r.marker = <<>>
    BY <2>1 DEF MarkerTold
  <2>2. CASE r.marker # <<>>
    <3> DEFINE p == [path |-> <<Marker>>, inode |-> r.marker[1].inode]
               f == [path |-> p.path, content |-> d[p.inode].content]
    <3>1. p \in Places(d) /\ Manages(r) /\ MarkerTold(r) = {d[p.inode].content} /\ d[p.inode].kind = "file"
      BY <2>2, ReadIsPlaced
    <3>2. f \in tree.files
      BY <3>1, TreeByPlaces
    <3>3. f \in Kept(r, tree)
      BY <3>1, <3>2 DEF Kept
    <3> QED  BY <3>1, <3>3
  <2> QED  BY <2>1, <2>2
<1>9. FilesRead(r) = tree.files \ Kept(r, tree)
  BY <1>6, <1>7
<1>10. MarkerTold(r) = {f.content : f \in Kept(r, tree)}
  <2>1. \A f \in Kept(r, tree) : f \in tree.files
    BY DEF Kept
  <2> QED  BY <1>7, <1>8, <2>1
<1> QED  BY <1>4, <1>5, <1>9, <1>10

-----------------------------------------------------------------------------
(* What a step adds to what is known.                                        *)

SameFrame(g, h) == g.path = h.path /\ g.inode = h.inode /\ g.stamp = h.stamp

\* Reader q has what reader r has.
Covers(r, q) ==
  /\ q.request = r.request
  /\ \A g \in OpenFrames(r) : \E h \in OpenFrames(q) : SameFrame(g, h)
  /\ ToSet(r.files) \subseteq ToSet(q.files)
  /\ r.marker = <<>> \/ q.marker = r.marker

\* What was known of a frame or a file is known.
LEMMA CoveredStaysKnown ==
  ASSUME NEW r, NEW q, NEW d, NEW e, Covers(r, q)
  PROVE  /\ \A path, inode : Linked(r, d, path, inode) => Linked(q, d, path, inode)
         /\ \A path, inode : Recorded(r, path, inode) => Recorded(q, path, inode)
         /\ \A g, h : SameFrame(g, h) /\ FrameOK(r, d, e, g) => FrameOK(q, d, e, h)
         /\ \A f : FileOK(r, d, e, f) => FileOK(q, d, e, f)
         /\ \A g : Walked(r, d, g) => Walked(q, d, g)
<1>1. ASSUME NEW path, NEW inode, Linked(r, d, path, inode)
      PROVE  Linked(q, d, path, inode)
  <2>1. PICK g \in OpenFrames(r) : EntryOf(d, g, path, inode)
    BY <1>1 DEF Linked
  <2>2. PICK h \in OpenFrames(q) : SameFrame(g, h)
    BY DEF Covers
  <2>3. EntryOf(d, h, path, inode)
    BY <2>1, <2>2 DEF EntryOf, SameFrame, Stands
  <2> QED  BY <2>3 DEF Linked
<1>2. \A path : MarkerPath(q, path) <=> MarkerPath(r, path)
  BY DEF Covers, MarkerPath, Manages
<1>3. ASSUME NEW path, NEW inode, Recorded(r, path, inode)
      PROVE  Recorded(q, path, inode)
  <2>1. CASE \E g \in OpenFrames(r) : g.path = path /\ g.inode = inode
    BY <2>1 DEF Covers, SameFrame, Recorded
  <2>2. CASE \E f \in ToSet(r.files) : f.path = path /\ f.inode = inode
    BY <2>2 DEF Covers, Recorded
  <2>3. CASE MarkerPath(r, path) /\ r.marker # <<>> /\ r.marker[1].inode = inode
    BY <1>2, <2>3 DEF Covers, Recorded
  <2> QED  BY <1>3, <2>1, <2>2, <2>3 DEF Recorded
<1>4. ASSUME NEW g, NEW h, SameFrame(g, h), FrameOK(r, d, e, g)
      PROVE  FrameOK(q, d, e, h)
  <2>1. IsRootFrame(g) \/ Linked(r, d, g.path, g.inode)
    BY <1>4 DEF FrameOK
  <2>2. IsRootFrame(h) \/ Linked(q, d, h.path, h.inode)
    BY <1>1, <1>4, <2>1 DEF SameFrame, IsRootFrame
  <2> QED  BY <1>4, <2>2 DEF FrameOK, SameFrame, Seen
<1>5. ASSUME NEW f, FileOK(r, d, e, f)
      PROVE  FileOK(q, d, e, f)
  BY <1>1, <1>2, <1>5 DEF FileOK
<1>6. ASSUME NEW g, Walked(r, d, g)
      PROVE  Walked(q, d, g)
  BY <1>3, <1>6 DEF Walked
<1> QED  BY <1>1, <1>3, <1>4, <1>5, <1>6

\* A reader that has more, and knows of what is new, knows of all it has.
LEMMA KnowsGrows ==
  ASSUME NEW r, NEW q, NEW d, NEW e, Covers(r, q), Knows(r, d, e),
         \A h \in OpenFrames(q) : (\E g \in OpenFrames(r) : SameFrame(g, h)) \/ FrameOK(q, d, e, h),
         \A f \in ToSet(q.files) : f \in ToSet(r.files) \/ FileOK(q, d, e, f),
         q.marker = r.marker \/ MarkerOK(q, d, e),
         \A h \in Frames(q) : h \in Frames(r) \/ Walked(q, d, h)
  PROVE  Knows(q, d, e)
<1>1. /\ \A g, h : SameFrame(g, h) /\ FrameOK(r, d, e, g) => FrameOK(q, d, e, h)
      /\ \A f : FileOK(r, d, e, f) => FileOK(q, d, e, f)
      /\ \A g : Walked(r, d, g) => Walked(q, d, g)
  BY CoveredStaysKnown
<1>2. /\ \A g \in OpenFrames(r) : FrameOK(r, d, e, g)
      /\ \A f \in ToSet(r.files) : FileOK(r, d, e, f)
      /\ MarkerOK(r, d, e)
      /\ \A g \in Frames(r) : Walked(r, d, g)
  BY DEF Knows
<1>3. \A h \in OpenFrames(q) : FrameOK(q, d, e, h)
  BY <1>1, <1>2
<1>4. \A f \in ToSet(q.files) : FileOK(q, d, e, f)
  BY <1>1, <1>2
<1>5. MarkerOK(q, d, e)
  <2>1. q.request = r.request
    BY DEF Covers
  <2> QED  BY <1>2, <2>1 DEF MarkerOK, Manages
<1>6. \A h \in Frames(q) : Walked(q, d, h)
  BY <1>1, <1>2
<1> QED  BY <1>3, <1>4, <1>5, <1>6 DEF Knows

\* The directories told are those that were opened, some of them just now.
LEMMA RootedGrows ==
  ASSUME NEW r, NEW q, NEW new, Rooted(r), <<>> \notin new,
         \A g \in OpenFrames(r) : \E h \in OpenFrames(q) : SameFrame(g, h),
         \A h \in OpenFrames(q) : (\E g \in OpenFrames(r) : SameFrame(g, h)) \/ h.path \in new,
         \A path \in new : \E h \in OpenFrames(q) : h.path = path,
         q.directories = r.directories \cup new
  PROVE  Rooted(q)
<1>1. PICK root \in OpenFrames(r) : IsRootFrame(root)
  BY DEF Rooted
<1>2. \E h \in OpenFrames(q) : IsRootFrame(h)
  BY <1>1 DEF SameFrame, IsRootFrame
<1>3. r.directories = {g.path : g \in OpenFrames(r)} \ {<<>>}
  BY DEF Rooted
<1>4. \A path \in q.directories : path # <<>> /\ \E h \in OpenFrames(q) : h.path = path
  BY <1>3 DEF SameFrame
<1>5. \A h \in OpenFrames(q) : h.path # <<>> => h.path \in q.directories
  BY <1>3 DEF SameFrame
<1>6. q.directories = {h.path : h \in OpenFrames(q)} \ {<<>>}
  BY <1>4, <1>5
<1> QED  BY <1>2, <1>6 DEF Rooted

-----------------------------------------------------------------------------
(* A name of the directory being read is done with.                          *)

Skipped(r, q, name) ==
  /\ r.stack # <<>>
  /\ q.stack = [r.stack EXCEPT ![Len(r.stack)] =
                  [Last(r.stack) EXCEPT !.left = Last(r.stack).left \ {name}]]
  /\ q.retained = r.retained

\* It is the same directory as before, with a name less.
LEMMA SkippedName ==
  ASSUME NEW r, NEW q, NEW name, ListsOK(r), Skipped(r, q, name)
  PROVE  /\ IsList(q.stack) /\ q.stack # <<>>
         /\ SameFrame(Last(r.stack), Last(q.stack))
         /\ Last(q.stack).names = Last(r.stack).names
         /\ Last(q.stack).left = Last(r.stack).left \ {name}
         /\ Last(r.stack) \in ToSet(r.stack) /\ Last(q.stack) \in ToSet(q.stack)
         /\ \A g \in ToSet(r.stack) : g = Last(r.stack) \/ g \in ToSet(q.stack)
         /\ \A h \in ToSet(q.stack) : h = Last(q.stack) \/ h \in ToSet(r.stack)
         /\ \A h \in ToSet(q.stack) : FrameFields \cup {"names", "left"} \subseteq DOMAIN h
<1> DEFINE top == Last(r.stack)
           new == [top EXCEPT !.left = top.left \ {name}]
<1>1. IsList(r.stack) /\ r.stack # <<>> /\ q.stack = [r.stack EXCEPT ![Len(r.stack)] = new]
  BY DEF ListsOK, Skipped
<1>2. ToSet(r.stack) = ToSet(Front(r.stack)) \cup {top}
  BY <1>1, LastElement DEF IsList
<1>3. FrameFields \cup {"names", "left"} \subseteq DOMAIN top
  BY <1>2 DEF ListsOK
<1>4. /\ DOMAIN new = DOMAIN top /\ new.left = top.left \ {name} /\ new.names = top.names
      /\ SameFrame(top, new)
  BY <1>3 DEF SameFrame, FrameFields
<1> HIDE DEF new, top
<1>5. /\ ToSet(q.stack) = ToSet(Front(r.stack)) \cup {new} /\ q.stack \in Seq(ToSet(r.stack) \cup {new})
      /\ q.stack # <<>> /\ Last(q.stack) = new
  <2>1. r.stack \in Seq(ToSet(r.stack)) /\ r.stack # <<>>
    BY <1>1 DEF IsList
  <2> DEFINE s == r.stack
             t == q.stack
  <2>2. s \in Seq(ToSet(s)) /\ s # <<>> /\ IsLastReplaced(s, t, new)
    BY <1>1, <2>1 DEF IsLastReplaced
  <2> HIDE DEF s, t
  <2>3. /\ ToSet(t) = ToSet(Front(s)) \cup {new} /\ t \in Seq(ToSet(s) \cup {new}) /\ t # <<>>
        /\ Last(t) = new
    BY <2>2, LastReplaced, Zenon
  <2> QED  BY <2>3 DEF s, t
<1>6. IsList(q.stack)
  BY <1>5, ListElements DEF IsList
<1>7. \A h \in ToSet(q.stack) : FrameFields \cup {"names", "left"} \subseteq DOMAIN h
  BY <1>2, <1>3, <1>4, <1>5 DEF ListsOK
<1> QED  BY <1>2, <1>4, <1>5, <1>6, <1>7 DEF top

\* The frames stay, and one may be opened.
LEMMA SkippedCovers ==
  ASSUME NEW r, NEW q, NEW name, ListsOK(r), Skipped(r, q, name), r.at # "enumerate",
         q.request = r.request, q.marker = r.marker, ToSet(r.files) \subseteq ToSet(q.files)
  PROVE  /\ Covers(r, q)
         /\ \A h \in OpenFrames(q) :
              (\E g \in OpenFrames(r) : SameFrame(g, h)) \/ (q.at = "enumerate" /\ h = q.frame)
         /\ \A h \in Frames(q) : h \in Frames(r) \/ h = Last(q.stack)
         /\ Last(r.stack) \in Frames(r) /\ OpenFrames(r) = Frames(r)
<1>1. /\ SameFrame(Last(r.stack), Last(q.stack))
      /\ Last(r.stack) \in ToSet(r.stack) /\ Last(q.stack) \in ToSet(q.stack)
      /\ \A g \in ToSet(r.stack) : g = Last(r.stack) \/ g \in ToSet(q.stack)
      /\ \A h \in ToSet(q.stack) : h = Last(q.stack) \/ h \in ToSet(r.stack)
  BY SkippedName
<1>2. q.retained = r.retained /\ OpenFrames(r) = Frames(r) /\ Frames(q) \subseteq OpenFrames(q)
  BY DEF Skipped, OpenFrames
<1>3. \A g : SameFrame(g, g)
  BY DEF SameFrame
<1>4. \A g \in Frames(r) : g \in Frames(q) \/ (g = Last(r.stack) /\ Last(q.stack) \in Frames(q))
  BY <1>1, <1>2 DEF Frames
<1>5. \A g \in OpenFrames(r) : \E h \in OpenFrames(q) : SameFrame(g, h)
  BY <1>1, <1>2, <1>3, <1>4
<1>6. \A h \in Frames(q) : h \in Frames(r) \/ h = Last(q.stack)
  BY <1>1, <1>2 DEF Frames
<1>7. Last(r.stack) \in Frames(r)
  BY <1>1 DEF Frames
<1>8. \A h \in OpenFrames(q) : h \in Frames(q) \/ (q.at = "enumerate" /\ h = q.frame)
  BY DEF OpenFrames
<1> QED  BY <1>1, <1>2, <1>3, <1>5, <1>6, <1>7, <1>8 DEF Covers

\* When its entry was recorded, all that is known is known with it.
LEMMA SkippedKnows ==
  ASSUME NEW r, NEW q, NEW d, NEW e, NEW name, ListsOK(r), Skipped(r, q, name), r.at # "enumerate",
         Knows(r, d, e), q.request = r.request, q.marker = r.marker,
         ToSet(r.files) \subseteq ToSet(q.files),
         \A f \in ToSet(q.files) : f \in ToSet(r.files) \/ FileOK(q, d, e, f),
         q.at = "enumerate" => FrameOK(q, d, e, q.frame),
         LET top == Last(r.stack)
         IN  Stands(d, top) /\ name \in DOMAIN d[top.inode].entries =>
               Recorded(q, Append(top.path, name), d[top.inode].entries[name])
  PROVE  Knows(q, d, e)
<1> DEFINE top == Last(r.stack)
           new == Last(q.stack)
<1>1. /\ Covers(r, q)
      /\ \A h \in OpenFrames(q) :
           (\E g \in OpenFrames(r) : SameFrame(g, h)) \/ (q.at = "enumerate" /\ h = q.frame)
      /\ \A h \in Frames(q) : h \in Frames(r) \/ h = new
      /\ top \in Frames(r)
  BY SkippedCovers
<1>2. SameFrame(top, new) /\ new.names = top.names /\ new.left = top.left \ {name}
  BY SkippedName
<1>3. Walked(q, d, top)
  BY <1>1, CoveredStaysKnown DEF Knows
<1>4. Walked(q, d, new)
  <2> SUFFICES ASSUME Stands(d, new), NEW n \in (new.names \ new.left) \cap DOMAIN d[new.inode].entries
               PROVE  Recorded(q, Append(new.path, n), d[new.inode].entries[n])
    BY DEF Walked
  <2>1. Stands(d, top) /\ new.inode = top.inode /\ new.path = top.path
    BY <1>2 DEF SameFrame, Stands
  <2>2. CASE n = name
    BY <2>1, <2>2
  <2>3. CASE n # name
    <3>1. n \in (top.names \ top.left) \cap DOMAIN d[top.inode].entries
      BY <1>2, <2>1, <2>3
    <3> QED  BY <1>3, <2>1, <3>1 DEF Walked
  <2> QED  BY <2>2, <2>3
<1> HIDE DEF new
<1>5. \A h \in OpenFrames(q) : (\E g \in OpenFrames(r) : SameFrame(g, h)) \/ FrameOK(q, d, e, h)
  BY <1>1
<1>6. \A h \in Frames(q) : h \in Frames(r) \/ Walked(q, d, h)
  BY <1>1, <1>4
<1> QED  BY <1>1, <1>5, <1>6, KnowsGrows

-----------------------------------------------------------------------------
(* Edits.                                                                    *)

\* Objects by their kind.
LEMMA Objects ==
  ASSUME NEW e \in Nat, NEW object, IsObject(object, e)
  PROVE  /\ IsObject(object, e + 1)
         /\ object = Free <=> object.kind = "free"
         /\ object # Free => object.kind \in {"file", "directory", "other"} /\ object.stamp \in 0 .. e
<1>1. \A stamp \in 0 .. e : stamp \in 0 .. e + 1
  OBVIOUS
<1>2. CASE object = Free
  BY <1>2 DEF Free, IsObject
<1>3. CASE \E stamp \in 0 .. e : object = OtherObject(stamp)
  BY <1>1, <1>3 DEF Free, OtherObject, IsObject
<1>4. CASE \E stamp \in 0 .. e, content \in DOMAIN Size : object = FileObject(content, stamp)
  BY <1>1, <1>4 DEF Free, FileObject, IsObject
<1>5. CASE \E stamp \in 0 .. e : object.kind = "directory" /\ object = DirectoryObject(object.entries, stamp)
  <2>1. PICK stamp \in 0 .. e : object.kind = "directory" /\ object = DirectoryObject(object.entries, stamp)
    BY <1>5
  <2>2. object.stamp = stamp
    BY <2>1 DEF DirectoryObject
  <2>3. IsObject(object, e + 1)
    BY <1>1, <2>1 DEF IsObject
  <2> QED  BY <2>1, <2>2, <2>3 DEF Free
<1> QED  BY <1>2, <1>3, <1>4, <1>5 DEF IsObject

\* A new stamp leaves an object what it is.
LEMMA TouchedObjects ==
  ASSUME NEW e \in Nat, NEW object, IsObject(object, e), object # Free, NEW touched,
         touched = [object EXCEPT !.stamp = e + 1]
  PROVE  /\ IsObject(touched, e + 1) /\ touched.kind = object.kind /\ touched.stamp = e + 1
         /\ object.kind = "directory" => touched.entries = object.entries
<1>1. e + 1 \in 0 .. e + 1
  OBVIOUS
<1>2. CASE \E stamp \in 0 .. e : object = OtherObject(stamp)
  <2>1. touched = OtherObject(e + 1) /\ object.kind = "other"
    BY <1>2 DEF OtherObject
  <2> QED  BY <1>1, <2>1 DEF OtherObject, IsObject
<1>3. CASE \E stamp \in 0 .. e, content \in DOMAIN Size : object = FileObject(content, stamp)
  <2>1. PICK stamp \in 0 .. e, content \in DOMAIN Size : object = FileObject(content, stamp)
    BY <1>3
  <2>2. touched = FileObject(content, e + 1) /\ object.kind = "file"
    BY <2>1 DEF FileObject
  <2> QED  BY <1>1, <2>2 DEF FileObject, IsObject
<1>4. CASE \E stamp \in 0 .. e : object.kind = "directory" /\ object = DirectoryObject(object.entries, stamp)
  <2>1. PICK stamp \in 0 .. e : object.kind = "directory" /\ object = DirectoryObject(object.entries, stamp)
    BY <1>4
  <2> DEFINE entries == object.entries
  <2>2. object = DirectoryObject(entries, stamp)
    BY <2>1
  <2> HIDE DEF entries
  <2>3. touched = DirectoryObject(entries, e + 1)
    BY <2>2 DEF DirectoryObject
  <2>4. touched.kind = "directory" /\ touched.entries = entries /\ touched.stamp = e + 1
    BY <2>3 DEF DirectoryObject
  <2>5. IsObject(touched, e + 1)
    BY <1>1, <2>3, <2>4 DEF IsObject
  <2> QED  BY <2>1, <2>4, <2>5 DEF entries
<1> QED  BY <1>2, <1>3, <1>4 DEF IsObject

\* File system c is d after an edit: what is not as it was has the new stamp, and
\* a directory is one still.
Edited(d, c, e) ==
  /\ FileSystem(c, e + 1)
  /\ \A i \in Inodes : c[i] = d[i] \/ c[i].stamp = e + 1
  /\ \A i \in Inodes : d[i].kind = "directory" => c[i].kind = "directory"

\* An object that was there, or one that has the new stamp and the old kind.
SameKind(d, c, e, i) ==
  c[i] = d[i] \/ (IsObject(c[i], e + 1) /\ c[i].kind = d[i].kind /\ c[i].stamp = e + 1)

\* An entry of c is one of d, in the same directory unless it is of a file.
OldEntry(d, i, n, j) ==
  /\ n \in Names
  /\ \E from \in Inodes : /\ d[from].kind = "directory"
                          /\ \E m \in DOMAIN d[from].entries : j = d[from].entries[m]
                          /\ from = i \/ d[j].kind # "directory"

\* Edits that make no object.
LEMMA EditedEntries ==
  ASSUME NEW d, NEW c, NEW e \in Nat, FileSystem(d, e), DOMAIN c = Inodes,
         \A i \in Inodes : SameKind(d, c, e, i),
         \A i \in Inodes : c[i].kind = "directory" =>
           \A n \in DOMAIN c[i].entries : OldEntry(d, i, n, c[i].entries[n])
  PROVE  Edited(d, c, e)
<1>1. \A i \in Inodes : IsObject(d[i], e)
  BY DEF FileSystem
<1>2. \A i \in Inodes : IsObject(c[i], e + 1) /\ c[i].kind = d[i].kind
  BY <1>1, Objects DEF SameKind
<1>3. \A j \in Inodes : d[j] # Free => c[j] # Free
  <2> SUFFICES ASSUME NEW j \in Inodes, d[j] # Free PROVE c[j] # Free
    OBVIOUS
  <2>1. d[j].kind # "free"
    BY <1>1, Objects
  <2> QED  BY <1>2, <2>1 DEF Free
<1>4. \A i \in Inodes : EntriesName(c, i)
  <2> SUFFICES ASSUME NEW i \in Inodes, c[i].kind = "directory", NEW n \in DOMAIN c[i].entries
               PROVE  n \in Names /\ c[i].entries[n] \in Inodes \ {Root} /\ c[c[i].entries[n]] # Free
    BY DEF EntriesName
  <2> DEFINE j == c[i].entries[n]
  <2>1. OldEntry(d, i, n, j)
    OBVIOUS
  <2> HIDE DEF j
  <2>2. PICK from \in Inodes : d[from].kind = "directory" /\ \E m \in DOMAIN d[from].entries : j = d[from].entries[m]
    BY <2>1 DEF OldEntry
  <2>3. j \in Inodes \ {Root} /\ d[j] # Free
    BY <2>2 DEF FileSystem, EntriesName
  <2> QED  BY <1>3, <2>1, <2>3 DEF OldEntry, j
<1>5. PICK level \in [Inodes -> 0 .. Depth - 1] : IsLeveled(d, level)
  BY DEF FileSystem
<1>6. IsLeveled(c, level)
  <2> SUFFICES ASSUME NEW i \in Inodes, c[i].kind = "directory", NEW n \in DOMAIN c[i].entries,
                      c[c[i].entries[n]].kind = "directory"
               PROVE  level[c[i].entries[n]] = level[i] + 1
    BY <1>5 DEF IsLeveled
  <2> DEFINE j == c[i].entries[n]
  <2>1. OldEntry(d, i, n, j) /\ c[j].kind = "directory"
    OBVIOUS
  <2> HIDE DEF j
  <2>2. PICK from \in Inodes : /\ d[from].kind = "directory"
                               /\ \E m \in DOMAIN d[from].entries : j = d[from].entries[m]
                               /\ from = i \/ d[j].kind # "directory"
    BY <2>1 DEF OldEntry
  <2>3. j \in Inodes
    BY <2>2 DEF FileSystem, EntriesName
  <2>4. d[j].kind = "directory" /\ from = i
    BY <1>2, <2>1, <2>2, <2>3
  <2>5. level[j] = level[i] + 1
    BY <1>5, <2>2, <2>4 DEF IsLeveled
  <2> QED  BY <2>5 DEF j
<1>7. FileSystem(c, e + 1)
  BY <1>2, <1>4, <1>5, <1>6 DEF FileSystem
<1>8. \A i \in Inodes : c[i] = d[i] \/ c[i].stamp = e + 1
  BY DEF SameKind
<1> QED  BY <1>2, <1>7, <1>8 DEF Edited

\* An entry is an old one of its own directory.
LEMMA OwnEntry ==
  ASSUME NEW d, NEW e, FileSystem(d, e), NEW i \in Inodes, d[i].kind = "directory", NEW n \in DOMAIN d[i].entries
  PROVE  /\ OldEntry(d, i, n, d[i].entries[n]) /\ n \in Names
         /\ d[i].entries[n] \in Inodes \ {Root} /\ d[d[i].entries[n]] # Free
<1>1. n \in Names /\ d[i].entries[n] \in Inodes \ {Root} /\ d[d[i].entries[n]] # Free
  BY DEF FileSystem, EntriesName
<1> QED  BY <1>1 DEF OldEntry

\* Another object of the same kind under a name.
LEMMA RelinkedObject ==
  ASSUME NEW d, NEW e \in Nat, NEW i \in Inodes, d[i].kind = "directory", NEW entries, NEW c,
         c[i] = DirectoryObject(entries, e + 1)
  PROVE  SameKind(d, c, e, i) /\ c[i].entries = entries
<1>1. c[i].kind = "directory" /\ c[i].stamp = e + 1 /\ c[i].entries = entries /\ e + 1 \in 0 .. e + 1
  BY DEF DirectoryObject
<1> QED  BY <1>1 DEF SameKind, IsObject

\* Writing changes a file.
LEMMA WriteEdits ==
  ASSUME edits \in Nat, FileSystem(disk, edits), NEW i \in Inodes, Write(i)
  PROVE  Edited(disk, disk', edits)
<1>1. PICK content \in DOMAIN Size : disk' = [disk EXCEPT ![i] = FileObject(content, edits + 1)]
  BY DEF Write
<1>2. DOMAIN disk = Inodes /\ disk[i].kind = "file"
  BY DEF FileSystem, Write
<1>3. /\ DOMAIN disk' = Inodes /\ disk'[i] = FileObject(content, edits + 1)
      /\ \A x \in Inodes : x # i => disk'[x] = disk[x]
  BY <1>1, <1>2
<1>4. disk'[i].kind = "file" /\ disk'[i].stamp = edits + 1 /\ IsObject(disk'[i], edits + 1)
  <2>1. edits + 1 \in 0 .. edits + 1
    OBVIOUS
  <2> DEFINE object == disk'[i]
  <2>2. object = FileObject(content, edits + 1)
    BY <1>3
  <2> HIDE DEF object
  <2>3. IsObject(object, edits + 1)
    BY <2>1, <2>2 DEF IsObject
  <2>4. object.kind = "file" /\ object.stamp = edits + 1
    BY <2>2 DEF FileObject
  <2> QED  BY <2>3, <2>4 DEF object
<1>5. \A x \in Inodes : SameKind(disk, disk', edits, x)
  BY <1>2, <1>3, <1>4 DEF SameKind
<1>6. ASSUME NEW x \in Inodes, disk'[x].kind = "directory", NEW n \in DOMAIN disk'[x].entries
      PROVE  OldEntry(disk, x, n, disk'[x].entries[n])
  <2>1. disk'[x] = disk[x]
    BY <1>3, <1>4, <1>6
  <2> QED  BY <1>6, <2>1, OwnEntry
<1> QED  BY <1>3, <1>5, <1>6, EditedEntries

\* Removing a name changes its directory and what it named.
LEMMA UnlinkEdits ==
  ASSUME edits \in Nat, FileSystem(disk, edits), NEW i \in Inodes, IsDirectory(i), NEW n, Unlink(i, n)
  PROVE  Edited(disk, disk', edits)
<1> DEFINE j == Entry(i, n)
<1>1. n \in DOMAIN disk[i].entries /\ disk[i].kind = "directory"
  BY DEF Unlink, HasEntry, EntryNames, IsDirectory
<1>2. j \in Inodes /\ disk[j] # Free /\ IsObject(disk[j], edits) /\ DOMAIN disk = Inodes
  BY <1>1, OwnEntry DEF Entry, FileSystem
<1>3. disk' = [[disk EXCEPT ![i] = Relinked(i, Without(i, n))] EXCEPT ![j] = Touched(j)]
  BY DEF Unlink
<1> HIDE DEF j
<1>4. /\ DOMAIN disk' = Inodes /\ disk'[j] = Touched(j)
      /\ i # j => disk'[i] = Relinked(i, Without(i, n))
      /\ \A x \in Inodes : x # i /\ x # j => disk'[x] = disk[x]
  BY <1>2, <1>3
<1>5. /\ IsObject(disk'[j], edits + 1) /\ disk'[j].kind = disk[j].kind /\ disk'[j].stamp = edits + 1
      /\ disk[j].kind = "directory" => disk'[j].entries = disk[j].entries
  <2> DEFINE t == disk'[j]
  <2>1. t = [disk[j] EXCEPT !.stamp = edits + 1]
    BY <1>4 DEF Touched
  <2> HIDE DEF t
  <2>2. /\ IsObject(t, edits + 1) /\ t.kind = disk[j].kind /\ t.stamp = edits + 1
        /\ disk[j].kind = "directory" => t.entries = disk[j].entries
    BY <1>2, <2>1, TouchedObjects
  <2> QED  BY <2>2 DEF t
<1>6. i # j => SameKind(disk, disk', edits, i) /\ disk'[i].entries = Without(i, n)
  BY <1>1, <1>4, RelinkedObject DEF Relinked
<1>7. \A x \in Inodes : SameKind(disk, disk', edits, x)
  BY <1>4, <1>5, <1>6 DEF SameKind
<1>8. ASSUME NEW x \in Inodes, disk'[x].kind = "directory", NEW m \in DOMAIN disk'[x].entries
      PROVE  OldEntry(disk, x, m, disk'[x].entries[m])
  <2>1. CASE x = j
    BY <1>2, <1>5, <1>8, <2>1, OwnEntry
  <2>2. CASE x = i /\ i # j
    <3>1. m \in DOMAIN disk[i].entries /\ disk'[i].entries[m] = disk[i].entries[m]
      BY <1>6, <1>8, <2>2 DEF Without, EntryNames, Entry
    <3> QED  BY <1>1, <2>2, <3>1, OwnEntry
  <2>3. CASE x # i /\ x # j
    BY <1>4, <1>8, <2>3, OwnEntry
  <2> QED  BY <2>1, <2>2, <2>3
<1> QED  BY <1>4, <1>7, <1>8, EditedEntries

\* Moving a file changes both directories and the file.
LEMMA MoveEdits ==
  ASSUME edits \in Nat, FileSystem(disk, edits), NEW i \in Inodes, IsDirectory(i), NEW n, NEW to \in Inodes,
         Move(i, n, to)
  PROVE  Edited(disk, disk', edits)
<1> DEFINE j == Entry(i, n)
<1>1. /\ n \in DOMAIN disk[i].entries /\ disk[i].kind = "directory" /\ disk[to].kind = "directory"
      /\ to # i /\ disk[j].kind # "directory"
  BY DEF Move, HasEntry, EntryNames, IsDirectory
<1>2. j \in Inodes /\ disk[j] # Free /\ IsObject(disk[j], edits) /\ DOMAIN disk = Inodes /\ n \in Names
  BY <1>1, OwnEntry DEF Entry, FileSystem
<1>3. disk' = [[[disk EXCEPT ![i] = Relinked(i, Without(i, n))] EXCEPT ![to] = Relinked(to, With(to, n, j))]
                 EXCEPT ![j] = Touched(j)]
  BY DEF Move
<1>4. j = disk[i].entries[n]
  BY DEF Entry
<1> HIDE DEF j
<1>5. j # i /\ j # to
  BY <1>1
<1>6. /\ DOMAIN disk' = Inodes /\ disk'[j] = Touched(j)
      /\ disk'[i] = Relinked(i, Without(i, n)) /\ disk'[to] = Relinked(to, With(to, n, j))
      /\ \A x \in Inodes : x # i /\ x # to /\ x # j => disk'[x] = disk[x]
  BY <1>1, <1>2, <1>3, <1>5
<1>7. IsObject(disk'[j], edits + 1) /\ disk'[j].kind = disk[j].kind /\ disk'[j].stamp = edits + 1
  <2> DEFINE t == disk'[j]
  <2>1. t = [disk[j] EXCEPT !.stamp = edits + 1]
    BY <1>6 DEF Touched
  <2> HIDE DEF t
  <2>2. IsObject(t, edits + 1) /\ t.kind = disk[j].kind /\ t.stamp = edits + 1
    BY <1>2, <2>1, TouchedObjects
  <2> QED  BY <2>2 DEF t
<1>8. SameKind(disk, disk', edits, i) /\ disk'[i].entries = Without(i, n)
  BY <1>1, <1>6, RelinkedObject DEF Relinked
<1>9. SameKind(disk, disk', edits, to) /\ disk'[to].entries = With(to, n, j)
  BY <1>1, <1>6, RelinkedObject DEF Relinked
<1>10. \A x \in Inodes : SameKind(disk, disk', edits, x)
  BY <1>6, <1>7, <1>8, <1>9 DEF SameKind
<1>11. ASSUME NEW x \in Inodes, disk'[x].kind = "directory", NEW m \in DOMAIN disk'[x].entries
       PROVE  OldEntry(disk, x, m, disk'[x].entries[m])
  <2>1. x # j
    BY <1>1, <1>7, <1>11
  <2>2. CASE x = i
    <3>1. m \in DOMAIN disk[i].entries /\ disk'[i].entries[m] = disk[i].entries[m]
      BY <1>8, <1>11, <2>2 DEF Without, EntryNames, Entry
    <3> QED  BY <1>1, <2>2, <3>1, OwnEntry
  <2>3. CASE x = to /\ m = n
    <3>1. disk'[to].entries[m] = j
      BY <1>9, <1>11, <2>3 DEF With, EntryNames
    <3> QED  BY <1>1, <1>2, <1>4, <2>3, <3>1 DEF OldEntry
  <2>4. CASE x = to /\ m # n
    <3>1. m \in DOMAIN disk[to].entries /\ disk'[to].entries[m] = disk[to].entries[m]
      BY <1>9, <1>11, <2>4 DEF With, EntryNames, Entry
    <3> QED  BY <1>1, <2>4, <3>1, OwnEntry
  <2>5. CASE x # i /\ x # to
    BY <1>6, <1>11, <2>1, <2>5, OwnEntry
  <2> QED  BY <2>2, <2>3, <2>4, <2>5
<1> QED  BY <1>6, <1>10, <1>11, EditedEntries

\* A directory that has room is at a level with one below.
LEMMA RoomBelow ==
  ASSUME NEW e \in Nat, FileSystem(disk, e), NEW i \in Inodes, IsDirectory(i), HasRoom(i),
         NEW level \in [Inodes -> 0 .. Depth - 1], IsLeveled(disk, level)
  PROVE  level[i] + 1 \in 0 .. Depth - 1
<1>1. PICK k \in 0 .. Depth - 2 : \E place \in Levels(disk)[k] : place.inode = i
  BY DEF HasRoom
<1>2. PICK place \in Levels(disk)[k] : place.inode = i
  BY <1>1
<1>3. k \in 0 .. Depth
  BY DepthIsNumber
<1>4. IsPlaceOf(disk, level, place, k)
  <2> DEFINE d == disk
  <2>1. FileSystem(d, e) /\ IsLeveled(d, level) /\ place \in Levels(d)[k]
    OBVIOUS
  <2> HIDE DEF d
  <2>2. IsPlaceOf(d, level, place, k)
    BY <1>3, <2>1, PlacesHaveLevels
  <2> QED  BY <2>2 DEF d
<1>5. level[i] = k
  BY <1>2, <1>4 DEF IsPlaceOf, IsDirectory
<1> QED  BY <1>1, <1>5, DepthIsNumber

\* Putting an object changes the directory, what is put and what was there.
LEMMA PutEdits ==
  ASSUME edits \in Nat, FileSystem(disk, edits), IsDirectory(Root), NEW i \in Inodes, IsDirectory(i),
         NEW n \in Names, Put(i, n)
  PROVE  Edited(disk, disk', edits)
<1> DEFINE new == CHOOSE j \in Inodes : disk[j] = Free
           old == IF HasEntry(i, n) THEN {Entry(i, n)} ELSE {}
<1>1. /\ new \in Inodes /\ disk[new] = Free
      /\ \E o \in {FileObject(c, edits + 1) : c \in DOMAIN Size} \cup {OtherObject(edits + 1)}
                    \cup (IF HasRoom(i) THEN {DirectoryObject(<<>>, edits + 1)} ELSE {}) :
           disk' = [j \in Inodes |-> IF j = i THEN Relinked(i, With(i, n, new))
                                     ELSE IF j = new THEN o
                                     ELSE IF j \in old THEN Touched(j) ELSE disk[j]]
  BY DEF Put
<1>2. PICK o : /\ \/ \E c \in DOMAIN Size : o = FileObject(c, edits + 1)
                  \/ o = OtherObject(edits + 1)
                  \/ HasRoom(i) /\ o = DirectoryObject(<<>>, edits + 1)
               /\ disk' = [j \in Inodes |-> IF j = i THEN Relinked(i, With(i, n, new))
                                            ELSE IF j = new THEN o
                                            ELSE IF j \in old THEN Touched(j) ELSE disk[j]]
  BY <1>1
<1>3. \A j \in old : j \in Inodes /\ disk[j] # Free
  BY OwnEntry DEF HasEntry, EntryNames, Entry, IsDirectory
<1> HIDE DEF new, old
<1>4. /\ disk[i].kind = "directory" /\ disk[Root].kind = "directory" /\ disk[new].kind = "free" /\ DOMAIN disk = Inodes
      /\ new # i /\ new # Root /\ \A j \in Inodes : IsObject(disk[j], edits)
  BY <1>1 DEF IsDirectory, Free, FileSystem
<1>5. /\ DOMAIN disk' = Inodes /\ disk'[i] = Relinked(i, With(i, n, new)) /\ disk'[new] = o
      /\ \A j \in Inodes : j # i /\ j # new => disk'[j] = IF j \in old THEN Touched(j) ELSE disk[j]
  BY <1>1, <1>2, <1>4
<1>6. /\ IsObject(o, edits + 1) /\ o # Free /\ o.stamp = edits + 1
      /\ o.kind = "directory" => HasRoom(i) /\ DOMAIN o.entries = {}
  <2>1. edits + 1 \in 0 .. edits + 1
    OBVIOUS
  <2>2. CASE \E c \in DOMAIN Size : o = FileObject(c, edits + 1)
    BY <2>1, <2>2 DEF FileObject, IsObject, Free
  <2>3. CASE o = OtherObject(edits + 1)
    BY <2>1, <2>3 DEF OtherObject, IsObject, Free
  <2>4. CASE HasRoom(i) /\ o = DirectoryObject(<<>>, edits + 1)
    BY <2>1, <2>4 DEF DirectoryObject, IsObject, Free
  <2> QED  BY <1>2, <2>2, <2>3, <2>4
<1>7. ASSUME NEW j \in Inodes, j # i, j # new
      PROVE  SameKind(disk, disk', edits, j) /\ (disk[j].kind = "directory" => disk'[j].entries = disk[j].entries)
  <2>1. CASE j \notin old
    BY <1>5, <1>7, <2>1 DEF SameKind
  <2>2. CASE j \in old
    <3> DEFINE t == disk'[j]
    <3>1. t = [disk[j] EXCEPT !.stamp = edits + 1]
      BY <1>5, <1>7, <2>2 DEF Touched
    <3> HIDE DEF t
    <3>2. /\ IsObject(t, edits + 1) /\ t.kind = disk[j].kind /\ t.stamp = edits + 1
          /\ disk[j].kind = "directory" => t.entries = disk[j].entries
      BY <1>3, <1>4, <2>2, <3>1, TouchedObjects
    <3> QED  BY <3>2 DEF t, SameKind
  <2> QED  BY <2>1, <2>2
<1>8. SameKind(disk, disk', edits, i) /\ disk'[i].entries = With(i, n, new)
  BY <1>4, <1>5, RelinkedObject DEF Relinked
<1>9. \A j \in Inodes : j # new => disk'[j].kind = disk[j].kind
  BY <1>7, <1>8 DEF SameKind
<1>10. \A j \in Inodes : IsObject(disk'[j], edits + 1) /\ (disk'[j] = disk[j] \/ disk'[j].stamp = edits + 1)
  <2>1. \A j \in Inodes : j # new => SameKind(disk, disk', edits, j)
    BY <1>7, <1>8
  <2>2. \A j \in Inodes : IsObject(disk[j], edits + 1)
    BY <1>4, Objects
  <2> QED  BY <1>5, <1>6, <2>1, <2>2 DEF SameKind
<1>11. \A j \in Inodes : disk[j] # Free => disk'[j] # Free
  <2> SUFFICES ASSUME NEW j \in Inodes, disk[j] # Free PROVE disk'[j] # Free
    OBVIOUS
  <2>1. disk[j].kind # "free" /\ j # new
    BY <1>1, <1>4, Objects
  <2> QED  BY <1>9, <2>1 DEF Free
<1>12. ASSUME NEW x \in Inodes, disk'[x].kind = "directory", NEW m \in DOMAIN disk'[x].entries
       PROVE  \/ x = i /\ m = n /\ disk'[x].entries[m] = new
              \/ /\ x # new /\ disk[x].kind = "directory" /\ m \in DOMAIN disk[x].entries
                 /\ disk'[x].entries[m] = disk[x].entries[m]
  <2>1. x # new
    BY <1>5, <1>6, <1>12
  <2>2. disk[x].kind = "directory"
    BY <1>9, <1>12, <2>1
  <2>3. CASE x # i
    BY <1>7, <1>12, <2>1, <2>2, <2>3
  <2>4. CASE x = i
    BY <1>8, <1>12, <2>1, <2>2, <2>4 DEF With, EntryNames, Entry
  <2> QED  BY <2>3, <2>4
<1>13. \A x \in Inodes : EntriesName(disk', x)
  <2> SUFFICES ASSUME NEW x \in Inodes, disk'[x].kind = "directory", NEW m \in DOMAIN disk'[x].entries
               PROVE  m \in Names /\ disk'[x].entries[m] \in Inodes \ {Root} /\ disk'[disk'[x].entries[m]] # Free
    BY DEF EntriesName
  <2>1. CASE x = i /\ m = n /\ disk'[x].entries[m] = new
    BY <1>1, <1>4, <1>5, <1>6, <2>1
  <2>2. CASE /\ disk[x].kind = "directory" /\ m \in DOMAIN disk[x].entries
             /\ disk'[x].entries[m] = disk[x].entries[m]
    <3> DEFINE j == disk[x].entries[m]
    <3>1. m \in Names /\ j \in Inodes \ {Root} /\ disk[j] # Free
      BY <2>2, OwnEntry
    <3> HIDE DEF j
    <3>2. disk'[j] # Free
      BY <1>11, <3>1
    <3> QED  BY <2>2, <3>1, <3>2 DEF j
  <2> QED  BY <1>12, <2>1, <2>2
<1>14. PICK level \in [Inodes -> 0 .. Depth - 1] : IsLeveled(disk, level)
  BY DEF FileSystem
<1> DEFINE raised == IF HasRoom(i) THEN [level EXCEPT ![new] = level[i] + 1] ELSE level
<1>15. /\ raised \in [Inodes -> 0 .. Depth - 1] /\ \A x \in Inodes : x # new => raised[x] = level[x]
       /\ HasRoom(i) => raised[new] = level[i] + 1
  <2>1. HasRoom(i) => level[i] + 1 \in 0 .. Depth - 1
    BY <1>14, RoomBelow
  <2> QED  BY <1>1, <1>14, <2>1
<1> HIDE DEF raised
<1>16. IsLeveled(disk', raised)
  <2>1. raised[Root] = 0
    BY <1>4, <1>14, <1>15, RootIsAnInode DEF IsLeveled
  <2>2. ASSUME NEW x \in Inodes, disk'[x].kind = "directory", NEW m \in DOMAIN disk'[x].entries,
               disk'[disk'[x].entries[m]].kind = "directory"
        PROVE  raised[disk'[x].entries[m]] = raised[x] + 1
    <3>1. CASE x = i /\ m = n /\ disk'[x].entries[m] = new
      BY <1>4, <1>5, <1>6, <1>15, <2>2, <3>1
    <3>2. CASE /\ x # new /\ disk[x].kind = "directory" /\ m \in DOMAIN disk[x].entries
               /\ disk'[x].entries[m] = disk[x].entries[m]
      <4> DEFINE j == disk[x].entries[m]
      <4>1. j \in Inodes \ {Root} /\ disk[j] # Free /\ disk'[j].kind = "directory"
        BY <2>2, <3>2, OwnEntry
      <4>2. disk[j].kind = "directory" => level[j] = level[x] + 1
        BY <1>14, <3>2 DEF IsLeveled
      <4>3. disk'[x].entries[m] = j
        BY <3>2
      <4> HIDE DEF j
      <4>4. j # new
        BY <1>1, <4>1
      <4>5. disk[j].kind = "directory"
        BY <1>9, <4>1, <4>4
      <4> QED  BY <1>15, <3>2, <4>1, <4>2, <4>3, <4>4, <4>5
    <3> QED  BY <1>12, <2>2, <3>1, <3>2
  <2> QED  BY <2>1, <2>2 DEF IsLeveled
<1>17. FileSystem(disk', edits + 1)
  BY <1>5, <1>10, <1>13, <1>15, <1>16 DEF FileSystem
<1>18. \A x \in Inodes : disk[x].kind = "directory" => disk'[x].kind = "directory"
  BY <1>4, <1>9
<1> QED  BY <1>10, <1>17, <1>18 DEF Edited

\* What is not touched is as it was seen.
LEMMA EditedStands ==
  ASSUME NEW d, NEW c, NEW e \in Nat, Edited(d, c, e)
  PROVE  /\ \A seen : Seen(e, seen) => Seen(e + 1, seen)
         /\ \A seen : Seen(e, seen) /\ Stands(c, seen) => Stands(d, seen) /\ c[seen.inode] = d[seen.inode]
<1>1. \A stamp \in 0 .. e : stamp \in 0 .. e + 1 /\ stamp # e + 1
  OBVIOUS
<1>2. \A i \in Inodes : c[i] = d[i] \/ c[i].stamp = e + 1
  BY DEF Edited
<1> QED  BY <1>1, <1>2 DEF Seen, Stands

\* So what was known is known after an edit.
LEMMA EditedKnows ==
  ASSUME NEW d, NEW c, NEW e \in Nat, Edited(d, c, e), NEW r
  PROVE  /\ MarkerOK(r, d, e) => MarkerOK(r, c, e + 1)
         /\ Knows(r, d, e) => Knows(r, c, e + 1)
         /\ Knows(r, d, e) /\ ListsOK(r) /\ PendingOK(r, d, e) => PendingOK(r, c, e + 1)
         /\ PhaseOK(r, e) => PhaseOK(r, e + 1)
<1>1. /\ \A seen : Seen(e, seen) => Seen(e + 1, seen)
      /\ \A seen : Seen(e, seen) /\ Stands(c, seen) => Stands(d, seen) /\ c[seen.inode] = d[seen.inode]
  BY EditedStands
<1>2. MarkerOK(r, d, e) => MarkerOK(r, c, e + 1)
  BY <1>1 DEF MarkerOK, HoldsFile
<1>3. \A frame, path, inode : Seen(e, frame) /\ EntryOf(d, frame, path, inode) => EntryOf(c, frame, path, inode)
  BY <1>1 DEF EntryOf
<1>4. ASSUME Knows(r, d, e)
      PROVE  Knows(r, c, e + 1)
  <2>1. \A frame \in OpenFrames(r) : FrameOK(r, d, e, frame) /\ Seen(e, frame)
    BY <1>4 DEF Knows, FrameOK
  <2>2. \A path, inode : Linked(r, d, path, inode) => Linked(r, c, path, inode)
    BY <1>3, <2>1 DEF Linked
  <2>3. \A frame \in OpenFrames(r) : c[frame.inode].kind = "directory"
    BY <2>1 DEF FrameOK, Seen, Edited
  <2>4. \A frame \in OpenFrames(r) : FrameOK(r, c, e + 1, frame)
    BY <1>1, <2>1, <2>2, <2>3 DEF FrameOK
  <2>5. \A f \in ToSet(r.files) : FileOK(r, c, e + 1, f)
    BY <1>1, <1>4, <2>2 DEF Knows, FileOK, HoldsFile
  <2>6. \A frame \in Frames(r) : Walked(r, c, frame)
    <3>1. \A frame \in Frames(r) : Walked(r, d, frame) /\ Seen(e, frame)
      BY <1>4, <2>1 DEF Knows, OpenFrames
    <3> QED  BY <1>1, <3>1 DEF Walked
  <2> QED  BY <1>2, <1>4, <2>4, <2>5, <2>6 DEF Knows
<1>5. ASSUME Knows(r, d, e), ListsOK(r), PendingOK(r, d, e)
      PROVE  PendingOK(r, c, e + 1)
  <2>1. /\ "pending" \in DOMAIN r /\ Seen(e + 1, r.pending)
        /\ r.at = "reinspect" => "content" \in DOMAIN r
        /\ Stands(c, r.pending) =>
             /\ r.at # "open_directory" => c[r.pending.inode].kind = "file"
             /\ r.at = "reinspect" => r.content = c[r.pending.inode].content
    BY <1>1, <1>5 DEF PendingOK
  <2>2. CASE r.stack = <<>>
    BY <1>5, <2>1, <2>2 DEF PendingOK
  <2>3. CASE r.stack # <<>>
    <3>1. Last(r.stack) \in ToSet(r.stack)
      BY <1>5, <2>3, LastElement DEF ListsOK, IsList
    <3>2. Seen(e, Last(r.stack))
      BY <1>5, <3>1 DEF Knows, FrameOK, OpenFrames, Frames
    <3> QED  BY <1>3, <1>5, <2>1, <2>3, <3>2 DEF PendingOK
  <2> QED  BY <2>2, <2>3
<1>6. PhaseOK(r, e) => PhaseOK(r, e + 1)
  BY <1>1 DEF PhaseOK, Beginning
<1> QED  BY <1>2, <1>4, <1>5, <1>6

-----------------------------------------------------------------------------
(* Steps of the call.                                                        *)

\* Reader q is r at another place, with what was found.
WentOn(r, q, place, found) ==
  /\ q.at = place /\ DOMAIN q = DOMAIN r \cup DOMAIN found
  /\ \A field \in DOMAIN found : q[field] = found[field]
  /\ \A field \in DOMAIN r : field # "at" /\ field \notin DOMAIN found => q[field] = r[field]

\* The fields of the reader at its next look.
LEMMA GoingFields ==
  ASSUME Fields \subseteq DOMAIN reader, NEW place, NEW found, "at" \notin DOMAIN found
  PROVE  WentOn(reader, Going(place, found), place, found)
BY DEF Going, WentOn, Fields

\* A reader with the same lists has lists.
SameLists(r, q) ==
  /\ q.request = r.request /\ q.stack = r.stack /\ q.retained = r.retained /\ q.files = r.files
  /\ q.directories = r.directories

\* A step that leaves the file system alone is right about it when the reader is.
LEMMA GoesOn ==
  ASSUME Inv, UNCHANGED <<disk, edits, moments>>, reader.at \in Running, reader'.at \in Running,
         ReaderOK(reader', edits), MarkerOK(reader', disk, edits),
         reader'.at \in Reading => Knows(reader', disk, edits),
         reader'.at \in Expecting => PendingOK(reader', disk, edits),
         reader'.at \in Validating => \E d, e : WasSeen(reader, d, e)'
  PROVE  Inv'
<1>1. ~ (Returned') /\ ~ (Succeeded')
  BY DEF Running, Reading, Validating, Returned, Succeeded, At
<1>2. OneMoment'
  BY <1>1 DEF OneMoment
<1>3. IsDirectory(Root)' /\ TreeOf(disk)' \in moments'
  BY DEF Inv, IsDirectory
<1> QED  BY <1>2, <1>3 DEF Inv

\* A call that fails has nothing to know but the marker.
LEMMA FailsKeeps ==
  ASSUME Inv, reader.at \in Running, NEW error, Fails(error)
  PROVE  Inv'
<1> DEFINE found == [error |-> error]
           q == reader'
<1>1. DOMAIN found = {"error"} /\ q = Going("failing", found) /\ UNCHANGED <<disk, edits, moments>>
  BY DEF Fails, Goes
<1>2. Fields \subseteq DOMAIN reader /\ ListsOK(reader) /\ PhaseOK(reader, edits)
  BY DEF Inv, ReaderOK, ListsOK
<1> HIDE DEF found, q
<1>3. /\ q.at = "failing" /\ DOMAIN q = DOMAIN reader \cup {"error"}
      /\ \A field \in DOMAIN reader : field # "at" /\ field \notin {"error"} => q[field] = reader[field]
  <2>1. "at" \notin DOMAIN found
    BY <1>1
  <2>2. WentOn(reader, q, "failing", found)
    BY <1>1, <1>2, <2>1, GoingFields
  <2> QED  BY <1>1, <2>2 DEF WentOn
<1>4. SameLists(reader, q) /\ q.marker = reader.marker /\ Fields \subseteq DOMAIN q
  BY <1>2, <1>3 DEF SameLists, Fields
<1>5. ReaderOK(q, edits)
  BY <1>2, <1>3, <1>4 DEF ReaderOK, ListsOK, PhaseOK, SameLists, Reading, Validating, Running, BeforeNames
<1>6. MarkerOK(q, disk, edits)
  BY <1>4 DEF Inv, MarkerOK, Manages, SameLists
<1> QED
  BY <1>1, <1>3, <1>5, <1>6, GoesOn DEF q, Running, Reading, Validating, Expecting

\* A call that is refused tells nothing but the error.
LEMMA RefusesKeeps ==
  ASSUME Inv, NEW error, Refuses(error)
  PROVE  Inv'
<1> DEFINE result == [error |-> error]
           found == [result |-> result]
           q == reader'
<1>1. /\ DOMAIN found = {"result"} /\ found["result"] = result /\ q = Going("returned", found)
      /\ UNCHANGED <<disk, edits, moments>> /\ DOMAIN result = {"error"}
  BY DEF Refuses, Goes
<1>2. Fields \subseteq DOMAIN reader /\ ListsOK(reader)
  BY DEF Inv, ReaderOK, ListsOK
<1> HIDE DEF result, found, q
<1>3. /\ q.at = "returned" /\ DOMAIN q = DOMAIN reader \cup {"result"} /\ q["result"] = result
      /\ \A field \in DOMAIN reader : field # "at" /\ field \notin {"result"} => q[field] = reader[field]
  <2>1. "at" \notin DOMAIN found
    BY <1>1
  <2>2. WentOn(reader, q, "returned", found)
    BY <1>1, <1>2, <2>1, GoingFields
  <2> QED  BY <1>1, <2>2 DEF WentOn
<1>4. SameLists(reader, q) /\ q.marker = reader.marker /\ Fields \subseteq DOMAIN q
  BY <1>2, <1>3 DEF SameLists, Fields
<1>5. ReaderOK(q, edits)
  BY <1>2, <1>3, <1>4 DEF ReaderOK, ListsOK, PhaseOK, SameLists, Reading, Validating, Running, BeforeNames
<1>6. DOMAIN q.result = {"error"}
  BY <1>1, <1>3
<1>7. OneMoment'
  BY <1>6 DEF OneMoment, Succeeded, q
<1> QED
  BY <1>1, <1>3, <1>5, <1>7 DEF Inv, q, Running, Reading, Validating, Expecting

\* The same of a step, which leaves the file system alone.
LEMMA GoesFields ==
  ASSUME Inv, NEW place, NEW found, "at" \notin DOMAIN found, Goes(place, found)
  PROVE  WentOn(reader, reader', place, found) /\ UNCHANGED <<disk, edits, moments>>
<1>1. Fields \subseteq DOMAIN reader
  BY DEF Inv, ReaderOK, ListsOK
<1>2. WentOn(reader, Going(place, found), place, found)
  BY <1>1, GoingFields
<1> QED  BY <1>2 DEF Goes

\* The empty list has no element.
LEMMA NoElements == ToSet(<<>>) = {} /\ IsList(<<>>)
<1>1. ToSet(<<>>) = {}
  BY DEF ToSet
<1> QED  BY <1>1 DEF IsList

\* Before the root is named nothing is known, and nothing is wrong.
LEMMA UntouchedKnows ==
  ASSUME NEW r, NEW d, NEW e, Untouched(r), r.at # "enumerate"
  PROVE  Knows(r, d, e)
BY NoElements DEF Untouched, Knows, OpenFrames, Frames, MarkerOK

\* The root is about to be named.
LEMMA RootNamed ==
  ASSUME NEW r, NEW d, NEW e, ListsOK(r), r.at = "enumerate", r.stack = <<>>, r.retained = <<>>, r.files = <<>>,
         r.directories = {}, "frame" \in DOMAIN r, FrameFields \subseteq DOMAIN r.frame, IsRootFrame(r.frame),
         Seen(e, r.frame), d[Root].kind = "directory", MarkerOK(r, d, e)
  PROVE  ReaderOK(r, e) /\ Knows(r, d, e)
<1>1. Frames(r) = {} /\ OpenFrames(r) = {r.frame} /\ ToSet(r.files) = {}
  BY NoElements DEF Frames, OpenFrames
<1>2. Rooted(r)
  BY <1>1 DEF Rooted, IsRootFrame
<1>3. ~ BeforeNames(r)
  BY DEF BeforeNames
<1>4. PhaseOK(r, e)
  BY <1>2, <1>3 DEF PhaseOK, Running, Reading, Validating
<1>5. r.frame.path \in Seq(Names)
  BY DEF IsRootFrame
<1>6. FrameOK(r, d, e, r.frame)
  BY <1>5 DEF FrameOK, IsRootFrame
<1> QED  BY <1>1, <1>4, <1>6 DEF ReaderOK, Knows

\* Opening the root.
LEMMA OpenRootKeeps ==
  ASSUME Inv, OpenRoot
  PROVE  Inv'
<1>1. CASE ~ IsDirectory(Root)
  BY <1>1, RefusesKeeps DEF OpenRoot
<1>2. CASE IsDirectory(Root)
  <2> DEFINE frame == Frame(<<>>, Root)
             found == [frame |-> frame]
             place == IF Managed THEN "marker" ELSE "enumerate"
             q == reader'
  <2>1. /\ q = Going(place, found) /\ moments' = {TreeOf(disk)} /\ UNCHANGED <<disk, edits>>
        /\ reader.at = "idle" /\ place \in {"marker", "enumerate"} /\ (place = "marker" <=> Managed)
    BY <1>2 DEF OpenRoot, At
  <2>2. DOMAIN found = {"frame"} /\ found["frame"] = frame
    OBVIOUS
  <2>3. frame.path = <<>> /\ frame.inode = Root /\ frame.stamp = disk[Root].stamp /\ FrameFields \subseteq DOMAIN frame
    BY DEF Frame, FrameFields
  <2>4. ListsOK(reader) /\ Untouched(reader) /\ edits \in Nat /\ FileSystem(disk, edits)
    BY <2>1 DEF Inv, ReaderOK, PhaseOK
  <2>5. Seen(edits, frame) /\ IsRootFrame(frame) /\ disk[Root].kind = "directory"
    <3>1. IsObject(disk[Root], edits) /\ disk[Root].kind = "directory"
      BY <1>2, <2>4, RootIsAnInode DEF FileSystem, IsDirectory
    <3>2. disk[Root].stamp \in 0 .. edits
      BY <2>4, <3>1, Objects DEF Free
    <3> QED  BY <2>3, <3>1, <3>2, RootIsAnInode DEF Seen, IsRootFrame
  <2> HIDE DEF found, frame, place, q
  <2>6. WentOn(reader, q, place, found)
    BY <2>1, <2>2, <2>4, GoingFields DEF ListsOK
  <2>7. /\ q.at = place /\ q.frame = frame /\ "frame" \in DOMAIN q /\ Fields \subseteq DOMAIN q
        /\ SameLists(reader, q) /\ q.marker = reader.marker
    BY <2>2, <2>4, <2>6 DEF WentOn, SameLists, ListsOK, Fields
  <2>8. ListsOK(q) /\ Untouched(q) /\ MarkerOK(q, disk, edits)
    BY <2>4, <2>7 DEF ListsOK, SameLists, Untouched, MarkerOK
  <2>9. ReaderOK(q, edits) /\ Knows(q, disk, edits)
    <3>1. CASE place = "enumerate"
      BY <2>3, <2>5, <2>7, <2>8, <3>1, RootNamed DEF Untouched
    <3>2. CASE place = "marker"
      <4>1. Manages(q)
        BY <2>1, <2>7, <3>2 DEF Managed, Manages, SameLists
      <4>2. BeforeNames(q) /\ Beginning(q, edits)
        BY <2>5, <2>7, <2>8, <3>2 DEF BeforeNames, Beginning
      <4>3. PhaseOK(q, edits)
        BY <2>3, <2>7, <3>2, <4>1, <4>2 DEF PhaseOK, Running, Reading, Validating
      <4>4. Knows(q, disk, edits)
        BY <2>7, <2>8, <3>2, UntouchedKnows
      <4> QED  BY <2>8, <4>3, <4>4 DEF ReaderOK
    <3> QED  BY <2>1, <3>1, <3>2
  <2>10. OneMoment'
    BY <2>1, <2>7 DEF OneMoment, Succeeded, Returned, At, q
  <2> QED
    BY <1>2, <2>1, <2>4, <2>7, <2>8, <2>9, <2>10 DEF Inv, q, Running, Reading, Validating, Expecting, IsDirectory
<1> QED  BY <1>1, <1>2

\* Looking at the marker.
LEMMA InspectMarkerKeeps ==
  ASSUME Inv, InspectMarker
  PROVE  Inv'
<1> DEFINE file == Entry(Root, Marker)
           limit == reader.request.manifest
           q == reader'
<1>1. /\ reader.at = "marker" /\ reader.at \in Running
      /\ \/ \E error : Fails(error)
         \/ Continue("enumerate")
         \/ /\ HasEntry(Root, Marker) /\ disk[file].kind = "file"
            /\ Goes("open", Inspected(Root, Marker, <<Marker>>, limit))
  BY DEF InspectMarker, At, Running
<1>2. /\ ListsOK(reader) /\ Beginning(reader, edits) /\ Manages(reader) /\ "frame" \in DOMAIN reader
      /\ FrameFields \subseteq DOMAIN reader.frame /\ edits \in Nat /\ FileSystem(disk, edits)
      /\ disk[Root].kind = "directory" /\ MarkerOK(reader, disk, edits)
  BY <1>1 DEF Inv, ReaderOK, PhaseOK, BeforeNames, Running, IsDirectory
<1>3. CASE \E error : Fails(error)
  BY <1>1, <1>3, FailsKeeps
<1>4. CASE Continue("enumerate")
  <2> DEFINE found == <<>>
  <2>1. DOMAIN found = {} /\ Goes("enumerate", found)
    BY <1>4 DEF Continue
  <2> HIDE DEF found, q
  <2>2. WentOn(reader, q, "enumerate", found) /\ UNCHANGED <<disk, edits, moments>>
    BY <2>1, GoesFields DEF q
  <2>3. /\ q.at = "enumerate" /\ q.frame = reader.frame /\ "frame" \in DOMAIN q /\ Fields \subseteq DOMAIN q
        /\ SameLists(reader, q) /\ q.marker = reader.marker
    BY <1>2, <2>1, <2>2 DEF WentOn, SameLists, ListsOK, Fields
  <2>4. ListsOK(q) /\ MarkerOK(q, disk, edits)
    BY <1>2, <2>3 DEF ListsOK, SameLists, MarkerOK, Manages
  <2>5. ReaderOK(q, edits) /\ Knows(q, disk, edits)
    BY <1>2, <2>3, <2>4, RootNamed DEF Beginning, Untouched, SameLists
  <2> QED  BY <1>1, <2>2, <2>3, <2>4, <2>5, GoesOn DEF q, Running, Reading, Validating, Expecting
<1>5. CASE /\ HasEntry(Root, Marker) /\ disk[file].kind = "file"
           /\ Goes("open", Inspected(Root, Marker, <<Marker>>, limit))
  <2> DEFINE found == Inspected(Root, Marker, <<Marker>>, limit)
             pending == found.pending
  <2>1. DOMAIN found = {"pending"} /\ found["pending"] = pending /\ Goes("open", found)
    BY <1>5 DEF Inspected
  <2>2. pending.path = <<Marker>> /\ pending.inode = file /\ pending.stamp = disk[file].stamp
    BY DEF Inspected
  <2>3. Seen(edits, pending) /\ disk[pending.inode].kind = "file"
    <3>1. file \in Inodes /\ disk[file] # Free /\ IsObject(disk[file], edits)
      BY <1>2, <1>5, RootIsAnInode, OwnEntry DEF HasEntry, EntryNames, Entry, FileSystem
    <3>2. disk[file].stamp \in 0 .. edits
      BY <1>2, <3>1, Objects
    <3> HIDE DEF file, pending
    <3> QED  BY <1>5, <2>2, <3>1, <3>2 DEF Seen
  <2> HIDE DEF found, q, pending
  <2>4. WentOn(reader, q, "open", found) /\ UNCHANGED <<disk, edits, moments>>
    BY <2>1, GoesFields DEF q
  <2>5. /\ q.at = "open" /\ q.frame = reader.frame /\ {"frame", "pending"} \subseteq DOMAIN q
        /\ Fields \subseteq DOMAIN q /\ q.pending = pending
        /\ SameLists(reader, q) /\ q.marker = reader.marker
    BY <1>2, <2>1, <2>4 DEF WentOn, SameLists, ListsOK, Fields
  <2>6. ListsOK(q) /\ MarkerOK(q, disk, edits) /\ Beginning(q, edits) /\ Manages(q)
    BY <1>2, <2>5 DEF ListsOK, SameLists, MarkerOK, Manages, Beginning, Untouched
  <2>7. ReaderOK(q, edits)
    <3>1. BeforeNames(q)
      BY <2>5, <2>6 DEF BeforeNames, Beginning, Untouched
    <3>2. PhaseOK(q, edits)
      BY <1>2, <2>5, <2>6, <3>1 DEF PhaseOK, Running, Reading, Validating
    <3> QED  BY <2>6, <3>2 DEF ReaderOK
  <2>8. Knows(q, disk, edits)
    BY <2>5, <2>6, UntouchedKnows DEF Beginning
  <2>9. PendingOK(q, disk, edits)
    BY <2>2, <2>3, <2>5, <2>6 DEF PendingOK, Beginning, Untouched
  <2> QED  BY <1>1, <2>4, <2>5, <2>6, <2>7, <2>8, <2>9, GoesOn DEF q, Running, Reading, Validating, Expecting
<1> QED  BY <1>1, <1>3, <1>4, <1>5

\* The names of a directory.
LEMMA EnumerateKeeps ==
  ASSUME Inv, Enumerate
  PROVE  Inv'
<1> DEFINE frame == reader.frame
           new == [path |-> frame.path, inode |-> frame.inode, stamp |-> frame.stamp,
                   names |-> EntryNames(frame.inode), left |-> EntryNames(frame.inode)]
           q == reader'
<1>1. /\ reader.at = "enumerate" /\ reader.at \in Running /\ reader.at \in Reading
      /\ \/ \E error : Fails(error)
         \/ \E n : Goes("entry", [entries |-> n, stack |-> Append(reader.stack, new)])
  BY DEF Enumerate, At, Running, Reading
<1>2. CASE \E error : Fails(error)
  BY <1>1, <1>2, FailsKeeps
<1>3. CASE \E n : Goes("entry", [entries |-> n, stack |-> Append(reader.stack, new)])
  <2>1. PICK n : Goes("entry", [entries |-> n, stack |-> Append(reader.stack, new)])
    BY <1>3
  <2> DEFINE stack == Append(reader.stack, new)
             found == [entries |-> n, stack |-> stack]
  <2>2. DOMAIN found = {"entries", "stack"} /\ found["stack"] = stack /\ Goes("entry", found)
    BY <2>1
  <2>3. SameFrame(frame, new) /\ new.names = new.left /\ FrameFields \cup {"names", "left"} \subseteq DOMAIN new
    BY DEF SameFrame, FrameFields
  <2> HIDE DEF new, frame
  <2>4. ListsOK(reader) /\ PhaseOK(reader, edits) /\ Knows(reader, disk, edits) /\ MarkerOK(reader, disk, edits)
    BY <1>1 DEF Inv, ReaderOK
  <2>5. ToSet(stack) = ToSet(reader.stack) \cup {new} /\ IsList(stack)
    BY <2>4, AppendedElements DEF ListsOK
  <2> HIDE DEF found, q, stack
  <2>6. WentOn(reader, q, "entry", found) /\ UNCHANGED <<disk, edits, moments>>
    BY <2>2, GoesFields DEF q
  <2>7. /\ q.at = "entry" /\ q.stack = stack /\ "frame" \in DOMAIN q /\ q.frame = frame /\ Fields \subseteq DOMAIN q
        /\ q.request = reader.request /\ q.retained = reader.retained /\ q.files = reader.files
        /\ q.directories = reader.directories /\ q.marker = reader.marker
        /\ FrameFields \subseteq DOMAIN q.frame
    BY <1>1, <2>2, <2>4, <2>6 DEF WentOn, ListsOK, PhaseOK, Fields, frame
  <2>8. ListsOK(q) /\ MarkerOK(q, disk, edits)
    BY <2>3, <2>4, <2>5, <2>7 DEF ListsOK, MarkerOK, Manages
  <2>9. /\ OpenFrames(reader) = Frames(reader) \cup {frame}
        /\ OpenFrames(q) = Frames(reader) \cup {new} /\ Frames(q) = Frames(reader) \cup {new}
    BY <1>1, <2>5, <2>7 DEF OpenFrames, Frames, frame
  <2>10. \A g : SameFrame(g, g)
    BY DEF SameFrame
  <2>11. Walked(q, disk, new)
    BY <2>3 DEF Walked
  <2>12. Covers(reader, q)
    BY <2>3, <2>7, <2>9, <2>10 DEF Covers
  <2>13. /\ \A h \in OpenFrames(q) : (\E g \in OpenFrames(reader) : SameFrame(g, h))
         /\ \A h \in Frames(q) : h \in Frames(reader) \/ Walked(q, disk, h)
    BY <2>3, <2>9, <2>10, <2>11
  <2>14. Knows(q, disk, edits)
    <3> DEFINE d == disk
               e == edits
               r == reader
    <3>1. /\ Covers(r, q) /\ Knows(r, d, e) /\ ToSet(q.files) = ToSet(r.files) /\ q.marker = r.marker
          /\ \A h \in OpenFrames(q) : (\E g \in OpenFrames(r) : SameFrame(g, h)) \/ FrameOK(q, d, e, h)
          /\ \A h \in Frames(q) : h \in Frames(r) \/ Walked(q, d, h)
      BY <2>4, <2>7, <2>12, <2>13
    <3> HIDE DEF d, e, r
    <3>2. Knows(q, d, e)
      BY <3>1, KnowsGrows
    <3> QED  BY <3>2 DEF d, e
  <2>15. Rooted(q)
    <3>1. Rooted(reader)
      BY <1>1, <2>4 DEF PhaseOK, BeforeNames
    <3> DEFINE r == reader
               none == {}
    <3>2. /\ Rooted(r) /\ \A g \in OpenFrames(r) : \E h \in OpenFrames(q) : SameFrame(g, h)
          /\ \A h \in OpenFrames(q) : (\E g \in OpenFrames(r) : SameFrame(g, h)) \/ h.path \in none
          /\ q.directories = r.directories \cup none
          /\ <<>> \notin none /\ \A path \in none : \E h \in OpenFrames(q) : h.path = path
      BY <2>7, <2>12, <2>13, <3>1 DEF Covers
    <3> HIDE DEF r, none
    <3> QED  BY <3>2, RootedGrows
  <2>16. ReaderOK(q, edits)
    <3>1. ~ BeforeNames(q)
      BY <2>7 DEF BeforeNames
    <3>2. PhaseOK(q, edits)
      BY <2>7, <2>15, <3>1 DEF PhaseOK, Running, Reading, Validating
    <3> QED  BY <2>8, <3>2 DEF ReaderOK
  <2> QED  BY <1>1, <2>6, <2>7, <2>8, <2>14, <2>16, GoesOn DEF q, Running, Reading, Validating, Expecting
<1> QED  BY <1>1, <1>2, <1>3

\* The same frames, files and marker are the same knowledge.
LEMMA SameKnows ==
  ASSUME NEW r, NEW q, NEW d, NEW e, Frames(q) = Frames(r), r.at # "enumerate", q.at # "enumerate",
         q.request = r.request, q.files = r.files, q.directories = r.directories, q.marker = r.marker
  PROVE  /\ Knows(r, d, e) => Knows(q, d, e)
         /\ Rooted(r) => Rooted(q)
         /\ MarkerOK(r, d, e) => MarkerOK(q, d, e)
         /\ OpenFrames(q) = OpenFrames(r)
<1>1. OpenFrames(q) = OpenFrames(r)
  BY DEF OpenFrames
<1>2. \A g : SameFrame(g, g)
  BY DEF SameFrame
<1>3. Covers(r, q)
  BY <1>1, <1>2 DEF Covers
<1>4. Knows(r, d, e) => Knows(q, d, e)
  BY <1>1, <1>2, <1>3, KnowsGrows
<1>5. Rooted(r) => Rooted(q)
  BY <1>1 DEF Rooted
<1> QED  BY <1>1, <1>4, <1>5 DEF MarkerOK, Manages

\* A directory without names left.
LEMMA FinishDirectoryKeeps ==
  ASSUME Inv, FinishDirectory
  PROVE  Inv'
<1> DEFINE q == reader'
           stack == Front(reader.stack)
           retained == Append(reader.retained, Top)
           found == [stack |-> stack, retained |-> retained]
<1>1. /\ reader.at = "entry" /\ reader.at \in Running /\ reader.stack # <<>> /\ Top.left = {}
      /\ (\E error : Fails(error)) \/ Goes("entry", found)
  BY DEF FinishDirectory, At, Running, Reading
<1>2. CASE \E error : Fails(error)
  BY <1>1, <1>2, FailsKeeps
<1>3. CASE Goes("entry", found)
  <2>1. DOMAIN found = {"stack", "retained"} /\ found["stack"] = stack /\ found["retained"] = retained
    OBVIOUS
  <2>2. ListsOK(reader) /\ PhaseOK(reader, edits) /\ Knows(reader, disk, edits) /\ MarkerOK(reader, disk, edits)
    BY <1>1 DEF Inv, ReaderOK, Reading
  <2>3. ToSet(reader.stack) = ToSet(stack) \cup {Top} /\ IsList(stack)
    <3>1. ToSet(reader.stack) = ToSet(stack) \cup {Top} /\ stack \in Seq(ToSet(reader.stack))
      BY <1>1, <2>2, LastElement DEF ListsOK, IsList, Top
    <3> HIDE DEF stack
    <3> QED  BY <3>1, ListElements DEF IsList
  <2>4. ToSet(retained) = ToSet(reader.retained) \cup {Top} /\ IsList(retained)
    BY <2>2, AppendedElements DEF ListsOK
  <2> HIDE DEF found, q, stack, retained
  <2>5. WentOn(reader, q, "entry", found) /\ UNCHANGED <<disk, edits, moments>>
    BY <1>3, <2>1, GoesFields DEF q
  <2>6. /\ q.at = "entry" /\ q.stack = stack /\ q.retained = retained /\ Fields \subseteq DOMAIN q
        /\ "frame" \in DOMAIN q /\ q.frame = reader.frame /\ FrameFields \subseteq DOMAIN q.frame
        /\ q.request = reader.request /\ q.files = reader.files
        /\ q.directories = reader.directories /\ q.marker = reader.marker
    BY <1>1, <2>1, <2>2, <2>5 DEF WentOn, ListsOK, PhaseOK, Fields, Reading
  <2>7. ListsOK(q)
    BY <1>1, <2>2, <2>3, <2>4, <2>6 DEF ListsOK
  <2>8. Frames(q) = Frames(reader)
    BY <2>3, <2>4, <2>6 DEF Frames
  <2>9. Rooted(reader)
    BY <1>1, <2>2 DEF PhaseOK, BeforeNames, Reading
  <2>10. Knows(q, disk, edits) /\ Rooted(q) /\ MarkerOK(q, disk, edits)
    <3> DEFINE d == disk
               e == edits
               r == reader
    <3>1. /\ Frames(q) = Frames(r) /\ r.at # "enumerate" /\ q.at # "enumerate"
          /\ q.request = r.request /\ q.files = r.files /\ q.directories = r.directories /\ q.marker = r.marker
          /\ Knows(r, d, e) /\ Rooted(r) /\ MarkerOK(r, d, e)
      BY <1>1, <2>2, <2>6, <2>8, <2>9
    <3> HIDE DEF d, e, r
    <3>2. Knows(q, d, e) /\ Rooted(q) /\ MarkerOK(q, d, e)
      BY <3>1, SameKnows
    <3> QED  BY <3>2 DEF d, e
  <2>11. ReaderOK(q, edits)
    <3>1. ~ BeforeNames(q)
      BY <2>6 DEF BeforeNames
    <3>2. PhaseOK(q, edits)
      BY <2>6, <2>10, <3>1 DEF PhaseOK, Running, Reading, Validating
    <3> QED  BY <2>7, <3>2 DEF ReaderOK
  <2> QED  BY <1>1, <2>5, <2>6, <2>10, <2>11, GoesOn DEF q, Running, Reading, Validating, Expecting
<1> QED  BY <1>1, <1>2, <1>3

\* A look at what is read next: nothing else changes, and it is of an object.
LEMMA LooksKeeps ==
  ASSUME Inv, reader.at \in Reading \ {"enumerate"}, NEW place \in Expecting, NEW found, Goes(place, found),
         DOMAIN found \in {{}, {"pending"}, {"content"}},
         place = "open_directory" => reader.stack # <<>>,
         reader.stack = <<>> => BeforeNames(reader),
         \A q : WentOn(reader, q, place, found) /\ SameLists(reader, q) => PendingOK(q, disk, edits)
  PROVE  Inv'
<1> DEFINE q == reader'
<1>1. "at" \notin DOMAIN found /\ reader.at \in Running /\ reader.at \in Reading
  BY DEF Running, Reading
<1>2. ListsOK(reader) /\ PhaseOK(reader, edits) /\ Knows(reader, disk, edits) /\ MarkerOK(reader, disk, edits)
  BY <1>1 DEF Inv, ReaderOK
<1> HIDE DEF q
<1>3. WentOn(reader, q, place, found) /\ UNCHANGED <<disk, edits, moments>>
  BY <1>1, GoesFields DEF q
<1>4. /\ q.at = place /\ Fields \subseteq DOMAIN q /\ SameLists(reader, q) /\ q.marker = reader.marker
      /\ "frame" \in DOMAIN q /\ q.frame = reader.frame /\ FrameFields \subseteq DOMAIN q.frame
  <2>1. Fields \cup {"frame"} \subseteq DOMAIN reader /\ FrameFields \subseteq DOMAIN reader.frame
    BY <1>1, <1>2 DEF ListsOK, PhaseOK
  <2>2. \A field \in (Fields \cup {"frame"}) \ {"at"} : field \in DOMAIN reader /\ field \notin DOMAIN found
    BY <2>1 DEF Fields
  <2>3. \A field \in (Fields \cup {"frame"}) \ {"at"} : q[field] = reader[field]
    BY <1>3, <2>2 DEF WentOn
  <2> QED  BY <1>3, <2>1, <2>3 DEF WentOn, SameLists, Fields
<1>5. PendingOK(q, disk, edits)
  BY <1>3, <1>4
<1>6. ListsOK(q) /\ MarkerOK(q, disk, edits)
  BY <1>2, <1>4 DEF ListsOK, SameLists, MarkerOK, Manages
<1>7. Frames(q) = Frames(reader) /\ reader.at # "enumerate" /\ q.at # "enumerate"
  BY <1>4 DEF Frames, SameLists, Expecting
<1>8. Knows(q, disk, edits) /\ (Rooted(reader) => Rooted(q))
  <2> DEFINE d == disk
             e == edits
             r == reader
  <2>1. /\ Frames(q) = Frames(r) /\ r.at # "enumerate" /\ q.at # "enumerate"
        /\ q.request = r.request /\ q.files = r.files /\ q.directories = r.directories /\ q.marker = r.marker
        /\ Knows(r, d, e)
    BY <1>2, <1>4, <1>7 DEF SameLists
  <2> HIDE DEF d, e, r
  <2>2. Knows(q, d, e) /\ (Rooted(r) => Rooted(q))
    BY <2>1, SameKnows
  <2> QED  BY <2>2 DEF d, e, r
<1>9. BeforeNames(q) => Beginning(q, edits)
  <2> SUFFICES ASSUME BeforeNames(q) PROVE Beginning(q, edits)
    OBVIOUS
  <2>1. reader.stack = <<>>
    BY <1>4 DEF BeforeNames, SameLists, Expecting
  <2>2. Beginning(reader, edits)
    BY <1>2, <2>1 DEF PhaseOK
  <2> QED  BY <1>4, <2>2 DEF Beginning, Untouched, SameLists
<1>10. ~ BeforeNames(q) => Rooted(q)
  <2> SUFFICES ASSUME ~ BeforeNames(q) PROVE Rooted(q)
    OBVIOUS
  <2>1. reader.stack # <<>>
    BY <1>4 DEF BeforeNames, SameLists, Expecting
  <2>2. ~ BeforeNames(reader)
    BY <2>1 DEF BeforeNames, Reading
  <2> QED  BY <1>1, <1>2, <1>8, <2>2 DEF PhaseOK
<1>11. ReaderOK(q, edits)
  <2>1. PhaseOK(q, edits)
    BY <1>4, <1>9, <1>10 DEF PhaseOK, SameLists, Running, Reading, Validating, Expecting
  <2> QED  BY <1>6, <2>1 DEF ReaderOK
<1> QED  BY <1>1, <1>3, <1>4, <1>5, <1>6, <1>8, <1>11, GoesOn DEF q, Running, Reading, Validating, Expecting

\* Reader q is r without the next name, of which it has a file more, a directory
\* it is about to name, or the marker.
SkipsTo(r, q, d, e, name, new) ==
  /\ Skipped(r, q, name) /\ q.at \in {"entry", "enumerate"}
  /\ Fields \cup {"frame"} \subseteq DOMAIN q /\ FrameFields \subseteq DOMAIN q.frame
  /\ q.request = r.request /\ q.marker = r.marker /\ q.directories = r.directories \cup new
  /\ IsList(q.files) /\ ToSet(r.files) \subseteq ToSet(q.files)
  /\ \A f \in ToSet(q.files) : f \in ToSet(r.files) \/
       (/\ Seen(e, f) /\ HoldsFile(d, f, f.content)
        /\ Linked(r, d, f.path, f.inode) /\ ~ MarkerPath(r, f.path))
  /\ IF q.at = "enumerate"
     THEN /\ new = {q.frame.path} /\ q.frame.path # <<>>
          /\ Seen(e, q.frame) /\ q.frame.path \in Seq(Names) /\ d[q.frame.inode].kind = "directory"
          /\ Linked(r, d, q.frame.path, q.frame.inode)
     ELSE new = {}
  /\ LET top == Last(r.stack)
     IN  Stands(d, top) /\ name \in DOMAIN d[top.inode].entries =>
           Recorded(q, Append(top.path, name), d[top.inode].entries[name])

\* Such a reader knows what r does and what it read.
LEMMA SkipsKnow ==
  ASSUME NEW r, NEW q, NEW d, NEW e, NEW name, NEW new, SkipsTo(r, q, d, e, name, new),
         r.at # "enumerate", ListsOK(r), Rooted(r), Knows(r, d, e)
  PROVE  ReaderOK(q, e) /\ Knows(q, d, e) /\ MarkerOK(q, d, e)
<1>1. /\ Skipped(r, q, name) /\ r.stack # <<>> /\ q.retained = r.retained
      /\ q.request = r.request /\ q.marker = r.marker /\ ToSet(r.files) \subseteq ToSet(q.files)
      /\ q.directories = r.directories \cup new
  BY DEF SkipsTo, Skipped
<1>2. /\ q.at \in {"entry", "enumerate"} /\ Fields \cup {"frame"} \subseteq DOMAIN q
      /\ FrameFields \subseteq DOMAIN q.frame /\ IsList(q.files)
  BY DEF SkipsTo
<1>3. \A f \in ToSet(q.files) : f \in ToSet(r.files) \/
        (/\ Seen(e, f) /\ HoldsFile(d, f, f.content) /\ Linked(r, d, f.path, f.inode) /\ ~ MarkerPath(r, f.path))
  BY DEF SkipsTo
<1>4. IF q.at = "enumerate"
      THEN /\ new = {q.frame.path} /\ q.frame.path # <<>>
           /\ Seen(e, q.frame) /\ q.frame.path \in Seq(Names) /\ d[q.frame.inode].kind = "directory"
           /\ Linked(r, d, q.frame.path, q.frame.inode)
      ELSE new = {}
  BY DEF SkipsTo
<1>5. LET top == Last(r.stack)
      IN  Stands(d, top) /\ name \in DOMAIN d[top.inode].entries =>
            Recorded(q, Append(top.path, name), d[top.inode].entries[name])
  BY DEF SkipsTo
<1>6. /\ Covers(r, q)
      /\ \A h \in OpenFrames(q) :
           (\E g \in OpenFrames(r) : SameFrame(g, h)) \/ (q.at = "enumerate" /\ h = q.frame)
  BY <1>1, <1>2, SkippedCovers
<1>7. \A path, inode : Linked(r, d, path, inode) => Linked(q, d, path, inode)
  BY <1>6, CoveredStaysKnown
<1>8. \A path : MarkerPath(q, path) <=> MarkerPath(r, path)
  BY <1>1 DEF MarkerPath, Manages
<1>9. \A f \in ToSet(q.files) : f \in ToSet(r.files) \/ FileOK(q, d, e, f)
  BY <1>3, <1>7, <1>8 DEF FileOK
<1>10. q.at = "enumerate" => FrameOK(q, d, e, q.frame)
  BY <1>4, <1>7 DEF FrameOK
<1>11. Knows(q, d, e)
  BY <1>1, <1>2, <1>5, <1>9, <1>10, SkippedKnows
<1>12. Rooted(q)
  <2>1. \A g \in OpenFrames(r) : \E h \in OpenFrames(q) : SameFrame(g, h)
    BY <1>6 DEF Covers
  <2>2. \A h \in OpenFrames(q) : (\E g \in OpenFrames(r) : SameFrame(g, h)) \/ h.path \in new
    BY <1>4, <1>6
  <2>3. <<>> \notin new /\ \A path \in new : \E h \in OpenFrames(q) : h.path = path
    BY <1>4 DEF OpenFrames
  <2> QED  BY <1>1, <2>1, <2>2, <2>3, RootedGrows
<1>13. ListsOK(q)
  <2>1. /\ IsList(q.stack) /\ q.stack # <<>>
        /\ \A h \in ToSet(q.stack) : FrameFields \cup {"names", "left"} \subseteq DOMAIN h
    BY <1>1, SkippedName
  <2> QED  BY <1>1, <1>2, <2>1 DEF ListsOK
<1>14. ReaderOK(q, e)
  <2>1. ~ BeforeNames(q)
    BY <1>2 DEF BeforeNames
  <2>2. PhaseOK(q, e)
    BY <1>2, <1>12, <2>1 DEF PhaseOK, Running, Reading, Validating
  <2> QED  BY <1>13, <2>2 DEF ReaderOK
<1> QED  BY <1>11, <1>14 DEF Knows

\* A name is done with: its file was read, its directory opened or it is the marker.
LEMMA SkipsKeeps ==
  ASSUME Inv, UNCHANGED <<disk, edits, moments>>, reader.at \in Reading \ {"enumerate"},
         NEW name, NEW new, SkipsTo(reader, reader', disk, edits, name, new)
  PROVE  Inv'
<1> DEFINE d == disk
           e == edits
           r == reader
           q == reader'
<1>1. /\ r.at \in Running /\ r.at # "enumerate" /\ ListsOK(r) /\ Knows(r, d, e) /\ PhaseOK(r, e)
      /\ SkipsTo(r, q, d, e, name, new) /\ r.at \in Reading
  BY DEF Running, Inv, ReaderOK
<1> HIDE DEF d, e, r, q
<1>2. Rooted(r)
  <2>1. ~ BeforeNames(r)
    BY <1>1 DEF BeforeNames, Reading, SkipsTo, Skipped
  <2> QED  BY <1>1, <2>1 DEF PhaseOK
<1>3. ReaderOK(q, e) /\ Knows(q, d, e) /\ MarkerOK(q, d, e) /\ q.at \in {"entry", "enumerate"}
  <2>1. ReaderOK(q, e) /\ Knows(q, d, e) /\ MarkerOK(q, d, e)
    BY <1>1, <1>2, SkipsKnow
  <2> QED  BY <1>1, <2>1 DEF SkipsTo
<1>4. /\ ReaderOK(reader', edits) /\ MarkerOK(reader', disk, edits) /\ Knows(reader', disk, edits)
      /\ reader.at \in Running /\ reader'.at \in {"entry", "enumerate"}
  BY <1>1, <1>3 DEF d, e, r, q
<1> QED  BY <1>4, GoesOn DEF Running, Reading, Validating, Expecting

\* A path ends with the name appended.
LEMMA AppendedName ==
  ASSUME NEW p \in Seq(Names), NEW n \in Names, NEW m \in Names, Append(p, n) = Append(p, m)
  PROVE  n = m
<1>1. Append(p, n)[Len(p) + 1] = n /\ Append(p, m)[Len(p) + 1] = m
  OBVIOUS
<1> QED  BY <1>1

\* The directory being read, of a reader that has names to read.
LEMMA TopKnown ==
  ASSUME NEW r, NEW d, NEW e, ListsOK(r), Knows(r, d, e), r.stack # <<>>
  PROVE  LET top == Last(r.stack)
         IN  /\ top \in OpenFrames(r) /\ top.inode \in Inodes /\ top.path \in Seq(Names)
             /\ d[top.inode].kind = "directory"
<1>1. Last(r.stack) \in ToSet(r.stack)
  BY LastElement DEF ListsOK, IsList
<1>2. Last(r.stack) \in OpenFrames(r)
  BY <1>1 DEF OpenFrames, Frames
<1> QED  BY <1>2 DEF Knows, FrameOK, Seen

\* The next name of a directory.
LEMMA ReadEntryKeeps ==
  ASSUME Inv, ReadEntry
  PROVE  Inv'
<1> DEFINE i == Top.inode
           name == First(Top.left)
           path == Append(Top.path, name)
           j == Entry(i, name)
           q == reader'
<1>1. /\ reader.at = "entry" /\ reader.stack # <<>> /\ reader.at \in Running
      /\ reader.at \in Reading \ {"enumerate"}
  BY DEF ReadEntry, At, Running, Reading
<1>2. \/ \E error : Fails(error)
      \/ /\ HasEntry(i, name) /\ IsMarker(path) /\ reader.marker # <<>> /\ j = reader.marker[1].inode
         /\ Goes("entry", [stack |-> SkipName])
      \/ /\ HasEntry(i, name) /\ ~ IsMarker(path) /\ IsDirectory(j)
         /\ \/ \E error : Fails(error)
            \/ Goes("open_directory", [pending |-> [parent |-> i, name |-> name, path |-> path, inode |-> j,
                                                    stamp |-> disk[j].stamp]])
      \/ /\ HasEntry(i, name) /\ ~ IsMarker(path) /\ ~ IsDirectory(j) /\ disk[j].kind # "other"
         /\ \/ \E error : Fails(error)
            \/ \E limit : Goes("open", Inspected(i, name, path, limit))
  <2> DEFINE marks == reader.marker # <<>> /\ j = reader.marker[1].inode /\ SameSnapshot(reader.marker[1])
  <2>1. IF ~ HasEntry(i, name) THEN Fails("io")
        ELSE IF disk[j].kind = "other" THEN Fails("unsupported_entry")
        ELSE IF IsMarker(path)
          THEN IF marks THEN Goes("entry", [stack |-> SkipName]) ELSE Fails("race")
        ELSE IF ~ ValidPath(path) THEN Fails("invalid_path")
        ELSE IF IsDirectory(j) THEN InspectDirectory(i, name, path)
        ELSE InspectFile(i, name, path)
    BY DEF ReadEntry
  <2>2. InspectDirectory(i, name, path) =>
          \/ \E error : Fails(error)
          \/ Goes("open_directory", [pending |-> [parent |-> i, name |-> name, path |-> path, inode |-> j,
                                                  stamp |-> disk[j].stamp]])
    BY DEF InspectDirectory
  <2>3. InspectFile(i, name, path) =>
          (\E error : Fails(error)) \/ \E limit : Goes("open", Inspected(i, name, path, limit))
    BY DEF InspectFile
  <2> HIDE DEF i, name, path, j
  <2> QED  BY <2>1, <2>2, <2>3
<1>3. /\ ListsOK(reader) /\ Knows(reader, disk, edits) /\ edits \in Nat /\ FileSystem(disk, edits)
  BY <1>1 DEF Inv, ReaderOK
<1>4. /\ Last(reader.stack) \in OpenFrames(reader) /\ i \in Inodes /\ disk[i].kind = "directory"
      /\ Last(reader.stack).path \in Seq(Names)
  <2> DEFINE d == disk
             e == edits
             r == reader
  <2>1. ListsOK(r) /\ Knows(r, d, e) /\ r.stack # <<>>
    BY <1>1, <1>3
  <2> HIDE DEF d, e, r
  <2>2. LET top == Last(r.stack)
        IN  /\ top \in OpenFrames(r) /\ top.inode \in Inodes /\ top.path \in Seq(Names)
            /\ d[top.inode].kind = "directory"
    BY <2>1, TopKnown
  <2> QED  BY <2>2 DEF d, r, Top
<1>5. HasEntry(i, name) =>
        /\ name \in Names /\ j \in Inodes /\ disk[j].stamp \in 0 .. edits
        /\ disk[j].kind \in {"file", "directory", "other"}
        /\ EntryOf(disk, Top, path, j)
  <2> SUFFICES ASSUME HasEntry(i, name)
               PROVE  /\ name \in Names /\ j \in Inodes /\ disk[j].stamp \in 0 .. edits
                      /\ disk[j].kind \in {"file", "directory", "other"}
                      /\ EntryOf(disk, Top, path, j)
    OBVIOUS
  <2> HIDE DEF i, name
  <2>1. name \in DOMAIN disk[i].entries /\ j = disk[i].entries[name]
    BY DEF HasEntry, EntryNames, Entry
  <2>2. name \in Names /\ j \in Inodes /\ disk[j] # Free /\ IsObject(disk[j], edits)
    BY <1>3, <1>4, <2>1, OwnEntry DEF FileSystem
  <2> HIDE DEF j
  <2>3. disk[j].kind \in {"file", "directory", "other"} /\ disk[j].stamp \in 0 .. edits
    BY <1>3, <2>2, Objects
  <2>4. EntryOf(disk, Top, path, j)
    BY <2>1, <2>2 DEF EntryOf, i
  <2> QED  BY <2>2, <2>3, <2>4
<1>6. CASE \E error : Fails(error)
  BY <1>1, <1>6, FailsKeeps
<1>7. CASE /\ HasEntry(i, name) /\ IsMarker(path) /\ reader.marker # <<>> /\ j = reader.marker[1].inode
           /\ Goes("entry", [stack |-> SkipName])
  <2> DEFINE found == [stack |-> SkipName]
  <2>1. DOMAIN found = {"stack"} /\ found["stack"] = SkipName /\ Goes("entry", found)
    BY <1>7
  <2>2. SkipName = [reader.stack EXCEPT ![Len(reader.stack)] =
                      [Last(reader.stack) EXCEPT !.left = Last(reader.stack).left \ {name}]]
    BY DEF SkipName, Top, Last
  <2>3. ~ BeforeNames(reader) /\ "frame" \in DOMAIN reader /\ FrameFields \subseteq DOMAIN reader.frame
    BY <1>1 DEF Inv, ReaderOK, PhaseOK, BeforeNames
  <2>4. MarkerPath(reader, path) /\ i = Last(reader.stack).inode /\ path = Append(Last(reader.stack).path, name)
    BY <1>7 DEF IsMarker, MarkerPath, Manages, Managed, Top
  <2>5. j = disk[i].entries[name]
    BY DEF Entry
  <2> HIDE DEF found, q, i, name, path, j
  <2>6. WentOn(reader, q, "entry", found) /\ UNCHANGED <<disk, edits, moments>>
    BY <2>1, GoesFields DEF q
  <2>7. /\ q.at = "entry" /\ q.stack = SkipName /\ Fields \cup {"frame"} \subseteq DOMAIN q
        /\ q.frame = reader.frame /\ q.request = reader.request /\ q.marker = reader.marker
        /\ q.retained = reader.retained /\ q.files = reader.files /\ q.directories = reader.directories
    BY <1>3, <2>1, <2>3, <2>6 DEF WentOn, ListsOK, Fields
  <2>8. Skipped(reader, q, name)
    BY <1>1, <2>2, <2>7 DEF Skipped
  <2>9. Recorded(q, path, j)
    BY <1>7, <2>4, <2>7 DEF Recorded, MarkerPath, Manages
  <2>10. IsList(q.files) /\ q = reader' /\ q.directories = reader.directories \cup {}
    BY <1>3, <2>7 DEF ListsOK, q
  <2>11. Recorded(q, Append(Last(reader.stack).path, name), disk[Last(reader.stack).inode].entries[name])
    BY <2>4, <2>5, <2>9
  <2>12. SkipsTo(reader, q, disk, edits, name, {})
    BY <2>3, <2>7, <2>8, <2>10, <2>11 DEF SkipsTo
  <2> QED  BY <1>1, <2>6, <2>12, SkipsKeeps DEF q
<1>8. ASSUME HasEntry(i, name), ~ IsMarker(path), NEW place \in {"open", "open_directory"}, NEW found, NEW pending,
             Goes(place, found), DOMAIN found = {"pending"}, found["pending"] = pending,
             pending.path = path, pending.inode = j, pending.stamp = disk[j].stamp,
             place = "open" => disk[j].kind = "file"
      PROVE  Inv'
  <2>1. ~ MarkerPath(reader, path) /\ EntryOf(disk, Top, path, j) /\ Seen(edits, pending)
    BY <1>5, <1>8 DEF IsMarker, MarkerPath, Manages, Managed, Seen
  <2>2. path = Append(Last(reader.stack).path, First(Last(reader.stack).left)) /\ Top = Last(reader.stack)
    BY DEF Top
  <2> HIDE DEF q, i, name, path, j
  <2>3. ASSUME NEW p, WentOn(reader, p, place, found), SameLists(reader, p)
        PROVE  PendingOK(p, disk, edits)
    <3>1. p.pending = pending /\ "pending" \in DOMAIN p /\ p.at = place /\ p.stack = reader.stack
      BY <1>8, <2>3 DEF WentOn, SameLists
    <3>2. ~ MarkerPath(p, path)
      BY <2>1, <2>3 DEF SameLists, MarkerPath, Manages
    <3> QED  BY <1>1, <1>8, <2>1, <2>2, <3>1, <3>2 DEF PendingOK
  <2>4. place \in Expecting
    BY <1>8 DEF Expecting
  <2> QED  BY <1>1, <1>8, <2>3, <2>4, LooksKeeps
<1>9. CASE /\ HasEntry(i, name) /\ ~ IsMarker(path) /\ IsDirectory(j)
           /\ Goes("open_directory", [pending |-> [parent |-> i, name |-> name, path |-> path, inode |-> j,
                                                   stamp |-> disk[j].stamp]])
  <2> DEFINE pending == [parent |-> i, name |-> name, path |-> path, inode |-> j, stamp |-> disk[j].stamp]
             found == [pending |-> pending]
  <2>1. pending.path = path /\ pending.inode = j /\ pending.stamp = disk[j].stamp
    OBVIOUS
  <2>2. DOMAIN found = {"pending"} /\ found["pending"] = pending /\ Goes("open_directory", found)
    BY <1>9
  <2> HIDE DEF q, i, name, path, j, pending, found
  <2> QED  BY <1>8, <1>9, <2>1, <2>2
<1>10. CASE /\ HasEntry(i, name) /\ ~ IsMarker(path) /\ ~ IsDirectory(j) /\ disk[j].kind # "other"
            /\ \E limit : Goes("open", Inspected(i, name, path, limit))
  <2>1. PICK limit : Goes("open", Inspected(i, name, path, limit))
    BY <1>10
  <2>2. disk[j].kind = "file"
    BY <1>5, <1>10 DEF IsDirectory
  <2> DEFINE found == Inspected(i, name, path, limit)
             pending == found.pending
  <2>3. /\ pending.path = path /\ pending.inode = j /\ pending.stamp = disk[j].stamp
        /\ DOMAIN found = {"pending"} /\ found["pending"] = pending /\ Goes("open", found)
    BY <2>1 DEF Inspected
  <2> HIDE DEF q, i, name, path, j, pending, found
  <2> QED  BY <1>8, <1>10, <2>2, <2>3
<1> QED
  <2> HIDE DEF q, i, name, path, j
  <2> QED  BY <1>2, <1>6, <1>7, <1>9, <1>10

\* Opening a file that was inspected.
LEMMA OpenKeeps ==
  ASSUME Inv, Open
  PROVE  Inv'
<1>1. /\ reader.at = "open" /\ reader.at \in Running /\ reader.at \in Expecting
      /\ reader.at \in Reading \ {"enumerate"}
      /\ (\E error : Fails(error)) \/ Continue("read")
  BY DEF Open, At, Running, Reading, Expecting
<1>2. CASE \E error : Fails(error)
  BY <1>1, <1>2, FailsKeeps
<1>3. CASE Continue("read")
  <2> DEFINE found == <<>>
  <2>1. DOMAIN found = {} /\ Goes("read", found)
    BY <1>3 DEF Continue
  <2> HIDE DEF found
  <2>2. PendingOK(reader, disk, edits)
    BY <1>1 DEF Inv
  <2>3. reader.stack = <<>> => BeforeNames(reader)
    BY <1>1 DEF BeforeNames
  <2>4. ASSUME NEW q, WentOn(reader, q, "read", found), SameLists(reader, q)
        PROVE  PendingOK(q, disk, edits)
    <3>1. /\ q.at = "read" /\ "pending" \in DOMAIN q /\ q.pending = reader.pending
          /\ q.stack = reader.stack /\ q.request = reader.request
      BY <2>1, <2>2, <2>4 DEF WentOn, SameLists, PendingOK
    <3> QED  BY <1>1, <2>2, <3>1 DEF PendingOK, MarkerPath, Manages
  <2>5. "read" \in Expecting
    BY DEF Expecting
  <2>6. DOMAIN found \in {{}, {"pending"}, {"content"}}
    BY <2>1
  <2> QED  BY <1>1, <2>1, <2>3, <2>4, <2>5, <2>6, LooksKeeps
<1> QED  BY <1>1, <1>2, <1>3

\* Reading it.
LEMMA ReadKeeps ==
  ASSUME Inv, Read
  PROVE  Inv'
<1> DEFINE content == disk[reader.pending.inode].content
           found == [content |-> content]
<1>1. /\ reader.at = "read" /\ reader.at \in Running /\ reader.at \in Expecting
      /\ reader.at \in Reading \ {"enumerate"} /\ Goes("reinspect", found)
      /\ DOMAIN found = {"content"} /\ found["content"] = content
  BY DEF Read, At, Running, Reading, Expecting
<1>2. PendingOK(reader, disk, edits)
  BY <1>1 DEF Inv
<1>3. reader.stack = <<>> => BeforeNames(reader)
  BY <1>1 DEF BeforeNames
<1> HIDE DEF found
<1>4. ASSUME NEW q, WentOn(reader, q, "reinspect", found), SameLists(reader, q)
      PROVE  PendingOK(q, disk, edits)
  <2>1. /\ q.at = "reinspect" /\ {"pending", "content"} \subseteq DOMAIN q /\ q.pending = reader.pending
        /\ q.content = content /\ q.stack = reader.stack /\ q.request = reader.request
    BY <1>1, <1>2, <1>4 DEF WentOn, SameLists, PendingOK
  <2> QED  BY <1>1, <1>2, <2>1 DEF PendingOK, MarkerPath, Manages
<1>5. "reinspect" \in Expecting
  BY DEF Expecting
<1> QED  BY <1>1, <1>3, <1>4, <1>5, LooksKeeps

\* What is pending below a directory is the next of its names.
LEMMA PendingIsNext ==
  ASSUME NEW r, NEW d, NEW e, FileSystem(d, e), ListsOK(r), Knows(r, d, e), PendingOK(r, d, e), r.stack # <<>>
  PROVE  LET top == Last(r.stack)
             name == First(top.left)
         IN  /\ Linked(r, d, r.pending.path, r.pending.inode) /\ ~ MarkerPath(r, r.pending.path)
             /\ r.pending.path \in Seq(Names) /\ r.pending.path # <<>>
             /\ r.pending.path = Append(top.path, name)
             /\ Stands(d, top) /\ name \in DOMAIN d[top.inode].entries =>
                  d[top.inode].entries[name] = r.pending.inode
<1> DEFINE top == Last(r.stack)
           name == First(top.left)
           path == r.pending.path
           inode == r.pending.inode
<1>1. /\ top \in OpenFrames(r) /\ top.inode \in Inodes /\ top.path \in Seq(Names)
      /\ d[top.inode].kind = "directory"
  BY TopKnown
<1>2. EntryOf(d, top, path, inode) /\ path = Append(top.path, name) /\ ~ MarkerPath(r, path)
  BY DEF PendingOK
<1> HIDE DEF top, name, path, inode
<1>3. PICK n \in Names :
        /\ path = Append(top.path, n)
        /\ Stands(d, top) => n \in DOMAIN d[top.inode].entries /\ d[top.inode].entries[n] = inode
  BY <1>2 DEF EntryOf
<1>4. path \in Seq(Names) /\ path # <<>>
  BY <1>1, <1>3
<1>5. ASSUME Stands(d, top), name \in DOMAIN d[top.inode].entries
      PROVE  d[top.inode].entries[name] = inode
  <2>1. name \in Names
    BY <1>1, <1>5, OwnEntry
  <2>2. name = n
    BY <1>1, <1>2, <1>3, <2>1, AppendedName
  <2> QED  BY <1>3, <1>5, <2>2
<1>6. Linked(r, d, path, inode)
  BY <1>1, <1>2 DEF Linked
<1> QED  BY <1>2, <1>4, <1>5, <1>6 DEF top, name, path, inode

\* The same of the reader.
LEMMA ReaderIsNext ==
  ASSUME Inv, reader.at \in Expecting, reader.stack # <<>>
  PROVE  LET top == Last(reader.stack)
             name == First(top.left)
             pending == reader.pending
         IN  /\ Linked(reader, disk, pending.path, pending.inode) /\ ~ MarkerPath(reader, pending.path)
             /\ pending.path \in Seq(Names) /\ pending.path # <<>>
             /\ pending.path = Append(top.path, name)
             /\ Stands(disk, top) /\ name \in DOMAIN disk[top.inode].entries =>
                  disk[top.inode].entries[name] = pending.inode
<1> DEFINE d == disk
           e == edits
           r == reader
<1>1. FileSystem(d, e) /\ ListsOK(r) /\ Knows(r, d, e) /\ PendingOK(r, d, e) /\ r.stack # <<>>
  BY DEF Inv, ReaderOK, Expecting, Reading
<1> HIDE DEF d, e, r
<1>2. LET top == Last(r.stack)
          name == First(top.left)
      IN  /\ Linked(r, d, r.pending.path, r.pending.inode) /\ ~ MarkerPath(r, r.pending.path)
          /\ r.pending.path \in Seq(Names) /\ r.pending.path # <<>>
          /\ r.pending.path = Append(top.path, name)
          /\ Stands(d, top) /\ name \in DOMAIN d[top.inode].entries =>
               d[top.inode].entries[name] = r.pending.inode
  BY <1>1, PendingIsNext
<1> QED  BY <1>2 DEF d, r

\* Opening a directory that was inspected.
LEMMA OpenDirectoryKeeps ==
  ASSUME Inv, OpenDirectory
  PROVE  Inv'
<1> DEFINE path == reader.pending.path
           inode == reader.pending.inode
           top == Last(reader.stack)
           name == First(top.left)
           frame == Frame(path, inode)
           directories == reader.directories \cup {path}
           found == [directories |-> directories, stack |-> SkipName, frame |-> frame]
           q == reader'
<1>1. /\ reader.at = "open_directory" /\ reader.at \in Running /\ reader.at \in Expecting
      /\ reader.at \in Reading \ {"enumerate"}
      /\ \/ \E error : Fails(error)
         \/ IsDirectory(inode) /\ Goes("enumerate", found)
  BY DEF OpenDirectory, At, Running, Reading, Expecting
<1>2. CASE \E error : Fails(error)
  BY <1>1, <1>2, FailsKeeps
<1>3. CASE IsDirectory(inode) /\ Goes("enumerate", found)
  <2>1. /\ DOMAIN found = {"directories", "stack", "frame"} /\ found["directories"] = directories
        /\ found["stack"] = SkipName /\ found["frame"] = frame /\ Goes("enumerate", found)
    BY <1>3
  <2>2. /\ frame.path = path /\ frame.inode = inode /\ frame.stamp = disk[inode].stamp
        /\ FrameFields \subseteq DOMAIN frame
    BY DEF Frame, FrameFields
  <2>3. SkipName = [reader.stack EXCEPT ![Len(reader.stack)] =
                      [Last(reader.stack) EXCEPT !.left = Last(reader.stack).left \ {name}]]
    BY DEF SkipName, Top, Last
  <2>4. /\ ListsOK(reader) /\ reader.stack # <<>> /\ PendingOK(reader, disk, edits)
        /\ edits \in Nat /\ FileSystem(disk, edits)
    BY <1>1 DEF Inv, ReaderOK, PhaseOK
  <2>5. /\ Linked(reader, disk, path, inode) /\ path \in Seq(Names) /\ path # <<>>
        /\ path = Append(top.path, name)
        /\ Stands(disk, top) /\ name \in DOMAIN disk[top.inode].entries =>
             disk[top.inode].entries[name] = inode
    BY <1>1, <2>4, ReaderIsNext
  <2>6. inode \in Inodes /\ disk[inode].kind = "directory" /\ disk[inode].stamp \in 0 .. edits
    <3>1. inode \in Inodes /\ disk[inode].kind = "directory"
      BY <1>3, <2>4 DEF PendingOK, Seen, IsDirectory
    <3>2. IsObject(disk[inode], edits)
      BY <2>4, <3>1 DEF FileSystem
    <3> HIDE DEF inode
    <3> QED  BY <2>4, <3>1, <3>2, Objects DEF Free
  <2> HIDE DEF q, found, frame, directories, path, inode, top, name
  <2>7. WentOn(reader, q, "enumerate", found) /\ UNCHANGED <<disk, edits, moments>>
    BY <2>1, GoesFields DEF q
  <2>8. /\ q.at = "enumerate" /\ q.stack = SkipName /\ Fields \cup {"frame"} \subseteq DOMAIN q
        /\ q.frame = frame /\ q.request = reader.request /\ q.marker = reader.marker
        /\ q.retained = reader.retained /\ q.files = reader.files /\ q.directories = directories
    BY <2>1, <2>4, <2>7 DEF WentOn, ListsOK, Fields
  <2>9. Skipped(reader, q, name)
    BY <2>3, <2>4, <2>8 DEF Skipped
  <2>10. Stands(disk, top) /\ name \in DOMAIN disk[top.inode].entries =>
           Recorded(q, Append(top.path, name), disk[top.inode].entries[name])
    <3>1. q.frame \in OpenFrames(q)
      BY <2>8 DEF OpenFrames
    <3>2. Recorded(q, path, inode)
      BY <2>2, <2>8, <3>1 DEF Recorded
    <3> QED  BY <2>5, <3>2
  <2>11. /\ q = reader' /\ IsList(q.files) /\ q.directories = reader.directories \cup {path}
         /\ FrameFields \subseteq DOMAIN q.frame /\ ToSet(reader.files) = ToSet(q.files)
    BY <2>2, <2>4, <2>8 DEF ListsOK, q, directories
  <2>12. /\ {path} = {q.frame.path} /\ q.frame.path # <<>> /\ Seen(edits, q.frame) /\ q.frame.path \in Seq(Names)
         /\ disk[q.frame.inode].kind = "directory"
         /\ Linked(reader, disk, q.frame.path, q.frame.inode)
    BY <2>2, <2>5, <2>6, <2>8 DEF Seen
  <2> DEFINE new == {path}
  <2>13. q.directories = reader.directories \cup new /\ new = {q.frame.path}
    BY <2>11, <2>12
  <2> HIDE DEF new
  <2>14. IF q.at = "enumerate"
         THEN /\ new = {q.frame.path} /\ q.frame.path # <<>>
              /\ Seen(edits, q.frame) /\ q.frame.path \in Seq(Names)
              /\ disk[q.frame.inode].kind = "directory"
              /\ Linked(reader, disk, q.frame.path, q.frame.inode)
         ELSE new = {}
    BY <2>8, <2>12, <2>13
  <2>15. /\ ToSet(reader.files) \subseteq ToSet(q.files)
         /\ \A f \in ToSet(q.files) : f \in ToSet(reader.files) \/
              (/\ Seen(edits, f) /\ HoldsFile(disk, f, f.content)
               /\ Linked(reader, disk, f.path, f.inode) /\ ~ MarkerPath(reader, f.path))
    BY <2>11
  <2>16. LET t == Last(reader.stack)
         IN  Stands(disk, t) /\ name \in DOMAIN disk[t.inode].entries =>
               Recorded(q, Append(t.path, name), disk[t.inode].entries[name])
    BY <2>10 DEF top
  <2>17. q.at \in {"entry", "enumerate"} /\ FrameFields \subseteq DOMAIN q.frame /\ IsList(q.files) /\ q = reader'
    BY <2>8, <2>11
  <2>18. SkipsTo(reader, q, disk, edits, name, new)
    BY <2>8, <2>9, <2>13, <2>14, <2>15, <2>16, <2>17 DEF SkipsTo
  <2> QED  BY <1>1, <2>7, <2>18, SkipsKeeps DEF q
<1> QED  BY <1>1, <1>2, <1>3

\* What was read and did not change is what it holds.
LEMMA ReinspectKeeps ==
  ASSUME Inv, Reinspect
  PROVE  Inv'
<1> DEFINE pending == reader.pending
           path == pending.path
           inode == pending.inode
           seen == [path |-> path, inode |-> inode, stamp |-> disk[inode].stamp, content |-> reader.content]
           q == reader'
<1>1. /\ reader.at = "reinspect" /\ reader.at \in Running /\ reader.at \in Expecting
      /\ reader.at \in Reading \ {"enumerate"}
      /\ \/ \E error : Fails(error)
         \/ SameSnapshot(pending) /\ IsMarker(path) /\ Goes("enumerate", [marker |-> <<seen>>])
         \/ /\ SameSnapshot(pending) /\ ~ IsMarker(path)
            /\ Goes("entry", [files |-> Append(reader.files, seen), stack |-> SkipName])
  BY DEF Reinspect, At, Running, Reading, Expecting
<1>2. CASE \E error : Fails(error)
  BY <1>1, <1>2, FailsKeeps
<1>3. /\ ListsOK(reader) /\ PhaseOK(reader, edits) /\ Knows(reader, disk, edits) /\ PendingOK(reader, disk, edits)
      /\ edits \in Nat /\ FileSystem(disk, edits) /\ disk[Root].kind = "directory"
      /\ Seen(edits, pending) /\ "content" \in DOMAIN reader /\ "frame" \in DOMAIN reader
      /\ FrameFields \subseteq DOMAIN reader.frame
  BY <1>1 DEF Inv, ReaderOK, IsDirectory, PendingOK, PhaseOK
<1>4. MarkerPath(reader, path) <=> IsMarker(path)
  BY DEF MarkerPath, Manages, IsMarker, Managed
<1>5. SameSnapshot(pending) =>
        /\ Seen(edits, seen) /\ HoldsFile(disk, seen, reader.content) /\ seen.content = reader.content
        /\ seen.path = path /\ seen.inode = inode
  <2> SUFFICES ASSUME SameSnapshot(pending)
               PROVE  /\ Seen(edits, seen) /\ HoldsFile(disk, seen, reader.content) /\ seen.content = reader.content
                      /\ seen.path = path /\ seen.inode = inode
    OBVIOUS
  <2>1. disk[inode].stamp = pending.stamp /\ Stands(disk, pending)
    BY DEF SameSnapshot, Stands
  <2>2. disk[inode].kind = "file" /\ reader.content = disk[inode].content
    BY <1>1, <1>3, <2>1 DEF PendingOK
  <2>3. /\ seen.path = path /\ seen.inode = inode /\ seen.stamp = disk[inode].stamp
        /\ seen.content = reader.content
    OBVIOUS
  <2>4. inode \in Inodes /\ disk[inode].stamp \in 0 .. edits
    BY <1>3, <2>1 DEF Seen
  <2> HIDE DEF seen, inode, path, pending
  <2> QED  BY <2>2, <2>3, <2>4 DEF Seen, HoldsFile
<1>6. CASE SameSnapshot(pending) /\ IsMarker(path) /\ Goes("enumerate", [marker |-> <<seen>>])
  <2> DEFINE marker == <<seen>>
             found == [marker |-> marker]
  <2>1. DOMAIN found = {"marker"} /\ found["marker"] = marker /\ Goes("enumerate", found)
    BY <1>6
  <2>2. Len(marker) = 1 /\ marker[1] = seen /\ marker = <<marker[1]>>
    OBVIOUS
  <2>3. BeforeNames(reader) /\ Beginning(reader, edits) /\ Manages(reader)
    <3>1. reader.stack = <<>>
      BY <1>3, <1>4, <1>6 DEF PendingOK
    <3>2. BeforeNames(reader)
      BY <1>1, <3>1 DEF BeforeNames
    <3> QED  BY <1>3, <1>4, <1>6, <3>2 DEF PhaseOK, MarkerPath
  <2> HIDE DEF q, found, marker, seen, path, inode, pending
  <2>4. WentOn(reader, q, "enumerate", found) /\ UNCHANGED <<disk, edits, moments>>
    BY <2>1, GoesFields DEF q
  <2>5. /\ q.at = "enumerate" /\ q.frame = reader.frame /\ "frame" \in DOMAIN q /\ Fields \subseteq DOMAIN q
        /\ SameLists(reader, q) /\ q.marker = marker
    BY <1>3, <2>1, <2>4 DEF WentOn, SameLists, ListsOK, Fields
  <2>6. ListsOK(q)
    BY <1>3, <2>5 DEF ListsOK, SameLists
  <2>7. MarkerOK(q, disk, edits)
    <3>1. Seen(edits, marker[1]) /\ HoldsFile(disk, marker[1], marker[1].content)
      BY <1>5, <1>6, <2>2
    <3> QED  BY <2>2, <2>3, <2>5, <3>1 DEF MarkerOK, Manages, SameLists
  <2>8. ReaderOK(q, edits) /\ Knows(q, disk, edits)
    BY <1>3, <2>3, <2>5, <2>6, <2>7, RootNamed DEF Beginning, Untouched, SameLists
  <2> QED  BY <1>1, <2>4, <2>5, <2>7, <2>8, GoesOn DEF q, Running, Reading, Validating, Expecting
<1>7. CASE /\ SameSnapshot(pending) /\ ~ IsMarker(path)
           /\ Goes("entry", [files |-> Append(reader.files, seen), stack |-> SkipName])
  <2> DEFINE top == Last(reader.stack)
             name == First(top.left)
             files == Append(reader.files, seen)
             found == [files |-> files, stack |-> SkipName]
  <2>1. /\ DOMAIN found = {"files", "stack"} /\ found["files"] = files /\ found["stack"] = SkipName
        /\ Goes("entry", found)
    BY <1>7
  <2>2. SkipName = [reader.stack EXCEPT ![Len(reader.stack)] =
                      [Last(reader.stack) EXCEPT !.left = Last(reader.stack).left \ {name}]]
    BY DEF SkipName, Top, Last
  <2>3. reader.stack # <<>>
    BY <1>3, <1>4, <1>7 DEF PendingOK, MarkerPath
  <2>4. /\ Linked(reader, disk, path, inode) /\ ~ MarkerPath(reader, path)
        /\ path = Append(top.path, name)
        /\ Stands(disk, top) /\ name \in DOMAIN disk[top.inode].entries =>
             disk[top.inode].entries[name] = inode
    BY <1>1, <2>3, ReaderIsNext
  <2> HIDE DEF q, found, files, seen, path, inode, pending, top, name
  <2>5. IsList(files) /\ ToSet(files) = ToSet(reader.files) \cup {seen}
    BY <1>3, AppendedElements DEF ListsOK, files
  <2>6. WentOn(reader, q, "entry", found) /\ UNCHANGED <<disk, edits, moments>>
    BY <2>1, GoesFields DEF q
  <2>7. /\ q.at = "entry" /\ q.stack = SkipName /\ Fields \cup {"frame"} \subseteq DOMAIN q
        /\ q.frame = reader.frame /\ q.request = reader.request /\ q.marker = reader.marker
        /\ q.retained = reader.retained /\ q.files = files /\ q.directories = reader.directories
    BY <1>3, <2>1, <2>6 DEF WentOn, ListsOK, Fields
  <2>8. Skipped(reader, q, name)
    BY <2>2, <2>3, <2>7 DEF Skipped
  <2>9. LET t == Last(reader.stack)
        IN  Stands(disk, t) /\ name \in DOMAIN disk[t.inode].entries =>
              Recorded(q, Append(t.path, name), disk[t.inode].entries[name])
    <3>1. seen \in ToSet(q.files) /\ seen.path = path /\ seen.inode = inode
      BY <1>5, <1>7, <2>5, <2>7
    <3>2. Recorded(q, path, inode)
      BY <3>1 DEF Recorded
    <3> QED  BY <2>4, <3>2 DEF top
  <2>10. \A f \in ToSet(q.files) : f \in ToSet(reader.files) \/
           (/\ Seen(edits, f) /\ HoldsFile(disk, f, f.content)
            /\ Linked(reader, disk, f.path, f.inode) /\ ~ MarkerPath(reader, f.path))
    BY <1>5, <1>7, <2>4, <2>5, <2>7
  <2>11. SkipsTo(reader, q, disk, edits, name, {})
    BY <1>3, <2>5, <2>7, <2>8, <2>9, <2>10 DEF SkipsTo
  <2> QED  BY <1>1, <2>6, <2>11, SkipsKeeps DEF q
<1> QED
  <2> HIDE DEF seen, path, inode, pending
  <2> QED  BY <1>1, <1>2, <1>6, <1>7

-----------------------------------------------------------------------------
(* The last look at everything.                                              *)

\* What is left to look at again: all else stood when the marker was looked at.
StillToCheck(r, d, place, unchecked) ==
  /\ IsList(unchecked)
  /\ \A frame \in ToSet(r.retained) :
       Checked(d, frame) \/ (place = "validate_directories" /\ frame \in ToSet(unchecked))
  /\ place = "validate_directories" => ToSet(unchecked) \subseteq ToSet(r.retained)
  /\ place = "validate_files" =>
       /\ ToSet(unchecked) \subseteq ToSet(r.files)
       /\ \A f \in ToSet(r.files) : Stands(d, f) \/ f \in ToSet(unchecked)

\* A step of the last look.
LEMMA ValidationKeeps ==
  ASSUME Inv, reader.at \in {"entry"} \cup Validating, reader.stack = <<>>, NEW place \in Validating,
         NEW unchecked, Goes(place, [unchecked |-> unchecked]),
         NEW d, NEW e, WasHeld(reader, d, e), StillToCheck(reader, d, place, unchecked)
  PROVE  Inv'
<1> DEFINE found == [unchecked |-> unchecked]
           q == reader'
           r == reader
<1>1. /\ DOMAIN found = {"unchecked"} /\ found["unchecked"] = unchecked /\ Goes(place, found)
      /\ reader.at \in Running
  BY DEF Running, Reading
<1>2. ListsOK(reader) /\ PhaseOK(reader, edits) /\ MarkerOK(reader, disk, edits)
  BY <1>1 DEF Inv, ReaderOK
<1>3. Rooted(reader)
  BY <1>2 DEF PhaseOK, BeforeNames, Reading, Validating
<1> HIDE DEF q, found
<1>4. WentOn(reader, q, place, found) /\ UNCHANGED <<disk, edits, moments>>
  BY <1>1, GoesFields DEF q
<1>5. /\ q.at = place /\ Fields \cup {"unchecked"} \subseteq DOMAIN q /\ q.unchecked = unchecked
      /\ SameLists(reader, q) /\ q.marker = reader.marker
  BY <1>1, <1>2, <1>4 DEF WentOn, SameLists, ListsOK, Fields
<1>6. /\ Frames(q) = Frames(r) /\ r.at # "enumerate" /\ q.at # "enumerate"
      /\ q.request = r.request /\ q.files = r.files /\ q.directories = r.directories /\ q.marker = r.marker
      /\ q.retained = r.retained
  BY <1>5 DEF Frames, SameLists, Validating
<1>7. /\ Rooted(r) /\ Knows(r, d, e) /\ MarkerStandsIn(r, d)
      /\ StillToCheck(r, d, place, unchecked)
  BY <1>3 DEF WasHeld
<1>8. ListsOK(q) /\ MarkerOK(q, disk, edits)
  BY <1>2, <1>5 DEF ListsOK, SameLists, MarkerOK, Manages
<1> HIDE DEF r
<1>9. Knows(q, d, e) /\ Rooted(q)
  BY <1>6, <1>7, SameKnows
<1>10. MarkerStandsIn(q, d) /\ Validated(q, d)
  BY <1>5, <1>6, <1>7 DEF MarkerStandsIn, StillToCheck, Validated
<1>11. ReaderOK(q, edits)
  <2>1. PhaseOK(q, edits)
    BY <1>5, <1>9 DEF PhaseOK, SameLists, Running, Reading, Validating, BeforeNames
  <2> QED  BY <1>8, <2>1 DEF ReaderOK
<1>12. WasSeen(reader, d, e)'
  BY <1>4, <1>9, <1>10 DEF WasSeen, WasHeld, Since, q
<1> QED  BY <1>1, <1>4, <1>5, <1>8, <1>11, <1>12, GoesOn DEF q, Running, Reading, Validating, Expecting

\* The marker is looked at again: everything is as it is now, but what changed.
LEMMA ValidateMarkerKeeps ==
  ASSUME Inv, ValidateMarker
  PROVE  Inv'
<1> DEFINE place == "validate_directories"
<1>1. /\ reader.at = "entry" /\ reader.at \in Running /\ reader.at \in Reading /\ reader.stack = <<>>
      /\ \/ Refuses("race")
         \/ MarkerStands /\ Goes(place, [unchecked |-> reader.retained])
  BY DEF ValidateMarker, At, Running, Reading
<1>2. CASE Refuses("race")
  BY <1>2, RefusesKeeps
<1>3. CASE MarkerStands /\ Goes(place, [unchecked |-> reader.retained])
  <2> DEFINE unchecked == reader.retained
  <2>1. /\ ListsOK(reader) /\ Knows(reader, disk, edits) /\ FileSystem(disk, edits) /\ edits \in Nat
        /\ TreeOf(disk) \in moments
    BY <1>1 DEF Inv, ReaderOK
  <2>2. MarkerStandsIn(reader, disk)
    BY <1>3 DEF MarkerStands, MarkerStandsIn, HasEntry, EntryNames, Entry, SameSnapshot, Stands
  <2>3. Since(disk, edits) /\ edits \in 0 .. edits
    BY <2>1 DEF Since
  <2>4. WasHeld(reader, disk, edits)
    BY <2>1, <2>2, <2>3 DEF WasHeld
  <2>5. StillToCheck(reader, disk, place, unchecked)
    BY <2>1 DEF StillToCheck, ListsOK
  <2>6. place \in Validating /\ Goes(place, [unchecked |-> unchecked])
    BY <1>3 DEF Validating
  <2> HIDE DEF place, unchecked
  <2> QED  BY <1>1, <2>4, <2>5, <2>6, ValidationKeeps
<1> QED  BY <1>1, <1>2, <1>3

\* What is found with its stamp again stood at the earlier moment too.
LEMMA StoodThen ==
  ASSUME NEW d, NEW e \in Nat, Since(d, e), NEW seen, Seen(e, seen), disk[seen.inode].stamp = seen.stamp
  PROVE  disk[seen.inode] = d[seen.inode] /\ Stands(d, seen)
<1>1. ~ (seen.stamp > e) /\ seen.inode \in Inodes
  BY DEF Seen
<1> QED  BY <1>1 DEF Since, Stands

\* A directory is looked at again.
LEMMA ValidateDirectoryKeeps ==
  ASSUME Inv, ValidateDirectory
  PROVE  Inv'
<1>1. /\ reader.at = "validate_directories" /\ reader.at \in Running /\ reader.at \in Validating
      /\ \/ reader.unchecked = <<>> /\ Goes("validate_files", [unchecked |-> reader.files])
         \/ reader.unchecked # <<>> /\ \E error : Fails(error)
         \/ /\ reader.unchecked # <<>> /\ Changed(Head(reader.unchecked).names, Head(reader.unchecked)) = "none"
            /\ Goes("validate_directories", [unchecked |-> Tail(reader.unchecked)])
  BY DEF ValidateDirectory, At, Running, Validating
<1>2. PICK d, e : WasSeen(reader, d, e)
  BY <1>1 DEF Inv
<1>3. /\ WasHeld(reader, d, e) /\ Validated(reader, d) /\ ListsOK(reader) /\ reader.stack = <<>>
      /\ Since(d, e) /\ Knows(reader, d, e) /\ e \in Nat
  BY <1>1, <1>2 DEF WasSeen, WasHeld, Inv, ReaderOK, PhaseOK
<1>4. CASE reader.unchecked # <<>> /\ \E error : Fails(error)
  BY <1>1, <1>4, FailsKeeps
<1>5. CASE reader.unchecked = <<>> /\ Goes("validate_files", [unchecked |-> reader.files])
  <2> DEFINE place == "validate_files"
             unchecked == reader.files
  <2>1. ToSet(reader.unchecked) = {}
    BY <1>5, NoElements
  <2>2. StillToCheck(reader, d, place, unchecked)
    BY <1>1, <1>3, <2>1 DEF StillToCheck, Validated, ListsOK
  <2>3. place \in Validating /\ Goes(place, [unchecked |-> unchecked])
    BY <1>5 DEF Validating
  <2> HIDE DEF place, unchecked
  <2> QED  BY <1>1, <1>3, <2>2, <2>3, ValidationKeeps
<1>6. CASE /\ reader.unchecked # <<>> /\ Changed(Head(reader.unchecked).names, Head(reader.unchecked)) = "none"
           /\ Goes("validate_directories", [unchecked |-> Tail(reader.unchecked)])
  <2> DEFINE place == "validate_directories"
             seen == Head(reader.unchecked)
             unchecked == Tail(reader.unchecked)
  <2>1. ToSet(reader.unchecked) = {seen} \cup ToSet(unchecked) /\ unchecked \in Seq(ToSet(reader.unchecked))
    <3>1. reader.unchecked \in Seq(ToSet(reader.unchecked)) /\ reader.unchecked # <<>>
      BY <1>3, <1>6 DEF Validated, IsList
    <3> QED  BY <3>1, FirstElement
  <2>2. EntryNames(seen.inode) = seen.names /\ SameSnapshot(seen)
    BY <1>6 DEF Changed
  <2>3. place \in Validating /\ Goes(place, [unchecked |-> unchecked])
    BY <1>6 DEF Validating
  <2>4. ToSet(reader.unchecked) \subseteq ToSet(reader.retained)
    BY <1>1, <1>3 DEF Validated
  <2> HIDE DEF place, unchecked, seen
  <2>5. IsList(unchecked)
    BY <2>1, ListElements DEF IsList
  <2>6. Seen(e, seen)
    <3>1. seen \in OpenFrames(reader)
      BY <2>1, <2>4 DEF OpenFrames, Frames
    <3> QED  BY <1>3, <3>1 DEF Knows, FrameOK
  <2>7. disk[seen.inode] = d[seen.inode] /\ Stands(d, seen)
    BY <1>3, <2>2, <2>6, StoodThen DEF SameSnapshot
  <2>8. Checked(d, seen)
    BY <2>2, <2>7 DEF Checked, EntryNames
  <2>9. StillToCheck(reader, d, place, unchecked)
    BY <1>1, <1>3, <2>1, <2>4, <2>5, <2>8 DEF StillToCheck, Validated, place
  <2> QED  BY <1>1, <1>3, <2>3, <2>9, ValidationKeeps
<1> QED  BY <1>1, <1>4, <1>5, <1>6

\* A file is looked at again.
LEMMA ValidateFileKeeps ==
  ASSUME Inv, ValidateFile
  PROVE  Inv'
<1> DEFINE place == "validate_files"
           seen == Head(reader.unchecked)
           unchecked == Tail(reader.unchecked)
<1>1. /\ reader.at = place /\ reader.at \in Running /\ reader.at \in Validating /\ reader.unchecked # <<>>
      /\ (\E error : Fails(error)) \/ (SameSnapshot(seen) /\ Goes(place, [unchecked |-> unchecked]))
  BY DEF ValidateFile, At, Running, Validating
<1>2. PICK d, e : WasSeen(reader, d, e)
  BY <1>1 DEF Inv
<1>3. /\ WasHeld(reader, d, e) /\ Validated(reader, d) /\ ListsOK(reader) /\ reader.stack = <<>>
      /\ Since(d, e) /\ Knows(reader, d, e) /\ e \in Nat
  BY <1>1, <1>2 DEF WasSeen, WasHeld, Inv, ReaderOK, PhaseOK
<1>4. CASE \E error : Fails(error)
  BY <1>1, <1>4, FailsKeeps
<1>5. CASE SameSnapshot(seen) /\ Goes(place, [unchecked |-> unchecked])
  <2>1. ToSet(reader.unchecked) = {seen} \cup ToSet(unchecked) /\ unchecked \in Seq(ToSet(reader.unchecked))
    <3>1. reader.unchecked \in Seq(ToSet(reader.unchecked)) /\ reader.unchecked # <<>>
      BY <1>1, <1>3 DEF Validated, IsList
    <3> QED  BY <3>1, FirstElement
  <2>2. ToSet(reader.unchecked) \subseteq ToSet(reader.files)
    BY <1>1, <1>3 DEF Validated
  <2>3. place \in Validating
    BY DEF Validating
  <2> HIDE DEF unchecked, seen
  <2>4. IsList(unchecked)
    BY <2>1, ListElements DEF IsList
  <2>5. Seen(e, seen)
    BY <1>3, <2>1, <2>2 DEF Knows, FileOK
  <2>6. Stands(d, seen)
    BY <1>3, <1>5, <2>5, StoodThen DEF SameSnapshot
  <2>7. StillToCheck(reader, d, place, unchecked)
    BY <1>1, <1>3, <2>1, <2>2, <2>4, <2>6 DEF StillToCheck, Validated
  <2> HIDE DEF place
  <2> QED  BY <1>1, <1>3, <1>5, <2>3, <2>7, ValidationKeeps
<1> QED  BY <1>1, <1>4, <1>5

-----------------------------------------------------------------------------
(* The answers, the edits and the theorem.                                   *)

\* A call that returns knows nothing any more; what it told is to be right.
LEMMA ReturnsKeeps ==
  ASSUME Inv, NEW result, Goes("returned", [result |-> result]),
         ASSUME WentOn(reader, reader', "returned", [result |-> result]), reader'.result = result,
                reader'.request = reader.request, UNCHANGED <<disk, edits, moments>>
         PROVE  OneMoment'
  PROVE  Inv'
<1> DEFINE found == [result |-> result]
           q == reader'
<1>1. DOMAIN found = {"result"} /\ found["result"] = result /\ Goes("returned", found)
  OBVIOUS
<1>2. ListsOK(reader)
  BY DEF Inv, ReaderOK
<1>3. WentOn(reader, q, "returned", found) /\ UNCHANGED <<disk, edits, moments>>
  <2> HIDE DEF found, q
  <2> QED  BY <1>1, GoesFields DEF q
<1>4. /\ q.at = "returned" /\ Fields \subseteq DOMAIN q /\ SameLists(reader, q) /\ q.marker = reader.marker
      /\ q.result = result /\ q.request = reader.request
  <2> HIDE DEF found, q
  <2> QED  BY <1>1, <1>2, <1>3 DEF WentOn, SameLists, ListsOK, Fields
<1>5. OneMoment'
  BY <1>3, <1>4
<1>6. ReaderOK(q, edits)
  <2> HIDE DEF found, q
  <2>1. ListsOK(q)
    BY <1>2, <1>4 DEF ListsOK, SameLists
  <2>2. PhaseOK(q, edits)
    BY <1>4 DEF PhaseOK, Reading, Validating, Running, BeforeNames
  <2> QED  BY <2>1, <2>2 DEF ReaderOK
<1> QED
  BY <1>3, <1>4, <1>5, <1>6 DEF Inv, Running, Reading, Validating, Expecting

\* When nothing is left to look at, what was read is what the root held.
LEMMA AllWasSeen ==
  ASSUME NEW r, NEW d, NEW e \in Nat, FileSystem(d, e), Knows(r, d, e), MarkerStandsIn(r, d), Validated(r, d),
         ListsOK(r), Rooted(r), r.at = "validate_files", r.stack = <<>>, r.unchecked = <<>>
  PROVE  AllStand(r, d, e)
<1>1. OpenFrames(r) = Frames(r) /\ Frames(r) = ToSet(r.retained)
  BY NoElements DEF OpenFrames, Frames
<1>2. \A frame \in ToSet(r.retained) : Checked(d, frame) /\ frame.left = {}
  BY DEF Validated, ListsOK
<1>3. \A f \in ToSet(r.files) : Stands(d, f)
  BY NoElements DEF Validated
<1> QED  BY <1>1, <1>2, <1>3 DEF AllStand, Rooted

\* The reader returns what it read.
LEMMA ReturnKeeps ==
  ASSUME Inv, Return
  PROVE  Inv'
<1> DEFINE result == [files |-> Content, directories |-> reader.directories, marker |-> MarkerBytes]
<1>1. /\ reader.at = "validate_files" /\ reader.at \in Running /\ reader.at \in Validating
      /\ reader.unchecked = <<>>
      /\ (\E error : Fails(error)) \/ Goes("returned", [result |-> result])
  BY DEF Return, At, Running, Validating
<1>2. CASE \E error : Fails(error)
  BY <1>1, <1>2, FailsKeeps
<1>3. CASE Goes("returned", [result |-> result])
  <2>1. PICK d, e : WasSeen(reader, d, e)
    BY <1>1 DEF Inv
  <2>2. /\ e \in Nat /\ FileSystem(d, e) /\ Knows(reader, d, e) /\ MarkerStandsIn(reader, d)
        /\ Validated(reader, d) /\ ListsOK(reader) /\ reader.stack = <<>> /\ TreeOf(d) \in moments
    BY <1>1, <2>1 DEF WasSeen, WasHeld, Inv, ReaderOK, PhaseOK
  <2>3. Rooted(reader)
    BY <1>1 DEF Inv, ReaderOK, PhaseOK, BeforeNames
  <2> DEFINE tree == TreeOf(d)
             kept == Kept(reader, tree)
  <2>4. AllStand(reader, d, e)
    BY <1>1, <2>2, <2>3, AllWasSeen
  <2>5. /\ tree.others = {} /\ reader.directories = tree.directories
        /\ FilesRead(reader) = tree.files \ kept
        /\ MarkerTold(reader) = {f.content : f \in kept}
    BY <2>4, WhatStandsIsHeld
  <2>6. Content = FilesRead(reader)
    BY DEF Content, FilesRead
  <2>7. ToSet(MarkerBytes) = MarkerTold(reader)
    BY DEF MarkerBytes, MarkerTold, ToSet
  <2>8. /\ result.files = FilesRead(reader) /\ result.directories = reader.directories
        /\ result.marker = MarkerBytes /\ DOMAIN result = {"files", "directories", "marker"}
    BY <2>6
  <2> HIDE DEF result, tree
  <2>9. ASSUME WentOn(reader, reader', "returned", [result |-> result]), reader'.result = result,
               reader'.request = reader.request, UNCHANGED <<disk, edits, moments>>
        PROVE  OneMoment'
    <3>1. tree \in moments' /\ "error" \notin DOMAIN reader'.result
      BY <2>2, <2>8, <2>9 DEF tree
    <3>2. (IF Managed' THEN {f \in tree.files : f.path = <<Marker>>} ELSE {}) = kept
      BY <2>9 DEF Managed, Kept, Manages
    <3>3. /\ reader'.result.files = tree.files \ kept /\ reader'.result.directories = tree.directories
          /\ ToSet(reader'.result.marker) = {f.content : f \in kept}
      BY <2>5, <2>7, <2>8, <2>9
    <3>4. Succeeded'
      BY <2>9, <3>1 DEF Succeeded, Returned, At, WentOn
    <3> HIDE DEF kept
    <3> QED  BY <2>5, <3>1, <3>2, <3>3, <3>4 DEF OneMoment
  <2> QED  BY <1>3, <2>9, ReturnsKeeps
<1> QED  BY <1>1, <1>2, <1>3

\* A failure tells the marker that is there.
LEMMA FailKeeps ==
  ASSUME Inv, Fail
  PROVE  Inv'
<1> DEFINE result == [error |-> reader.error, marker |-> MarkerBytes]
<1>1. /\ reader.at = "failing" /\ reader.at \in Running
      /\ Refuses("race") \/ (MarkerStands /\ Goes("returned", [result |-> result]))
  BY DEF Fail, At, Running
<1>2. CASE Refuses("race")
  BY <1>2, RefusesKeeps
<1>3. CASE MarkerStands /\ Goes("returned", [result |-> result])
  <2>1. MarkerOK(reader, disk, edits)
    BY <1>1 DEF Inv
  <2>2. \A content \in ToSet(MarkerBytes) : MarkerIs(content)
    <3>1. CASE reader.marker = <<>>
      BY <3>1 DEF MarkerBytes, ToSet
    <3>2. CASE reader.marker # <<>>
      <4>1. /\ HasEntry(Root, Marker) /\ Entry(Root, Marker) = reader.marker[1].inode
            /\ disk[reader.marker[1].inode].content = reader.marker[1].content
        BY <1>3, <2>1, <3>2 DEF MarkerStands, MarkerOK, HoldsFile, SameSnapshot, Stands
      <4>2. DOMAIN reader.marker = {1}
        BY <2>1, <3>2 DEF MarkerOK
      <4>3. \A content \in ToSet(MarkerBytes) : content = reader.marker[1].content
        BY <4>2 DEF MarkerBytes, ToSet
      <4> QED  BY <4>1, <4>3 DEF MarkerIs
    <3> QED  BY <3>1, <3>2
  <2>3. result.marker = MarkerBytes /\ "error" \in DOMAIN result
    OBVIOUS
  <2> HIDE DEF result
  <2>4. ASSUME WentOn(reader, reader', "returned", [result |-> result]), reader'.result = result,
               reader'.request = reader.request, UNCHANGED <<disk, edits, moments>>
        PROVE  OneMoment'
    <3>1. ~ (Succeeded')
      BY <2>3, <2>4 DEF Succeeded
    <3>2. \A content \in ToSet(reader'.result.marker) : MarkerIs(content)'
      BY <2>2, <2>3, <2>4 DEF MarkerIs, HasEntry, EntryNames, Entry
    <3> QED  BY <3>1, <3>2 DEF OneMoment
  <2> QED  BY <1>3, <2>4, ReturnsKeeps
<1> QED  BY <1>1, <1>2, <1>3

\* A look that is refused.
LEMMA LookFailsKeeps ==
  ASSUME Inv, LookFails
  PROVE  Inv'
<1>1. reader.at \notin {"idle", "failing", "returned"} => reader.at \in Running
  BY DEF Inv, ReaderOK, PhaseOK
<1> QED  BY <1>1, FailsKeeps, RefusesKeeps DEF LookFails

\* An edit changes nothing that was known.
LEMMA EditKeeps ==
  ASSUME Inv, Edit
  PROVE  Inv'
<1>1. /\ edits \in Nat /\ FileSystem(disk, edits) /\ edits' = edits + 1 /\ reader' = reader
      /\ moments' = moments \cup {TreeOf(disk')} /\ reader.at \in Running /\ IsDirectory(Root)
      /\ ReaderOK(reader, edits) /\ MarkerOK(reader, disk, edits)
  BY DEF Edit, Inv, ReaderOK, PhaseOK
<1>2. Edited(disk, disk', edits)
  <2>1. PICK i \in Inodes :
          \/ Write(i)
          \/ IsDirectory(i) /\ \E n \in Names :
               Unlink(i, n) \/ Put(i, n) \/ \E to \in Inodes : Move(i, n, to)
    BY DEF Edit
  <2>2. CASE Write(i)
    BY <1>1, <2>2, WriteEdits
  <2>3. ASSUME IsDirectory(i), NEW n \in Names, Unlink(i, n)
        PROVE  Edited(disk, disk', edits)
    BY <1>1, <2>3, UnlinkEdits
  <2>4. ASSUME IsDirectory(i), NEW n \in Names, Put(i, n)
        PROVE  Edited(disk, disk', edits)
    BY <1>1, <2>4, PutEdits
  <2>5. ASSUME IsDirectory(i), NEW n \in Names, NEW to \in Inodes, Move(i, n, to)
        PROVE  Edited(disk, disk', edits)
    BY <1>1, <2>5, MoveEdits
  <2> QED  BY <2>1, <2>2, <2>3, <2>4, <2>5
<1> DEFINE d == disk
           c == disk'
           e == edits
           r == reader
<1>3. /\ Edited(d, c, e) /\ e \in Nat /\ ReaderOK(r, e) /\ MarkerOK(r, d, e)
      /\ r.at \in Reading => Knows(r, d, e)
      /\ r.at \in Expecting => PendingOK(r, d, e) /\ Knows(r, d, e)
  BY <1>1, <1>2 DEF Inv, Expecting, Reading
<1> HIDE DEF d, c, e, r
<1>4. /\ ReaderOK(r, e + 1) /\ MarkerOK(r, c, e + 1)
      /\ r.at \in Reading => Knows(r, c, e + 1)
      /\ r.at \in Expecting => PendingOK(r, c, e + 1)
  <2>1. /\ MarkerOK(r, d, e) => MarkerOK(r, c, e + 1)
        /\ Knows(r, d, e) => Knows(r, c, e + 1)
        /\ Knows(r, d, e) /\ ListsOK(r) /\ PendingOK(r, d, e) => PendingOK(r, c, e + 1)
        /\ PhaseOK(r, e) => PhaseOK(r, e + 1)
    BY <1>3, EditedKnows
  <2> QED  BY <1>3, <2>1 DEF ReaderOK
<1>5. /\ ReaderOK(reader', edits') /\ MarkerOK(reader', disk', edits')
      /\ reader'.at \in Reading => Knows(reader', disk', edits')
      /\ reader'.at \in Expecting => PendingOK(reader', disk', edits')
  BY <1>1, <1>4 DEF c, e, r
<1>6. ASSUME NEW old, NEW early, WasSeen(reader, old, early)
      PROVE  WasSeen(reader, old, early)'
  <2>1. /\ early \in 0 .. edits /\ FileSystem(old, early) /\ TreeOf(old) \in moments /\ Since(old, early)
        /\ Knows(reader, old, early) /\ MarkerStandsIn(reader, old) /\ Validated(reader, old)
    BY <1>6 DEF WasSeen, WasHeld
  <2>2. early \in 0 .. edits' /\ edits' \in Nat /\ edits' > early
    BY <1>1, <2>1
  <2>3. Since(old, early)'
    <3> SUFFICES ASSUME NEW i \in Inodes
                 PROVE  disk'[i] = old[i] \/ (disk'[i].stamp \in Nat /\ disk'[i].stamp > early)
      BY DEF Since
    <3>1. disk'[i] = disk[i] \/ disk'[i].stamp = edits'
      BY <1>1, <1>2 DEF Edited
    <3>2. disk[i] = old[i] \/ (disk[i].stamp \in Nat /\ disk[i].stamp > early)
      BY <2>1 DEF Since
    <3> QED  BY <2>2, <3>1, <3>2
  <2>4. WasHeld(reader, old, early)'
    BY <1>1, <2>1, <2>2, <2>3 DEF WasHeld
  <2> QED  BY <1>1, <2>1, <2>4 DEF WasSeen
<1>7. reader'.at \in Validating => \E old, early : WasSeen(reader, old, early)'
  BY <1>1, <1>6 DEF Inv
<1>8. FileSystem(disk', edits') /\ IsDirectory(Root)' /\ edits' \in Nat /\ TreeOf(disk') \in moments'
  BY <1>1, <1>2, RootIsAnInode DEF Edited, IsDirectory
<1>9. OneMoment'
  BY <1>1 DEF OneMoment, Succeeded, Returned, At, Running, Reading, Validating
<1> QED  BY <1>5, <1>7, <1>8, <1>9 DEF Inv

\* A call that has not begun.
LEMMA InitHolds ==
  ASSUME Init
  PROVE  Inv
<1>1. edits \in Nat /\ FileSystem(disk, edits)
  BY StartsAreFileSystems DEF Init
<1>2. PICK request \in Requests : reader = Idle(request)
  BY DEF Init
<1>3. /\ reader.at = "idle" /\ reader.stack = <<>> /\ reader.retained = <<>> /\ reader.files = <<>>
      /\ reader.marker = <<>> /\ reader.directories = {} /\ DOMAIN reader = Fields \cup {"at"}
  BY <1>2 DEF Idle, Fields
<1> HIDE DEF Idle
<1>4. ListsOK(reader)
  BY <1>3, NoElements DEF ListsOK
<1>5. PhaseOK(reader, edits)
  BY <1>3 DEF PhaseOK, Untouched, Reading, Validating, Running, BeforeNames
<1>6. OneMoment
  BY <1>3 DEF OneMoment, Succeeded, Returned, At
<1> QED  BY <1>1, <1>3, <1>4, <1>5, <1>6 DEF Inv, ReaderOK, Running, Reading, Validating, Expecting

\* No step and no edit takes it away.
LEMMA NextKeeps ==
  ASSUME Inv, [Next]_vars
  PROVE  Inv'
<1>1. CASE UNCHANGED vars
  BY <1>1 DEF vars, Inv, OneMoment, Succeeded, Returned, At, Managed, MarkerIs, HasEntry, EntryNames, Entry,
              WasSeen, WasHeld, Since, IsDirectory
<1>2. CASE Step
  BY <1>2, OpenRootKeeps, InspectMarkerKeeps, EnumerateKeeps, ReadEntryKeeps, OpenDirectoryKeeps, OpenKeeps,
     ReadKeeps, ReinspectKeeps, FinishDirectoryKeeps, ValidateMarkerKeeps, ValidateDirectoryKeeps,
     ValidateFileKeeps, ReturnKeeps, FailKeeps DEF Step
<1> QED  BY <1>1, <1>2, LookFailsKeeps, EditKeeps DEF Next

\* OneMoment, of every behaviour: a read that succeeds returns what the root held
\* at one moment of the call, whatever was edited while it read; one that fails
\* tells no marker but the one that is there.
THEOREM ReadsOneMoment == Spec => []OneMoment
<1>1. Init => Inv
  BY InitHolds
<1>2. Inv /\ [Next]_vars => Inv'
  BY NextKeeps
<1>3. Inv => OneMoment
  BY DEF Inv
<1> QED  BY <1>1, <1>2, <1>3, PTL DEF Spec
-----------------------------------------------------------------------------
(* A read that nothing disturbs.                                             *)

\* While nothing is edited, everything the reader has seen stands, and what it
\* has counted is part of the tree.  Names of a directory, as paths.
Named(g) == {Append(g.path, n) : n \in g.names}
Beside(r) == IF Manages(r) THEN {<<Marker>>} ELSE {}
Counted(r) == (UNION {Named(g) : g \in Frames(r)}) \ Beside(r)
Bytes(files) == SumFunction([k \in DOMAIN files |-> Size[files[k].content]])

\* A name that was read, and what was read under its path.
DoneWith(r, path) == \E g \in Frames(r) : \E n \in g.names \ g.left : path = Append(g.path, n)
Told(r, path) == path = <<>> \/ DoneWith(r, path)
PathsDiffer(s) == \A i, j \in 1 .. Len(s) : s[i].path = s[j].path => i = j

\* No directory is in two places of the lists, and no file.
Apart(r) ==
  /\ PathsDiffer(r.stack) /\ PathsDiffer(r.files)
  /\ \A g \in ToSet(r.stack), h \in ToSet(r.retained) : g.path # h.path
  /\ \A g, h \in ToSet(r.retained) : g.path = h.path => g = h
  /\ r.at = "enumerate" => \A g \in Frames(r) : g.path # r.frame.path
Listed(r) ==
  /\ \A g \in Frames(r) : g.left \subseteq g.names /\ g.names \subseteq Names
  /\ \A g \in OpenFrames(r) : Told(r, g.path) /\ ~ MarkerPath(r, g.path)
  /\ \A g \in OpenFrames(r) : g.path = <<>> \/ ValidPath(g.path)
  /\ \A f \in ToSet(r.files) : Told(r, f.path)

\* Everything within the limits of the request, with what is being read.
LooksAtFile(r) == r.at \in {"open", "read", "reinspect"}
FileFits(r, f) == f.content \in DOMAIN Size /\ Size[f.content] <= r.request.bytes
Within(r) ==
  /\ r.entries = Cardinality(Counted(r))
  /\ Len(r.files) <= r.request.files
  /\ \A f \in ToSet(r.files) : FileFits(r, f)
  /\ Bytes(r.files) <= r.request.total
  /\ Cardinality(r.directories) <= r.request.directories
  /\ \A k \in DOMAIN r.marker :
       r.marker[k].content \in DOMAIN Size /\ Size[r.marker[k].content] <= r.request.manifest
PendingFits(r) ==
  /\ LooksAtFile(r) => r.pending.size \in Nat /\ r.pending.limit \in Int
  /\ LooksAtFile(r) /\ r.stack # <<>> =>
       /\ Len(r.files) < r.request.files /\ r.pending.size <= r.request.bytes
       /\ Bytes(r.files) + r.pending.size <= r.request.total
  /\ LooksAtFile(r) /\ r.stack = <<>> => r.pending.limit = r.request.manifest
  /\ r.at = "open_directory" =>
       /\ Cardinality(r.directories) < r.request.directories /\ ValidPath(r.pending.path)

\* What it knows of file system d, in which all it saw stands.
MarkerKnown(r, d) ==
  /\ MarkerStandsIn(r, d)
  /\ Manages(r) /\ Marker \in DOMAIN d[Root].entries => r.marker # <<>>
  /\ r.request.marker = "required" => r.marker # <<>>
PendingStands(r, d) ==
  /\ Stands(d, r.pending)
  /\ r.pending.name \in DOMAIN d[r.pending.parent].entries
  /\ d[r.pending.parent].entries[r.pending.name] = r.pending.inode
  /\ LooksAtFile(r) =>
       r.pending.size = Size[d[r.pending.inode].content] /\ r.pending.size <= r.pending.limit
  /\ IF r.stack = <<>> THEN r.pending.parent = Root /\ r.pending.name = Marker
     ELSE Last(r.stack).left # {} /\ r.pending.name = First(Last(r.stack).left)
Undisturbed(r, d) ==
  /\ \A g \in OpenFrames(r) : Stands(d, g) /\ IsPlaced(d, g.path, g.inode)
  /\ \A g \in Frames(r) : g.names = DOMAIN d[g.inode].entries
  /\ \A f \in ToSet(r.files) : Stands(d, f)
  /\ IF BeforeNames(r) THEN Stands(d, r.frame) ELSE MarkerKnown(r, d)
  /\ r.at \in Expecting => PendingStands(r, d) /\ PendingFits(r)

\* What the call is blamed for is the tree's fault, and an answer is right.
Blames(r, d, error) == error = "io" \/ ~ Readable(TreeOf(d), r.request)
Answers(r, d) ==
  \/ "error" \notin DOMAIN r.result /\ Readable(TreeOf(d), r.request)
  \/ "error" \in DOMAIN r.result /\ r.result.error \in {"io", "root_not_directory"}
  \/ "error" \in DOMAIN r.result /\ ~ Readable(TreeOf(d), r.request)
Searching == Running \ {"failing"}
Sound(r) == Apart(r) /\ Listed(r) /\ Within(r)
Exact(r, d, e) ==
  /\ r.at = "idle" => r.entries = 0
  /\ r.at \in Searching => Sound(r) /\ Undisturbed(r, d)
  /\ r.at \in Validating => Knows(r, d, e)
  /\ r.at = "failing" =>
       "error" \in DOMAIN r /\ MarkerStandsIn(r, d) /\ Blames(r, d, r.error)
  /\ r.at = "returned" => "result" \in DOMAIN r /\ Answers(r, d)
ExactInv ==
  /\ reader.began \in Nat /\ edits >= reader.began /\ reader.request \in Requests
  /\ edits = reader.began => Exact(reader, disk, edits)

-----------------------------------------------------------------------------
(* Sums and counts of what was read.                                         *)

\* The first of some names is one of them.
LEMMA FirstIsThere ==
  ASSUME NEW names, names \subseteq Names, names # {}
  PROVE  First(names) \in names
<1> DEFINE ks == {k \in DOMAIN NameOrder : NameOrder[k] \in names}
<1>1. NameOrder \in Seq(ToSet(NameOrder)) /\ DOMAIN NameOrder = 1 .. Len(NameOrder) /\ Len(NameOrder) \in Nat
  BY NamesAreListed
<1>2. ks \in SUBSET Nat /\ ks # {}
  <2>1. PICK n \in names : TRUE
    OBVIOUS
  <2>2. \E k \in DOMAIN NameOrder : NameOrder[k] = n
    BY <1>1, <2>1 DEF Names, ToSet
  <2> QED  BY <1>1, <2>1, <2>2
<1>3. PICK k \in ks : \A j \in ks : k <= j
  <2> HIDE DEF ks
  <2> QED  BY <1>2, LeastNumber
<1>4. k \in DOMAIN NameOrder /\ NameOrder[k] \in names /\ \A j \in 1 .. k - 1 : NameOrder[j] \notin names
  <2>1. \A j \in 1 .. k - 1 : j \in DOMAIN NameOrder /\ j < k
    BY <1>1
  <2>2. \A j \in ks : ~ (j < k)
    BY <1>1, <1>3
  <2> QED  BY <1>3, <2>1, <2>2
<1> QED  BY <1>4 DEF First

\* Paths under two directories are one only for one name of one directory.
LEMMA AppendedPath ==
  ASSUME NEW p \in Seq(Names), NEW q \in Seq(Names), NEW n \in Names, NEW m \in Names, Append(p, n) = Append(q, m)
  PROVE  p = q /\ n = m
<1> DEFINE s == Append(p, n)
           t == Append(q, m)
<1>1. /\ Len(s) = Len(p) + 1 /\ s[Len(p) + 1] = n /\ \A k \in 1 .. Len(p) : s[k] = p[k]
      /\ Len(t) = Len(q) + 1 /\ t[Len(q) + 1] = m /\ \A k \in 1 .. Len(q) : t[k] = q[k]
  OBVIOUS
<1>2. s = t
  OBVIOUS
<1> HIDE DEF s, t
<1>3. Len(p) \in Nat /\ Len(q) \in Nat /\ Len(p) = Len(q)
  BY <1>1, <1>2
<1>4. \A k \in 1 .. Len(p) : p[k] = q[k]
  BY <1>1, <1>2, <1>3
<1> QED  BY <1>1, <1>2, <1>3, <1>4

\* There are finitely many names.
LEMMA FiniteNames ==
  /\ IsFiniteSet(Names)
  /\ \A names : names \subseteq Names => IsFiniteSet(names) /\ Cardinality(names) \in Nat
<1>1. NameOrder \in Seq(ToSet(NameOrder)) /\ DOMAIN NameOrder = 1 .. Len(NameOrder) /\ Len(NameOrder) \in Nat
  BY NamesAreListed
<1>2. NameOrder \in Surjection(1 .. Len(NameOrder), Names)
  BY <1>1 DEF Surjection, Names, ToSet
<1>3. IsFiniteSet(1 .. Len(NameOrder))
  BY <1>1, FS_Interval
<1>4. IsFiniteSet(Names)
  BY <1>2, <1>3, FS_Surjection
<1> QED  BY <1>4, FS_Subset, FS_CardinalityType

\* A list of files whose contents have sizes.
Sized(files) == IsList(files) /\ \A f \in ToSet(files) : f.content \in DOMAIN Size
Weights(files) == [k \in DOMAIN files |-> Size[files[k].content]]

\* The bytes of a list are units.
LEMMA BytesOfList ==
  ASSUME NEW files, Sized(files)
  PROVE  /\ Len(files) \in Nat /\ DOMAIN files = 1 .. Len(files) /\ IsFiniteSet(1 .. Len(files))
         /\ \A k \in 1 .. Len(files) : Weights(files)[k] \in Nat /\ files[k] \in ToSet(files)
         /\ Bytes(files) = Cardinality(Units(Weights(files), 1 .. Len(files)))
         /\ Bytes(files) \in Nat
<1> DEFINE w == Weights(files)
<1>1. files \in Seq(ToSet(files)) /\ Len(files) \in Nat /\ DOMAIN files = 1 .. Len(files)
  BY DEF Sized, IsList
<1>2. IsFiniteSet(1 .. Len(files))
  BY <1>1, FS_Interval
<1>3. \A k \in 1 .. Len(files) : w[k] \in Nat /\ files[k] \in ToSet(files)
  BY <1>1, SizesAreNumbers DEF Sized, Weights, ToSet
<1>4. DOMAIN w = 1 .. Len(files) /\ Bytes(files) = SumFunction(w)
  BY <1>1 DEF Weights, Bytes
<1> HIDE DEF w
<1>5. Bytes(files) = Cardinality(Units(w, DOMAIN w))
  BY <1>2, <1>3, <1>4, SumFunctionIsUnits
<1>6. IsFiniteSet(Units(w, 1 .. Len(files)))
  BY <1>2, <1>3, UnitsFinite
<1> QED  BY <1>1, <1>2, <1>3, <1>4, <1>5, <1>6, FS_CardinalityType DEF w

\* One file more adds its size.
LEMMA BytesAppended ==
  ASSUME NEW files, Sized(files), NEW f, f.content \in DOMAIN Size
  PROVE  Sized(Append(files, f)) /\ Bytes(Append(files, f)) = Bytes(files) + Size[f.content]
<1> DEFINE s == Append(files, f)
           n == Len(files)
           w == Weights(s)
           v == Weights(files)
<1>1. IsList(files) /\ ToSet(s) = ToSet(files) \cup {f} /\ IsList(s)
  BY AppendedElements DEF Sized
<1>2. Sized(s)
  BY <1>1 DEF Sized
<1>3. /\ n \in Nat /\ DOMAIN files = 1 .. n /\ IsFiniteSet(1 .. n)
      /\ Bytes(files) = Cardinality(Units(v, 1 .. n))
  BY BytesOfList
<1>4. files \in Seq(ToSet(files)) /\ Len(s) = n + 1 /\ s[n + 1] = f /\ \A k \in 1 .. n : s[k] = files[k]
  BY <1>1 DEF IsList
<1>5. /\ DOMAIN s = 1 .. n + 1 /\ IsFiniteSet(1 .. n + 1) /\ \A k \in 1 .. n + 1 : w[k] \in Nat
      /\ Bytes(s) = Cardinality(Units(w, 1 .. n + 1))
  <2> HIDE DEF s, n, w
  <2> QED  BY <1>2, <1>4, BytesOfList DEF w
<1>6. w[n + 1] = Size[f.content] /\ \A k \in 1 .. n : w[k] = v[k]
  <2>1. w[n + 1] = Size[s[n + 1].content]
        /\ \A k \in 1 .. n : w[k] = Size[s[k].content] /\ v[k] = Size[files[k].content]
    BY <1>3, <1>5 DEF Weights
  <2> QED  BY <1>4, <2>1
<1> HIDE DEF s, n, w, v
<1>7. n + 1 \in 1 .. n + 1 /\ (1 .. n + 1) \ {n + 1} = 1 .. n /\ 1 .. n + 1 \in SUBSET (1 .. n + 1)
  BY <1>3
<1>8. Cardinality(Units(w, 1 .. n + 1)) = w[n + 1] + Cardinality(Units(w, 1 .. n))
  <2> DEFINE S == 1 .. n + 1
  <2>1. IsFiniteSet(S) /\ \A x \in S : w[x] \in Nat
    BY <1>5
  <2>2. S \in SUBSET S /\ n + 1 \in S
    BY <1>7
  <2> HIDE DEF S
  <2>3. Cardinality(Units(w, S)) = w[n + 1] + Cardinality(Units(w, S \ {n + 1}))
    BY <2>1, <2>2, UnitsWithout
  <2> QED  BY <1>7, <2>3 DEF S
<1>9. Units(w, 1 .. n) = Units(v, 1 .. n)
  BY <1>6 DEF Units
<1>10. w[n + 1] \in Nat /\ Bytes(files) \in Nat
  BY <1>5, <1>7, BytesOfList
<1> QED  BY <1>2, <1>3, <1>5, <1>6, <1>8, <1>9, <1>10 DEF s

\* A tree's files by their content, and the list of those that were read.
SizesOf(set) == [f \in set |-> Size[f.content]]
RecordOf(f) == [path |-> f.path, content |-> f.content]
RecordsOf(files) == {RecordOf(f) : f \in ToSet(files)}

\* Files under different paths are as many as their records, and weigh as much.
LEMMA RecordsWeigh ==
  ASSUME NEW files, Sized(files), PathsDiffer(files), NEW set, IsFiniteSet(set), RecordsOf(files) \subseteq set,
         \A f \in set : f.content \in DOMAIN Size
  PROVE  /\ Len(files) <= Cardinality(set) /\ Bytes(files) <= SumFunction(SizesOf(set))
         /\ set = RecordsOf(files) =>
              Len(files) = Cardinality(set) /\ Bytes(files) = SumFunction(SizesOf(set))
<1> DEFINE n == Len(files)
           w == Weights(files)
           v == SizesOf(set)
           all == RecordsOf(files)
           h == [k \in 1 .. n |-> RecordOf(files[k])]
           g == [x \in all |-> CHOOSE k \in 1 .. n : RecordOf(files[k]) = x]
<1>1. /\ n \in Nat /\ DOMAIN files = 1 .. n /\ IsFiniteSet(1 .. n)
      /\ \A k \in 1 .. n : w[k] \in Nat /\ files[k] \in ToSet(files)
      /\ Bytes(files) = Cardinality(Units(w, 1 .. n)) /\ Bytes(files) \in Nat
  BY BytesOfList
<1>2. \A k \in 1 .. n : RecordOf(files[k]) \in all
  BY <1>1 DEF RecordsOf
<1>3. \A x \in all : \E k \in 1 .. n : RecordOf(files[k]) = x
  BY <1>1 DEF RecordsOf, ToSet
<1>4. \A k, j \in 1 .. n : RecordOf(files[k]) = RecordOf(files[j]) => k = j
  BY DEF PathsDiffer, RecordOf
<1>5. \A k \in 1 .. n : w[k] = Size[RecordOf(files[k]).content]
  BY <1>1 DEF Weights, RecordOf
<1>6. /\ DOMAIN v = set /\ \A x \in set : v[x] \in Nat /\ v[x] = Size[x.content]
  BY SizesAreNumbers DEF SizesOf
<1> HIDE DEF n, w, v, all, RecordOf
<1>7. h \in Injection(1 .. n, all) /\ h \in Surjection(1 .. n, all)
  BY <1>2, <1>3, <1>4 DEF Injection, Surjection, IsInjective
<1>8. IsFiniteSet(all) /\ Cardinality(all) = n
  <2>1. Cardinality(1 .. n) = n
    <3>1. 1 \in Int /\ n \in Int
      BY <1>1
    <3>2. Cardinality(1 .. n) = IF 1 > n THEN 0 ELSE n - 1 + 1
      BY <3>1, FS_Interval
    <3> QED  BY <1>1, <3>2
  <2> HIDE DEF h
  <2> QED  BY <1>1, <1>7, <2>1, FS_Surjection
<1>9. Cardinality(all) <= Cardinality(set)
  BY FS_Subset DEF all
<1>10. SumFunction(v) = Cardinality(Units(v, set))
  BY <1>6, SumFunctionIsUnits
<1>11. Cardinality(Units(w, 1 .. n)) = Cardinality(Units(v, all))
  <2>1. all \subseteq set
    BY DEF all
  <2>2. \A x \in all : g[x] \in 1 .. n /\ RecordOf(files[g[x]]) = x
    BY <1>3
  <2>3. \A k \in 1 .. n : g[RecordOf(files[k])] = k
    BY <1>2, <1>4, <2>2
  <2>4. g \in [all -> 1 .. n] /\ h \in [1 .. n -> all]
    BY <1>2, <2>2
  <2>5. \A k \in 1 .. n : h[k] = RecordOf(files[k])
    OBVIOUS
  <2> HIDE DEF g, h
  <2>6. \A x \in all : w[g[x]] = v[x]
    BY <1>5, <1>6, <2>1, <2>2
  <2>7. \A k \in 1 .. n : v[h[k]] = w[k]
    BY <1>2, <1>5, <1>6, <2>1, <2>5
  <2>8. \A k \in 1 .. n : \E x \in all : g[x] = k
    BY <1>2, <2>3
  <2>9. \A x \in all : \E k \in 1 .. n : h[k] = x
    BY <1>3, <2>5
  <2>10. \A x \in all : v[x] \in Nat
    BY <1>6, <2>1
  <2>11. Cardinality(Units(w, 1 .. n)) <= Cardinality(Units(v, all))
    BY <1>8, <2>4, <2>6, <2>8, <2>10, ReachedWeighsNoMore
  <2>12. Cardinality(Units(v, all)) <= Cardinality(Units(w, 1 .. n))
    BY <1>1, <2>4, <2>7, <2>9, ReachedWeighsNoMore
  <2>13. IsFiniteSet(Units(v, all)) /\ IsFiniteSet(Units(w, 1 .. n))
    BY <1>1, <1>8, <2>10, UnitsFinite
  <2> QED  BY <2>11, <2>12, <2>13, FS_CardinalityType
<1>12. IsFiniteSet(Units(v, set)) /\ Units(v, all) \subseteq Units(v, set)
  <2>1. all \subseteq set
    BY DEF all
  <2> QED  BY <1>6, <2>1, UnitsFinite DEF Units
<1>13. Cardinality(Units(v, all)) <= Cardinality(Units(v, set))
  BY <1>12, FS_Subset
<1> QED  BY <1>1, <1>8, <1>9, <1>10, <1>11, <1>13 DEF v, all, n
-----------------------------------------------------------------------------
(* What a tree holds, and when it is readable.                               *)

\* An entry of a directory of the tree is in the tree.
LEMMA EntryIsPlaced ==
  ASSUME NEW d, NEW e \in Nat, FileSystem(d, e), NEW above, NEW i \in Inodes, IsPlaced(d, above, i),
         d[i].kind = "directory", NEW n \in DOMAIN d[i].entries
  PROVE  LET path == Append(above, n)
             inode == d[i].entries[n]
         IN  /\ n \in Names /\ inode \in Inodes /\ d[inode].kind \in {"file", "directory", "other"}
             /\ IsObject(d[inode], e)
             /\ path \in Seq(Names) /\ path # <<>> /\ IsPlaced(d, path, inode)
             /\ [path |-> path, inode |-> inode] \in Places(d)
<1> DEFINE path == Append(above, n)
           inode == d[i].entries[n]
           place == [path |-> above, inode |-> i]
           k == Len(above)
<1>1. PICK level \in [Inodes -> 0 .. Depth - 1] : IsLeveled(d, level)
  BY DEF FileSystem
<1>2. above \in Seq(Names) /\ k \in 0 .. Depth /\ place \in Levels(d)[k]
  BY DEF IsPlaced
<1>3. n \in Names /\ inode \in Inodes /\ d[inode] # Free /\ IsObject(d[inode], e)
  BY OwnEntry DEF FileSystem
<1>4. IsPlaceOf(d, level, place, k)
  BY <1>1, <1>2, PlacesHaveLevels
<1>5. k = level[i] /\ level[i] \in 0 .. Depth - 1
  BY <1>1, <1>4 DEF IsPlaceOf
<1>6. [path |-> path, inode |-> inode] \in Below(d, place)
  BY DEF Below
<1> HIDE DEF inode
<1>7. d[inode].kind \in {"file", "directory", "other"}
  BY <1>3, Objects
<1>8. path \in Seq(Names) /\ Len(path) = k + 1 /\ path # <<>>
  BY <1>2, <1>3
<1> HIDE DEF k, path
<1>9. k + 1 \in 1 .. Depth /\ (k + 1) - 1 = k
  BY <1>2, <1>5, DepthIsNumber
<1>10. Levels(d)[k + 1] = UNION {Below(d, p) : p \in Levels(d)[k]}
  BY <1>9, LevelsClimb
<1>11. [path |-> path, inode |-> inode] \in Levels(d)[k + 1]
  BY <1>2, <1>6, <1>10
<1>12. IsPlaced(d, path, inode) /\ [path |-> path, inode |-> inode] \in Places(d)
  BY <1>8, <1>9, <1>11 DEF IsPlaced, Places
<1> QED  BY <1>3, <1>7, <1>8, <1>12 DEF path, inode

\* The root is placed.
LEMMA RootIsPlaced ==
  ASSUME NEW d
  PROVE  IsPlaced(d, <<>>, Root)
<1>1. <<>> \in Seq(Names) /\ Len(<<>>) = 0 /\ 0 \in 0 .. Depth
  BY DepthIsNumber
<1>2. [path |-> <<>>, inode |-> Root] \in Levels(d)[0]
  BY LevelsClimb DEF RootPlace
<1> QED  BY <1>1, <1>2 DEF IsPlaced

\* What is at a place is what the tree says.
LEMMA PlacesInTree ==
  ASSUME NEW d, NEW path, NEW inode, [path |-> path, inode |-> inode] \in Places(d)
  PROVE  /\ d[inode].kind = "file" => [path |-> path, content |-> d[inode].content] \in TreeOf(d).files
         /\ d[inode].kind = "directory" => path \in TreeOf(d).directories
         /\ d[inode].kind = "other" => TreeOf(d).others # {}
<1> DEFINE p == [path |-> path, inode |-> inode]
           of(kind) == {q \in Places(d) : d[q.inode].kind = kind}
<1>1. p \in Places(d) /\ p.path = path /\ p.inode = inode
  OBVIOUS
<1> HIDE DEF p
<1>2. \A kind : d[inode].kind = kind => p \in of(kind)
  BY <1>1
<1>3. /\ TreeOf(d).files = {[path |-> q.path, content |-> d[q.inode].content] : q \in of("file")}
      /\ TreeOf(d).directories = {q.path : q \in of("directory")}
      /\ TreeOf(d).others = {q.path : q \in of("other")}
  BY TreeByPlaces
<1> HIDE DEF of
<1>4. d[inode].kind = "file" => [path |-> path, content |-> d[inode].content] \in TreeOf(d).files
  BY <1>1, <1>2, <1>3
<1>5. d[inode].kind = "directory" => path \in TreeOf(d).directories
  BY <1>1, <1>2, <1>3
<1>6. d[inode].kind = "other" => TreeOf(d).others # {}
  BY <1>1, <1>2, <1>3
<1> QED  BY <1>4, <1>5, <1>6

\* Each level is finite.
LEMMA LevelsAreFinite ==
  ASSUME NEW d, NEW e \in Nat, FileSystem(d, e), NEW i \in 0 .. Depth
  PROVE  IsFiniteSet(Levels(d)[i])
<1> DEFINE bad == {k \in Nat : k <= Depth /\ ~ IsFiniteSet(Levels(d)[k])}
<1>1. SUFFICES ASSUME bad # {} PROVE FALSE
  BY DepthIsNumber
<1>2. PICK m \in bad : \A k \in bad : m <= k
  BY <1>1, LeastNumber
<1>3. CASE m = 0
  <2>1. IsFiniteSet({RootPlace})
    BY FS_Singleton
  <2> QED  BY <1>2, <1>3, <2>1, LevelsClimb
<1>4. CASE m # 0
  <2>1. m - 1 \in 0 .. Depth /\ m - 1 \notin bad /\ m \in 1 .. Depth
    BY <1>2, <1>4, DepthIsNumber
  <2>2. IsFiniteSet(Levels(d)[m - 1])
    BY <2>1
  <2>3. PICK level \in [Inodes -> 0 .. Depth - 1] : IsLeveled(d, level)
    BY DEF FileSystem
  <2>4. ASSUME NEW place \in Levels(d)[m - 1]
        PROVE  IsFiniteSet(Below(d, place))
    <3>1. place.inode \in Inodes
      BY <2>1, <2>3, PlacesHaveLevels DEF IsPlaceOf
    <3>2. CASE d[place.inode].kind = "directory"
      <4> DEFINE names == DOMAIN d[place.inode].entries
                 to(n) == [path |-> Append(place.path, n), inode |-> d[place.inode].entries[n]]
      <4>1. names \subseteq Names
        BY <3>1, <3>2 DEF FileSystem, EntriesName
      <4>2. IsFiniteSet(names)
        BY <4>1, FiniteNames
      <4>3. Below(d, place) = {to(n) : n \in names}
        BY <3>2 DEF Below
      <4> HIDE DEF names
      <4>4. IsFiniteSet({to(n) : n \in names})
        <5> DEFINE T == {to(n) : n \in names}
                   h == [n \in names |-> to(n)]
        <5>1. h \in Surjection(names, T)
          BY DEF Surjection
        <5> HIDE DEF T, h
        <5>2. IsFiniteSet(T)
          BY <4>2, <5>1, FS_Surjection
        <5> QED  BY <5>2 DEF T
      <4> QED  BY <4>3, <4>4
    <3>3. CASE d[place.inode].kind # "directory"
      BY <3>3, FS_EmptySet DEF Below
    <3> QED  BY <3>2, <3>3
  <2> DEFINE L == Levels(d)[m - 1]
             sets == {Below(d, place) : place \in L}
             h == [place \in L |-> Below(d, place)]
  <2>5. h \in Surjection(L, sets)
    BY DEF Surjection
  <2>6. \A set \in sets : IsFiniteSet(set)
    BY <2>4
  <2>7. Levels(d)[m] = UNION sets
    BY <2>1, LevelsClimb
  <2> HIDE DEF h, sets, L
  <2>8. IsFiniteSet(sets)
    BY <2>2, <2>5, FS_Surjection DEF L
  <2>9. IsFiniteSet(UNION sets)
    BY <2>6, <2>8, FS_UNION
  <2> QED  BY <1>2, <2>7, <2>9
<1> QED  BY <1>3, <1>4

\* A file has a content.
LEMMA FileContent ==
  ASSUME NEW object, NEW e, IsObject(object, e), object.kind = "file"
  PROVE  object.content \in DOMAIN Size
<1>1. object # Free
  BY DEF Free
<1>2. PICK stamp \in 0 .. e :
        \/ object = OtherObject(stamp)
        \/ \E content \in DOMAIN Size : object = FileObject(content, stamp)
        \/ object.kind = "directory" /\ object = DirectoryObject(object.entries, stamp)
  BY <1>1 DEF IsObject
<1>3. object # OtherObject(stamp)
  BY DEF OtherObject
<1>4. PICK content \in DOMAIN Size : object = FileObject(content, stamp)
  BY <1>2, <1>3
<1> QED  BY <1>4 DEF FileObject

\* So is the tree, and its files have contents.
LEMMA TreeIsFinite ==
  ASSUME NEW d, NEW e \in Nat, FileSystem(d, e)
  PROVE  /\ IsFiniteSet(TreeOf(d).files) /\ IsFiniteSet(TreeOf(d).directories)
         /\ \A f \in TreeOf(d).files : f.content \in DOMAIN Size
<1> DEFINE levels == {Levels(d)[k] : k \in 1 .. Depth}
           h == [k \in 1 .. Depth |-> Levels(d)[k]]
<1>1. h \in Surjection(1 .. Depth, levels)
  BY DEF Surjection
<1>2. IsFiniteSet(1 .. Depth) /\ \A k \in 1 .. Depth : IsFiniteSet(Levels(d)[k])
  BY DepthIsNumber, FS_Interval, LevelsAreFinite
<1>3. \A set \in levels : IsFiniteSet(set)
  BY <1>2
<1> HIDE DEF h, levels
<1>4. IsFiniteSet(levels)
  BY <1>1, <1>2, FS_Surjection
<1>5. IsFiniteSet(UNION levels)
  BY <1>3, <1>4, FS_UNION
<1>6. IsFiniteSet(Places(d))
  BY <1>5 DEF Places, levels
<1>7. ASSUME NEW S \in SUBSET Places(d), NEW op
      PROVE  IsFiniteSet({op[p] : p \in S})
  <2> DEFINE T == {op[p] : p \in S}
             g == [p \in S |-> op[p]]
  <2>1. g \in Surjection(S, T) /\ IsFiniteSet(S)
    BY <1>6, FS_Subset DEF Surjection
  <2> HIDE DEF T, g
  <2>2. IsFiniteSet(T)
    BY <2>1, FS_Surjection
  <2> QED  BY <2>2 DEF T
<1>8. IsFiniteSet(TreeOf(d).files)
  <2> DEFINE S == {p \in Places(d) : d[p.inode].kind = "file"}
             held(p) == [path |-> p.path, content |-> d[p.inode].content]
             op == [p \in S |-> held(p)]
  <2>1. {op[p] : p \in S} = TreeOf(d).files
    <3>1. TreeOf(d).files = {held(p) : p \in S}
      BY TreeByPlaces
    <3>2. \A p \in S : op[p] = held(p)
      OBVIOUS
    <3> HIDE DEF S, op, held
    <3> QED  BY <3>1, <3>2
  <2>2. S \in SUBSET Places(d)
    OBVIOUS
  <2> HIDE DEF op, S
  <2> QED  BY <1>7, <2>1, <2>2
<1>9. IsFiniteSet(TreeOf(d).directories)
  <2> DEFINE S == {p \in Places(d) : d[p.inode].kind = "directory"}
             op == [p \in S |-> p.path]
  <2>1. {op[p] : p \in S} = TreeOf(d).directories
    <3>1. TreeOf(d).directories = {p.path : p \in S}
      BY TreeByPlaces
    <3>2. \A p \in S : op[p] = p.path
      OBVIOUS
    <3> HIDE DEF S, op
    <3> QED  BY <3>1, <3>2
  <2>2. S \in SUBSET Places(d)
    OBVIOUS
  <2> HIDE DEF op, S
  <2> QED  BY <1>7, <2>1, <2>2
<1>10. ASSUME NEW f \in TreeOf(d).files
       PROVE  f.content \in DOMAIN Size
  <2>1. PICK p \in Places(d) : d[p.inode].kind = "file" /\ f = [path |-> p.path, content |-> d[p.inode].content]
    BY TreeByPlaces
  <2>2. PICK k \in 1 .. Depth : p \in Levels(d)[k]
    BY <2>1 DEF Places
  <2>3. PICK level \in [Inodes -> 0 .. Depth - 1] : IsLeveled(d, level)
    BY DEF FileSystem
  <2>4. k \in 0 .. Depth
    BY <2>2, DepthIsNumber
  <2>5. p.inode \in Inodes
    BY <2>2, <2>3, <2>4, PlacesHaveLevels DEF IsPlaceOf
  <2>6. IsObject(d[p.inode], e)
    BY <2>5 DEF FileSystem
  <2> DEFINE o == d[p.inode]
  <2>7. o.content \in DOMAIN Size
    <3>1. o.kind = "file" /\ IsObject(o, e)
      BY <2>1, <2>6
    <3> HIDE DEF o
    <3> QED  BY <3>1, FileContent
  <2> QED  BY <2>1, <2>7
<1> QED  BY <1>8, <1>9, <1>10

\* A marker in the tree is an entry of the root.
LEMMA MarkerOfTree ==
  ASSUME NEW d, NEW e \in Nat, FileSystem(d, e), NEW f \in TreeOf(d).files, f.path = <<Marker>>
  PROVE  Marker \in DOMAIN d[Root].entries
<1>1. PICK p \in Places(d) : f.path = p.path
  BY TreeByPlaces
<1>2. PICK k \in 1 .. Depth : p \in Levels(d)[k]
  BY DEF Places
<1>3. PICK level \in [Inodes -> 0 .. Depth - 1] : IsLeveled(d, level)
  BY DEF FileSystem
<1>4. k \in 0 .. Depth
  BY <1>2, DepthIsNumber
<1>5. Len(p.path) = k
  BY <1>2, <1>3, <1>4, PlacesHaveLevels DEF IsPlaceOf
<1>6. k = 1 /\ p.path = <<Marker>>
  <2>1. Len(<<Marker>>) = 1
    OBVIOUS
  <2> QED  BY <1>1, <1>5, <2>1
<1>7. p \in Below(d, RootPlace)
  <2>1. Levels(d)[1] = UNION {Below(d, place) : place \in Levels(d)[0]}
    BY <1>2, <1>6, LevelsClimb
  <2> QED  BY <1>2, <1>6, <2>1, LevelsClimb
<1>8. PICK n \in DOMAIN d[Root].entries : p.path = Append(<<>>, n)
  BY <1>7 DEF Below, RootPlace
<1>9. Append(<<>>, n) = <<n>>
  OBVIOUS
<1> QED  BY <1>6, <1>8, <1>9

\* The files a tree has besides the marker.
FilesBeside(r, d) == TreeOf(d).files \ Kept(r, TreeOf(d))

\* What readable means.
LEMMA ReadableMeans ==
  ASSUME NEW r, NEW d
  PROVE  Readable(TreeOf(d), r.request) <=>
           /\ TreeOf(d).others = {}
           /\ r.request.marker = "required" => Kept(r, TreeOf(d)) # {}
           /\ \A f \in Kept(r, TreeOf(d)) : Size[f.content] <= r.request.manifest
           /\ Manages(r) => <<Marker>> \notin TreeOf(d).directories
           /\ \A p \in TreeOf(d).directories : ValidPath(p)
           /\ ContentSetError(FilesBeside(r, d)) = "none"
           /\ Cardinality(FilesBeside(r, d)) <= r.request.files
           /\ Cardinality(TreeOf(d).directories) <= r.request.directories
           /\ \A f \in FilesBeside(r, d) : Size[f.content] <= r.request.bytes
           /\ SumFunction(SizesOf(FilesBeside(r, d))) <= r.request.total
BY DEF Readable, Kept, Manages, FilesBeside, SizesOf

\* No invalid path is in a content set.
LEMMA PathsAreValid ==
  ASSUME NEW files, ContentSetError(files) = "none"
  PROVE  \A f \in files : ValidPath(f.path)
BY DEF ContentSetError
-----------------------------------------------------------------------------
(* What was counted is in the tree.                                          *)

\* Everything the searching reader knows of d stands in it and is within limits.
Certain(r, d, e) ==
  /\ e \in Nat /\ FileSystem(d, e) /\ d[Root].kind = "directory" /\ r.request \in Requests
  /\ ReaderOK(r, e) /\ Knows(r, d, e) /\ Sound(r) /\ Undisturbed(r, d)

\* The entries of an opened directory are in the tree.
LEMMA EntriesInTree ==
  ASSUME NEW r, NEW d, NEW e, Certain(r, d, e), NEW g \in OpenFrames(r), NEW n \in DOMAIN d[g.inode].entries
  PROVE  LET path == Append(g.path, n)
             inode == d[g.inode].entries[n]
         IN  /\ g.path \in Seq(Names) /\ g.inode \in Inodes /\ n \in Names
             /\ inode \in Inodes /\ d[inode].kind \in {"file", "directory", "other"} /\ IsObject(d[inode], e)
             /\ path \in Seq(Names) /\ path # <<>> /\ IsPlaced(d, path, inode)
             /\ [path |-> path, inode |-> inode] \in Places(d)
<1>1. FrameOK(r, d, e, g) /\ IsPlaced(d, g.path, g.inode)
  BY DEF Certain, Knows, Undisturbed
<1>2. g.inode \in Inodes /\ d[g.inode].kind = "directory" /\ g.path \in Seq(Names)
  BY <1>1 DEF FrameOK, Seen
<1>3. e \in Nat /\ FileSystem(d, e)
  BY DEF Certain
<1> QED  BY <1>1, <1>2, <1>3, EntryIsPlaced

\* The files that were read are files of the tree.
LEMMA FilesInTree ==
  ASSUME NEW r, NEW d, NEW e, Certain(r, d, e)
  PROVE  /\ Sized(r.files) /\ PathsDiffer(r.files) /\ RecordsOf(r.files) \subseteq FilesBeside(r, d)
<1>1. Sized(r.files) /\ PathsDiffer(r.files)
  BY DEF Certain, ReaderOK, ListsOK, Sound, Within, FileFits, Sized, Apart
<1>2. ASSUME NEW f \in ToSet(r.files)
      PROVE  RecordOf(f) \in FilesBeside(r, d)
  <2>1. FileOK(r, d, e, f) /\ Stands(d, f)
    BY DEF Certain, Knows, Undisturbed
  <2>2. PICK g \in OpenFrames(r) : EntryOf(d, g, f.path, f.inode)
    BY <2>1 DEF FileOK, Linked
  <2>3. Stands(d, g)
    BY DEF Certain, Undisturbed
  <2>4. PICK n \in Names : /\ f.path = Append(g.path, n)
                           /\ n \in DOMAIN d[g.inode].entries /\ d[g.inode].entries[n] = f.inode
    BY <2>2, <2>3 DEF EntryOf
  <2>5. [path |-> f.path, inode |-> f.inode] \in Places(d)
    BY <2>4, EntriesInTree
  <2>6. d[f.inode].kind = "file" /\ d[f.inode].content = f.content /\ ~ MarkerPath(r, f.path)
    BY <2>1 DEF FileOK, HoldsFile
  <2>7. RecordOf(f) \in TreeOf(d).files /\ RecordOf(f).path = f.path
    BY <2>5, <2>6, PlacesInTree DEF RecordOf
  <2> QED  BY <2>6, <2>7 DEF FilesBeside, Kept, MarkerPath
<1> QED  BY <1>1, <1>2 DEF RecordsOf

\* An opened directory below the root is a directory of the tree.
LEMMA DirectoriesInTree ==
  ASSUME NEW r, NEW d, NEW e, Certain(r, d, e)
  PROVE  /\ \A g \in OpenFrames(r) : g.path # <<>> => g.path \in TreeOf(d).directories
         /\ Rooted(r) => r.directories \subseteq TreeOf(d).directories
<1>1. ASSUME NEW g \in OpenFrames(r), g.path # <<>>
      PROVE  g.path \in TreeOf(d).directories
  <2>1. IsPlaced(d, g.path, g.inode) /\ d[g.inode].kind = "directory"
    BY DEF Certain, Knows, FrameOK, Undisturbed
  <2>2. Len(g.path) \in 1 .. Depth /\ [path |-> g.path, inode |-> g.inode] \in Levels(d)[Len(g.path)]
    BY <1>1, <2>1, DepthIsNumber DEF IsPlaced
  <2>3. [path |-> g.path, inode |-> g.inode] \in Places(d)
    BY <2>2 DEF Places
  <2> QED  BY <2>1, <2>3, PlacesInTree
<1> QED  BY <1>1 DEF Rooted

\* Paths that count: of directories and of files besides the marker.
PathsOf(r, d) == TreeOf(d).directories \cup {f.path : f \in FilesBeside(r, d)}

\* Where there are only files and directories, every entry counts but the marker.
LEMMA EntriesCount ==
  ASSUME NEW r, NEW d, NEW e, Certain(r, d, e), TreeOf(d).others = {},
         NEW g \in OpenFrames(r), NEW n \in DOMAIN d[g.inode].entries, Append(g.path, n) \notin Beside(r)
  PROVE  Append(g.path, n) \in PathsOf(r, d)
<1> DEFINE path == Append(g.path, n)
           inode == d[g.inode].entries[n]
<1>1. d[inode].kind \in {"file", "directory", "other"} /\ [path |-> path, inode |-> inode] \in Places(d)
  BY EntriesInTree
<1>2. ~ (Manages(r) /\ path = <<Marker>>)
  BY DEF Beside
<1> HIDE DEF path, inode
<1>3. d[inode].kind # "other"
  BY <1>1, PlacesInTree
<1>4. CASE d[inode].kind = "directory"
  BY <1>1, <1>4, PlacesInTree DEF PathsOf, path
<1>5. CASE d[inode].kind = "file"
  <2> DEFINE f == [path |-> path, content |-> d[inode].content]
  <2>1. f \in TreeOf(d).files /\ f.path = path
    BY <1>1, <1>5, PlacesInTree
  <2> HIDE DEF f
  <2>2. f \in FilesBeside(r, d)
    BY <1>2, <2>1 DEF FilesBeside, Kept
  <2> QED  BY <2>1, <2>2 DEF PathsOf, path
<1> QED  BY <1>1, <1>3, <1>4, <1>5

\* The files besides the marker are finitely many.
LEMMA FilesBesideFinite ==
  ASSUME NEW r, NEW d, NEW e \in Nat, FileSystem(d, e)
  PROVE  /\ IsFiniteSet(FilesBeside(r, d)) /\ Cardinality(FilesBeside(r, d)) \in Nat
         /\ \A f \in FilesBeside(r, d) : f.content \in DOMAIN Size
<1>1. IsFiniteSet(TreeOf(d).files) /\ \A f \in TreeOf(d).files : f.content \in DOMAIN Size
  BY TreeIsFinite
<1>2. FilesBeside(r, d) \in SUBSET TreeOf(d).files
  BY DEF FilesBeside
<1> QED  BY <1>1, <1>2, FS_Subset, FS_CardinalityType

\* A readable tree has no more paths than the request allows entries.
LEMMA PathsAreWithin ==
  ASSUME NEW r, NEW d, NEW e \in Nat, FileSystem(d, e), r.request \in Requests, Readable(TreeOf(d), r.request)
  PROVE  /\ IsFiniteSet(PathsOf(r, d)) /\ Cardinality(PathsOf(r, d)) \in Nat
         /\ Cardinality(PathsOf(r, d)) <= r.request.files + r.request.directories
<1> DEFINE F == FilesBeside(r, d)
           D == TreeOf(d).directories
           P == {f.path : f \in F}
           h == [f \in F |-> f.path]
<1>1. Cardinality(F) <= r.request.files /\ Cardinality(D) <= r.request.directories
  BY ReadableMeans
<1>2. IsFiniteSet(F) /\ Cardinality(F) \in Nat
  BY FilesBesideFinite
<1>3. IsFiniteSet(D) /\ Cardinality(D) \in Nat
  BY TreeIsFinite, FS_CardinalityType
<1>4. h \in Surjection(F, P)
  BY DEF Surjection
<1>5. PathsOf(r, d) = D \cup P
  BY DEF PathsOf
<1>6. r.request.files \in Nat /\ r.request.directories \in Nat
  BY LimitsArePositive
<1> HIDE DEF h, P, F, D
<1>7. IsFiniteSet(P) /\ Cardinality(P) <= Cardinality(F) /\ Cardinality(P) \in Nat
  BY <1>2, <1>4, FS_Surjection, FS_CardinalityType
<1>8. IsFiniteSet(D \cup P) /\ Cardinality(D \cup P) = Cardinality(D) + Cardinality(P) - Cardinality(D \cap P)
  BY <1>3, <1>7, FS_Union
<1>9. Cardinality(D \cap P) \in Nat /\ Cardinality(D \cup P) \in Nat
  BY <1>3, <1>8, FS_Intersection, FS_CardinalityType
<1> QED  BY <1>1, <1>2, <1>3, <1>5, <1>6, <1>7, <1>8, <1>9

\* The names that a directory adds to the count.
Uncounted(r, g) == IF g.path = <<>> /\ Manages(r) THEN {Marker} ELSE {}

\* They are counted once each, under their paths.
LEMMA NamesCounted ==
  ASSUME NEW r, NEW g, g.path \in Seq(Names), g.names \subseteq Names
  PROVE  /\ IsFiniteSet(Named(g)) /\ IsFiniteSet(Named(g) \ Beside(r))
         /\ Cardinality(Named(g) \ Beside(r)) = Cardinality(g.names \ Uncounted(r, g))
<1> DEFINE N == g.names \ Uncounted(r, g)
           h == [n \in g.names |-> Append(g.path, n)]
           k == [n \in N |-> Append(g.path, n)]
<1>1. IsFiniteSet(g.names) /\ IsFiniteSet(N)
  BY FiniteNames
<1>2. h \in Surjection(g.names, Named(g))
  BY DEF Surjection, Named
<1>3. \A n \in g.names : n \in N <=> Append(g.path, n) \notin Beside(r)
  <2> SUFFICES ASSUME NEW n \in g.names PROVE n \in N <=> Append(g.path, n) \notin Beside(r)
    OBVIOUS
  <2>1. n \in Names /\ Len(Append(g.path, n)) = Len(g.path) + 1 /\ Append(g.path, n)[Len(g.path) + 1] = n
    OBVIOUS
  <2>2. Append(g.path, n) = <<Marker>> <=> g.path = <<>> /\ n = Marker
    <3>1. ASSUME Append(g.path, n) = <<Marker>> PROVE g.path = <<>> /\ n = Marker
      <4>1. Len(g.path) = 0
        BY <2>1, <3>1
      <4> QED  BY <2>1, <3>1, <4>1
    <3>2. ASSUME g.path = <<>>, n = Marker PROVE Append(g.path, n) = <<Marker>>
      BY <3>2
    <3> QED  BY <3>1, <3>2
  <2> QED  BY <2>2 DEF Uncounted, Beside
<1>4. \A n, m \in g.names : Append(g.path, n) = Append(g.path, m) => n = m
  BY AppendedName
<1>5. Named(g) = {Append(g.path, n) : n \in g.names}
  BY DEF Named
<1>6. k \in Bijection(N, Named(g) \ Beside(r))
  <2>1. N \subseteq g.names
    OBVIOUS
  <2> HIDE DEF N
  <2>2. k \in Injection(N, Named(g) \ Beside(r))
    BY <1>3, <1>4, <1>5, <2>1 DEF Injection, IsInjective
  <2>3. k \in Surjection(N, Named(g) \ Beside(r))
    BY <1>3, <1>5, <2>1 DEF Surjection
  <2> QED  BY <2>2, <2>3 DEF Bijection
<1> HIDE DEF h, k, N
<1>7. IsFiniteSet(Named(g)) /\ IsFiniteSet(Named(g) \ Beside(r))
  BY <1>1, <1>2, FS_Surjection, FS_Difference
<1>8. ExistsBijection(N, Named(g) \ Beside(r))
  BY <1>6 DEF ExistsBijection
<1>9. Cardinality(Named(g) \ Beside(r)) = Cardinality(N)
  BY <1>1, <1>8, FS_Bijection
<1> QED  BY <1>7, <1>9 DEF N

\* Directories under different paths name different paths.
LEMMA NamesApart ==
  ASSUME NEW g, NEW h, g.path \in Seq(Names), h.path \in Seq(Names), g.names \subseteq Names, h.names \subseteq Names,
         g.path # h.path
  PROVE  Named(g) \cap Named(h) = {}
<1> SUFFICES ASSUME NEW x \in Named(g), x \in Named(h) PROVE FALSE
  OBVIOUS
<1>1. PICK n \in g.names : x = Append(g.path, n)
  BY DEF Named
<1>2. PICK m \in h.names : x = Append(h.path, m)
  BY DEF Named
<1>3. n \in Names /\ m \in Names /\ Append(g.path, n) = Append(h.path, m)
  BY <1>1, <1>2
<1> QED  BY <1>3, AppendedPath

\* A list has finitely many elements.
LEMMA ListsAreFinite ==
  ASSUME NEW s, IsList(s)
  PROVE  IsFiniteSet(ToSet(s))
<1>1. s \in Seq(ToSet(s)) /\ Len(s) \in Nat /\ DOMAIN s = 1 .. Len(s)
  BY DEF IsList
<1>2. s \in Surjection(1 .. Len(s), ToSet(s))
  BY <1>1 DEF Surjection, ToSet
<1>3. IsFiniteSet(1 .. Len(s))
  BY <1>1, FS_Interval
<1> QED  BY <1>2, <1>3, FS_Surjection

\* What was counted is finite.
LEMMA CountIsFinite ==
  ASSUME NEW r, NEW d, NEW e, Certain(r, d, e)
  PROVE  IsFiniteSet(Counted(r)) /\ Cardinality(Counted(r)) \in Nat
<1> DEFINE F == Frames(r)
           sets == {Named(g) : g \in F}
           h == [g \in F |-> Named(g)]
<1>1. IsFiniteSet(F)
  <2>1. IsFiniteSet(ToSet(r.stack)) /\ IsFiniteSet(ToSet(r.retained))
    BY ListsAreFinite DEF Certain, ReaderOK, ListsOK
  <2> QED  BY <2>1, FS_Union DEF Frames
<1>2. h \in Surjection(F, sets)
  BY DEF Surjection
<1>3. \A g \in F : IsFiniteSet(Named(g))
  <2> SUFFICES ASSUME NEW g \in F PROVE IsFiniteSet(Named(g))
    OBVIOUS
  <2>1. g.names \subseteq Names /\ g \in OpenFrames(r)
    BY DEF Certain, Sound, Listed, OpenFrames
  <2>2. g.path \in Seq(Names)
    BY <2>1 DEF Certain, Knows, FrameOK
  <2> QED  BY <2>1, <2>2, NamesCounted
<1>4. \A set \in sets : IsFiniteSet(set)
  BY <1>3
<1>5. Counted(r) = (UNION sets) \ Beside(r)
  BY DEF Counted
<1> HIDE DEF sets, h, F
<1>6. IsFiniteSet(UNION sets)
  <2>1. IsFiniteSet(sets)
    BY <1>1, <1>2, FS_Surjection
  <2> QED  BY <1>4, <2>1, FS_UNION
<1> QED  BY <1>5, <1>6, FS_Difference, FS_CardinalityType
-----------------------------------------------------------------------------
(* The lists of an undisturbed read, step by step.                           *)

\* A directory is in the lists once.
LEMMA FramesDiffer ==
  ASSUME NEW r, ListsOK(r), Apart(r)
  PROVE  \A g, h \in Frames(r) : g.path = h.path => g = h
<1>1. \A g \in ToSet(r.stack) : \E i \in 1 .. Len(r.stack) : g = r.stack[i]
  <2>1. r.stack \in Seq(ToSet(r.stack))
    BY DEF ListsOK, IsList
  <2>2. DOMAIN r.stack = 1 .. Len(r.stack)
    BY <2>1
  <2> QED  BY <2>2 DEF ToSet
<1>2. \A g, h \in ToSet(r.stack) : g.path = h.path => g = h
  BY <1>1 DEF Apart, PathsDiffer
<1>3. \A g, h \in ToSet(r.retained) : g.path = h.path => g = h
  BY DEF Apart
<1>4. \A g \in ToSet(r.stack), h \in ToSet(r.retained) : g.path # h.path
  BY DEF Apart
<1> QED  BY <1>2, <1>3, <1>4 DEF Frames

\* Two frames are alike, but for names that the second is done with.
Advanced(g, h) == SameFrame(g, h) /\ h.names = g.names /\ h.left \subseteq g.left

\* What the lists of q have of those of r.
Advances(r, q) ==
  /\ \A h \in Frames(q) : \E g \in Frames(r) : Advanced(g, h)
  /\ \A g \in Frames(r) : \E h \in Frames(q) : Advanced(g, h)

\* What was done with and counted is.
LEMMA AdvancesKeeps ==
  ASSUME NEW r, NEW q, Advances(r, q), q.request = r.request
  PROVE  /\ \A path : DoneWith(r, path) => DoneWith(q, path)
         /\ \A path : Told(r, path) => Told(q, path)
         /\ Counted(q) = Counted(r)
<1>1. ASSUME NEW path, DoneWith(r, path) PROVE DoneWith(q, path)
  <2>1. PICK g \in Frames(r) : \E n \in g.names \ g.left : path = Append(g.path, n)
    BY <1>1 DEF DoneWith
  <2>2. PICK h \in Frames(q) : Advanced(g, h)
    BY DEF Advances
  <2>3. h.path = g.path /\ g.names \ g.left \subseteq h.names \ h.left
    BY <2>2 DEF Advanced, SameFrame
  <2> QED  BY <2>1, <2>3 DEF DoneWith
<1>2. \A g, h : Advanced(g, h) => Named(g) = Named(h)
  BY DEF Advanced, SameFrame, Named
<1>3. {Named(g) : g \in Frames(r)} = {Named(h) : h \in Frames(q)}
  BY <1>2 DEF Advances
<1>4. Beside(q) = Beside(r)
  BY DEF Beside, Manages
<1> QED  BY <1>1, <1>3, <1>4 DEF Told, Counted

\* The next path was not told yet.
LEMMA NextIsNew ==
  ASSUME NEW r, NEW d, NEW e, Certain(r, d, e), r.at # "enumerate", r.stack # <<>>, NEW n \in Last(r.stack).left
  PROVE  LET path == Append(Last(r.stack).path, n)
         IN  /\ path # <<>> /\ n \in Names /\ Last(r.stack) \in Frames(r)
             /\ \A g \in OpenFrames(r) : g.path # path
             /\ \A f \in ToSet(r.files) : f.path # path
<1> DEFINE top == Last(r.stack)
           path == Append(top.path, n)
<1>1. ListsOK(r) /\ Knows(r, d, e) /\ Apart(r) /\ Listed(r)
  BY DEF Certain, ReaderOK, Sound
<1>2. top \in OpenFrames(r) /\ top.path \in Seq(Names)
  BY <1>1, TopKnown
<1>3. OpenFrames(r) = Frames(r)
  BY DEF OpenFrames
<1> HIDE DEF top
<1>4. n \in top.left /\ top.left \subseteq top.names /\ top.names \subseteq Names
  BY <1>1, <1>2, <1>3 DEF Listed, top
<1>5. path \in Seq(Names) /\ path # <<>>
  BY <1>2, <1>4
<1>6. ~ DoneWith(r, path)
  <2> SUFFICES ASSUME DoneWith(r, path) PROVE FALSE
    OBVIOUS
  <2>1. PICK g \in Frames(r) : \E m \in g.names \ g.left : path = Append(g.path, m)
    BY DEF DoneWith
  <2>2. PICK m \in g.names \ g.left : path = Append(g.path, m)
    BY <2>1
  <2>3. g.path \in Seq(Names) /\ m \in Names
    BY <1>1, <1>3 DEF Knows, FrameOK, Listed
  <2>4. g.path = top.path /\ m = n
    BY <1>2, <1>4, <2>2, <2>3, AppendedPath
  <2>5. g = top
    BY <1>1, <1>2, <1>3, <2>4, FramesDiffer
  <2> QED  BY <1>4, <2>2, <2>4, <2>5
<1>7. ~ Told(r, path)
  BY <1>5, <1>6 DEF Told
<1>8. /\ \A g \in OpenFrames(r) : Told(r, g.path)
      /\ \A f \in ToSet(r.files) : Told(r, f.path)
  BY <1>1 DEF Listed
<1> HIDE DEF path
<1>9. \A g \in OpenFrames(r) : g.path # path
  BY <1>7, <1>8
<1>10. \A f \in ToSet(r.files) : f.path # path
  BY <1>7, <1>8
<1> QED  BY <1>2, <1>3, <1>4, <1>5, <1>9, <1>10 DEF path, top

\* A name that is skipped is done with.
LEMMA SkippedAdvances ==
  ASSUME NEW r, NEW q, NEW d, NEW e, NEW name, Certain(r, d, e), Skipped(r, q, name), name \in Last(r.stack).left
  PROVE  /\ Advances(r, q)
         /\ DoneWith(q, Append(Last(r.stack).path, name))
         /\ PathsDiffer(q.stack)
         /\ \A g \in ToSet(q.stack), h \in ToSet(q.retained) : g.path # h.path
         /\ \A g, h \in ToSet(q.retained) : g.path = h.path => g = h
         /\ \A g \in Frames(q) : g.left \subseteq g.names /\ g.names \subseteq Names
<1> DEFINE top == Last(r.stack)
           new == Last(q.stack)
<1>1. ListsOK(r) /\ Apart(r) /\ Listed(r)
  BY DEF Certain, ReaderOK, Sound
<1>2. /\ SameFrame(top, new) /\ new.names = top.names /\ new.left = top.left \ {name}
      /\ top \in ToSet(r.stack) /\ new \in ToSet(q.stack)
      /\ \A g \in ToSet(r.stack) : g = top \/ g \in ToSet(q.stack)
      /\ \A h \in ToSet(q.stack) : h = new \/ h \in ToSet(r.stack)
  BY <1>1, SkippedName
<1>3. q.retained = r.retained
  BY DEF Skipped
<1>4. \A g : Advanced(g, g)
  BY DEF Advanced, SameFrame
<1>5. Advanced(top, new)
  BY <1>2 DEF Advanced
<1>6. top \in Frames(r) /\ new \in Frames(q)
  BY <1>2 DEF Frames
<1>7. top.left \subseteq top.names /\ top.names \subseteq Names
  BY <1>1, <1>6 DEF Listed
<1>8. /\ r.stack # <<>> /\ DOMAIN r.stack = 1 .. Len(r.stack) /\ Len(r.stack) \in Nat \ {0}
      /\ q.stack = [r.stack EXCEPT ![Len(r.stack)] = [top EXCEPT !.left = top.left \ {name}]]
      /\ r.stack \in Seq(ToSet(r.stack)) /\ top = r.stack[Len(r.stack)]
  BY <1>1 DEF Skipped, ListsOK, IsList, Last
<1>9. DOMAIN q.stack = DOMAIN r.stack /\ Len(q.stack) = Len(r.stack)
  BY <1>8
<1>10. \A i \in 1 .. Len(r.stack) : q.stack[i].path = r.stack[i].path
  <2> SUFFICES ASSUME NEW i \in 1 .. Len(r.stack) PROVE q.stack[i].path = r.stack[i].path
    OBVIOUS
  <2>1. CASE i = Len(r.stack)
    <3>1. q.stack[i] = [top EXCEPT !.left = top.left \ {name}]
      BY <1>8, <2>1
    <3>2. FrameFields \subseteq DOMAIN top
      BY <1>1, <1>2 DEF ListsOK
    <3> HIDE DEF top
    <3>3. q.stack[i].path = top.path
      BY <3>1, <3>2 DEF FrameFields
    <3> QED  BY <1>8, <2>1, <3>3 DEF top
  <2>2. CASE i # Len(r.stack)
    BY <1>8, <2>2
  <2> QED  BY <2>1, <2>2
<1> HIDE DEF top, new
<1>11. PathsDiffer(q.stack)
  BY <1>1, <1>9, <1>10 DEF Apart, PathsDiffer
<1>12. \A g \in ToSet(q.stack), h \in ToSet(q.retained) : g.path # h.path
  BY <1>1, <1>2, <1>3 DEF Apart, SameFrame
<1>13. Advances(r, q)
  <2>1. \A h \in Frames(q) : \E g \in Frames(r) : Advanced(g, h)
    <3> SUFFICES ASSUME NEW h \in Frames(q) PROVE \E g \in Frames(r) : Advanced(g, h)
      OBVIOUS
    <3>1. h = new \/ h \in Frames(r)
      BY <1>2, <1>3 DEF Frames
    <3> QED  BY <1>4, <1>5, <1>6, <3>1
  <2>2. \A g \in Frames(r) : \E h \in Frames(q) : Advanced(g, h)
    <3> SUFFICES ASSUME NEW g \in Frames(r) PROVE \E h \in Frames(q) : Advanced(g, h)
      OBVIOUS
    <3>1. g = top \/ g \in Frames(q)
      BY <1>2, <1>3 DEF Frames
    <3> QED  BY <1>4, <1>5, <1>6, <3>1
  <2> QED  BY <2>1, <2>2 DEF Advances
<1>14. DoneWith(q, Append(top.path, name))
  <2>1. name \in new.names \ new.left /\ new.path = top.path
    BY <1>2, <1>7 DEF SameFrame, top
  <2> QED  BY <1>6, <2>1 DEF DoneWith
<1>15. \A h \in Frames(q) : h.left \subseteq h.names /\ h.names \subseteq Names
  BY <1>1, <1>13 DEF Advances, Advanced, Listed
<1>16. \A g, h \in ToSet(q.retained) : g.path = h.path => g = h
  BY <1>1, <1>3 DEF Apart
<1> QED  BY <1>11, <1>12, <1>13, <1>14, <1>15, <1>16 DEF top

-----------------------------------------------------------------------------
(* What a look leaves of an undisturbed read.                                *)

\* Reader q has r's next path, and with it a file more or a directory to name.
AddsFile(r, q, d, path) ==
  \/ q.files = r.files
  \/ \E f : /\ q.files = Append(r.files, f) /\ f.path = path /\ FileFits(r, f) /\ Stands(d, f)
            /\ Len(r.files) < r.request.files /\ Bytes(r.files) + Size[f.content] <= r.request.total
AddsDirectory(r, q, d, path) ==
  \/ q.at = "entry" /\ q.directories = r.directories
  \/ /\ q.at = "enumerate" /\ q.frame.path = path /\ ValidPath(path) /\ ~ MarkerPath(r, path)
     /\ IsPlaced(d, path, q.frame.inode) /\ Stands(d, q.frame)
     /\ q.directories = r.directories \cup {path} /\ Cardinality(r.directories) < r.request.directories

\* Such a reader's lists are sound, and nothing disturbed them.
LEMMA SkipsSoundly ==
  ASSUME NEW r, NEW q, NEW d, NEW e, NEW name, Certain(r, d, e), Skipped(r, q, name), name \in Last(r.stack).left,
         r.at # "enumerate", r.at # "marker", Rooted(r),
         q.request = r.request, q.marker = r.marker, q.entries = r.entries,
         AddsFile(r, q, d, Append(Last(r.stack).path, name)),
         AddsDirectory(r, q, d, Append(Last(r.stack).path, name))
  PROVE  Sound(q) /\ Undisturbed(q, d)
<1> DEFINE path == Append(Last(r.stack).path, name)
<1>1. /\ Advances(r, q) /\ DoneWith(q, path) /\ PathsDiffer(q.stack)
      /\ \A g \in ToSet(q.stack), h \in ToSet(q.retained) : g.path # h.path
      /\ \A g, h \in ToSet(q.retained) : g.path = h.path => g = h
      /\ \A g \in Frames(q) : g.left \subseteq g.names /\ g.names \subseteq Names
  BY SkippedAdvances
<1>2. r.stack # <<>> /\ ReaderOK(r, e) /\ Knows(r, d, e) /\ Sound(r) /\ Undisturbed(r, d)
  BY DEF Certain, Skipped
<1>3. /\ path # <<>> /\ Last(r.stack) \in Frames(r)
      /\ \A g \in OpenFrames(r) : g.path # path
      /\ \A f \in ToSet(r.files) : f.path # path
  BY <1>2, NextIsNew
<1>4. /\ \A p : Told(r, p) => Told(q, p)
      /\ Counted(q) = Counted(r)
  BY <1>1, AdvancesKeeps
<1>5. OpenFrames(r) = Frames(r) /\ q.at \in {"entry", "enumerate"}
  BY DEF OpenFrames, AddsDirectory
<1>6. \A p : MarkerPath(q, p) = MarkerPath(r, p)
  BY DEF MarkerPath, Manages
<1>7. AddsFile(r, q, d, path) /\ AddsDirectory(r, q, d, path)
  OBVIOUS
<1> HIDE DEF path
<1>8. Sized(r.files) /\ IsList(r.files) /\ DOMAIN r.files = 1 .. Len(r.files) /\ Len(r.files) \in Nat
  BY FilesInTree, BytesOfList DEF Sized
<1>9. \A f \in ToSet(q.files) : f \in ToSet(r.files) \/ (f.path = path /\ FileFits(r, f) /\ Stands(d, f))
  <2>1. CASE q.files = r.files
    BY <2>1
  <2>2. CASE \E f : /\ q.files = Append(r.files, f) /\ f.path = path /\ FileFits(r, f) /\ Stands(d, f)
    BY <1>8, <2>2, AppendedElements
  <2> QED  BY <1>7, <2>1, <2>2 DEF AddsFile
<1>10. PathsDiffer(q.files)
  <2>1. PathsDiffer(r.files)
    BY <1>2 DEF Sound, Apart
  <2>2. CASE q.files = r.files
    BY <2>1, <2>2
  <2>3. ASSUME NEW f, q.files = Append(r.files, f), f.path = path
        PROVE  PathsDiffer(q.files)
    <3> DEFINE s == r.files
               t == q.files
               n == Len(s)
    <3>1. s \in Seq(ToSet(s)) /\ t = Append(s, f) /\ n \in Nat
      BY <1>8, <2>3 DEF IsList
    <3>2. \A i \in 1 .. n : s[i] \in ToSet(s)
      BY <3>1, ListElements
    <3>3. \A i \in 1 .. n : s[i].path # path
      BY <1>3, <3>2
    <3>4. PathsDiffer(s)
      BY <2>1
    <3> HIDE DEF s, t
    <3>5. Len(t) = n + 1 /\ t[n + 1] = f /\ \A i \in 1 .. n : t[i] = s[i]
      BY <3>1
    <3>6. \A i \in 1 .. n + 1 : i \in 1 .. n \/ i = n + 1
      BY <3>1
    <3>7. \A i \in 1 .. n : t[i].path # t[n + 1].path
      BY <2>3, <3>3, <3>5
    <3>8. \A i, j \in 1 .. n : t[i].path = t[j].path => i = j
      BY <3>4, <3>5 DEF PathsDiffer
    <3> HIDE DEF n
    <3>9. \A i, j \in 1 .. n + 1 : t[i].path = t[j].path => i = j
      BY <3>6, <3>7, <3>8
    <3> QED  BY <3>5, <3>9 DEF PathsDiffer, t
  <2> QED  BY <1>7, <2>2, <2>3 DEF AddsFile
<1>11. \A h \in OpenFrames(q) : h \in Frames(q) \/ (q.at = "enumerate" /\ h = q.frame)
  BY DEF OpenFrames
<1>12. \A h \in Frames(q) : \E g \in OpenFrames(r) : Advanced(g, h)
  BY <1>1, <1>5 DEF Advances
<1>13. Apart(q)
  <2>1. q.at = "enumerate" => \A h \in Frames(q) : h.path # q.frame.path
    BY <1>3, <1>7, <1>12 DEF AddsDirectory, Advanced, SameFrame
  <2> QED  BY <1>1, <1>10, <2>1 DEF Apart
<1>14. Listed(q)
  <2>1. Told(q, path)
    BY <1>1 DEF Told
  <2>2. \A f \in ToSet(q.files) : Told(q, f.path)
    BY <1>2, <1>4, <1>9, <2>1 DEF Sound, Listed
  <2>3. ASSUME NEW h \in OpenFrames(q)
        PROVE  Told(q, h.path) /\ ~ MarkerPath(q, h.path) /\ (h.path = <<>> \/ ValidPath(h.path))
    <3>1. CASE h \in Frames(q)
      BY <1>2, <1>4, <1>6, <1>12, <3>1 DEF Advanced, SameFrame, Sound, Listed
    <3>2. CASE q.at = "enumerate" /\ h = q.frame
      BY <1>6, <1>7, <2>1, <3>2 DEF AddsDirectory
    <3> QED  BY <1>11, <3>1, <3>2
  <2> QED  BY <1>1, <2>2, <2>3 DEF Listed
<1>15. Within(q)
  <2>1. q.entries = Cardinality(Counted(q))
    BY <1>2, <1>4 DEF Sound, Within
  <2>2. \A f \in ToSet(q.files) : FileFits(q, f)
    BY <1>2, <1>9 DEF Sound, Within, FileFits
  <2>3. Len(q.files) <= q.request.files /\ Bytes(q.files) <= q.request.total
    <3>1. CASE q.files = r.files
      BY <1>2, <3>1 DEF Sound, Within
    <3>2. ASSUME NEW f, q.files = Append(r.files, f), FileFits(r, f), Len(r.files) < r.request.files,
                 Bytes(r.files) + Size[f.content] <= r.request.total
          PROVE  Len(q.files) <= q.request.files /\ Bytes(q.files) <= q.request.total
      <4>1. Bytes(q.files) = Bytes(r.files) + Size[f.content]
        BY <1>8, <3>2, BytesAppended DEF FileFits
      <4>2. r.request.files \in Nat
        BY LimitsArePositive DEF Certain
      <4>3. Len(q.files) = Len(r.files) + 1
        <5>1. r.files \in Seq(ToSet(r.files))
          BY <1>8 DEF IsList
        <5> QED  BY <3>2, <5>1
      <4> QED  BY <1>8, <3>2, <4>1, <4>2, <4>3
    <3> QED  BY <1>7, <3>1, <3>2 DEF AddsFile
  <2>4. Cardinality(q.directories) <= q.request.directories
    <3>1. CASE q.directories = r.directories
      BY <1>2, <3>1 DEF Sound, Within
    <3>2. CASE q.directories = r.directories \cup {path} /\ Cardinality(r.directories) < r.request.directories
      <4>1. e \in Nat /\ FileSystem(d, e) /\ r.request \in Requests
        BY DEF Certain
      <4>2. IsFiniteSet(TreeOf(d).directories) /\ r.directories \in SUBSET TreeOf(d).directories
        BY <4>1, TreeIsFinite, DirectoriesInTree
      <4>3. IsFiniteSet(r.directories) /\ Cardinality(r.directories) \in Nat
        BY <4>2, FS_Subset, FS_CardinalityType
      <4>4. Cardinality(q.directories) \in {Cardinality(r.directories), Cardinality(r.directories) + 1}
        BY <3>2, <4>3, FS_AddElement
      <4>5. r.request.directories \in Nat
        BY <4>1, LimitsArePositive
      <4> QED  BY <3>2, <4>3, <4>4, <4>5
    <3> QED  BY <1>7, <3>1, <3>2 DEF AddsDirectory
  <2> QED  BY <1>2, <2>1, <2>2, <2>3, <2>4 DEF Sound, Within
<1>16. Undisturbed(q, d)
  <2>1. ASSUME NEW h \in OpenFrames(q)
        PROVE  Stands(d, h) /\ IsPlaced(d, h.path, h.inode)
    <3>1. CASE h \in Frames(q)
      BY <1>2, <1>12, <3>1 DEF Advanced, SameFrame, Undisturbed, Stands
    <3>2. CASE q.at = "enumerate" /\ h = q.frame
      BY <1>7, <3>2 DEF AddsDirectory
    <3> QED  BY <1>11, <3>1, <3>2
  <2>2. \A h \in Frames(q) : h.names = DOMAIN d[h.inode].entries
    BY <1>1, <1>2 DEF Advances, Advanced, SameFrame, Undisturbed
  <2>3. \A f \in ToSet(q.files) : Stands(d, f)
    BY <1>2, <1>9 DEF Undisturbed
  <2>4. ~ BeforeNames(r)
    BY <1>2 DEF Certain, BeforeNames
  <2>5. MarkerKnown(q, d)
    BY <1>2, <2>4 DEF Undisturbed, MarkerKnown, MarkerStandsIn, Manages
  <2>6. q.at \notin Expecting /\ ~ BeforeNames(q)
    BY <1>5 DEF Expecting, BeforeNames
  <2> QED  BY <2>1, <2>2, <2>3, <2>5, <2>6 DEF Undisturbed
<1> QED  BY <1>13, <1>14, <1>15, <1>16 DEF Sound

\* The directory being named is not among the others.
LEMMA NamesCountedAnew ==
  ASSUME NEW r, NEW d, NEW e, Certain(r, d, e), r.at = "enumerate", NEW new, new.path = r.frame.path,
         new.names = DOMAIN d[r.frame.inode].entries
  PROVE  LET all == Counted(r) \cup (Named(new) \ Beside(r))
         IN  /\ IsFiniteSet(all) /\ new.path \in Seq(Names) /\ new.names \subseteq Names
             /\ Cardinality(new.names \ Uncounted(r, new)) \in Nat
             /\ Cardinality(all) = r.entries + Cardinality(new.names \ Uncounted(r, new))
             /\ TreeOf(d).others = {} => all \subseteq PathsOf(r, d)
<1> DEFINE A == Counted(r)
           B == Named(new) \ Beside(r)
<1>1. /\ ReaderOK(r, e) /\ Knows(r, d, e) /\ Sound(r) /\ Undisturbed(r, d) /\ r.frame \in OpenFrames(r)
      /\ Frames(r) \subseteq OpenFrames(r)
  BY DEF Certain, OpenFrames
<1>2. /\ new.path \in Seq(Names) /\ r.frame.inode \in Inodes /\ d[r.frame.inode].kind = "directory"
  BY <1>1 DEF Knows, FrameOK, Seen
<1>3. new.names \subseteq Names
  BY <1>2 DEF Certain, FileSystem, EntriesName
<1>4. IsFiniteSet(B) /\ Cardinality(B) = Cardinality(new.names \ Uncounted(r, new)) /\ Cardinality(B) \in Nat
  BY <1>2, <1>3, NamesCounted, FS_CardinalityType
<1>5. IsFiniteSet(A) /\ Cardinality(A) \in Nat /\ Cardinality(A) = r.entries
  BY <1>1, CountIsFinite DEF Sound, Within
<1>6. A \cap B = {}
  <2>1. \A g \in Frames(r) : g.path # new.path /\ g.path \in Seq(Names) /\ g.names \subseteq Names
    BY <1>1 DEF Sound, Apart, Listed, Knows, FrameOK
  <2>2. \A g \in Frames(r) : Named(g) \cap Named(new) = {}
    BY <1>2, <1>3, <2>1, NamesApart
  <2> QED  BY <2>2 DEF Counted
<1>7. TreeOf(d).others = {} => A \cup B \subseteq PathsOf(r, d)
  <2> SUFFICES ASSUME TreeOf(d).others = {}, NEW x \in A \cup B PROVE x \in PathsOf(r, d)
    OBVIOUS
  <2>1. x \notin Beside(r)
    BY DEF Counted
  <2>2. CASE x \in A
    <3>1. PICK g \in Frames(r) : x \in Named(g)
      BY <2>2 DEF Counted
    <3>2. PICK n \in g.names : x = Append(g.path, n)
      BY <3>1 DEF Named
    <3>3. n \in DOMAIN d[g.inode].entries
      BY <1>1, <3>2 DEF Undisturbed
    <3> QED  BY <1>1, <2>1, <3>2, <3>3, EntriesCount
  <2>3. CASE x \in B
    <3>1. PICK n \in new.names : x = Append(r.frame.path, n)
      BY <2>3 DEF Named
    <3> QED  BY <1>1, <2>1, <3>1, EntriesCount
  <2> QED  BY <2>2, <2>3
<1> HIDE DEF A, B
<1>8. IsFiniteSet(A \cup B) /\ Cardinality(A \cup B) = Cardinality(A) + Cardinality(B)
  <2>1. IsFiniteSet(A \cup B) /\ Cardinality(A \cup B) = Cardinality(A) + Cardinality(B) - Cardinality(A \cap B)
    BY <1>4, <1>5, FS_Union
  <2>2. Cardinality(A \cap B) = 0
    BY <1>6, FS_EmptySet
  <2> QED  BY <1>4, <1>5, <2>1, <2>2
<1> QED  BY <1>2, <1>3, <1>4, <1>5, <1>7, <1>8 DEF A, B

\* Too many entries are the tree's fault.
LEMMA TooManyEntries ==
  ASSUME NEW r, NEW d, NEW e, Certain(r, d, e), r.at = "enumerate", NEW new, new.path = r.frame.path,
         new.names = DOMAIN d[r.frame.inode].entries,
         r.entries + Cardinality(new.names \ Uncounted(r, new)) > r.request.files + r.request.directories
  PROVE  ~ Readable(TreeOf(d), r.request)
<1> SUFFICES ASSUME Readable(TreeOf(d), r.request) PROVE FALSE
  OBVIOUS
<1> DEFINE all == Counted(r) \cup (Named(new) \ Beside(r))
<1>1. e \in Nat /\ FileSystem(d, e) /\ r.request \in Requests
  BY DEF Certain
<1>2. TreeOf(d).others = {}
  BY ReadableMeans
<1>3. /\ IsFiniteSet(all) /\ all \subseteq PathsOf(r, d)
      /\ Cardinality(all) = r.entries + Cardinality(new.names \ Uncounted(r, new))
  BY <1>2, NamesCountedAnew
<1>4. /\ IsFiniteSet(PathsOf(r, d)) /\ Cardinality(PathsOf(r, d)) \in Nat
      /\ Cardinality(PathsOf(r, d)) <= r.request.files + r.request.directories
  BY <1>1, PathsAreWithin
<1> HIDE DEF all
<1>5. Cardinality(all) <= Cardinality(PathsOf(r, d)) /\ Cardinality(all) \in Nat
  BY <1>3, <1>4, FS_Subset, FS_CardinalityType
<1>6. r.request.files \in Nat /\ r.request.directories \in Nat
  BY <1>1, LimitsArePositive
<1> QED  BY <1>3, <1>4, <1>5, <1>6

\* The names of a directory are listed.
LEMMA EnumeratesSoundly ==
  ASSUME NEW r, NEW q, NEW d, NEW e, Certain(r, d, e), r.at = "enumerate", q.at = "entry", NEW new,
         new.path = r.frame.path, new.inode = r.frame.inode, new.stamp = r.frame.stamp,
         new.names = DOMAIN d[r.frame.inode].entries, new.left = new.names,
         q.stack = Append(r.stack, new), q.retained = r.retained, q.files = r.files,
         q.directories = r.directories, q.marker = r.marker, q.request = r.request,
         q.entries = r.entries + Cardinality(new.names \ Uncounted(r, new))
  PROVE  Sound(q) /\ Undisturbed(q, d)
<1>1. /\ ReaderOK(r, e) /\ ListsOK(r) /\ Knows(r, d, e) /\ Sound(r) /\ Undisturbed(r, d)
      /\ Apart(r) /\ Listed(r) /\ Within(r)
  BY DEF Certain, ReaderOK, Sound
<1>2. ToSet(q.stack) = ToSet(r.stack) \cup {new} /\ IsList(r.stack)
  BY <1>1, AppendedElements DEF ListsOK
<1>3. Frames(q) = Frames(r) \cup {new} /\ OpenFrames(q) = Frames(q) /\ OpenFrames(r) = Frames(r) \cup {r.frame}
  BY <1>2 DEF Frames, OpenFrames
<1>4. /\ IsFiniteSet(Counted(r) \cup (Named(new) \ Beside(r))) /\ new.path \in Seq(Names) /\ new.names \subseteq Names
      /\ Cardinality(Counted(r) \cup (Named(new) \ Beside(r)))
           = r.entries + Cardinality(new.names \ Uncounted(r, new))
  BY NamesCountedAnew
<1>5. SameFrame(r.frame, new) /\ \A p : MarkerPath(q, p) = MarkerPath(r, p)
  BY DEF SameFrame, MarkerPath, Manages
<1>6. \A g \in Frames(r) : g.path # new.path
  BY <1>1 DEF Apart
<1>7. \A p : Told(r, p) => Told(q, p)
  BY <1>3 DEF Told, DoneWith
<1>8. Apart(q)
  <2>1. PathsDiffer(q.stack)
    <3> DEFINE s == r.stack
               t == q.stack
               n == Len(s)
    <3>1. s \in Seq(ToSet(s)) /\ t = Append(s, new) /\ n \in Nat
      BY <1>2 DEF IsList
    <3>2. \A i \in 1 .. n : s[i] \in ToSet(s)
      BY <3>1, ListElements
    <3>3. \A i \in 1 .. n : s[i].path # new.path
      BY <1>6, <3>2 DEF Frames
    <3>4. PathsDiffer(s)
      BY <1>1 DEF Apart
    <3> HIDE DEF s, t
    <3>5. Len(t) = n + 1 /\ t[n + 1] = new /\ \A i \in 1 .. n : t[i] = s[i]
      BY <3>1
    <3>6. \A i \in 1 .. n + 1 : i \in 1 .. n \/ i = n + 1
      BY <3>1
    <3>7. \A i \in 1 .. n : t[i].path # t[n + 1].path
      BY <3>3, <3>5
    <3>8. \A i, j \in 1 .. n : t[i].path = t[j].path => i = j
      BY <3>4, <3>5 DEF PathsDiffer
    <3> HIDE DEF n
    <3>9. \A i, j \in 1 .. n + 1 : t[i].path = t[j].path => i = j
      BY <3>6, <3>7, <3>8
    <3> QED  BY <3>5, <3>9 DEF PathsDiffer, t
  <2>2. \A g \in ToSet(q.stack), h \in ToSet(q.retained) : g.path # h.path
    BY <1>1, <1>2, <1>6 DEF Apart, Frames
  <2> QED  BY <1>1, <2>1, <2>2 DEF Apart
<1>9. Listed(q)
  <2>1. \A g \in Frames(q) : g.left \subseteq g.names /\ g.names \subseteq Names
    BY <1>1, <1>3, <1>4 DEF Listed
  <2>2. \A g \in OpenFrames(q) : \E h \in OpenFrames(r) : h.path = g.path
    BY <1>3
  <2> QED  BY <1>1, <1>5, <1>7, <2>1, <2>2 DEF Listed
<1>10. Within(q)
  <2>1. Counted(q) = Counted(r) \cup (Named(new) \ Beside(r))
    BY <1>3 DEF Counted, Beside, Manages
  <2> QED  BY <1>1, <1>4, <2>1 DEF Within, FileFits
<1>11. Undisturbed(q, d)
  <2>1. \A g \in OpenFrames(q) : \E h \in OpenFrames(r) : SameFrame(h, g)
    BY <1>3, <1>5 DEF SameFrame
  <2>2. \A g \in OpenFrames(q) : Stands(d, g) /\ IsPlaced(d, g.path, g.inode)
    BY <1>1, <2>1 DEF Undisturbed, SameFrame, Stands
  <2>3. \A g \in Frames(q) : g.names = DOMAIN d[g.inode].entries
    BY <1>1, <1>3 DEF Undisturbed
  <2>4. MarkerKnown(r, d)
    BY <1>1 DEF Undisturbed, BeforeNames
  <2>5. MarkerKnown(q, d)
    BY <2>4 DEF MarkerKnown, MarkerStandsIn, Manages
  <2> QED  BY <1>1, <2>2, <2>3, <2>5 DEF Undisturbed, Expecting, BeforeNames
<1> QED  BY <1>8, <1>9, <1>10, <1>11 DEF Sound

\* A directory that is finished stays listed.
LEMMA FinishesSoundly ==
  ASSUME NEW r, NEW q, NEW d, NEW e, Certain(r, d, e), r.at = "entry", q.at = "entry", r.stack # <<>>,
         q.stack = Front(r.stack), q.retained = Append(r.retained, Last(r.stack)), q.files = r.files,
         q.directories = r.directories, q.marker = r.marker, q.request = r.request, q.entries = r.entries
  PROVE  Sound(q) /\ Undisturbed(q, d)
<1> DEFINE top == Last(r.stack)
<1>1. /\ ReaderOK(r, e) /\ ListsOK(r) /\ Knows(r, d, e) /\ Sound(r) /\ Undisturbed(r, d)
      /\ Apart(r) /\ Listed(r) /\ Within(r)
  BY DEF Certain, ReaderOK, Sound
<1>2. r.stack \in Seq(ToSet(r.stack)) /\ IsList(r.retained)
  BY <1>1 DEF ListsOK, IsList
<1>3. ToSet(r.stack) = ToSet(q.stack) \cup {top} /\ ToSet(q.retained) = ToSet(r.retained) \cup {top}
  BY <1>2, LastElement, AppendedElements
<1>4. /\ Len(r.stack) \in Nat \ {0} /\ Len(q.stack) = Len(r.stack) - 1 /\ top = r.stack[Len(r.stack)]
      /\ \A i \in 1 .. Len(r.stack) - 1 : q.stack[i] = r.stack[i] /\ i \in 1 .. Len(r.stack) /\ i # Len(r.stack)
      /\ q.stack \in Seq(ToSet(r.stack))
  BY <1>2, FrontElements DEF Last
<1> HIDE DEF top
<1>5. Frames(q) = Frames(r) /\ OpenFrames(q) = Frames(q) /\ OpenFrames(r) = Frames(r)
  BY <1>3 DEF Frames, OpenFrames
<1>6. PathsDiffer(q.stack) /\ \A g \in ToSet(q.stack) : g.path # top.path
  <2>1. \A g \in ToSet(q.stack) : \E i \in 1 .. Len(q.stack) : g = q.stack[i]
    <3>1. DOMAIN q.stack = 1 .. Len(q.stack)
      BY <1>4
    <3> QED  BY <3>1 DEF ToSet
  <2>2. \A i \in 1 .. Len(r.stack) - 1 : r.stack[i].path # r.stack[Len(r.stack)].path
    <3>1. Len(r.stack) \in 1 .. Len(r.stack)
      BY <1>4
    <3> QED  BY <1>1, <1>4, <3>1 DEF Apart, PathsDiffer
  <2> DEFINE n == Len(r.stack)
             s == r.stack
             t == q.stack
  <2>3. n \in Nat \ {0} /\ Len(t) = n - 1 /\ PathsDiffer(s) /\ n = Len(s)
    BY <1>1, <1>4 DEF Apart
  <2>4. \A i \in 1 .. n - 1 : t[i] = s[i] /\ i \in 1 .. n
    BY <1>4
  <2>5. \A g \in ToSet(t) : \E i \in 1 .. n - 1 : g = s[i]
    <3> SUFFICES ASSUME NEW g \in ToSet(t) PROVE \E i \in 1 .. n - 1 : g = s[i]
      OBVIOUS
    <3>1. PICK i \in 1 .. Len(t) : g = t[i]
      BY <2>1
    <3> HIDE DEF n, s, t
    <3>2. i \in 1 .. n - 1
      BY <2>3, <3>1
    <3> QED  BY <2>4, <3>1, <3>2
  <2>6. \A i \in 1 .. n - 1 : s[i].path # top.path
    BY <1>4, <2>2
  <2> HIDE DEF n, s, t
  <2>7. PathsDiffer(t)
    BY <2>3, <2>4 DEF PathsDiffer
  <2> QED  BY <2>5, <2>6, <2>7 DEF t
<1>7. Apart(q)
  <2>1. \A g \in ToSet(q.stack), h \in ToSet(q.retained) : g.path # h.path
    BY <1>1, <1>3, <1>6 DEF Apart
  <2>2. \A g, h \in ToSet(q.retained) : g.path = h.path => g = h
    <3>1. top \in ToSet(r.stack)
      BY <1>3
    <3>2. \A h \in ToSet(r.retained) : top.path # h.path
      BY <1>1, <3>1 DEF Apart
    <3> QED  BY <1>1, <1>3, <3>2 DEF Apart
  <2> QED  BY <1>1, <1>6, <2>1, <2>2 DEF Apart
<1>8. Listed(q)
  BY <1>1, <1>5 DEF Listed, Told, DoneWith, MarkerPath, Manages
<1>9. Within(q)
  BY <1>1, <1>5 DEF Within, FileFits, Counted, Beside, Manages
<1>10. Undisturbed(q, d)
  BY <1>1, <1>5 DEF Undisturbed, BeforeNames, Expecting, MarkerKnown, MarkerStandsIn, Manages
<1> QED  BY <1>7, <1>8, <1>9, <1>10 DEF Sound

\* A look that changes nothing of the lists.
LEMMA LooksSoundly ==
  ASSUME NEW r, NEW q, NEW d, NEW e, Certain(r, d, e), r.at # "enumerate", q.at # "enumerate",
         q.stack = r.stack, q.retained = r.retained, q.files = r.files, q.directories = r.directories,
         q.marker = r.marker, q.request = r.request, q.entries = r.entries,
         BeforeNames(r) <=> BeforeNames(q),
         BeforeNames(q) => q.frame = r.frame, q.at \in Expecting => PendingStands(q, d) /\ PendingFits(q)
  PROVE  Sound(q) /\ Undisturbed(q, d)
<1>1. Sound(r) /\ Undisturbed(r, d) /\ Apart(r) /\ Listed(r) /\ Within(r)
  BY DEF Certain, Sound
<1>2. Frames(q) = Frames(r) /\ OpenFrames(q) = Frames(q) /\ OpenFrames(r) = Frames(r)
  BY DEF Frames, OpenFrames
<1>3. Apart(q)
  BY <1>1, <1>2 DEF Apart
<1>4. Listed(q)
  BY <1>1, <1>2 DEF Listed, Told, DoneWith, MarkerPath, Manages
<1>5. Within(q)
  BY <1>1, <1>2 DEF Within, FileFits, Counted, Beside, Manages
<1>6. Undisturbed(q, d)
  BY <1>1, <1>2 DEF Undisturbed, MarkerKnown, MarkerStandsIn, Manages
<1> QED  BY <1>3, <1>4, <1>5, <1>6 DEF Sound
-----------------------------------------------------------------------------
(* The steps of a call that nothing disturbs.                                *)

\* While nothing was edited, what the searching reader knows is certain.
LEMMA NowCertain ==
  ASSUME Inv, ExactInv, edits = reader.began, reader.at \in Searching
  PROVE  /\ Certain(reader, disk, edits) /\ ListsOK(reader) /\ PhaseOK(reader, edits)
         /\ reader.at \in Expecting => PendingOK(reader, disk, edits)
<1>1. /\ edits \in Nat /\ FileSystem(disk, edits) /\ disk[Root].kind = "directory" /\ ReaderOK(reader, edits)
      /\ reader.at \in Reading => Knows(reader, disk, edits)
      /\ reader.at \in Expecting => PendingOK(reader, disk, edits)
  BY DEF Inv, Searching, IsDirectory
<1>2. reader.request \in Requests /\ Exact(reader, disk, edits)
  BY DEF ExactInv
<1>3. Knows(reader, disk, edits)
  <2>1. CASE reader.at = "marker"
    BY <1>1, <2>1, UntouchedKnows DEF ReaderOK, PhaseOK, BeforeNames, Beginning
  <2> QED  BY <1>1, <1>2, <2>1 DEF Exact, Searching, Running
<1> QED  BY <1>1, <1>2, <1>3 DEF Certain, Exact, ReaderOK

\* A step leaves the file system and the call's request alone.
LEMMA StepsExactly ==
  ASSUME Inv, ExactInv, NEW place, NEW found, Goes(place, found),
         "at" \notin DOMAIN found, "began" \notin DOMAIN found, "request" \notin DOMAIN found,
         edits = reader.began => Exact(reader', disk, edits)
  PROVE  ExactInv'
<1>1. WentOn(reader, reader', place, found) /\ UNCHANGED <<disk, edits, moments>>
  BY GoesFields
<1>2. "began" \in DOMAIN reader /\ "request" \in DOMAIN reader
  BY DEF Inv, ReaderOK, ListsOK, Fields
<1> DEFINE q == reader'
<1> HIDE DEF q
<1>3. q.began = reader.began /\ q.request = reader.request
  BY <1>1, <1>2 DEF WentOn, q
<1> QED  BY <1>1, <1>3 DEF ExactInv, q

\* A call that fails for what the tree is.
LEMMA FailsExactly ==
  ASSUME Inv, ExactInv, reader.at \in Searching, NEW error, Fails(error),
         edits = reader.began => Blames(reader, disk, error)
  PROVE  ExactInv'
<1> DEFINE found == [error |-> error]
           q == reader'
<1>1. Goes("failing", found) /\ DOMAIN found = {"error"} /\ found["error"] = error
  BY DEF Fails
<1> HIDE DEF found, q
<1>2. WentOn(reader, q, "failing", found)
  BY <1>1, GoesFields DEF q
<1>3. Fields \subseteq DOMAIN reader
  BY DEF Inv, ReaderOK, ListsOK
<1>4. /\ q.at = "failing" /\ "error" \in DOMAIN q /\ q.error = error
      /\ q.marker = reader.marker /\ q.request = reader.request
  BY <1>1, <1>2, <1>3 DEF WentOn, Fields
<1>5. ASSUME edits = reader.began PROVE Exact(q, disk, edits)
  <2>1. Certain(reader, disk, edits) /\ PhaseOK(reader, edits)
    BY <1>5, NowCertain
  <2>2. MarkerStandsIn(reader, disk)
    <3>1. CASE BeforeNames(reader)
      BY <2>1, <3>1 DEF PhaseOK, Beginning, Untouched, MarkerStandsIn
    <3> QED  BY <2>1, <3>1 DEF Certain, Undisturbed, MarkerKnown
  <2>3. MarkerStandsIn(q, disk) /\ Blames(q, disk, q.error)
    BY <1>4, <1>5, <2>2 DEF MarkerStandsIn, Blames
  <2> QED  BY <1>4, <2>3 DEF Exact, Searching, Running, Reading, Validating
<1> QED  BY <1>1, <1>5, StepsExactly DEF q

\* A call that is refused for what the tree is.
LEMMA RefusesExactly ==
  ASSUME Inv, ExactInv, NEW error, Refuses(error),
         edits = reader.began =>
           error \in {"io", "root_not_directory"} \/ ~ Readable(TreeOf(disk), reader.request)
  PROVE  ExactInv'
<1> DEFINE result == [error |-> error]
           found == [result |-> result]
           q == reader'
<1>1. Goes("returned", found) /\ DOMAIN found = {"result"} /\ found["result"] = result
  BY DEF Refuses
<1>2. DOMAIN result = {"error"} /\ result.error = error
  OBVIOUS
<1> HIDE DEF found, q, result
<1>3. WentOn(reader, q, "returned", found)
  BY <1>1, GoesFields DEF q
<1>4. Fields \subseteq DOMAIN reader
  BY DEF Inv, ReaderOK, ListsOK
<1>5. q.at = "returned" /\ "result" \in DOMAIN q /\ q.result = result /\ q.request = reader.request
  BY <1>1, <1>3, <1>4 DEF WentOn, Fields
<1>6. ASSUME edits = reader.began PROVE Exact(q, disk, edits)
  <2>1. Answers(q, disk)
    BY <1>2, <1>5, <1>6 DEF Answers
  <2> QED  BY <1>5, <2>1 DEF Exact, Searching, Running, Reading, Validating
<1> QED  BY <1>1, <1>6, StepsExactly DEF q

\* A look that leaves all that was read standing.
LEMMA LooksExactly ==
  ASSUME Inv, ExactInv, NEW place \in Searching, NEW found, Goes(place, found),
         "at" \notin DOMAIN found, "began" \notin DOMAIN found, "request" \notin DOMAIN found,
         edits = reader.began =>
           /\ Sound(reader') /\ Undisturbed(reader', disk)
           /\ place \in Validating => Knows(reader', disk, edits)
  PROVE  ExactInv'
<1> DEFINE q == reader'
<1>1. q.at = place
  BY GoesFields DEF WentOn
<1>2. edits = reader.began =>
        Sound(q) /\ Undisturbed(q, disk) /\ (place \in Validating => Knows(q, disk, edits))
  OBVIOUS
<1> HIDE DEF q
<1>3. edits = reader.began => Exact(q, disk, edits)
  BY <1>1, <1>2 DEF Exact, Searching, Running, Reading, Validating
<1> QED  BY <1>3, StepsExactly DEF q

\* The root is opened, and nothing is listed.
LEMMA RootOpens ==
  ASSUME NEW r, NEW d, r.stack = <<>>, r.retained = <<>>, r.files = <<>>, r.directories = {}, r.entries = 0,
         r.request \in Requests, r.at \in {"marker", "enumerate"}, IsRootFrame(r.frame), Stands(d, r.frame),
         IF r.at = "marker" THEN r.marker = <<>> ELSE MarkerKnown(r, d),
         \A k \in DOMAIN r.marker :
           r.marker[k].content \in DOMAIN Size /\ Size[r.marker[k].content] <= r.request.manifest
  PROVE  Sound(r) /\ Undisturbed(r, d)
<1>1. ToSet(r.stack) = {} /\ ToSet(r.retained) = {} /\ ToSet(r.files) = {} /\ Sized(r.files)
  BY NoElements DEF Sized
<1>2. Frames(r) = {} /\ OpenFrames(r) = (IF r.at = "enumerate" THEN {r.frame} ELSE {})
  BY <1>1 DEF Frames, OpenFrames
<1>3. Apart(r)
  BY <1>1, <1>2 DEF Apart, PathsDiffer
<1>4. Listed(r)
  <2>1. \A g \in OpenFrames(r) : g.path = <<>>
    BY <1>2 DEF IsRootFrame
  <2>2. <<>> # <<Marker>>
    OBVIOUS
  <2> QED  BY <1>1, <1>2, <2>1, <2>2 DEF Listed, Told, MarkerPath
<1>5. Within(r)
  <2>1. Counted(r) = {}
    BY <1>2 DEF Counted
  <2>2. Cardinality(Counted(r)) = 0
    BY <2>1, FS_EmptySet
  <2>3. Bytes(r.files) = 0
    <3>1. Bytes(r.files) = Cardinality(Units(Weights(r.files), 1 .. 0))
      BY <1>1, BytesOfList
    <3>2. Units(Weights(r.files), 1 .. 0) = {}
      BY DEF Units
    <3> QED  BY <3>1, <3>2, FS_EmptySet
  <2>4. Cardinality(r.directories) = 0
    BY FS_EmptySet
  <2>5. r.request.files >= 0 /\ r.request.total >= 0 /\ r.request.directories >= 0
    BY LimitsArePositive
  <2>6. Len(r.files) = 0
    OBVIOUS
  <2> QED  BY <1>1, <2>2, <2>3, <2>4, <2>5, <2>6 DEF Within
<1>6. Undisturbed(r, d)
  <2>1. \A g \in OpenFrames(r) : Stands(d, g) /\ IsPlaced(d, g.path, g.inode)
    BY <1>2, RootIsPlaced DEF IsRootFrame
  <2>2. IF BeforeNames(r) THEN Stands(d, r.frame) ELSE MarkerKnown(r, d)
    BY DEF BeforeNames
  <2> QED  BY <1>1, <1>2, <2>1, <2>2 DEF Undisturbed, Expecting
<1> QED  BY <1>3, <1>4, <1>5, <1>6 DEF Sound

\* Opening the root.
LEMMA OpenRootExactly ==
  ASSUME Inv, ExactInv, OpenRoot
  PROVE  ExactInv'
<1>1. CASE ~ IsDirectory(Root)
  BY <1>1, RefusesExactly DEF OpenRoot
<1>2. CASE IsDirectory(Root)
  <2> DEFINE frame == Frame(<<>>, Root)
             found == [frame |-> frame]
             place == IF Managed THEN "marker" ELSE "enumerate"
             q == reader'
  <2>1. /\ q = Going(place, found) /\ UNCHANGED <<disk, edits>>
        /\ reader.at = "idle" /\ place \in {"marker", "enumerate"} /\ (place = "marker" <=> Managed)
    BY <1>2 DEF OpenRoot, At
  <2>2. DOMAIN found = {"frame"} /\ found["frame"] = frame /\ IsRootFrame(frame) /\ Stands(disk, frame)
    BY DEF Frame, IsRootFrame, Stands
  <2>3. Fields \subseteq DOMAIN reader /\ Untouched(reader)
    BY <2>1 DEF Inv, ReaderOK, ListsOK, PhaseOK
  <2> HIDE DEF found, frame, place, q
  <2>4. WentOn(reader, q, place, found)
    BY <2>1, <2>2, <2>3, GoingFields
  <2>5. /\ q.at = place /\ q.frame = frame /\ SameLists(reader, q) /\ q.marker = reader.marker
        /\ q.began = reader.began /\ q.entries = reader.entries
    BY <2>2, <2>3, <2>4 DEF WentOn, SameLists, Fields
  <2>6. ASSUME edits = reader.began PROVE Exact(q, disk, edits)
    <3>1. reader.entries = 0 /\ reader.request \in Requests
      BY <2>1, <2>6 DEF ExactInv, Exact
    <3>2. q.marker = <<>> /\ DOMAIN q.marker = {}
      BY <2>3, <2>5 DEF Untouched
    <3>3. q.at = "enumerate" => MarkerKnown(q, disk)
      <4>1. q.at = "enumerate" => ~ Manages(q)
        BY <2>1, <2>5 DEF Managed, Manages, SameLists
      <4> QED  BY <3>2, <4>1 DEF MarkerKnown, MarkerStandsIn, Manages
    <3>4. Sound(q) /\ Undisturbed(q, disk)
      BY <2>1, <2>2, <2>3, <2>5, <3>1, <3>2, <3>3, RootOpens DEF SameLists, Untouched
    <3> QED  BY <2>1, <2>5, <3>4 DEF Exact, Validating
  <2> QED  BY <2>1, <2>5, <2>6 DEF ExactInv, q, SameLists
<1> QED  BY <1>1, <1>2

\* What the marker is, of an undisturbed call that looks for it.
LEMMA MarkerBlamed ==
  ASSUME Inv, ExactInv, InspectMarker, edits = reader.began
  PROVE  \/ \E error : Fails(error) /\ Blames(reader, disk, error)
         \/ ~ HasEntry(Root, Marker) /\ reader.request.marker # "required" /\ Continue("enumerate")
         \/ /\ HasEntry(Root, Marker) /\ disk[Entry(Root, Marker)].kind = "file"
            /\ Size[disk[Entry(Root, Marker)].content] <= reader.request.manifest
            /\ Goes("open", Inspected(Root, Marker, <<Marker>>, reader.request.manifest))
<1>1. reader.at = "marker"
  BY DEF InspectMarker, At
<1>2. Certain(reader, disk, edits) /\ PhaseOK(reader, edits) /\ Manages(reader)
  BY <1>1, NowCertain DEF Searching, Running, PhaseOK
<1>3. edits \in Nat /\ FileSystem(disk, edits) /\ disk[Root].kind = "directory" /\ reader.request \in Requests
  BY <1>2 DEF Certain
<1> DEFINE tree == TreeOf(disk)
           file == Entry(Root, Marker)
<1>4. CASE ~ HasEntry(Root, Marker)
  <2>1. CASE reader.request.marker = "required"
    <3>1. \A f \in tree.files : f.path # <<Marker>>
      BY <1>3, <1>4, MarkerOfTree DEF HasEntry, EntryNames
    <3>2. Kept(reader, tree) = {}
      BY <3>1 DEF Kept
    <3>3. ~ Readable(tree, reader.request)
      BY <2>1, <3>2, ReadableMeans
    <3> QED  BY <1>4, <2>1, <3>3 DEF InspectMarker, Blames
  <2> QED  BY <1>4, <2>1 DEF InspectMarker
<1>5. CASE HasEntry(Root, Marker)
  <2>1. Marker \in DOMAIN disk[Root].entries /\ file = disk[Root].entries[Marker]
    BY <1>5 DEF HasEntry, EntryNames, Entry
  <2>2. /\ disk[file].kind \in {"file", "directory", "other"} /\ IsObject(disk[file], edits)
        /\ [path |-> Append(<<>>, Marker), inode |-> file] \in Places(disk)
    <3> DEFINE d == disk
               e == edits
    <3>1. IsPlaced(d, <<>>, Root)
      BY RootIsPlaced
    <3>2. e \in Nat /\ FileSystem(d, e) /\ Root \in Inodes
          /\ d[Root].kind = "directory" /\ Marker \in DOMAIN d[Root].entries
      BY <1>3, <2>1, RootIsAnInode
    <3> HIDE DEF d, e
    <3>3. LET path == Append(<<>>, Marker)
              inode == d[Root].entries[Marker]
          IN  /\ d[inode].kind \in {"file", "directory", "other"} /\ IsObject(d[inode], e)
              /\ [path |-> path, inode |-> inode] \in Places(d)
      BY <3>1, <3>2, EntryIsPlaced
    <3> QED  BY <2>1, <3>3 DEF d, e
  <2>3. Append(<<>>, Marker) = <<Marker>>
    OBVIOUS
  <2> HIDE DEF file
  <2>4. /\ disk[file].kind = "file" => [path |-> <<Marker>>, content |-> disk[file].content] \in tree.files
        /\ disk[file].kind = "directory" => <<Marker>> \in tree.directories
        /\ disk[file].kind = "other" => tree.others # {}
    BY <2>2, <2>3, PlacesInTree
  <2>5. CASE disk[file].kind # "file"
    <3>1. ~ Readable(tree, reader.request)
      BY <1>2, <2>2, <2>4, <2>5, ReadableMeans
    <3> QED  BY <1>5, <2>5, <3>1 DEF InspectMarker, Blames, file
  <2>6. CASE disk[file].kind = "file"
    <3> DEFINE f == [path |-> <<Marker>>, content |-> disk[file].content]
    <3>1. f \in Kept(reader, tree) /\ f.content = disk[file].content
      BY <1>2, <2>4, <2>6 DEF Kept
    <3> HIDE DEF f
    <3>2. Size[disk[file].content] > reader.request.manifest => ~ Readable(tree, reader.request)
      <4>1. SUFFICES ASSUME Size[disk[file].content] > reader.request.manifest, Readable(tree, reader.request)
                     PROVE  FALSE
        OBVIOUS
      <4>2. Size[f.content] <= reader.request.manifest
        BY <3>1, <4>1, ReadableMeans
      <4>3. Size[f.content] \in Nat /\ reader.request.manifest \in Nat
        BY <1>3, <2>2, <2>6, <3>1, FileContent, SizesAreNumbers, LimitsArePositive
      <4> QED  BY <3>1, <4>1, <4>2, <4>3
    <3>3. Size[disk[file].content] \in Nat /\ reader.request.manifest \in Nat
      BY <1>3, <2>2, <2>6, FileContent, SizesAreNumbers, LimitsArePositive
    <3>4. CASE Size[disk[file].content] > reader.request.manifest
      BY <1>5, <2>6, <3>2, <3>4 DEF InspectMarker, Blames, file
    <3>5. CASE Size[disk[file].content] <= reader.request.manifest
      <4>1. ~ (Size[disk[file].content] > reader.request.manifest)
        BY <3>3, <3>5
      <4> QED  BY <1>5, <2>6, <3>5, <4>1 DEF InspectMarker, file
    <3> QED  BY <3>3, <3>4, <3>5
  <2> QED  BY <2>5, <2>6
<1> QED  BY <1>4, <1>5

\* What a call inspected stands.
LEMMA InspectedPending ==
  ASSUME NEW i, NEW name, NEW path, NEW limit
  PROVE  LET pending == Inspected(i, name, path, limit).pending
             file == Entry(i, name)
         IN  /\ DOMAIN Inspected(i, name, path, limit) = {"pending"}
             /\ Inspected(i, name, path, limit)["pending"] = pending
             /\ pending.parent = i /\ pending.name = name /\ pending.path = path /\ pending.inode = file
             /\ pending.stamp = disk[file].stamp /\ pending.limit = limit
             /\ pending.size = Size[disk[file].content]
BY DEF Inspected

\* Looking at the marker.
LEMMA InspectMarkerExactly ==
  ASSUME Inv, ExactInv, InspectMarker
  PROVE  ExactInv'
<1> DEFINE q == reader'
<1>1. /\ reader.at = "marker" /\ reader.at \in Searching
      /\ \/ \E error : Fails(error)
         \/ Continue("enumerate")
         \/ Goes("open", Inspected(Root, Marker, <<Marker>>, reader.request.manifest))
  BY DEF InspectMarker, At, Searching, Running
<1>2. CASE edits # reader.began
  <2>1. ASSUME NEW place, NEW found, Goes(place, found), DOMAIN found \subseteq {"pending", "error"}
        PROVE  ExactInv'
    BY <1>2, <2>1, StepsExactly
  <2>2. ASSUME NEW error, Fails(error) PROVE ExactInv'
    BY <1>1, <1>2, <2>2, FailsExactly
  <2>3. Continue("enumerate") => ExactInv'
    BY <2>1 DEF Continue
  <2>4. Goes("open", Inspected(Root, Marker, <<Marker>>, reader.request.manifest)) => ExactInv'
    BY <2>1, InspectedPending
  <2> QED  BY <1>1, <2>2, <2>3, <2>4
<1>3. CASE edits = reader.began
  <2>1. Certain(reader, disk, edits) /\ PhaseOK(reader, edits) /\ Manages(reader) /\ ListsOK(reader)
    BY <1>1, <1>3, NowCertain DEF Searching, Running, PhaseOK
  <2>2. /\ Untouched(reader) /\ IsRootFrame(reader.frame) /\ Stands(disk, reader.frame) /\ reader.request \in Requests
        /\ "frame" \in DOMAIN reader /\ Fields \subseteq DOMAIN reader
    BY <1>1, <2>1 DEF PhaseOK, BeforeNames, Beginning, Certain, Undisturbed, ListsOK
  <2>3. reader.entries = 0
    <3>1. Counted(reader) = {}
      BY <2>2, NoElements DEF Counted, Frames, Untouched
    <3> QED  BY <2>1, <3>1, FS_EmptySet DEF Certain, Sound, Within
  <2>4. CASE \E error : Fails(error) /\ Blames(reader, disk, error)
    BY <1>1, <2>4, FailsExactly
  <2>5. CASE ~ HasEntry(Root, Marker) /\ reader.request.marker # "required" /\ Continue("enumerate")
    <3> DEFINE found == <<>>
    <3>1. DOMAIN found = {} /\ Goes("enumerate", found)
      BY <2>5 DEF Continue
    <3> HIDE DEF found, q
    <3>2. WentOn(reader, q, "enumerate", found)
      BY <3>1, GoesFields DEF q
    <3>3. /\ q.at = "enumerate" /\ q.frame = reader.frame /\ SameLists(reader, q) /\ q.marker = reader.marker
          /\ q.entries = reader.entries
      BY <2>2, <3>1, <3>2 DEF WentOn, SameLists, Fields
    <3>4. MarkerKnown(q, disk)
      BY <2>2, <2>5, <3>3 DEF MarkerKnown, MarkerStandsIn, Untouched, SameLists, HasEntry, EntryNames
    <3>5. DOMAIN q.marker = {}
      BY <2>2, <3>3 DEF Untouched
    <3>6. Sound(q) /\ Undisturbed(q, disk)
      BY <2>2, <2>3, <3>3, <3>4, <3>5, RootOpens DEF SameLists, Untouched
    <3>7. "enumerate" \in Searching /\ "enumerate" \notin Validating
      BY DEF Searching, Running, Reading, Validating
    <3> QED  BY <3>1, <3>6, <3>7, LooksExactly DEF q
  <2>6. CASE /\ HasEntry(Root, Marker) /\ disk[Entry(Root, Marker)].kind = "file"
             /\ Size[disk[Entry(Root, Marker)].content] <= reader.request.manifest
             /\ Goes("open", Inspected(Root, Marker, <<Marker>>, reader.request.manifest))
    <3> DEFINE found == Inspected(Root, Marker, <<Marker>>, reader.request.manifest)
               pending == found.pending
               file == Entry(Root, Marker)
    <3>1. /\ DOMAIN found = {"pending"} /\ found["pending"] = pending /\ Goes("open", found)
          /\ pending.parent = Root /\ pending.name = Marker /\ pending.inode = file
          /\ pending.stamp = disk[file].stamp /\ pending.limit = reader.request.manifest
          /\ pending.size = Size[disk[file].content]
      BY <2>6, InspectedPending
    <3> HIDE DEF found, q, pending
    <3>2. WentOn(reader, q, "open", found)
      BY <3>1, GoesFields DEF q
    <3>3. /\ q.at = "open" /\ q.frame = reader.frame /\ SameLists(reader, q) /\ q.marker = reader.marker
          /\ q.entries = reader.entries /\ q.pending = pending
      BY <2>2, <3>1, <3>2 DEF WentOn, SameLists, Fields
    <3>4. /\ Marker \in DOMAIN disk[Root].entries /\ disk[Root].entries[Marker] = file
          /\ Size[disk[file].content] <= reader.request.manifest
      BY <2>6 DEF HasEntry, EntryNames, Entry
    <3>5. pending.size \in Nat /\ pending.limit \in Int
      <4>1. IsObject(disk[file], edits)
        BY <2>1, <3>4, EntryIsPlaced, RootIsPlaced, RootIsAnInode DEF Certain
      <4> QED  BY <2>2, <2>6, <3>1, <4>1, FileContent, SizesAreNumbers, LimitsArePositive
    <3> HIDE DEF file
    <3>6. PendingStands(q, disk)
      BY <2>2, <3>1, <3>3, <3>4 DEF PendingStands, Stands, SameLists, Untouched
    <3>7. PendingFits(q)
      BY <2>2, <3>1, <3>3, <3>5 DEF PendingFits, LooksAtFile, SameLists, Untouched
    <3>8. BeforeNames(reader) /\ BeforeNames(q)
      BY <1>1, <2>2, <3>3 DEF BeforeNames, SameLists, Untouched
    <3>9. Sound(q) /\ Undisturbed(q, disk)
      <4> DEFINE d == disk
                 e == edits
                 r == reader
      <4>1. /\ Certain(r, d, e) /\ r.at # "enumerate" /\ q.at # "enumerate"
            /\ q.stack = r.stack /\ q.retained = r.retained /\ q.files = r.files /\ q.directories = r.directories
            /\ q.marker = r.marker /\ q.request = r.request /\ q.entries = r.entries
            /\ (BeforeNames(r) <=> BeforeNames(q)) /\ q.frame = r.frame /\ PendingStands(q, d) /\ PendingFits(q)
        BY <1>1, <2>1, <3>3, <3>6, <3>7, <3>8 DEF SameLists
      <4> HIDE DEF d, e, r
      <4>2. Sound(q) /\ Undisturbed(q, d)
        BY <4>1, LooksSoundly
      <4> QED  BY <4>2 DEF d
    <3>10. "open" \in Searching /\ "open" \notin Validating
      BY DEF Searching, Running, Reading, Validating
    <3> QED  BY <3>1, <3>9, <3>10, LooksExactly DEF q
  <2> QED  BY <1>3, <2>4, <2>5, <2>6, MarkerBlamed
<1> QED  BY <1>2, <1>3

\* The names of a directory.
LEMMA EnumerateExactly ==
  ASSUME Inv, ExactInv, Enumerate
  PROVE  ExactInv'
<1> DEFINE frame == reader.frame
           i == frame.inode
           new == [path |-> frame.path, inode |-> i, stamp |-> frame.stamp,
                   names |-> EntryNames(i), left |-> EntryNames(i)]
           discovered == reader.entries + Cardinality(EntryNames(i) \ Uncounted(reader, new))
           found == [entries |-> discovered, stack |-> Append(reader.stack, new)]
           q == reader'
<1>1. reader.at = "enumerate" /\ reader.at \in Searching
  BY DEF Enumerate, At, Searching, Running, Reading
<1>2. Uncounted(reader, new) = IF reader.frame.path = <<>> /\ Managed THEN {Marker} ELSE {}
  BY DEF Uncounted, Managed, Manages
<1>3. IF discovered > EntryLimit THEN Fails("entry_limit") ELSE Goes("entry", found)
  BY <1>2 DEF Enumerate
<1>4. /\ DOMAIN found = {"entries", "stack"} /\ found["entries"] = discovered
      /\ found["stack"] = Append(reader.stack, new)
  OBVIOUS
<1>5. /\ new.path = reader.frame.path /\ new.inode = reader.frame.inode /\ new.stamp = reader.frame.stamp
      /\ new.names = DOMAIN disk[reader.frame.inode].entries /\ new.left = new.names
      /\ discovered = reader.entries + Cardinality(new.names \ Uncounted(reader, new))
  BY DEF EntryNames
<1> HIDE DEF new, discovered, found, q
<1>6. CASE discovered > EntryLimit
  <2>1. ASSUME edits = reader.began PROVE ~ Readable(TreeOf(disk), reader.request)
    <3> DEFINE d == disk
               e == edits
               r == reader
    <3>1. Certain(r, d, e)
      BY <1>1, <2>1, NowCertain
    <3>2. /\ r.at = "enumerate" /\ new.path = r.frame.path /\ new.names = DOMAIN d[r.frame.inode].entries
          /\ r.entries + Cardinality(new.names \ Uncounted(r, new)) > r.request.files + r.request.directories
      BY <1>1, <1>5, <1>6 DEF EntryLimit
    <3> HIDE DEF d, e, r
    <3>3. ~ Readable(TreeOf(d), r.request)
      BY <3>1, <3>2, TooManyEntries
    <3> QED  BY <3>3 DEF d, r
  <2> QED  BY <1>1, <1>3, <1>6, <2>1, FailsExactly DEF Blames
<1>7. CASE ~ (discovered > EntryLimit)
  <2>1. Goes("entry", found)
    BY <1>3, <1>7
  <2>2. WentOn(reader, q, "entry", found) /\ Fields \subseteq DOMAIN reader
    BY <1>4, <2>1, GoesFields DEF q, Inv, ReaderOK, ListsOK
  <2>3. /\ q.at = "entry" /\ q.stack = Append(reader.stack, new) /\ q.entries = discovered
        /\ q.retained = reader.retained /\ q.files = reader.files /\ q.directories = reader.directories
        /\ q.marker = reader.marker /\ q.request = reader.request
    BY <1>4, <2>2 DEF WentOn, Fields
  <2>4. ASSUME edits = reader.began PROVE Sound(q) /\ Undisturbed(q, disk)
    <3> DEFINE d == disk
               e == edits
               r == reader
    <3>1. Certain(r, d, e)
      BY <1>1, <2>4, NowCertain
    <3>2. /\ r.at = "enumerate" /\ q.at = "entry" /\ new.path = r.frame.path /\ new.inode = r.frame.inode
          /\ new.stamp = r.frame.stamp /\ new.names = DOMAIN d[r.frame.inode].entries /\ new.left = new.names
          /\ q.stack = Append(r.stack, new) /\ q.retained = r.retained /\ q.files = r.files
          /\ q.directories = r.directories /\ q.marker = r.marker /\ q.request = r.request
          /\ q.entries = r.entries + Cardinality(new.names \ Uncounted(r, new))
      BY <1>1, <1>5, <2>3
    <3> HIDE DEF d, e, r
    <3>3. Sound(q) /\ Undisturbed(q, d)
      BY <3>1, <3>2, EnumeratesSoundly
    <3> QED  BY <3>3 DEF d
  <2>5. "entry" \in Searching /\ "entry" \notin Validating
    BY DEF Searching, Running, Reading, Validating
  <2> QED  BY <1>4, <2>1, <2>4, <2>5, LooksExactly DEF q
<1> QED  BY <1>6, <1>7

\* Nothing that stands has changed.
LEMMA StandsUnchanged ==
  ASSUME NEW names, NEW seen, names \subseteq Names, EntryNames(seen.inode) = names, Stands(disk, seen)
  PROVE  Changed(names, seen) = "none"
<1>1. Cardinality(names) \in Nat
  BY FiniteNames
<1> QED  BY <1>1 DEF Changed, Stands, SameSnapshot

\* A directory without names left.
LEMMA FinishDirectoryExactly ==
  ASSUME Inv, ExactInv, FinishDirectory
  PROVE  ExactInv'
<1> DEFINE found == [stack |-> Front(reader.stack), retained |-> Append(reader.retained, Top)]
           change == Changed(Top.names, Top)
           q == reader'
<1>1. /\ reader.at = "entry" /\ reader.at \in Searching /\ reader.stack # <<>>
      /\ IF change # "none" THEN Fails(change) ELSE Goes("entry", found)
  BY DEF FinishDirectory, At, Searching, Running, Reading
<1>2. /\ DOMAIN found = {"stack", "retained"} /\ found["stack"] = Front(reader.stack)
      /\ found["retained"] = Append(reader.retained, Last(reader.stack))
  BY DEF Top
<1>3. ASSUME edits = reader.began PROVE Certain(reader, disk, edits) /\ change = "none"
  <2>1. Certain(reader, disk, edits) /\ ListsOK(reader)
    BY <1>1, <1>3, NowCertain
  <2>2. Top \in Frames(reader) /\ Top \in OpenFrames(reader)
    <3>1. reader.stack \in Seq(ToSet(reader.stack))
      BY <2>1 DEF ListsOK, IsList
    <3>2. Last(reader.stack) \in ToSet(reader.stack)
      BY <1>1, <3>1, LastElement
    <3> QED  BY <3>2 DEF Top, Frames, OpenFrames
  <2>3. Top.names \subseteq Names /\ EntryNames(Top.inode) = Top.names /\ Stands(disk, Top)
    BY <2>1, <2>2 DEF Certain, Sound, Listed, Undisturbed, EntryNames
  <2> QED  BY <2>1, <2>3, StandsUnchanged
<1> HIDE DEF found, q, change
<1>4. CASE change # "none"
  BY <1>1, <1>3, <1>4, FailsExactly
<1>5. CASE change = "none"
  <2>1. Goes("entry", found)
    BY <1>1, <1>5
  <2>2. WentOn(reader, q, "entry", found) /\ Fields \subseteq DOMAIN reader
    BY <1>2, <2>1, GoesFields DEF q, Inv, ReaderOK, ListsOK
  <2>3. /\ q.at = "entry" /\ q.stack = Front(reader.stack)
        /\ q.retained = Append(reader.retained, Last(reader.stack)) /\ q.entries = reader.entries
        /\ q.files = reader.files /\ q.directories = reader.directories
        /\ q.marker = reader.marker /\ q.request = reader.request
    BY <1>2, <2>2 DEF WentOn, Fields
  <2>4. ASSUME edits = reader.began PROVE Sound(q) /\ Undisturbed(q, disk)
    <3> DEFINE d == disk
               e == edits
               r == reader
    <3>1. /\ Certain(r, d, e) /\ r.at = "entry" /\ q.at = "entry" /\ r.stack # <<>> /\ q.stack = Front(r.stack)
          /\ q.retained = Append(r.retained, Last(r.stack)) /\ q.entries = r.entries /\ q.files = r.files
          /\ q.directories = r.directories /\ q.marker = r.marker /\ q.request = r.request
      BY <1>1, <1>3, <2>3, <2>4
    <3> HIDE DEF d, e, r
    <3>2. Sound(q) /\ Undisturbed(q, d)
      BY <3>1, FinishesSoundly
    <3> QED  BY <3>2 DEF d
  <2>5. "entry" \in Searching /\ "entry" \notin Validating
    BY DEF Searching, Running, Reading, Validating
  <2> QED  BY <1>2, <2>1, <2>4, <2>5, LooksExactly DEF q
<1> QED  BY <1>4, <1>5

\* The file that is being read is the one that was inspected.
LEMMA LooksOn ==
  ASSUME Inv, ExactInv, reader.at \in {"open", "read"}, NEW place \in {"read", "reinspect"}, NEW found,
         Goes(place, found), DOMAIN found \subseteq {"content"}
  PROVE  ExactInv'
<1> DEFINE q == reader'
<1>1. WentOn(reader, q, place, found) /\ Fields \subseteq DOMAIN reader
  BY GoesFields DEF Inv, ReaderOK, ListsOK
<1>2. reader.at \in Searching /\ reader.at \in Expecting /\ place \in Searching /\ place \notin Validating
  BY DEF Searching, Running, Reading, Validating, Expecting
<1> HIDE DEF q
<1>3. /\ q.at = place /\ q.stack = reader.stack /\ q.entries = reader.entries
      /\ q.retained = reader.retained /\ q.files = reader.files /\ q.directories = reader.directories
      /\ q.marker = reader.marker /\ q.request = reader.request
  BY <1>1 DEF WentOn, Fields
<1>4. ASSUME edits = reader.began PROVE Sound(q) /\ Undisturbed(q, disk)
  <2> DEFINE d == disk
             e == edits
             r == reader
  <2>1. Certain(r, d, e) /\ PhaseOK(r, e) /\ PendingOK(r, d, e)
    BY <1>2, <1>4, NowCertain
  <2>2. "pending" \in DOMAIN r /\ "frame" \in DOMAIN r
    BY <2>1 DEF PendingOK, PhaseOK, Reading
  <2>3. q.pending = r.pending /\ q.frame = r.frame
    BY <1>1, <2>2 DEF WentOn
  <2>4. PendingStands(r, d) /\ PendingFits(r)
    BY <1>2, <2>1 DEF Certain, Undisturbed
  <2>5. BeforeNames(r) <=> BeforeNames(q)
    BY <1>3 DEF BeforeNames
  <2> HIDE DEF d, e
  <2>6. PendingStands(q, d)
    BY <1>3, <2>3, <2>4 DEF PendingStands, LooksAtFile
  <2>7. PendingFits(q)
    BY <1>3, <2>3, <2>4 DEF PendingFits, LooksAtFile
  <2>8. /\ r.at # "enumerate" /\ q.at # "enumerate" /\ q.stack = r.stack /\ q.entries = r.entries
        /\ q.retained = r.retained /\ q.files = r.files /\ q.directories = r.directories
        /\ q.marker = r.marker /\ q.request = r.request
    BY <1>3
  <2> HIDE DEF r
  <2>9. Sound(q) /\ Undisturbed(q, d)
    BY <2>1, <2>3, <2>5, <2>6, <2>7, <2>8, LooksSoundly
  <2> QED  BY <2>9 DEF d
<1>5. "at" \notin DOMAIN found /\ "began" \notin DOMAIN found /\ "request" \notin DOMAIN found
  OBVIOUS
<1> QED  BY <1>2, <1>4, <1>5, LooksExactly DEF q

\* Opening a file that was inspected.
LEMMA OpenExactly ==
  ASSUME Inv, ExactInv, Open
  PROVE  ExactInv'
<1>1. /\ reader.at = "open" /\ reader.at \in Searching /\ reader.at \in Expecting
      /\ \/ Continue("read")
         \/ \E error : Fails(error) /\
              (Gone \/ disk[Opened].kind = "other" \/ ~ (Opened = reader.pending.inode /\ SameSnapshot(reader.pending)))
  BY DEF Open, At, Searching, Running, Reading, Expecting
<1>2. CASE Continue("read")
  <2>1. Goes("read", <<>>) /\ DOMAIN <<>> \subseteq {"content"}
    BY <1>2 DEF Continue
  <2> QED  BY <1>1, <2>1, LooksOn
<1>3. ASSUME NEW error, Fails(error),
             Gone \/ disk[Opened].kind = "other" \/ ~ (Opened = reader.pending.inode /\ SameSnapshot(reader.pending))
      PROVE  ExactInv'
  <2>1. ASSUME edits = reader.began PROVE FALSE
    <3>1. PendingStands(reader, disk) /\ PendingOK(reader, disk, edits)
      BY <1>1, <2>1, NowCertain DEF Certain, Undisturbed
    <3>2. ~ Gone /\ Opened = reader.pending.inode /\ SameSnapshot(reader.pending)
      BY <3>1 DEF PendingStands, Gone, Opened, HasEntry, EntryNames, Entry, Stands, SameSnapshot
    <3>3. disk[reader.pending.inode].kind = "file"
      BY <1>1, <3>1 DEF PendingOK, PendingStands
    <3> QED  BY <1>3, <3>2, <3>3
  <2> QED  BY <1>1, <1>3, <2>1, FailsExactly
<1> QED  BY <1>1, <1>2, <1>3

\* Reading it.
LEMMA ReadExactly ==
  ASSUME Inv, ExactInv, Read
  PROVE  ExactInv'
<1> DEFINE found == [content |-> disk[reader.pending.inode].content]
<1>1. reader.at = "read" /\ Goes("reinspect", found) /\ DOMAIN found \subseteq {"content"}
  BY DEF Read, At
<1> HIDE DEF found
<1> QED  BY <1>1, LooksOn

\* The next name of the directory being read.
NextOf(r) == First(Last(r.stack).left)
NextPath(r) == Append(Last(r.stack).path, NextOf(r))
NextInode(r, d) == d[Last(r.stack).inode].entries[NextOf(r)]
\* It is an entry of the tree, and a new one.
LEMMA NextInTree ==
  ASSUME NEW r, NEW d, NEW e, Certain(r, d, e), r.at # "enumerate", r.stack # <<>>, Last(r.stack).left # {}
  PROVE  LET path == NextPath(r)
             inode == NextInode(r, d)
         IN  /\ NextOf(r) \in Last(r.stack).left /\ NextOf(r) \in DOMAIN d[Last(r.stack).inode].entries
             /\ Last(r.stack) \in OpenFrames(r) /\ Stands(d, Last(r.stack))
             /\ path \in Seq(Names) /\ path # <<>> /\ inode \in Inodes
             /\ d[inode].kind \in {"file", "directory", "other"} /\ IsObject(d[inode], e)
             /\ IsPlaced(d, path, inode) /\ [path |-> path, inode |-> inode] \in Places(d)
             /\ \A g \in OpenFrames(r) : g.path # path
             /\ \A f \in ToSet(r.files) : f.path # path
<1> DEFINE top == Last(r.stack)
           name == NextOf(r)
<1>1. top \in Frames(r) /\ top \in OpenFrames(r)
  <2>1. IsList(r.stack)
    BY DEF Certain, ReaderOK, ListsOK
  <2>2. top \in ToSet(r.stack)
    BY <2>1, LastElement DEF IsList
  <2> QED  BY <2>2 DEF Frames, OpenFrames
<1>2. /\ top.left \subseteq top.names /\ top.names \subseteq Names /\ top.names = DOMAIN d[top.inode].entries
      /\ Stands(d, top)
  BY <1>1 DEF Certain, Sound, Listed, Undisturbed
<1>3. name \in top.left
  BY <1>2, FirstIsThere DEF NextOf
<1> HIDE DEF name
<1>4. /\ \A g \in OpenFrames(r) : g.path # Append(top.path, name)
      /\ \A f \in ToSet(r.files) : f.path # Append(top.path, name)
  BY <1>3, NextIsNew
<1>5. name \in DOMAIN d[top.inode].entries
  BY <1>2, <1>3
<1> HIDE DEF top
<1>6. LET path == Append(top.path, name)
          inode == d[top.inode].entries[name]
      IN  /\ inode \in Inodes /\ d[inode].kind \in {"file", "directory", "other"} /\ IsObject(d[inode], e)
          /\ path \in Seq(Names) /\ path # <<>> /\ IsPlaced(d, path, inode)
          /\ [path |-> path, inode |-> inode] \in Places(d)
  BY <1>1, <1>5, EntriesInTree
<1>7. NextPath(r) = Append(top.path, name) /\ NextInode(r, d) = d[top.inode].entries[name]
  BY DEF NextPath, NextInode, top, name
<1> QED  BY <1>1, <1>2, <1>3, <1>4, <1>5, <1>6, <1>7 DEF top, name

\* The files of a set weigh a number of bytes.
LEMMA SetWeighs ==
  ASSUME NEW set, IsFiniteSet(set), \A f \in set : f.content \in DOMAIN Size
  PROVE  SumFunction(SizesOf(set)) \in Nat
<1> DEFINE v == SizesOf(set)
<1>1. DOMAIN v = set /\ \A f \in set : v[f] \in Nat
  BY SizesAreNumbers DEF SizesOf
<1> HIDE DEF v
<1>2. SumFunction(v) = Cardinality(Units(v, set)) /\ IsFiniteSet(Units(v, set))
  BY <1>1, SumFunctionIsUnits, UnitsFinite
<1> QED  BY <1>2, FS_CardinalityType DEF v

\* A readable tree has room for one file more of those it holds.
LEMMA OneFileMore ==
  ASSUME NEW r, NEW d, NEW e, Certain(r, d, e), NEW path, NEW inode, [path |-> path, inode |-> inode] \in Places(d),
         d[inode].kind = "file", IsObject(d[inode], e), ~ MarkerPath(r, path),
         \A f \in ToSet(r.files) : f.path # path
  PROVE  LET size == Size[d[inode].content]
         IN  /\ size \in Nat
             /\ Readable(TreeOf(d), r.request) =>
                  /\ ValidPath(path) /\ Len(r.files) < r.request.files /\ size <= r.request.bytes
                  /\ Bytes(r.files) + size <= r.request.total
<1> DEFINE f == [path |-> path, content |-> d[inode].content]
           size == Size[d[inode].content]
           files == Append(r.files, f)
           set == FilesBeside(r, d)
<1>1. f.content \in DOMAIN Size /\ size \in Nat /\ f.path = path /\ f.content = d[inode].content /\ RecordOf(f) = f
  BY FileContent, SizesAreNumbers DEF RecordOf
<1>2. f \in set
  <2>1. f \in TreeOf(d).files
    BY PlacesInTree
  <2> QED  BY <1>1, <2>1 DEF FilesBeside, Kept, MarkerPath
<1> HIDE DEF f, size, set
<1>3. Sized(r.files) /\ PathsDiffer(r.files) /\ RecordsOf(r.files) \subseteq set
  BY FilesInTree DEF set
<1>4. IsFiniteSet(set) /\ Cardinality(set) \in Nat /\ \A g \in set : g.content \in DOMAIN Size
  BY FilesBesideFinite DEF Certain, set
<1>5. Sized(files) /\ Bytes(files) = Bytes(r.files) + Size[f.content] /\ Len(r.files) \in Nat
  BY <1>1, <1>3, BytesAppended, BytesOfList
<1>6. ToSet(files) = ToSet(r.files) \cup {f}
  BY <1>3, AppendedElements DEF Sized
<1>7. RecordsOf(files) \subseteq set
  BY <1>1, <1>2, <1>3, <1>6 DEF RecordsOf
<1>8. Len(files) = Len(r.files) + 1 /\ r.files \in Seq(ToSet(r.files)) /\ Len(r.files) \in Nat
  BY <1>3, <1>5 DEF Sized, IsList
<1>9. PathsDiffer(files)
  <2>1. \A k \in 1 .. Len(r.files) : files[k] = r.files[k] /\ r.files[k] \in ToSet(r.files)
    BY <1>8, ListElements
  <2>2. files[Len(r.files) + 1] = f
    BY <1>8
  <2> HIDE DEF files
  <2> SUFFICES ASSUME NEW i \in 1 .. Len(files), NEW j \in 1 .. Len(files), files[i].path = files[j].path PROVE i = j
    BY DEF PathsDiffer
  <2>3. \A k \in 1 .. Len(files) : k \in 1 .. Len(r.files) \/ k = Len(r.files) + 1
    BY <1>8
  <2> QED  BY <1>1, <1>3, <2>1, <2>2, <2>3 DEF PathsDiffer
<1> HIDE DEF files
<1>10. Len(files) <= Cardinality(set) /\ Bytes(files) <= SumFunction(SizesOf(set))
  BY <1>4, <1>5, <1>7, <1>9, RecordsWeigh
<1>11. Readable(TreeOf(d), r.request) =>
         /\ ValidPath(path) /\ Len(r.files) < r.request.files /\ size <= r.request.bytes
         /\ Bytes(r.files) + size <= r.request.total
  <2> SUFFICES ASSUME Readable(TreeOf(d), r.request)
               PROVE  /\ ValidPath(path) /\ Len(r.files) < r.request.files /\ size <= r.request.bytes
                      /\ Bytes(r.files) + size <= r.request.total
    OBVIOUS
  <2>1. /\ ContentSetError(set) = "none" /\ Cardinality(set) <= r.request.files
        /\ \A g \in set : Size[g.content] <= r.request.bytes
        /\ SumFunction(SizesOf(set)) <= r.request.total
    BY ReadableMeans DEF set
  <2>2. ValidPath(path)
    BY <1>1, <1>2, <2>1, PathsAreValid
  <2>3. r.request.files \in Nat /\ r.request.total \in Nat
    BY LimitsArePositive DEF Certain
  <2>4. Len(r.files) < r.request.files
    BY <1>4, <1>8, <1>10, <2>1, <2>3
  <2>5. size <= r.request.bytes
    BY <1>1, <1>2, <2>1 DEF size
  <2>6. SumFunction(SizesOf(set)) \in Nat
    BY <1>4, SetWeighs
  <2>7. Bytes(r.files) \in Nat /\ Bytes(files) = Bytes(r.files) + size
    BY <1>1, <1>3, <1>5, BytesOfList DEF size
  <2>8. Bytes(r.files) + size <= r.request.total
    BY <1>1, <1>10, <2>1, <2>3, <2>6, <2>7
  <2> QED  BY <2>2, <2>4, <2>5, <2>8
<1> QED  BY <1>1, <1>11 DEF size

\* And for one directory more.
LEMMA OneDirectoryMore ==
  ASSUME NEW r, NEW d, NEW e, Certain(r, d, e), Rooted(r), NEW path, NEW inode,
         [path |-> path, inode |-> inode] \in Places(d), d[inode].kind = "directory",
         \A g \in OpenFrames(r) : g.path # path
  PROVE  Readable(TreeOf(d), r.request) =>
           ValidPath(path) /\ Cardinality(r.directories) < r.request.directories
<1> SUFFICES ASSUME Readable(TreeOf(d), r.request)
             PROVE  ValidPath(path) /\ Cardinality(r.directories) < r.request.directories
  OBVIOUS
<1> DEFINE all == TreeOf(d).directories
<1>1. path \in all
  BY PlacesInTree
<1>2. r.directories \subseteq all /\ path \notin r.directories
  BY DirectoriesInTree DEF Rooted
<1>3. IsFiniteSet(all)
  BY TreeIsFinite DEF Certain
<1>4. (\A p \in all : ValidPath(p)) /\ Cardinality(all) <= r.request.directories
  BY ReadableMeans
<1>5. r.request.directories \in Nat
  BY LimitsArePositive DEF Certain
<1> HIDE DEF all
<1>6. Cardinality(r.directories \cup {path}) <= Cardinality(all) /\ IsFiniteSet(r.directories)
  BY <1>1, <1>2, <1>3, FS_Subset
<1>7. Cardinality(r.directories \cup {path}) = Cardinality(r.directories) + 1
  BY <1>2, <1>6, FS_AddElement
<1>8. Cardinality(r.directories) \in Nat /\ Cardinality(all) \in Nat
  BY <1>3, <1>6, FS_CardinalityType
<1> QED  BY <1>1, <1>4, <1>5, <1>6, <1>7, <1>8

\* A path of one name.
LEMMA OnlyName ==
  ASSUME NEW p \in Seq(Names), NEW n \in Names, NEW m, Append(p, n) = <<m>>
  PROVE  p = <<>> /\ n = m
<1> DEFINE s == Append(p, n)
           t == <<m>>
<1>1. Len(s) = Len(p) + 1 /\ s[Len(p) + 1] = n
  BY AppendProperties
<1>2. Len(t) = 1 /\ t[1] = m
  OBVIOUS
<1>3. s = t
  OBVIOUS
<1> HIDE DEF s, t
<1>4. Len(p) \in Nat /\ Len(p) = 0
  BY <1>1, <1>2, <1>3
<1>5. p = <<>>
  BY <1>4
<1> QED  BY <1>1, <1>2, <1>3, <1>4, <1>5

\* The marker is the one that was read.
LEMMA MarkerIsNext ==
  ASSUME NEW r, NEW d, NEW e, Certain(r, d, e), r.at # "enumerate", r.at # "marker", r.stack # <<>>,
         Last(r.stack).left # {}, MarkerPath(r, NextPath(r))
  PROVE  r.marker # <<>> /\ NextInode(r, d) = r.marker[1].inode /\ Stands(d, r.marker[1])
<1> DEFINE top == Last(r.stack)
           name == NextOf(r)
<1>1. /\ name \in DOMAIN d[top.inode].entries /\ top \in OpenFrames(r)
      /\ NextPath(r) \in Seq(Names)
  BY NextInTree
<1>2. top.path \in Seq(Names) /\ name \in Names
  BY <1>1, EntriesInTree
<1>3. Append(top.path, name) = <<Marker>> /\ Manages(r)
  BY DEF MarkerPath, NextPath
<1>5. top.path = <<>> /\ name = Marker
  <2> DEFINE p == top.path
  <2>1. p \in Seq(Names) /\ Append(p, name) = <<Marker>>
    BY <1>2, <1>3
  <2> HIDE DEF p, name
  <2>2. p = <<>> /\ name = Marker
    BY <1>2, <2>1, OnlyName
  <2> QED  BY <2>2 DEF p
<1>6. top.inode = Root
  <2>1. IsPlaced(d, <<>>, top.inode)
    BY <1>1, <1>5 DEF Certain, Undisturbed
  <2>2. [path |-> <<>>, inode |-> top.inode] \in Levels(d)[0]
    BY <2>1 DEF IsPlaced
  <2> HIDE DEF top
  <2>3. [path |-> <<>>, inode |-> top.inode] = RootPlace
    BY <2>2, LevelsClimb
  <2> QED  BY <2>3 DEF RootPlace
<1>7. ~ BeforeNames(r)
  BY DEF BeforeNames
<1>8. MarkerKnown(r, d)
  BY <1>7 DEF Certain, Undisturbed
<1> QED  BY <1>1, <1>3, <1>5, <1>6, <1>8 DEF MarkerKnown, MarkerStandsIn, NextInode

\* Of an undisturbed call, what is next.
LEMMA NextNow ==
  ASSUME Inv, ExactInv, edits = reader.began, reader.at = "entry", reader.stack # <<>>, Last(reader.stack).left # {}
  PROVE  LET name == NextOf(reader)
             path == NextPath(reader)
             inode == NextInode(reader, disk)
         IN  /\ Certain(reader, disk, edits) /\ ListsOK(reader) /\ Rooted(reader) /\ "frame" \in DOMAIN reader
             /\ ~ BeforeNames(reader) /\ name \in Last(reader.stack).left
             /\ name \in DOMAIN disk[Last(reader.stack).inode].entries
             /\ disk[inode].kind \in {"file", "directory", "other"} /\ IsObject(disk[inode], edits)
             /\ [path |-> path, inode |-> inode] \in Places(disk)
             /\ \A g \in OpenFrames(reader) : g.path # path
             /\ \A f \in ToSet(reader.files) : f.path # path
<1> DEFINE d == disk
           e == edits
           r == reader
<1>1. Certain(r, d, e) /\ ListsOK(r) /\ PhaseOK(r, e)
  BY NowCertain DEF Searching, Running, Reading
<1>2. ~ BeforeNames(r)
  BY DEF BeforeNames
<1>3. Rooted(r) /\ "frame" \in DOMAIN r
  BY <1>1, <1>2 DEF PhaseOK, Reading
<1>4. r.at # "enumerate" /\ r.stack # <<>> /\ Last(r.stack).left # {}
  OBVIOUS
<1> HIDE DEF d, e, r
<1>5. LET path == NextPath(r)
          inode == NextInode(r, d)
      IN  /\ NextOf(r) \in Last(r.stack).left /\ NextOf(r) \in DOMAIN d[Last(r.stack).inode].entries
          /\ d[inode].kind \in {"file", "directory", "other"} /\ IsObject(d[inode], e)
          /\ [path |-> path, inode |-> inode] \in Places(d)
          /\ \A g \in OpenFrames(r) : g.path # path
          /\ \A f \in ToSet(r.files) : f.path # path
  BY <1>1, <1>4, NextInTree
<1> QED  BY <1>1, <1>2, <1>3, <1>5 DEF d, e, r

\* A name that is skipped, of a call whose reader goes on to the next.
LEMMA SkipsExactly ==
  ASSUME Inv, ExactInv, reader.at \in {"entry", "open_directory", "reinspect"}, reader.stack # <<>>,
         NEW place \in {"entry", "enumerate"}, NEW found, Goes(place, found),
         DOMAIN found \subseteq {"stack", "files", "directories", "frame"}, "stack" \in DOMAIN found,
         found["stack"] = SkipName, edits = reader.began => Last(reader.stack).left # {},
         \A q : edits = reader.began /\ WentOn(reader, q, place, found) =>
                  /\ AddsFile(reader, q, disk, NextPath(reader))
                  /\ AddsDirectory(reader, q, disk, NextPath(reader))
  PROVE  ExactInv'
<1> DEFINE q == reader'
<1>1. WentOn(reader, q, place, found) /\ Fields \subseteq DOMAIN reader
  BY GoesFields DEF Inv, ReaderOK, ListsOK
<1>2. reader.at \in Searching /\ place \in Searching /\ place \notin Validating
  BY DEF Searching, Running, Reading, Validating
<1> HIDE DEF q
<1>3. /\ q.at = place /\ q.stack = SkipName /\ q.retained = reader.retained /\ q.entries = reader.entries
      /\ q.marker = reader.marker /\ q.request = reader.request
  BY <1>1 DEF WentOn, Fields
<1>4. SkipName = [reader.stack EXCEPT ![Len(reader.stack)] =
                    [Last(reader.stack) EXCEPT !.left = Last(reader.stack).left \ {NextOf(reader)}]]
  BY DEF SkipName, Top, Last, NextOf
<1>5. ASSUME edits = reader.began PROVE Sound(q) /\ Undisturbed(q, disk)
  <2> DEFINE d == disk
             e == edits
             r == reader
  <2>1. Certain(r, d, e) /\ ListsOK(r) /\ PhaseOK(r, e)
    BY <1>2, <1>5, NowCertain
  <2>2. Rooted(r) /\ r.at # "enumerate" /\ r.at # "marker" /\ r.stack # <<>>
    BY <2>1 DEF PhaseOK, Reading, BeforeNames
  <2>3. AddsFile(r, q, d, NextPath(r)) /\ AddsDirectory(r, q, d, NextPath(r))
    BY <1>1, <1>5
  <2>4. Skipped(r, q, NextOf(r))
    BY <1>3, <1>4, <2>2 DEF Skipped
  <2>5. q.request = r.request /\ q.marker = r.marker /\ q.entries = r.entries /\ Last(r.stack).left # {}
    BY <1>3, <1>5
  <2> HIDE DEF d, e, r
  <2>6. NextOf(r) \in Last(r.stack).left
    BY <2>1, <2>2, <2>5, NextInTree
  <2>7. Sound(q) /\ Undisturbed(q, d)
    BY <2>1, <2>2, <2>3, <2>4, <2>5, <2>6, SkipsSoundly DEF NextPath
  <2> QED  BY <2>7 DEF d
<1>6. "at" \notin DOMAIN found /\ "began" \notin DOMAIN found /\ "request" \notin DOMAIN found
  OBVIOUS
<1> QED  BY <1>2, <1>5, <1>6, LooksExactly DEF q

\* An object that is inspected, below the directory being read.
LEMMA InspectsExactly ==
  ASSUME Inv, ExactInv, reader.at = "entry", reader.stack # <<>>, Last(reader.stack).left # {},
         NEW place \in {"open", "open_directory"}, NEW found, NEW pending, Goes(place, found),
         DOMAIN found = {"pending"}, found["pending"] = pending,
         pending.parent = Last(reader.stack).inode, pending.name = NextOf(reader),
         pending.inode = NextInode(reader, disk), pending.stamp = disk[NextInode(reader, disk)].stamp,
         place = "open" => pending.size = Size[disk[NextInode(reader, disk)].content],
         edits = reader.began =>
           IF place = "open"
           THEN /\ pending.size \in Nat /\ pending.limit \in Int /\ pending.size <= pending.limit
                /\ Len(reader.files) < reader.request.files
                /\ pending.size <= reader.request.bytes
                /\ Bytes(reader.files) + pending.size <= reader.request.total
           ELSE Cardinality(reader.directories) < reader.request.directories /\ ValidPath(pending.path)
  PROVE  ExactInv'
<1> DEFINE q == reader'
<1>1. WentOn(reader, q, place, found) /\ Fields \subseteq DOMAIN reader
  BY GoesFields DEF Inv, ReaderOK, ListsOK
<1> HIDE DEF q
<1>2. /\ q.at = place /\ q.stack = reader.stack /\ q.entries = reader.entries
      /\ q.retained = reader.retained /\ q.files = reader.files /\ q.directories = reader.directories
      /\ q.marker = reader.marker /\ q.request = reader.request /\ q.pending = pending
  BY <1>1 DEF WentOn, Fields
<1>3. ASSUME edits = reader.began PROVE Sound(q) /\ Undisturbed(q, disk)
  <2> DEFINE d == disk
             e == edits
             r == reader
  <2>1. Certain(r, d, e) /\ NextOf(r) \in DOMAIN d[Last(r.stack).inode].entries /\ ~ BeforeNames(r)
    BY <1>3, NextNow
  <2>2. ~ BeforeNames(q)
    BY <1>2 DEF BeforeNames
  <2>3. /\ r.at # "enumerate" /\ q.at # "enumerate" /\ q.stack = r.stack /\ q.entries = r.entries
        /\ q.retained = r.retained /\ q.files = r.files /\ q.directories = r.directories
        /\ q.marker = r.marker /\ q.request = r.request
    BY <1>2
  <2>4. PendingStands(q, d)
    BY <1>2, <1>3, <2>1 DEF PendingStands, Stands, LooksAtFile, NextOf, NextInode
  <2>5. PendingFits(q)
    BY <1>2, <1>3 DEF PendingFits, LooksAtFile
  <2> HIDE DEF d, e, r
  <2>6. Sound(q) /\ Undisturbed(q, d)
    BY <2>1, <2>2, <2>3, <2>4, <2>5, LooksSoundly
  <2> QED  BY <2>6 DEF d
<1>4. /\ "at" \notin DOMAIN found /\ "began" \notin DOMAIN found /\ "request" \notin DOMAIN found
      /\ place \in Searching /\ place \notin Validating
  BY DEF Searching, Running, Reading, Validating
<1> QED  BY <1>3, <1>4, LooksExactly DEF q

\* What refuses the next name is the tree's fault.
LEMMA NextBlamed ==
  ASSUME Inv, ExactInv, edits = reader.began, reader.at = "entry", reader.stack # <<>>,
         Last(reader.stack).left # {}
  PROVE  LET path == NextPath(reader)
             inode == NextInode(reader, disk)
             size == Size[disk[inode].content]
         IN  /\ disk[inode].kind = "other" => ~ Readable(TreeOf(disk), reader.request)
             /\ disk[inode].kind # "other" /\ ~ MarkerPath(reader, path) /\ ~ ValidPath(path) =>
                  ~ Readable(TreeOf(disk), reader.request)
             /\ disk[inode].kind = "directory" /\ Cardinality(reader.directories) = reader.request.directories =>
                  ~ Readable(TreeOf(disk), reader.request)
             /\ disk[inode].kind = "file" /\ ~ MarkerPath(reader, path)
                  /\ FileRefusal(size, reader.request.total - Total) # "none" =>
                  ~ Readable(TreeOf(disk), reader.request)
<1> DEFINE d == disk
           e == edits
           r == reader
           path == NextPath(r)
           inode == NextInode(r, d)
           size == Size[d[inode].content]
           refusal == FileRefusal(size, r.request.total - Total)
<1>1. /\ Certain(r, d, e) /\ Rooted(r) /\ d[inode].kind \in {"file", "directory", "other"} /\ IsObject(d[inode], e)
      /\ [path |-> path, inode |-> inode] \in Places(d)
      /\ \A g \in OpenFrames(r) : g.path # path
      /\ \A f \in ToSet(r.files) : f.path # path
  BY NextNow
<1>2. refusal # "none" =>
        \/ Len(r.files) = r.request.files
        \/ size > r.request.bytes
        \/ size > r.request.total - Bytes(r.files)
  BY DEF FileRefusal, Total, Bytes
<1> HIDE DEF d, e, r, path, inode, size, refusal
<1>3. d[inode].kind = "other" => ~ Readable(TreeOf(d), r.request)
  BY <1>1, PlacesInTree, ReadableMeans
<1>4. d[inode].kind = "directory" /\ Readable(TreeOf(d), r.request) =>
        ValidPath(path) /\ Cardinality(r.directories) < r.request.directories
  BY <1>1, OneDirectoryMore
<1>5. d[inode].kind = "file" /\ ~ MarkerPath(r, path) =>
        /\ size \in Nat
        /\ Readable(TreeOf(d), r.request) =>
             /\ ValidPath(path) /\ Len(r.files) < r.request.files /\ size <= r.request.bytes
             /\ Bytes(r.files) + size <= r.request.total
  BY <1>1, OneFileMore DEF size
<1>6. /\ Len(r.files) \in Nat /\ Bytes(r.files) \in Nat /\ r.request.files \in Nat /\ r.request.bytes \in Nat
      /\ r.request.total \in Nat /\ r.request.directories \in Nat
  <2>1. Sized(r.files)
    BY <1>1, FilesInTree
  <2> QED  BY <1>1, <2>1, BytesOfList, LimitsArePositive DEF Certain
<1>7. d[inode].kind = "directory" /\ Cardinality(r.directories) = r.request.directories =>
        ~ Readable(TreeOf(d), r.request)
  BY <1>4, <1>6
<1>8. d[inode].kind = "file" /\ ~ MarkerPath(r, path) /\ refusal # "none" => ~ Readable(TreeOf(d), r.request)
  BY <1>2, <1>5, <1>6
<1>9. d[inode].kind # "other" /\ ~ MarkerPath(r, path) /\ ~ ValidPath(path) => ~ Readable(TreeOf(d), r.request)
  BY <1>1, <1>4, <1>5
<1> QED  BY <1>3, <1>7, <1>8, <1>9 DEF d, r, path, inode, size, refusal

\* The next name of a directory.
LEMMA ReadEntryExactly ==
  ASSUME Inv, ExactInv, ReadEntry
  PROVE  ExactInv'
<1> DEFINE i == Top.inode
           name == NextOf(reader)
           path == NextPath(reader)
           j == NextInode(reader, disk)
           size == Size[disk[j].content]
           remaining == reader.request.total - Total
           refusal == FileRefusal(size, remaining)
           limit == IF reader.request.bytes < remaining THEN reader.request.bytes ELSE remaining
           quiet == edits = reader.began
           marks == reader.marker # <<>> /\ j = reader.marker[1].inode /\ SameSnapshot(reader.marker[1])
           look == [pending |-> [parent |-> i, name |-> name, path |-> path, inode |-> j, stamp |-> disk[j].stamp]]
<1>1. /\ reader.at = "entry" /\ reader.at \in Searching /\ reader.stack # <<>> /\ Last(reader.stack).left # {}
      /\ i = Last(reader.stack).inode /\ First(Top.left) = name /\ Append(Top.path, name) = path /\ Entry(i, name) = j
  BY DEF ReadEntry, At, Searching, Running, Reading, Top, NextOf, NextPath, NextInode, Entry
<1>2. IF ~ HasEntry(i, name) THEN Fails("io")
      ELSE IF disk[j].kind = "other" THEN Fails("unsupported_entry")
      ELSE IF IsMarker(path)
        THEN IF marks THEN Goes("entry", [stack |-> SkipName]) ELSE Fails("race")
      ELSE IF ~ ValidPath(path) THEN Fails("invalid_path")
      ELSE IF IsDirectory(j) THEN InspectDirectory(i, name, path)
      ELSE InspectFile(i, name, path)
  <2> HIDE DEF name, path, j
  <2> QED  BY <1>1 DEF ReadEntry
<1>3. InspectDirectory(i, name, path) =>
        IF Cardinality(reader.directories) = reader.request.directories THEN Fails("directory_limit")
        ELSE Goes("open_directory", look)
  <2> HIDE DEF name, path, j, i
  <2> QED  BY <1>1 DEF InspectDirectory
<1>4. InspectFile(i, name, path) =>
        IF refusal # "none" THEN Fails(refusal) ELSE Goes("open", Inspected(i, name, path, limit))
  <2> HIDE DEF name, path, j, i
  <2> QED  BY <1>1 DEF InspectFile
<1>5. quiet =>
        /\ Certain(reader, disk, edits) /\ ~ BeforeNames(reader) /\ name \in DOMAIN disk[i].entries
        /\ disk[j].kind \in {"file", "directory", "other"} /\ IsObject(disk[j], edits)
  BY <1>1, NextNow
<1>6. quiet =>
        /\ disk[j].kind = "other" => ~ Readable(TreeOf(disk), reader.request)
        /\ disk[j].kind # "other" /\ ~ MarkerPath(reader, path) /\ ~ ValidPath(path) =>
             ~ Readable(TreeOf(disk), reader.request)
        /\ disk[j].kind = "directory" /\ Cardinality(reader.directories) = reader.request.directories =>
             ~ Readable(TreeOf(disk), reader.request)
        /\ disk[j].kind = "file" /\ ~ MarkerPath(reader, path) /\ refusal # "none" =>
             ~ Readable(TreeOf(disk), reader.request)
  BY <1>1, NextBlamed
<1>7. IsMarker(path) <=> MarkerPath(reader, path)
  BY DEF IsMarker, MarkerPath, Managed, Manages
<1>8. quiet /\ MarkerPath(reader, path) => marks
  <2> SUFFICES ASSUME quiet, MarkerPath(reader, path) PROVE marks
    OBVIOUS
  <2> DEFINE r == reader
             d == disk
             e == edits
  <2>1. /\ Certain(r, d, e) /\ r.at # "enumerate" /\ r.at # "marker" /\ r.stack # <<>>
        /\ Last(r.stack).left # {} /\ MarkerPath(r, NextPath(r))
    BY <1>1, <1>5
  <2> HIDE DEF r, d, e
  <2>2. r.marker # <<>> /\ NextInode(r, d) = r.marker[1].inode /\ Stands(d, r.marker[1])
    BY <2>1, MarkerIsNext
  <2> QED  BY <2>2 DEF r, d, Stands, SameSnapshot
<1>9. ASSUME NEW error, Fails(error), quiet => Blames(reader, disk, error) PROVE ExactInv'
  BY <1>1, <1>9, FailsExactly
<1>10. CASE Goes("entry", [stack |-> SkipName])
  <2> DEFINE found == [stack |-> SkipName]
  <2>1. DOMAIN found = {"stack"} /\ found["stack"] = SkipName /\ Goes("entry", found)
    BY <1>10
  <2>2. Fields \subseteq DOMAIN reader
    BY DEF Inv, ReaderOK, ListsOK
  <2> HIDE DEF found
  <2>3. ASSUME NEW q, WentOn(reader, q, "entry", found)
        PROVE  AddsFile(reader, q, disk, NextPath(reader)) /\ AddsDirectory(reader, q, disk, NextPath(reader))
    <3>1. q.at = "entry" /\ q.files = reader.files /\ q.directories = reader.directories
      BY <2>1, <2>2, <2>3 DEF WentOn, Fields
    <3> QED  BY <3>1 DEF AddsFile, AddsDirectory
  <2> QED  BY <1>1, <2>1, <2>3, SkipsExactly
<1>11. CASE /\ Goes("open_directory", look) /\ IsDirectory(j) /\ ValidPath(path)
            /\ Cardinality(reader.directories) # reader.request.directories
  <2> DEFINE pending == look.pending
  <2>1. /\ DOMAIN look = {"pending"} /\ look["pending"] = pending /\ pending.parent = Last(reader.stack).inode
        /\ pending.name = NextOf(reader) /\ pending.inode = NextInode(reader, disk)
        /\ pending.stamp = disk[NextInode(reader, disk)].stamp /\ pending.path = path
    BY <1>1
  <2>2. quiet => Cardinality(reader.directories) < reader.request.directories
    <3> SUFFICES ASSUME quiet PROVE Cardinality(reader.directories) < reader.request.directories
      OBVIOUS
    <3>1. Cardinality(reader.directories) <= reader.request.directories
      BY <1>5 DEF Certain, Sound, Within
    <3>2. IsFiniteSet(TreeOf(disk).directories) /\ reader.directories \subseteq TreeOf(disk).directories
      <4>1. Rooted(reader)
        BY <1>1, NextNow
      <4> QED  BY <1>5, <4>1, DirectoriesInTree, TreeIsFinite DEF Certain
    <3>3. Cardinality(reader.directories) \in Nat /\ reader.request.directories \in Nat
      BY <1>5, <3>2, FS_Subset, FS_CardinalityType, LimitsArePositive DEF Certain
    <3> QED  BY <1>11, <3>1, <3>3
  <2> HIDE DEF look, pending, name, path, j, i
  <2> QED  BY <1>1, <1>11, <2>1, <2>2, InspectsExactly
<1>12. CASE /\ Goes("open", Inspected(i, name, path, limit)) /\ refusal = "none" /\ disk[j].kind # "other"
            /\ ~ IsDirectory(j)
  <2> DEFINE found == Inspected(i, name, path, limit)
             pending == found.pending
  <2>1. /\ DOMAIN found = {"pending"} /\ found["pending"] = pending /\ pending.parent = Last(reader.stack).inode
        /\ pending.name = NextOf(reader) /\ pending.inode = NextInode(reader, disk)
        /\ pending.stamp = disk[NextInode(reader, disk)].stamp
        /\ pending.size = size /\ pending.limit = limit /\ Goes("open", found)
    <3> HIDE DEF name, path, limit, i
    <3> QED  BY <1>1, <1>12, InspectedPending DEF name
  <2>2. quiet =>
          /\ size \in Nat /\ limit \in Int /\ size <= limit /\ Len(reader.files) < reader.request.files
          /\ size <= reader.request.bytes
          /\ Bytes(reader.files) + size <= reader.request.total
    <3> SUFFICES ASSUME quiet
                 PROVE  /\ size \in Nat /\ limit \in Int /\ size <= limit /\ Len(reader.files) < reader.request.files
                        /\ size <= reader.request.bytes /\ Bytes(reader.files) + size <= reader.request.total
      OBVIOUS
    <3>1. size \in Nat
      <4>1. disk[j].kind = "file" /\ IsObject(disk[j], edits)
        BY <1>5, <1>12 DEF IsDirectory
      <4> HIDE DEF j
      <4> QED  BY <4>1, FileContent, SizesAreNumbers
    <3>2. Sized(reader.files) /\ Len(reader.files) <= reader.request.files
      BY <1>5, FilesInTree DEF Certain, Sound, Within
    <3>3. /\ Len(reader.files) \in Nat /\ Bytes(reader.files) \in Nat /\ reader.request.files \in Nat
          /\ reader.request.bytes \in Nat /\ reader.request.total \in Nat
      BY <1>5, <3>2, BytesOfList, LimitsArePositive DEF Certain
    <3>4. Total = Bytes(reader.files)
      BY DEF Total, Bytes
    <3> HIDE DEF size
    <3>5. /\ Len(reader.files) # reader.request.files /\ ~ (size > reader.request.bytes)
          /\ ~ (size > remaining)
      BY <1>12 DEF FileRefusal
    <3> QED  BY <3>1, <3>2, <3>3, <3>4, <3>5
  <2> HIDE DEF found, pending, name, path, j, i, limit, size
  <2>3. pending.size = Size[disk[NextInode(reader, disk)].content]
    BY <2>1 DEF size, j
  <2> QED  BY <1>1, <1>12, <2>1, <2>2, <2>3, InspectsExactly
<1> HIDE DEF i, name, path, j, size, remaining, refusal, limit, marks, look
<1>13. CASE ~ HasEntry(i, name)
  BY <1>2, <1>9, <1>13 DEF Blames
<1>14. CASE HasEntry(i, name) /\ disk[j].kind = "other"
  BY <1>2, <1>6, <1>9, <1>14 DEF Blames
<1>15. CASE HasEntry(i, name) /\ disk[j].kind # "other" /\ IsMarker(path)
  BY <1>2, <1>7, <1>8, <1>9, <1>10, <1>15
<1>16. CASE HasEntry(i, name) /\ disk[j].kind # "other" /\ ~ IsMarker(path) /\ ~ ValidPath(path)
  BY <1>2, <1>6, <1>7, <1>9, <1>16 DEF Blames
<1>17. CASE HasEntry(i, name) /\ disk[j].kind # "other" /\ ~ IsMarker(path) /\ ValidPath(path) /\ IsDirectory(j)
  <2>1. disk[j].kind = "directory"
    BY <1>17 DEF IsDirectory
  <2>2. CASE Cardinality(reader.directories) = reader.request.directories
    BY <1>2, <1>3, <1>6, <1>9, <1>17, <2>1, <2>2 DEF Blames
  <2> QED  BY <1>2, <1>3, <1>11, <1>17, <2>2
<1>18. CASE HasEntry(i, name) /\ disk[j].kind # "other" /\ ~ IsMarker(path) /\ ValidPath(path) /\ ~ IsDirectory(j)
  <2>1. quiet => disk[j].kind = "file"
    BY <1>5, <1>18 DEF IsDirectory
  <2>2. CASE refusal # "none"
    BY <1>2, <1>4, <1>6, <1>7, <1>9, <1>18, <2>1, <2>2 DEF Blames
  <2> QED  BY <1>2, <1>4, <1>12, <1>18, <2>2
<1> QED  BY <1>13, <1>14, <1>15, <1>16, <1>17, <1>18

\* What an undisturbed call was about to read or open is there as it was.
LEMMA PendingNow ==
  ASSUME Inv, ExactInv, edits = reader.began, reader.at \in Expecting
  PROVE  LET pending == reader.pending
         IN  /\ Certain(reader, disk, edits) /\ ListsOK(reader) /\ PhaseOK(reader, edits)
             /\ PendingOK(reader, disk, edits) /\ PendingStands(reader, disk) /\ PendingFits(reader)
             /\ ~ Gone /\ Opened = pending.inode /\ SameSnapshot(pending)
             /\ reader.stack # <<>> =>
                  /\ Last(reader.stack).left # {} /\ pending.path = NextPath(reader)
                  /\ pending.inode = NextInode(reader, disk) /\ ~ MarkerPath(reader, pending.path)
                  /\ IsObject(disk[pending.inode], edits) /\ IsPlaced(disk, pending.path, pending.inode)
<1> DEFINE d == disk
           e == edits
           r == reader
           pending == r.pending
<1>1. Certain(r, d, e) /\ ListsOK(r) /\ PhaseOK(r, e) /\ PendingOK(r, d, e)
  BY NowCertain DEF Searching, Running, Reading, Expecting
<1>2. PendingStands(r, d) /\ PendingFits(r)
  BY <1>1 DEF Certain, Undisturbed
<1>3. ~ Gone /\ Opened = pending.inode /\ SameSnapshot(pending)
  BY <1>2 DEF PendingStands, Gone, Opened, HasEntry, EntryNames, Entry, Stands, SameSnapshot
<1>4. ASSUME r.stack # <<>>
      PROVE  /\ Last(r.stack).left # {} /\ pending.path = NextPath(r) /\ pending.inode = NextInode(r, d)
             /\ ~ MarkerPath(r, pending.path)
             /\ IsObject(d[pending.inode], e) /\ IsPlaced(d, pending.path, pending.inode)
  <2>1. Last(r.stack).left # {} /\ r.at # "enumerate"
    BY <1>2, <1>4 DEF PendingStands, Expecting
  <2>2. LET top == Last(r.stack)
            name == First(top.left)
        IN  /\ pending.path = Append(top.path, name) /\ ~ MarkerPath(r, pending.path)
            /\ Stands(d, top) /\ name \in DOMAIN d[top.inode].entries => d[top.inode].entries[name] = pending.inode
    BY <1>4, ReaderIsNext
  <2> HIDE DEF d, e, r, pending
  <2>3. /\ Stands(d, Last(r.stack)) /\ NextOf(r) \in DOMAIN d[Last(r.stack).inode].entries
        /\ IsObject(d[NextInode(r, d)], e) /\ IsPlaced(d, NextPath(r), NextInode(r, d))
    BY <1>1, <1>4, <2>1, NextInTree
  <2>4. pending.path = NextPath(r) /\ pending.inode = NextInode(r, d)
    BY <2>2, <2>3 DEF NextPath, NextOf, NextInode
  <2> QED  BY <2>1, <2>2, <2>3, <2>4
<1> QED  BY <1>1, <1>2, <1>3, <1>4

\* Opening a directory that was inspected.
LEMMA OpenDirectoryExactly ==
  ASSUME Inv, ExactInv, OpenDirectory
  PROVE  ExactInv'
<1> DEFINE path == reader.pending.path
           frame == Frame(path, Opened)
           directories == reader.directories \cup {path}
           found == [directories |-> directories, stack |-> SkipName, frame |-> frame]
           quiet == edits = reader.began
<1>1. /\ reader.at = "open_directory" /\ reader.at \in Searching /\ reader.at \in Expecting
      /\ \/ Fails("io")
         \/ Opened # reader.pending.inode /\ Fails("race")
         \/ Goes("enumerate", found)
  BY DEF OpenDirectory, At, Searching, Running, Reading, Expecting
<1>2. reader.stack # <<>>
  BY <1>1 DEF Inv, ReaderOK, PhaseOK
<1>3. CASE Fails("io")
  BY <1>1, <1>3, FailsExactly DEF Blames
<1>4. CASE Opened # reader.pending.inode /\ Fails("race")
  <2>1. ~ quiet
    BY <1>1, <1>4, PendingNow
  <2> QED  BY <1>1, <1>4, <2>1, FailsExactly
<1>5. CASE Goes("enumerate", found)
  <2>1. /\ DOMAIN found = {"directories", "stack", "frame"} /\ found["directories"] = directories
        /\ found["stack"] = SkipName /\ found["frame"] = frame /\ Goes("enumerate", found)
    BY <1>5
  <2>2. frame.path = path /\ frame.inode = Opened /\ Stands(disk, frame)
    BY DEF Frame, Stands
  <2>3. quiet =>
          /\ Last(reader.stack).left # {} /\ path = NextPath(reader) /\ ~ MarkerPath(reader, path)
          /\ IsPlaced(disk, path, Opened) /\ ValidPath(path)
          /\ Cardinality(reader.directories) < reader.request.directories
    <3> SUFFICES ASSUME quiet
                 PROVE  /\ Last(reader.stack).left # {} /\ path = NextPath(reader) /\ ~ MarkerPath(reader, path)
                        /\ IsPlaced(disk, path, Opened) /\ ValidPath(path)
                        /\ Cardinality(reader.directories) < reader.request.directories
      OBVIOUS
    <3>1. /\ Last(reader.stack).left # {} /\ path = NextPath(reader) /\ ~ MarkerPath(reader, path)
          /\ IsPlaced(disk, path, reader.pending.inode) /\ Opened = reader.pending.inode /\ PendingFits(reader)
      BY <1>1, <1>2, PendingNow
    <3> QED  BY <1>1, <3>1 DEF PendingFits
  <2>4. Fields \subseteq DOMAIN reader
    BY DEF Inv, ReaderOK, ListsOK
  <2> HIDE DEF found, frame, path, directories
  <2>5. ASSUME NEW q, quiet, WentOn(reader, q, "enumerate", found)
        PROVE  AddsFile(reader, q, disk, NextPath(reader)) /\ AddsDirectory(reader, q, disk, NextPath(reader))
    <3>1. q.at = "enumerate" /\ q.files = reader.files /\ q.directories = directories /\ q.frame = frame
      BY <2>1, <2>4, <2>5 DEF WentOn, Fields
    <3>2. q.directories = reader.directories \cup {path}
      BY <3>1 DEF directories
    <3> QED  BY <2>2, <2>3, <2>5, <3>1, <3>2 DEF AddsFile, AddsDirectory
  <2> QED  BY <1>1, <1>2, <2>1, <2>3, <2>5, SkipsExactly
<1> QED  BY <1>1, <1>3, <1>4, <1>5

\* What was read and did not change is kept.
LEMMA ReinspectExactly ==
  ASSUME Inv, ExactInv, Reinspect
  PROVE  ExactInv'
<1> DEFINE pending == reader.pending
           seen == [path |-> pending.path, inode |-> pending.inode,
                    stamp |-> disk[pending.inode].stamp, content |-> reader.content]
           files == Append(reader.files, seen)
           marker == <<seen>>
           named == [marker |-> marker]
           kept == [files |-> files, stack |-> SkipName]
           quiet == edits = reader.began
           q == reader'
<1>1. /\ reader.at = "reinspect" /\ reader.at \in Searching /\ reader.at \in Expecting
      /\ \/ \E error : Fails(error) /\
              \/ Size[reader.content] > pending.limit
              \/ Size[reader.content] # pending.size \/ ~ SameSnapshot(pending)
         \/ IsMarker(pending.path) /\ Goes("enumerate", named)
         \/ ~ IsMarker(pending.path) /\ Goes("entry", kept)
  BY DEF Reinspect, At, Searching, Running, Reading, Expecting
<1>2. MarkerPath(reader, pending.path) <=> IsMarker(pending.path)
  BY DEF MarkerPath, Manages, IsMarker, Managed
<1>3. IsMarker(pending.path) <=> reader.stack = <<>>
  <2>1. PendingOK(reader, disk, edits)
    BY <1>1 DEF Inv
  <2> QED  BY <1>2, <2>1 DEF PendingOK, MarkerPath
<1>4. quiet =>
        /\ Certain(reader, disk, edits) /\ PendingFits(reader) /\ PendingStands(reader, disk)
        /\ SameSnapshot(pending) /\ reader.content = disk[pending.inode].content
        /\ pending.size = Size[reader.content] /\ pending.size <= pending.limit /\ pending.size \in Nat
        /\ pending.limit \in Int
        /\ disk[pending.inode].kind = "file" /\ PhaseOK(reader, edits)
  <2> SUFFICES ASSUME quiet
               PROVE  /\ Certain(reader, disk, edits) /\ PendingFits(reader) /\ PendingStands(reader, disk)
                      /\ SameSnapshot(pending) /\ reader.content = disk[pending.inode].content
                      /\ pending.size = Size[reader.content] /\ pending.size <= pending.limit
                      /\ pending.size \in Nat /\ pending.limit \in Int
                      /\ disk[pending.inode].kind = "file" /\ PhaseOK(reader, edits)
    OBVIOUS
  <2>1. /\ Certain(reader, disk, edits) /\ PendingOK(reader, disk, edits) /\ PendingFits(reader)
        /\ PendingStands(reader, disk) /\ SameSnapshot(pending) /\ PhaseOK(reader, edits)
    BY <1>1, PendingNow
  <2>2. reader.content = disk[pending.inode].content /\ disk[pending.inode].kind = "file"
    BY <1>1, <2>1 DEF PendingOK, SameSnapshot, Stands
  <2> QED  BY <1>1, <2>1, <2>2 DEF PendingStands, PendingFits, LooksAtFile
<1>5. /\ seen.path = pending.path /\ seen.inode = pending.inode /\ seen.content = reader.content
      /\ Stands(disk, seen)
  BY DEF Stands
<1> HIDE DEF pending, seen
<1>6. CASE \E error : Fails(error) /\
              \/ Size[reader.content] > pending.limit
              \/ Size[reader.content] # pending.size \/ ~ SameSnapshot(pending)
  <2>1. PICK error : Fails(error) /\
              \/ Size[reader.content] > pending.limit
              \/ Size[reader.content] # pending.size \/ ~ SameSnapshot(pending)
    BY <1>6
  <2>2. ASSUME quiet PROVE FALSE
    BY <1>4, <2>1, <2>2
  <2> QED  BY <1>1, <2>1, <2>2, FailsExactly
<1>7. CASE IsMarker(pending.path) /\ Goes("enumerate", named)
  <2>1. DOMAIN named = {"marker"} /\ named["marker"] = marker /\ Goes("enumerate", named)
    BY <1>7
  <2>2. DOMAIN marker = {1} /\ marker[1] = seen /\ marker # <<>>
    OBVIOUS
  <2> HIDE DEF named, marker, q
  <2>3. WentOn(reader, q, "enumerate", named) /\ Fields \subseteq DOMAIN reader
    BY <2>1, GoesFields DEF q, Inv, ReaderOK, ListsOK
  <2>4. /\ q.at = "enumerate" /\ SameLists(reader, q) /\ q.marker = marker /\ q.entries = reader.entries
    BY <2>1, <2>3 DEF WentOn, SameLists, Fields
  <2>5. reader.stack = <<>>
    BY <1>3, <1>7
  <2>6. ASSUME quiet PROVE Sound(q) /\ Undisturbed(q, disk)
    <3>1. BeforeNames(reader)
      BY <1>1, <2>5 DEF BeforeNames
    <3>2. /\ Untouched(reader) /\ IsRootFrame(reader.frame) /\ Stands(disk, reader.frame)
          /\ reader.request \in Requests /\ "frame" \in DOMAIN reader
      BY <1>1, <1>4, <2>6, <3>1 DEF PhaseOK, Beginning, Certain, Undisturbed, Searching, Running, Reading, Expecting
    <3>3. q.frame = reader.frame
      BY <2>1, <2>3, <3>2 DEF WentOn
    <3>4. reader.entries = 0
      <4>1. Counted(reader) = {}
        BY <3>2, NoElements DEF Counted, Frames, Untouched
      <4> QED  BY <1>4, <2>6, <4>1, FS_EmptySet DEF Certain, Sound, Within
    <3>5. /\ Marker \in DOMAIN disk[Root].entries /\ disk[Root].entries[Marker] = pending.inode
          /\ pending.limit = reader.request.manifest
      BY <1>1, <1>4, <2>5, <2>6 DEF PendingStands, PendingFits, LooksAtFile, pending
    <3>6. MarkerKnown(q, disk)
      BY <1>5, <2>2, <2>4, <3>5 DEF MarkerKnown, MarkerStandsIn
    <3>7. seen.content \in DOMAIN Size /\ Size[seen.content] <= reader.request.manifest
      <4>1. IsObject(disk[pending.inode], edits)
        BY <1>1, <1>4, <2>6 DEF PendingOK, Seen, Inv, FileSystem, pending
      <4>2. disk[pending.inode].content \in DOMAIN Size
        BY <1>4, <2>6, <4>1, FileContent
      <4> QED  BY <1>4, <1>5, <2>6, <3>5, <4>2
    <3>8. \A k \in DOMAIN q.marker :
            q.marker[k].content \in DOMAIN Size /\ Size[q.marker[k].content] <= q.request.manifest
      BY <2>2, <2>4, <3>7 DEF SameLists
    <3> QED  BY <2>4, <3>2, <3>3, <3>4, <3>6, <3>8, RootOpens DEF SameLists, Untouched
  <2>7. "enumerate" \in Searching /\ "enumerate" \notin Validating
    BY DEF Searching, Running, Reading, Validating
  <2> QED  BY <2>1, <2>6, <2>7, LooksExactly DEF q
<1>8. CASE ~ IsMarker(pending.path) /\ Goes("entry", kept)
  <2>1. /\ DOMAIN kept = {"files", "stack"} /\ kept["files"] = files /\ kept["stack"] = SkipName
        /\ Goes("entry", kept)
    BY <1>8
  <2>2. reader.stack # <<>>
    BY <1>3, <1>8
  <2>3. quiet =>
          /\ Last(reader.stack).left # {} /\ pending.path = NextPath(reader) /\ IsObject(disk[pending.inode], edits)
    BY <1>1, <2>2, PendingNow DEF pending
  <2> HIDE DEF kept, files
  <2>4. Fields \subseteq DOMAIN reader
    BY DEF Inv, ReaderOK, ListsOK
  <2>5. ASSUME NEW p, quiet, WentOn(reader, p, "entry", kept)
        PROVE  AddsFile(reader, p, disk, NextPath(reader)) /\ AddsDirectory(reader, p, disk, NextPath(reader))
    <3>1. p.at = "entry" /\ p.files = files /\ p.directories = reader.directories
      BY <2>1, <2>4, <2>5 DEF WentOn, Fields
    <3>2. /\ Len(reader.files) < reader.request.files /\ pending.size <= reader.request.bytes
          /\ Bytes(reader.files) + pending.size <= reader.request.total
      BY <1>1, <1>4, <2>2, <2>5 DEF PendingFits, LooksAtFile, pending
    <3>3. seen.content \in DOMAIN Size /\ Size[seen.content] = pending.size
      <4>1. disk[pending.inode].content \in DOMAIN Size
        BY <1>4, <2>3, <2>5, FileContent
      <4> QED  BY <1>4, <1>5, <2>5, <4>1
    <3>4. FileFits(reader, seen)
      BY <3>2, <3>3 DEF FileFits
    <3>5. seen.path = NextPath(reader) /\ p.files = Append(reader.files, seen)
      BY <1>5, <2>3, <2>5, <3>1 DEF files
    <3>6. AddsFile(reader, p, disk, NextPath(reader))
      BY <1>5, <3>2, <3>3, <3>4, <3>5 DEF AddsFile
    <3> QED  BY <3>1, <3>6 DEF AddsDirectory
  <2> QED  BY <1>1, <2>1, <2>2, <2>3, <2>5, SkipsExactly
<1> QED  BY <1>1, <1>6, <1>7, <1>8

\* A step of the last look leaves everything as it was.
LEMMA ValidatesExactly ==
  ASSUME Inv, ExactInv, reader.at \in {"entry"} \cup Validating, reader.stack = <<>>, NEW place \in Validating,
         NEW unchecked, Goes(place, [unchecked |-> unchecked])
  PROVE  ExactInv'
<1> DEFINE found == [unchecked |-> unchecked]
           q == reader'
<1>1. DOMAIN found = {"unchecked"} /\ Goes(place, found)
  OBVIOUS
<1> HIDE DEF found, q
<1>2. WentOn(reader, q, place, found) /\ Fields \subseteq DOMAIN reader
  BY <1>1, GoesFields DEF q, Inv, ReaderOK, ListsOK
<1>3. /\ q.at = place /\ q.stack = reader.stack /\ q.entries = reader.entries
      /\ q.retained = reader.retained /\ q.files = reader.files /\ q.directories = reader.directories
      /\ q.marker = reader.marker /\ q.request = reader.request
  BY <1>1, <1>2 DEF WentOn, Fields
<1>4. reader.at \in Searching /\ place \in Searching
  BY DEF Searching, Running, Reading, Validating
<1>5. ASSUME edits = reader.began PROVE Sound(q) /\ Undisturbed(q, disk) /\ Knows(q, disk, edits)
  <2> DEFINE d == disk
             e == edits
             r == reader
  <2>1. Certain(r, d, e)
    BY <1>4, <1>5, NowCertain
  <2>2. ~ BeforeNames(r) /\ ~ BeforeNames(q) /\ q.at \notin Expecting /\ r.at # "enumerate" /\ q.at # "enumerate"
    BY <1>3 DEF BeforeNames, Validating, Expecting
  <2>3. /\ q.stack = r.stack /\ q.entries = r.entries
        /\ q.retained = r.retained /\ q.files = r.files /\ q.directories = r.directories
        /\ q.marker = r.marker /\ q.request = r.request /\ Frames(q) = Frames(r)
    BY <1>3 DEF Frames
  <2> HIDE DEF d, e, r
  <2>4. Sound(q) /\ Undisturbed(q, d)
    BY <2>1, <2>2, <2>3, LooksSoundly
  <2>5. Knows(q, d, e)
    BY <2>1, <2>2, <2>3, SameKnows DEF Certain
  <2> QED  BY <2>4, <2>5 DEF d, e
<1> QED  BY <1>1, <1>4, <1>5, LooksExactly DEF q

\* The marker is looked at again.
LEMMA ValidateMarkerExactly ==
  ASSUME Inv, ExactInv, ValidateMarker
  PROVE  ExactInv'
<1>1. /\ reader.at = "entry" /\ reader.stack = <<>> /\ reader.at \in Searching /\ "validate_directories" \in Validating
      /\ IF MarkerStands THEN Goes("validate_directories", [unchecked |-> reader.retained]) ELSE Refuses("race")
  BY DEF ValidateMarker, At, Searching, Running, Reading, Validating
<1>2. ASSUME edits = reader.began PROVE MarkerStands
  <2>1. Certain(reader, disk, edits)
    BY <1>1, <1>2, NowCertain
  <2>2. ~ BeforeNames(reader)
    BY <1>1 DEF BeforeNames
  <2>3. MarkerStandsIn(reader, disk)
    BY <2>1, <2>2 DEF Certain, Undisturbed, MarkerKnown
  <2> QED  BY <2>3 DEF MarkerStandsIn, MarkerStands, HasEntry, EntryNames, Entry, Stands, SameSnapshot
<1>3. CASE MarkerStands
  BY <1>1, <1>3, ValidatesExactly
<1>4. CASE ~ MarkerStands
  BY <1>1, <1>2, <1>4, RefusesExactly
<1> QED  BY <1>3, <1>4

\* A directory is looked at again.
LEMMA ValidateDirectoryExactly ==
  ASSUME Inv, ExactInv, ValidateDirectory
  PROVE  ExactInv'
<1> DEFINE seen == Head(reader.unchecked)
           change == Changed(seen.names, seen)
<1>1. /\ reader.at = "validate_directories" /\ reader.at \in Searching /\ reader.at \in Validating
      /\ "validate_files" \in Validating
      /\ \/ Goes("validate_files", [unchecked |-> reader.files])
         \/ reader.unchecked # <<>> /\ change # "none" /\ Fails(change)
         \/ Goes("validate_directories", [unchecked |-> Tail(reader.unchecked)])
  BY DEF ValidateDirectory, At, Searching, Running, Validating
<1>2. reader.stack = <<>>
  BY <1>1 DEF Inv, ReaderOK, PhaseOK
<1>3. CASE reader.unchecked # <<>> /\ change # "none" /\ Fails(change)
  <2>1. ASSUME edits = reader.began PROVE FALSE
    <3>1. Certain(reader, disk, edits)
      BY <1>1, <2>1, NowCertain
    <3>2. IsList(reader.unchecked) /\ ToSet(reader.unchecked) \subseteq ToSet(reader.retained)
      BY <1>1 DEF Inv, WasSeen, Validated
    <3>3. seen \in ToSet(reader.unchecked)
      BY <1>3, <3>2, FirstElement DEF IsList
    <3>4. seen \in Frames(reader) /\ seen \in OpenFrames(reader)
      BY <3>2, <3>3 DEF Frames, OpenFrames
    <3>5. seen.names \subseteq Names /\ EntryNames(seen.inode) = seen.names /\ Stands(disk, seen)
      BY <3>1, <3>4 DEF Certain, Sound, Listed, Undisturbed, EntryNames
    <3> HIDE DEF seen
    <3>6. change = "none"
      BY <3>5, StandsUnchanged
    <3> QED  BY <1>3, <3>6
  <2> HIDE DEF change
  <2> QED  BY <1>1, <1>3, <2>1, FailsExactly
<1> QED  BY <1>1, <1>2, <1>3, ValidatesExactly

\* A file is looked at again.
LEMMA ValidateFileExactly ==
  ASSUME Inv, ExactInv, ValidateFile
  PROVE  ExactInv'
<1> DEFINE seen == Head(reader.unchecked)
<1>1. /\ reader.at = "validate_files" /\ reader.at \in Searching /\ reader.at \in Validating
      /\ reader.unchecked # <<>>
      /\ IF SameSnapshot(seen) THEN Goes("validate_files", [unchecked |-> Tail(reader.unchecked)])
         ELSE Fails("race")
  BY DEF ValidateFile, At, Searching, Running, Validating
<1>2. reader.stack = <<>>
  BY <1>1 DEF Inv, ReaderOK, PhaseOK
<1>3. ASSUME edits = reader.began PROVE SameSnapshot(seen)
  <2>1. Certain(reader, disk, edits)
    BY <1>1, <1>3, NowCertain
  <2>2. IsList(reader.unchecked) /\ ToSet(reader.unchecked) \subseteq ToSet(reader.files)
    BY <1>1 DEF Inv, WasSeen, Validated
  <2>3. seen \in ToSet(reader.unchecked)
    BY <1>1, <2>2, FirstElement DEF IsList
  <2> HIDE DEF seen
  <2>4. Stands(disk, seen)
    BY <2>1, <2>2, <2>3 DEF Certain, Undisturbed
  <2> QED  BY <2>4 DEF Stands, SameSnapshot
<1>4. CASE SameSnapshot(seen)
  BY <1>1, <1>2, <1>4, ValidatesExactly
<1>5. CASE ~ SameSnapshot(seen)
  BY <1>1, <1>3, <1>5, FailsExactly
<1> QED  BY <1>4, <1>5

\* What was read in full is within the limits, so it is readable when its paths do
\* not collide.
LEMMA AllIsReadable ==
  ASSUME NEW r, NEW d, NEW e, Certain(r, d, e), AllStand(r, d, e), MarkerKnown(r, d)
  PROVE  Readable(TreeOf(d), r.request) <=> ContentSetError(FilesRead(r)) = "none"
<1> DEFINE tree == TreeOf(d)
           kept == Kept(r, tree)
           set == FilesBeside(r, d)
<1>1. /\ tree.others = {} /\ r.directories = tree.directories /\ FilesRead(r) = set
      /\ MarkerTold(r) = {f.content : f \in kept}
  BY WhatStandsIsHeld DEF FilesBeside
<1>2. set = RecordsOf(r.files) /\ Sized(r.files) /\ PathsDiffer(r.files)
  BY <1>1, FilesInTree DEF RecordsOf, RecordOf, FilesRead
<1>3. IsFiniteSet(set) /\ \A f \in set : f.content \in DOMAIN Size
  BY FilesBesideFinite DEF Certain
<1>4. Within(r) /\ Listed(r) /\ r.directories = {g.path : g \in OpenFrames(r)} \ {<<>>}
  BY DEF Certain, Sound, AllStand
<1>5. r.request.marker = "required" => kept # {}
  <2> SUFFICES ASSUME r.request.marker = "required" PROVE MarkerTold(r) # {}
    BY <1>1
  <2>1. r.marker # <<>>
    BY DEF MarkerKnown
  <2> QED  BY <2>1, ReadIsPlaced
<1>6. \A f \in kept : Size[f.content] <= r.request.manifest
  <2> SUFFICES ASSUME NEW f \in kept PROVE Size[f.content] <= r.request.manifest
    OBVIOUS
  <2>1. f.content \in MarkerTold(r)
    BY <1>1
  <2>2. PICK k \in DOMAIN r.marker : f.content = r.marker[k].content
    BY <2>1 DEF MarkerTold
  <2> QED  BY <1>4, <2>2 DEF Within
<1>7. /\ Manages(r) => <<Marker>> \notin tree.directories
      /\ \A p \in tree.directories : ValidPath(p)
  BY <1>1, <1>4 DEF Listed, MarkerPath
<1> HIDE DEF set
<1>8. Len(r.files) = Cardinality(set) /\ Bytes(r.files) = SumFunction(SizesOf(set))
  BY <1>2, <1>3, RecordsWeigh
<1>9. \A f \in set : Size[f.content] <= r.request.bytes
  BY <1>2, <1>4 DEF RecordsOf, RecordOf, Within, FileFits
<1>10. /\ Cardinality(set) <= r.request.files /\ SumFunction(SizesOf(set)) <= r.request.total
       /\ Cardinality(tree.directories) <= r.request.directories
  BY <1>1, <1>4, <1>8 DEF Within
<1> QED  BY <1>1, <1>5, <1>6, <1>7, <1>9, <1>10, ReadableMeans DEF set

\* The reader returns what it read.
LEMMA ReturnExactly ==
  ASSUME Inv, ExactInv, Return
  PROVE  ExactInv'
<1> DEFINE result == [files |-> Content, directories |-> reader.directories, marker |-> MarkerBytes]
           found == [result |-> result]
           right == ContentSetError(Content) = "none"
           q == reader'
<1>1. /\ reader.at = "validate_files" /\ reader.at \in Searching /\ reader.at \in Validating
      /\ reader.unchecked = <<>>
      /\ IF right THEN Goes("returned", found) ELSE Fails("invalid_content_set")
  BY DEF Return, At, Searching, Running, Validating
<1>2. ASSUME edits = reader.began PROVE Readable(TreeOf(disk), reader.request) <=> right
  <2> DEFINE d == disk
             e == edits
             r == reader
  <2>1. Certain(r, d, e) /\ ListsOK(r) /\ PhaseOK(r, e)
    BY <1>1, <1>2, NowCertain
  <2>2. ~ BeforeNames(r) /\ r.at = "validate_files"
    BY <1>1 DEF BeforeNames
  <2>3. Content = FilesRead(r)
    BY DEF Content, FilesRead
  <2> HIDE DEF d, e, r
  <2>4. MarkerKnown(r, d) /\ Rooted(r) /\ r.stack = <<>>
    BY <2>1, <2>2 DEF Certain, Undisturbed, PhaseOK, Validating
  <2>5. OpenFrames(r) = Frames(r) /\ Frames(r) = ToSet(r.retained)
    BY <2>2, <2>4, NoElements DEF OpenFrames, Frames
  <2>6. \A g \in OpenFrames(r) : Checked(d, g) /\ g.left = {}
    BY <2>1, <2>5 DEF Certain, Undisturbed, ListsOK, Checked
  <2>7. AllStand(r, d, e)
    BY <2>1, <2>4, <2>5, <2>6 DEF Certain, Undisturbed, AllStand, MarkerKnown, Rooted
  <2>8. Readable(TreeOf(d), r.request) <=> ContentSetError(FilesRead(r)) = "none"
    BY <2>1, <2>4, <2>7, AllIsReadable
  <2> QED  BY <2>3, <2>8 DEF d, r
<1>3. DOMAIN found = {"result"} /\ found["result"] = result /\ "error" \notin DOMAIN result
  OBVIOUS
<1> HIDE DEF result, found, right, q
<1>4. CASE ~ right
  BY <1>1, <1>2, <1>4, FailsExactly DEF Blames
<1>5. CASE right
  <2>1. WentOn(reader, q, "returned", found) /\ Fields \subseteq DOMAIN reader
    BY <1>1, <1>3, <1>5, GoesFields DEF q, Inv, ReaderOK, ListsOK
  <2>2. q.at = "returned" /\ "result" \in DOMAIN q /\ q.result = result /\ q.request = reader.request
    BY <1>3, <2>1 DEF WentOn, Fields
  <2>3. ASSUME edits = reader.began PROVE Exact(q, disk, edits)
    <3>1. Answers(q, disk)
      BY <1>2, <1>3, <1>5, <2>2, <2>3 DEF Answers
    <3> QED  BY <2>2, <3>1 DEF Exact, Searching, Running, Reading, Validating
  <2> QED  BY <1>1, <1>3, <1>5, <2>3, StepsExactly DEF q
<1> QED  BY <1>4, <1>5

\* A failure tells what failed.
LEMMA FailExactly ==
  ASSUME Inv, ExactInv, Fail
  PROVE  ExactInv'
<1> DEFINE result == [error |-> reader.error, marker |-> MarkerBytes]
           found == [result |-> result]
           q == reader'
<1>1. /\ reader.at = "failing"
      /\ IF MarkerStands THEN Goes("returned", found) ELSE Refuses("race")
  BY DEF Fail, At
<1>2. ASSUME edits = reader.began PROVE MarkerStands /\ Blames(reader, disk, reader.error)
  <2>1. MarkerStandsIn(reader, disk) /\ Blames(reader, disk, reader.error)
    BY <1>1, <1>2 DEF ExactInv, Exact
  <2> QED  BY <2>1 DEF MarkerStandsIn, MarkerStands, HasEntry, EntryNames, Entry, Stands, SameSnapshot
<1>3. /\ DOMAIN found = {"result"} /\ found["result"] = result /\ "error" \in DOMAIN result
      /\ result.error = reader.error
  OBVIOUS
<1> HIDE DEF result, found, q
<1>4. CASE ~ MarkerStands
  BY <1>1, <1>2, <1>4, RefusesExactly
<1>5. CASE MarkerStands
  <2>1. WentOn(reader, q, "returned", found) /\ Fields \subseteq DOMAIN reader
    BY <1>1, <1>3, <1>5, GoesFields DEF q, Inv, ReaderOK, ListsOK
  <2>2. q.at = "returned" /\ "result" \in DOMAIN q /\ q.result = result /\ q.request = reader.request
    BY <1>3, <2>1 DEF WentOn, Fields
  <2>3. ASSUME edits = reader.began PROVE Exact(q, disk, edits)
    <3>1. Answers(q, disk)
      BY <1>2, <1>3, <2>2, <2>3 DEF Answers, Blames
    <3> QED  BY <2>2, <3>1 DEF Exact, Searching, Running, Reading, Validating
  <2> QED  BY <1>1, <1>3, <1>5, <2>3, StepsExactly DEF q
<1> QED  BY <1>4, <1>5

\* A look that is refused.
LEMMA LookFailsExactly ==
  ASSUME Inv, ExactInv, LookFails
  PROVE  ExactInv'
<1>1. reader.at \notin {"idle", "failing", "returned"} => reader.at \in Searching
  BY DEF Inv, ReaderOK, PhaseOK, Searching
<1> QED  BY <1>1, FailsExactly, RefusesExactly DEF LookFails, Blames

\* After an edit there is nothing to be exact about.
LEMMA EditExactly ==
  ASSUME ExactInv, edits \in Nat, Edit
  PROVE  ExactInv'
<1>1. edits' = edits + 1 /\ reader' = reader
  BY DEF Edit
<1>2. reader.began \in Nat /\ edits + 1 >= reader.began /\ edits + 1 # reader.began /\ reader.request \in Requests
  BY DEF ExactInv
<1> QED  BY <1>1, <1>2 DEF ExactInv

\* A call that has not begun.
LEMMA InitExactly ==
  ASSUME Init
  PROVE  ExactInv
<1>1. edits \in Nat
  BY StartsAreFileSystems DEF Init
<1>2. PICK request \in Requests : reader = Idle(request)
  BY DEF Init
<1>3. reader.at = "idle" /\ reader.entries = 0 /\ reader.began = edits /\ reader.request = request
  BY <1>2 DEF Idle
<1>4. Exact(reader, disk, edits)
  BY <1>3 DEF Exact, Searching, Running, Reading, Validating
<1> QED  BY <1>1, <1>3, <1>4 DEF ExactInv

\* A step keeps an undisturbed read exact, and an edit disturbs it.
LEMMA NextExactly ==
  ASSUME Inv, ExactInv, [Next]_vars
  PROVE  ExactInv'
<1>1. CASE UNCHANGED vars
  BY <1>1 DEF vars, ExactInv
<1>2. CASE Step
  BY <1>2, OpenRootExactly, InspectMarkerExactly, EnumerateExactly, ReadEntryExactly, OpenDirectoryExactly,
     OpenExactly, ReadExactly, ReinspectExactly, FinishDirectoryExactly, ValidateMarkerExactly,
     ValidateDirectoryExactly, ValidateFileExactly, ReturnExactly, FailExactly DEF Step
<1>3. CASE Edit
  BY <1>3, EditExactly DEF Inv
<1> QED  BY <1>1, <1>2, <1>3, LookFailsExactly DEF Next

\* ReadableIsRead, of every behaviour: with no edit and no failing look, a call
\* succeeds exactly when the tree it was given is within every limit of its
\* request, under portable paths that do not collide.
THEOREM ReadsTheReadable == Spec => []ReadableIsRead
<1>1. Init => Inv /\ ExactInv
  BY InitHolds, InitExactly
<1>2. Inv /\ ExactInv /\ [Next]_vars => (Inv /\ ExactInv)'
  BY NextKeeps, NextExactly
<1>3. Inv /\ ExactInv => ReadableIsRead
  <2> SUFFICES ASSUME ExactInv, Returned, edits = reader.began
               PROVE  \/ Succeeded /\ Readable(TreeOf(disk), reader.request)
                      \/ ~ Succeeded /\ reader.result.error \in {"io", "root_not_directory"}
                      \/ ~ Succeeded /\ ~ Readable(TreeOf(disk), reader.request)
    BY DEF ReadableIsRead
  <2>1. Answers(reader, disk)
    BY DEF ExactInv, Exact, Returned, At
  <2> QED  BY <2>1 DEF Answers, Succeeded
<1> QED  BY <1>1, <1>2, <1>3, PTL DEF Spec
=============================================================================
