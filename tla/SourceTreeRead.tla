---------------------------- MODULE SourceTreeRead ----------------------------
(***************************************************************************)
(* One call of the source tree reader (gooir-artifact-sdk/src/source.rs)   *)
(* while other programs edit the tree.  A step is one look at the file     *)
(* system: what is found is compared with what an earlier look found, and  *)
(* every file and directory is looked at once more before the call         *)
(* returns.                                                                *)
(*                                                                         *)
(* The file system is a set of inodes.  A stamp stands for what            *)
(* same_snapshot compares besides the inode: size, links and the times of  *)
(* change.  Every edit is taken to stamp what it touches anew, so times    *)
(* are as fine as edits are.                                               *)
(***************************************************************************)
EXTENDS ContentSet, SequencesExt

CONSTANTS Inodes,        \* names of file system objects
          Root,          \* the inode of the directory that is read
          NameOrder,     \* all names, in the order of their bytes
          Depth,         \* bound on the length of paths
          Size,          \* [contents -> bytes]
          Starts,        \* file systems a call may find, with the edits made already
          Requests,      \* calls: limits and what is expected of the marker
          MaxEdits       \* bound on the edits

ASSUME RootIsAnInode == Root \in Inodes
ASSUME DepthIsNumber == Depth \in Nat
\* The code refuses limits of zero.
ASSUME LimitsArePositive ==
  \A r \in Requests :
    \A k \in {"files", "directories", "bytes", "total", "manifest"} : r[k] \in Nat \ {0}
ASSUME NamesAreListed == NameOrder \in Seq(ToSet(NameOrder))
ASSUME SizesAreNumbers == \A content \in DOMAIN Size : Size[content] \in Nat

VARIABLES disk,     \* [Inodes -> object]
          edits,    \* stamps given out so far
          reader,   \* the call
          moments   \* trees the root has held since it was opened (history)

vars == <<disk, edits, reader, moments>>

Free == [kind |-> "free"]
FileObject(content, stamp) == [kind |-> "file", content |-> content, stamp |-> stamp]
DirectoryObject(entries, stamp) == [kind |-> "directory", entries |-> entries, stamp |-> stamp]
\* A symbolic link, a socket, a device.
OtherObject(stamp) == [kind |-> "other", stamp |-> stamp]

Names == ToSet(NameOrder)

\* What any file system is: objects with stamps that were given out, entries that
\* name objects, and directories at levels, one below that they are an entry of.
IsObject(object, stamps) ==
  \/ object = Free
  \/ \E stamp \in 0 .. stamps :
       \/ object = OtherObject(stamp)
       \/ \E content \in DOMAIN Size : object = FileObject(content, stamp)
       \/ object.kind = "directory" /\ object = DirectoryObject(object.entries, stamp)

EntriesName(d, i) ==
  d[i].kind = "directory" =>
    /\ DOMAIN d[i].entries \subseteq Names
    /\ \A n \in DOMAIN d[i].entries : d[i].entries[n] \in Inodes \ {Root} /\ d[d[i].entries[n]] # Free

IsLeveled(d, level) ==
  /\ level[Root] = 0
  /\ \A i \in Inodes : d[i].kind = "directory" =>
       \A n \in DOMAIN d[i].entries :
         d[d[i].entries[n]].kind = "directory" => level[d[i].entries[n]] = level[i] + 1

FileSystem(d, stamps) ==
  /\ DOMAIN d = Inodes
  /\ \A i \in Inodes : IsObject(d[i], stamps) /\ EntriesName(d, i)
  /\ \E level \in [Inodes -> 0 .. Depth - 1] : IsLeveled(d, level)

ASSUME StartsAreFileSystems ==
  \A start \in Starts : start.edits \in Nat /\ FileSystem(start.disk, start.edits)

IsDirectory(i) == disk[i].kind = "directory"
EntryNames(i) == DOMAIN disk[i].entries
HasEntry(i, n) == n \in EntryNames(i)
Entry(i, n) == disk[i].entries[n]
\* The first of some names.
First(names) ==
  NameOrder[CHOOSE k \in DOMAIN NameOrder :
              NameOrder[k] \in names /\ \A j \in 1 .. k - 1 : NameOrder[j] \notin names]

-----------------------------------------------------------------------------
(* Everyone else: any program that edits the tree.                           *)

\* A place is a path and the inode it leads to.
RootPlace == [path |-> <<>>, inode |-> Root]
Below(d, place) ==
  IF d[place.inode].kind = "directory"
  THEN {[path |-> Append(place.path, n), inode |-> d[place.inode].entries[n]] :
          n \in DOMAIN d[place.inode].entries}
  ELSE {}

\* The places of each level.
Levels(d) ==
  LET level[k \in 0 .. Depth] ==
        IF k = 0 THEN {RootPlace} ELSE UNION {Below(d, place) : place \in level[k - 1]}
  IN  level

\* What the root of file system d holds.
TreeOf(d) ==
  LET levels == Levels(d)
      of(kind) == {p \in UNION {levels[k] : k \in 1 .. Depth} : d[p.inode].kind = kind}
  IN  [files |-> {[path |-> p.path, content |-> d[p.inode].content] : p \in of("file")},
       directories |-> {p.path : p \in of("directory")}, others |-> {p.path : p \in of("other")}]

Touched(i) == [disk[i] EXCEPT !.stamp = edits + 1]
Relinked(i, entries) == DirectoryObject(entries, edits + 1)
Without(i, n) == [m \in EntryNames(i) \ {n} |-> Entry(i, m)]
With(i, n, j) == [m \in EntryNames(i) \cup {n} |-> IF m = n THEN j ELSE Entry(i, m)]

Write(i) ==
  /\ disk[i].kind = "file"
  /\ \E content \in DOMAIN Size : disk' = [disk EXCEPT ![i] = FileObject(content, edits + 1)]

Unlink(i, n) ==
  /\ HasEntry(i, n)
  /\ disk' = [disk EXCEPT ![i] = Relinked(i, Without(i, n)), ![Entry(i, n)] = Touched(Entry(i, n))]

\* There are levels for a directory in this one.
HasRoom(i) == \E k \in 0 .. Depth - 2 : \E place \in Levels(disk)[k] : place.inode = i

\* A new object under a name, in place of what had it.
Put(i, n) ==
  /\ LET new == CHOOSE j \in Inodes : disk[j] = Free
         object == {FileObject(c, edits + 1) : c \in DOMAIN Size} \cup {OtherObject(edits + 1)}
                     \cup (IF HasRoom(i) THEN {DirectoryObject(<<>>, edits + 1)} ELSE {})
         old == IF HasEntry(i, n) THEN {Entry(i, n)} ELSE {}
     IN  /\ \E j \in Inodes : disk[j] = Free
         /\ \E o \in object :
              disk' = [j \in Inodes |->
                         IF j = i THEN Relinked(i, With(i, n, new))
                         ELSE IF j = new THEN o
                         ELSE IF j \in old THEN Touched(j) ELSE disk[j]]

\* A file goes to the same name of another directory.
Move(i, n, to) ==
  /\ to # i /\ IsDirectory(to) /\ HasEntry(i, n) /\ ~ HasEntry(to, n)
  /\ ~ IsDirectory(Entry(i, n))
  /\ LET j == Entry(i, n)
     IN  disk' = [disk EXCEPT ![i] = Relinked(i, Without(i, n)), ![to] = Relinked(to, With(to, n, j)),
                              ![j] = Touched(j)]

Edit ==
  /\ reader.at \notin {"idle", "returned"} /\ edits < MaxEdits
  /\ \E i \in Inodes :
       \/ Write(i)
       \/ IsDirectory(i) /\ \E n \in Names :
            Unlink(i, n) \/ Put(i, n) \/ \E to \in Inodes : Move(i, n, to)
  /\ edits' = edits + 1
  /\ moments' = moments \cup {TreeOf(disk')}
  /\ UNCHANGED reader

-----------------------------------------------------------------------------
(* The call.                                                                 *)

At(place) == reader.at = place

\* A call before its first look.
Idle(request) ==
  [at |-> "idle", request |-> request, began |-> edits, stack |-> <<>>, entries |-> 0, directories |-> {},
   files |-> <<>>, retained |-> <<>>, marker |-> <<>>]

Managed == reader.request.marker # "forbidden"
IsMarker(path) == Managed /\ path = <<Marker>>
SameSnapshot(seen) == disk[seen.inode].stamp = seen.stamp
Total == SumFunction([k \in DOMAIN reader.files |-> Size[reader.files[k].content]])
Top == Last(reader.stack)

\* The call at its next look, with what this one found.
Going(place, found) ==
  [field \in DOMAIN reader \cup DOMAIN found |->
     IF field = "at" THEN place ELSE IF field \in DOMAIN found THEN found[field] ELSE reader[field]]
\* Going on takes a look; the others see nothing of it.
Goes(place, found) ==
  /\ reader' = Going(place, found)
  /\ UNCHANGED <<disk, edits, moments>>
Continue(place) == Goes(place, <<>>)
\* The call fails: it looks at the marker once more before it says so.
Fails(error) == Goes("failing", [error |-> error])
Refuses(error) == Goes("returned", [result |-> [error |-> error]])

\* A directory that was opened under a path.
Frame(path, i) == [path |-> path, inode |-> i, stamp |-> disk[i].stamp]

\* open_root: nothing was read, so no marker is told.
OpenRoot ==
  /\ At("idle")
  /\ IF IsDirectory(Root)
     THEN /\ reader' = Going(IF Managed THEN "marker" ELSE "enumerate", [frame |-> Frame(<<>>, Root)])
          /\ moments' = {TreeOf(disk)}
          /\ UNCHANGED <<disk, edits>>
     ELSE Refuses("root_not_directory")

\* read_regular, its look at what it is about to open: the entry is a file.
Inspected(i, name, path, limit) ==
  LET file == Entry(i, name)
  IN  [pending |-> [parent |-> i, name |-> name, path |-> path, inode |-> file,
                    stamp |-> disk[file].stamp, limit |-> limit, size |-> Size[disk[file].content]]]

\* read_root_marker
InspectMarker ==
  /\ At("marker")
  /\ IF ~ HasEntry(Root, Marker)
     THEN IF reader.request.marker = "required" THEN Fails("missing_marker") ELSE Continue("enumerate")
     ELSE LET object == disk[Entry(Root, Marker)] IN
          CASE object.kind # "file" -> Fails("unsupported_entry")
            [] object.kind = "file" /\ Size[object.content] > reader.request.manifest -> Fails("file_bytes")
            [] OTHER -> Goes("open", Inspected(Root, Marker, <<Marker>>, reader.request.manifest))

\* The limit on all entries, files and directories together.
EntryLimit == reader.request.files + reader.request.directories

\* frame: the names of a directory, within what is left of the limit.
Enumerate ==
  /\ At("enumerate")
  /\ LET i == reader.frame.inode
         uncounted == IF reader.frame.path = <<>> /\ Managed THEN {Marker} ELSE {}
         discovered == reader.entries + Cardinality(EntryNames(i) \ uncounted)
     IN  IF discovered > EntryLimit
         THEN Fails("entry_limit")
         ELSE Goes("entry",
                [entries |-> discovered,
                 stack |-> Append(reader.stack,
                             [path |-> reader.frame.path, inode |-> i, stamp |-> reader.frame.stamp,
                              names |-> EntryNames(i), left |-> EntryNames(i)])])

\* Fault: a file that fills a limit exactly is refused.
FileRefusal_AtLimit(size, remaining) ==
  IF Len(reader.files) = reader.request.files THEN "file_limit"
  ELSE IF size > reader.request.bytes THEN "file_bytes"
  ELSE IF size >= remaining THEN "total_bytes" ELSE "none"

\* What refuses a file of this size before it is opened.
FileRefusal(size, remaining) ==
  IF Len(reader.files) = reader.request.files THEN "file_limit"
  ELSE IF size > reader.request.bytes THEN "file_bytes"
  ELSE IF size > remaining THEN "total_bytes" ELSE "none"

\* read_file, up to the opening.
InspectFile(i, name, path) ==
  LET remaining == reader.request.total - Total
      refusal == FileRefusal(Size[disk[Entry(i, name)].content], remaining)
      limit == IF reader.request.bytes < remaining THEN reader.request.bytes ELSE remaining
  IN  IF refusal # "none" THEN Fails(refusal) ELSE Goes("open", Inspected(i, name, path, limit))

InspectDirectory(i, name, path) ==
  IF Cardinality(reader.directories) = reader.request.directories
  THEN Fails("directory_limit")
  ELSE Goes("open_directory",
            [pending |-> [parent |-> i, name |-> name, path |-> path, inode |-> Entry(i, name),
                          stamp |-> disk[Entry(i, name)].stamp]])

SkipName == [reader.stack EXCEPT ![Len(reader.stack)].left = @ \ {First(Top.left)}]

\* read_entry: the next name of the directory being read.
ReadEntry ==
  /\ At("entry") /\ reader.stack # <<>> /\ Top.left # {}
  /\ LET i == Top.inode
         name == First(Top.left)
         path == Append(Top.path, name)
     IN  IF ~ HasEntry(i, name) THEN Fails("io")
         ELSE IF disk[Entry(i, name)].kind = "other" THEN Fails("unsupported_entry")
         ELSE IF IsMarker(path)
           THEN IF reader.marker # <<>> /\ Entry(i, name) = reader.marker[1].inode
                     /\ SameSnapshot(reader.marker[1])
                THEN Goes("entry", [stack |-> SkipName]) ELSE Fails("race")
         ELSE IF ~ ValidPath(path) THEN Fails("invalid_path")
         ELSE IF IsDirectory(Entry(i, name)) THEN InspectDirectory(i, name, path)
         ELSE InspectFile(i, name, path)

\* openat without following links; what is no longer there is an I/O error, and
\* a link is one too.
Gone == ~ HasEntry(reader.pending.parent, reader.pending.name)
Opened == Entry(reader.pending.parent, reader.pending.name)

\* open_directory: the same directory, whatever was done in it since.
OpenDirectory ==
  /\ At("open_directory")
  /\ IF Gone \/ ~ IsDirectory(Opened) THEN Fails("io")
     ELSE IF Opened # reader.pending.inode THEN Fails("race")
     ELSE Goes("enumerate",
            [directories |-> reader.directories \cup {reader.pending.path}, stack |-> SkipName,
             frame |-> Frame(reader.pending.path, Opened)])

\* read_regular: the same object, not changed since it was inspected.
Open ==
  /\ At("open")
  /\ IF Gone THEN Fails("io")
     ELSE IF disk[Opened].kind = "other" THEN \E error \in {"io", "race"} : Fails(error)
     ELSE IF Opened = reader.pending.inode /\ SameSnapshot(reader.pending) THEN Continue("read")
     ELSE Fails("race")

\* The bytes of the descriptor; what a write leaves half done is not told
\* apart, since such a write is noticed whatever it leaves.
Read ==
  /\ At("read")
  /\ Goes("reinspect", [content |-> disk[reader.pending.inode].content])

\* read_regular after the read, and what its callers keep.
Reinspect ==
  /\ At("reinspect")
  /\ LET pending == reader.pending
         seen == [path |-> pending.path, inode |-> pending.inode,
                  stamp |-> disk[pending.inode].stamp, content |-> reader.content]
     IN  IF Size[reader.content] > pending.limit THEN Fails("file_bytes")
         ELSE IF Size[reader.content] # pending.size \/ ~ SameSnapshot(pending) THEN Fails("race")
         ELSE IF IsMarker(pending.path) THEN Goes("enumerate", [marker |-> <<seen>>])
         ELSE Goes("entry", [files |-> Append(reader.files, seen), stack |-> SkipName])

\* What a second enumeration says of a directory, which stops one name beyond
\* what the first found.
Changed(names, seen) ==
  IF Cardinality(EntryNames(seen.inode)) > Cardinality(names) + 1 THEN "entry_limit"
  ELSE IF EntryNames(seen.inode) # names \/ ~ SameSnapshot(seen) THEN "race" ELSE "none"

\* The loop of read_core, when a directory has no name left.
FinishDirectory ==
  /\ At("entry") /\ reader.stack # <<>> /\ Top.left = {}
  /\ IF Changed(Top.names, Top) # "none"
     THEN Fails(Changed(Top.names, Top))
     ELSE Goes("entry", [stack |-> Front(reader.stack), retained |-> Append(reader.retained, Top)])

MarkerStands ==
  \/ reader.marker = <<>>
  \/ /\ HasEntry(Root, Marker) /\ Entry(Root, Marker) = reader.marker[1].inode
     /\ SameSnapshot(reader.marker[1])

\* validate_retained_marker; its error tells no marker.
ValidateMarker ==
  /\ At("entry") /\ reader.stack = <<>>
  /\ IF MarkerStands THEN Goes("validate_directories", [unchecked |-> reader.retained])
     ELSE Refuses("race")

\* validate_retained_directories
ValidateDirectory ==
  /\ At("validate_directories")
  /\ IF reader.unchecked = <<>> THEN Goes("validate_files", [unchecked |-> reader.files])
     ELSE LET seen == Head(reader.unchecked) IN
          IF Changed(seen.names, seen) # "none" THEN Fails(Changed(seen.names, seen))
          ELSE Goes("validate_directories", [unchecked |-> Tail(reader.unchecked)])

\* Fault: files are not looked at again, only directories are.
ValidateFile_Trusted ==
  /\ At("validate_files") /\ reader.unchecked # <<>>
  /\ Goes("validate_files", [unchecked |-> Tail(reader.unchecked)])

\* validate_retained_files
ValidateFile ==
  /\ At("validate_files") /\ reader.unchecked # <<>>
  /\ IF SameSnapshot(Head(reader.unchecked))
     THEN Goes("validate_files", [unchecked |-> Tail(reader.unchecked)])
     ELSE Fails("race")

Content == {[path |-> f.path, content |-> f.content] : f \in ToSet(reader.files)}
MarkerBytes == [k \in DOMAIN reader.marker |-> reader.marker[k].content]

\* The end of read_core.
Return ==
  /\ At("validate_files") /\ reader.unchecked = <<>>
  /\ IF ContentSetError(Content) # "none" THEN Fails("invalid_content_set")
     ELSE Goes("returned", [result |-> [files |-> Content, directories |-> reader.directories,
                                        marker |-> MarkerBytes]])

\* Fault: the marker is told as it was read.
Fail_MarkerTrusted ==
  /\ At("failing")
  /\ Goes("returned", [result |-> [error |-> reader.error, marker |-> MarkerBytes]])

\* failure: the marker is told when it stands; an error in looking at it is
\* told instead of the first one.
Fail ==
  /\ At("failing")
  /\ IF MarkerStands
     THEN Goes("returned", [result |-> [error |-> reader.error, marker |-> MarkerBytes]])
     ELSE Refuses("race")

\* Any look may be refused by the system.
LookFails ==
  \/ reader.at \notin {"idle", "failing", "returned"} /\ Fails("io")
  \/ reader.at \in {"idle", "failing"} /\ Refuses("io")

Step ==
  \/ OpenRoot \/ InspectMarker \/ Enumerate \/ ReadEntry \/ OpenDirectory \/ Open \/ Read
  \/ Reinspect \/ FinishDirectory \/ ValidateMarker \/ ValidateDirectory \/ ValidateFile
  \/ Return \/ Fail

Init ==
  /\ \E start \in Starts : disk = start.disk /\ edits = start.edits
  /\ moments = {}
  /\ reader \in {Idle(request) : request \in Requests}

Next == Step \/ LookFails \/ Edit

\* The thread of the caller runs.
Spec == Init /\ [][Next]_vars /\ WF_vars(Step \/ LookFails)

-----------------------------------------------------------------------------

Returned == At("returned")
Succeeded == Returned /\ "error" \notin DOMAIN reader.result

MarkerIs(content) ==
  HasEntry(Root, Marker) /\ disk[Entry(Root, Marker)].content = content

\* A read that succeeds returns what the root held at one moment of the call,
\* nothing that edits of different times have mixed (read_core and its final
\* validation).  One that fails and tells the marker tells the one there is, so
\* a caller who asks whose directory this is does not act on an owner that has
\* gone (failure, and local.rs's inspect_managed_tree_error).
OneMoment ==
  /\ Succeeded =>
       \E tree \in moments :
         LET kept == IF Managed THEN {f \in tree.files : f.path = <<Marker>>} ELSE {}
         IN  /\ tree.others = {}
             /\ reader.result.files = tree.files \ kept
             /\ reader.result.directories = tree.directories
             /\ ToSet(reader.result.marker) = {f.content : f \in kept}
  /\ Returned /\ ~ Succeeded /\ "marker" \in DOMAIN reader.result =>
       \A content \in ToSet(reader.result.marker) : MarkerIs(content)

\* A read is refused for what the tree is: with no edit and no failing look it
\* succeeds exactly when the tree is of files and directories under portable
\* names, within every limit, whose paths do not collide.
Readable(tree, request) ==
  LET managed == request.marker # "forbidden"
      kept == IF managed THEN {f \in tree.files : f.path = <<Marker>>} ELSE {}
      files == tree.files \ kept
      bytes == SumFunction([f \in files |-> Size[f.content]])
  IN  /\ tree.others = {} /\ (request.marker = "required" => kept # {})
      /\ \A f \in kept : Size[f.content] <= request.manifest
      /\ managed => <<Marker>> \notin tree.directories
      /\ \A p \in tree.directories : ValidPath(p)
      /\ ContentSetError(files) = "none"
      /\ Cardinality(files) <= request.files /\ Cardinality(tree.directories) <= request.directories
      /\ \A f \in files : Size[f.content] <= request.bytes
      /\ bytes <= request.total

ReadableIsRead ==
  Returned /\ edits = reader.began =>
    \/ Succeeded /\ Readable(TreeOf(disk), reader.request)
    \/ ~ Succeeded /\ reader.result.error \in {"io", "root_not_directory"}
    \/ ~ Succeeded /\ ~ Readable(TreeOf(disk), reader.request)
=============================================================================
