---------------------------- MODULE ToolchainImage ----------------------------
(***************************************************************************)
(* Publishing and loading toolchain images (gooir-toolchain): publishers   *)
(* race to create one destination, programs of others create or change it, *)
(* power fails, and a reader loads what it finds.                          *)
(*                                                                         *)
(* A node of a tree is durable when its directory was synchronized after   *)
(* the node was made; a power loss takes any of the others, with what is   *)
(* below them.  A file is synchronized before anything else happens to it, *)
(* so its bytes are there if its name is.  A staging directory is private  *)
(* and a lost or abandoned one is nobody's: it is part of the call.        *)
(***************************************************************************)
EXTENDS Toolchain

CONSTANTS
  Publishers,   \* callers of publish_create, one call each
  Images,       \* sequences of recipes they may publish
  FileBytes,    \* bytes a source file may hold, when it is read
  ImageLimits,  \* ToolchainLimits
  OtherNodes,   \* nodes other programs may put in a destination
  MaxLosses,    \* bound: crashes and power losses
  MaxEdits      \* bound: creations and changes by other programs

\* The code refuses limits of zero.
ASSUME LimitsArePositive ==
  /\ ValidLimits(ImageLimits.package)
  /\ \A field \in DOMAIN ImageLimits \ {"package"} : ImageLimits[field] > 0

\* A limit is a number of bytes.
ASSUME LimitsAreNumbers == ImageLimits.total_image_resource_bytes \in Nat

\* A name for all programs that are not publishers.
ASSUME OthersDoNotPublish == "other" \notin Publishers

Absent == [status |-> "absent"]

\* What recipes are made of: lists of packages, each with a directory, a
\* manifest, and inputs whose paths are lists of names and whose own names
\* have an order.
ASSUME RecipesAreOfParts ==
  \A recipes \in Images :
    /\ recipes \in Seq(Range(recipes))
    /\ \A recipe \in Range(recipes) :
         /\ recipe.directory \in STRING
         /\ {"resources", "implementation_offers"} \subseteq DOMAIN recipe.manifest
         /\ IsFiniteSet(recipe.inputs)
         /\ \A i \in recipe.inputs : i.name \in Seq(Nat) /\ i.path \in Seq(STRING) \ {<<>>}
         /\ \A i, j \in recipe.inputs : Len(i.name) = Len(j.name)

VARIABLES
  destination,  \* Absent, or a tree with what of it is durable
  call,         \* call[p]: the call of a publisher
  reader,       \* a load in progress
  toolchain,    \* what the last load returned, in a set of at most one
  losses,       \* crashes and power losses so far
  edits         \* creations and changes by others so far

vars == <<destination, call, reader, toolchain, losses, edits>>

-----------------------------------------------------------------------------
(* publish_create.                                                          *)

Idle == [at |-> "idle"]

\* What a call leaves behind: its answer, the image it was for, what it read.
Done(c, answer) == [at |-> "done", answer |-> answer, recipes |-> c.recipes, read |-> c.read]

Begin(p, recipes) ==
  LET c == [at |-> "assemble", recipes |-> recipes, read |-> <<>>,
            session |-> EmptySession, tree |-> EmptyTree, durable |-> {<<>>},
            writes |-> <<>>]
  IN  /\ call[p] = Idle
      /\ CanBeBuilt(recipes)
      /\ call' = [call EXCEPT ![p] =
           IF recipes = <<>> \/ Len(recipes) > ImageLimits.packages THEN Done(c, "refused")
           ELSE IF destination # Absent THEN Done(c, "exists")
           ELSE c]
      /\ UNCHANGED <<destination, reader, toolchain, losses, edits>>

\* What a recipe's inputs may be read as.
Reads(recipe) ==
  {bytes \in [InputNames(recipe) -> FileBytes] :
     \A input \in recipe.inputs : input.source = "bytes" => bytes[input.name] = input.bytes}

AttesterCount(recipes) ==
  SumFunction([i \in DOMAIN recipes |-> Cardinality(recipes[i].attesters)])

\* assemble_package and the budgets; the next package is then written.
Assemble(p, bytes) ==
  LET c        == call[p]
      i        == Len(c.read) + 1
      recipe   == c.recipes[i]
      manifest == ManifestOf(recipe, bytes)
      after    == [c EXCEPT !.read = Append(@, bytes)]
  IN  /\ c.at = "assemble"
      /\ call' = [call EXCEPT ![p] =
           IF /\ Assembles(recipe, bytes)
              /\ ResourcesWithin(manifest, Remaining(ImageLimits, c.session))
              /\ WithinBudget(Spend(c.session, manifest), ImageLimits)
              /\ AttesterCount(SubSeq(c.recipes, 1, i)) <= ImageLimits.attesters
           THEN [after EXCEPT !.at = "write", !.writes = Writes(recipe, bytes)]
           ELSE Done(after, "refused")]
      /\ UNCHANGED <<destination, reader, toolchain, losses, edits>>

\* One file system call of write_package.
Write(p) ==
  LET c     == call[p]
      write == Head(c.writes)
      rest  == [c EXCEPT !.writes = Tail(@)]
      free  == write.path \notin DOMAIN c.tree
  IN  /\ c.at = "write"
      /\ c.writes # <<>>
      /\ call' = [call EXCEPT ![p] =
           CASE write.op = "sync"   -> [rest EXCEPT !.durable = @ \cup Children(c.tree, write.path)]
             [] write.op = "ensure" /\ ~ free -> rest
             [] OTHER -> IF free /\ IsKind(c.tree, Front(write.path), "directory")
                         THEN [rest EXCEPT !.tree = Placed(@, write.path, write.node)]
                         ELSE Done(c, "refused")]
      /\ UNCHANGED <<destination, reader, toolchain, losses, edits>>

\* Load the package just written and install it beside those before it.
CheckWritten(p) ==
  LET c     == call[p]
      i     == Len(c.read)
      entry == LockEntry(c.recipes[i], c.read[i])
      next  == LoadLocked(c.tree, c.session, entry, ImageLimits)
  IN  /\ c.at = "write"
      /\ c.writes = <<>>
      /\ call' = [call EXCEPT ![p] =
           IF next = {} THEN Done(c, "refused")
           ELSE [c EXCEPT !.session = CHOOSE session \in next : TRUE,
                          !.at = IF i < Len(c.recipes) THEN "assemble" ELSE "lock"]]
      /\ UNCHANGED <<destination, reader, toolchain, losses, edits>>

LockOf(recipes, read) ==
  [packages  |-> [i \in DOMAIN read |-> LockEntry(recipes[i], read[i])],
   attesters |-> UNION {Bindings(recipes[i], read[i]) : i \in DOMAIN read}]

WriteLock(p) ==
  LET c    == call[p]
      lock == LockOf(c.recipes, c.read)
  IN  /\ c.at = "lock"
      /\ call' = [call EXCEPT ![p] =
           IF /\ Independent(c.session.registry, lock.attesters)
              /\ ValidLock(lock)
              /\ LockFile \notin DOMAIN c.tree
           THEN [c EXCEPT !.at = "reload",
                          !.tree = Placed(@, LockFile, [kind |-> "lock", lock |-> lock])]
           ELSE Done(c, "refused")]
      /\ UNCHANGED <<destination, reader, toolchain, losses, edits>>

\* The independent reload of the staging directory, and its synchronization.
Reload(p) ==
  LET c == call[p]
  IN  /\ c.at = "reload"
      /\ call' = [call EXCEPT ![p] =
           IF \E image \in LoadImage(c.tree, ImageLimits) : image.lock = LockOf(c.recipes, c.read)
           THEN [c EXCEPT !.at = "sync"] ELSE Done(c, "refused")]
      /\ UNCHANGED <<destination, reader, toolchain, losses, edits>>

SyncStaging(p) ==
  LET c == call[p]
  IN  /\ c.at = "sync"
      /\ call' = [call EXCEPT ![p] = [c EXCEPT !.at = "rename",
                                               !.durable = @ \cup Children(c.tree, <<>>)]]
      /\ UNCHANGED <<destination, reader, toolchain, losses, edits>>

Image(p) ==
  [status |-> "present", by |-> p, published |-> call[p].tree, edited |-> FALSE,
   tree |-> call[p].tree, durable |-> call[p].durable, synced |-> FALSE]

Committed(p) == [at |-> "published", recipes |-> call[p].recipes, read |-> call[p].read]

\* Fault: what is at the destination is replaced.
Rename_Replaces(p) ==
  /\ call[p].at = "rename"
  /\ destination' = Image(p)
  /\ call' = [call EXCEPT ![p] = Committed(p)]
  /\ UNCHANGED <<reader, toolchain, losses, edits>>

\* renameat2 with RENAME_NOREPLACE: the commit.
Rename(p) ==
  /\ call[p].at = "rename"
  /\ IF destination = Absent
     THEN /\ destination' = Image(p)
          /\ call' = [call EXCEPT ![p] = Committed(p)]
     ELSE /\ call' = [call EXCEPT ![p] = Done(@, "exists")]
          /\ UNCHANGED destination
  /\ UNCHANGED <<reader, toolchain, losses, edits>>

\* Fault: a failure to synchronize the parent is an error of the call.
SyncParent_OrFails(p) ==
  /\ call[p].at = "published"
  /\ \/ /\ destination' = [destination EXCEPT !.synced = TRUE]
        /\ call' = [call EXCEPT ![p] = Done(@, "synchronized")]
     \/ /\ call' = [call EXCEPT ![p] = Done(@, "failed")]
        /\ UNCHANGED destination
  /\ UNCHANGED <<reader, toolchain, losses, edits>>

\* After the commit there is no error, only a durability that is not known.
SyncParent(p) ==
  /\ call[p].at = "published"
  /\ \/ /\ destination' = [destination EXCEPT !.synced = TRUE]
        /\ call' = [call EXCEPT ![p] = Done(@, "synchronized")]
     \/ /\ call' = [call EXCEPT ![p] = Done(@, "uncertain")]
        /\ UNCHANGED destination
  /\ UNCHANGED <<reader, toolchain, losses, edits>>

\* Any system call before the commit may fail; the staging directory goes.
SystemCallFails(p) ==
  /\ call[p].at \in {"assemble", "write", "lock", "reload", "sync", "rename"}
  /\ call' = [call EXCEPT ![p] = Done(@, "failed")]
  /\ UNCHANGED <<destination, reader, toolchain, losses, edits>>

-----------------------------------------------------------------------------
(* InstalledToolchain::load, one package at a time.                         *)

NotReading == [at |-> "idle"]

ReadLock ==
  /\ reader = NotReading
  /\ destination # Absent
  /\ IsKind(destination.tree, LockFile, "lock")
  /\ LET lock == destination.tree[LockFile].lock
     IN  /\ ValidLock(lock)
         /\ LockWithinLimits(lock, ImageLimits)
         /\ reader' = [at |-> "packages", lock |-> lock, loaded |-> 0, session |-> EmptySession]
  /\ UNCHANGED <<destination, call, toolchain, losses, edits>>

\* From the destination as it is now; what does not load ends it.
ReadPackage ==
  /\ reader.at = "packages"
  /\ reader.loaded < Len(reader.lock.packages)
  /\ LET tree == IF destination = Absent THEN EmptyTree ELSE destination.tree
         next == LoadLocked(tree, reader.session, reader.lock.packages[reader.loaded + 1],
                            ImageLimits)
     IN  reader' = IF next = {} THEN NotReading
                   ELSE [reader EXCEPT !.loaded = @ + 1,
                                       !.session = CHOOSE session \in next : TRUE]
  /\ UNCHANGED <<destination, call, toolchain, losses, edits>>

FinishRead ==
  /\ reader.at = "packages"
  /\ reader.loaded = Len(reader.lock.packages)
  /\ toolchain' = IF /\ AttestersInstalled(reader.session.registry, reader.lock.attesters)
                     /\ Independent(reader.session.registry, reader.lock.attesters)
                  THEN {[lock |-> reader.lock, registry |-> reader.session.registry]}
                  ELSE toolchain
  /\ reader' = NotReading
  /\ UNCHANGED <<destination, call, losses, edits>>

-----------------------------------------------------------------------------
(* Others.                                                                  *)

\* A program creates the destination by itself.
ForeignCreate ==
  /\ edits < MaxEdits
  /\ destination = Absent
  /\ destination' = [status |-> "present", by |-> "other", published |-> EmptyTree,
                     edited |-> TRUE, tree |-> EmptyTree, durable |-> {<<>>}, synced |-> TRUE]
  /\ edits' = edits + 1
  /\ UNCHANGED <<call, reader, toolchain, losses>>

\* A program puts another node in the place of one.
ForeignEdit(path, node) ==
  /\ edits < MaxEdits
  /\ destination # Absent
  /\ path \in DOMAIN destination.tree
  /\ destination.tree[path].kind = node.kind
  /\ destination' = [destination EXCEPT !.tree[path] = node, !.edited = TRUE]
  /\ edits' = edits + 1
  /\ UNCHANGED <<call, reader, toolchain, losses>>

\* What is left of a tree when the nodes `lost` are.
Without(tree, lost) ==
  LET kept == {path \in DOMAIN tree : \A n \in 0 .. Len(path) : SubSeq(path, 1, n) \notin lost}
  IN  [path \in kept |-> tree[path]]

Crash(p) ==
  /\ losses < MaxLosses
  /\ call[p].at \notin {"idle", "done"}
  /\ call' = [call EXCEPT ![p] = Done(@, "crashed")]
  /\ losses' = losses + 1
  /\ UNCHANGED <<destination, reader, toolchain, edits>>

\* The answers given before it stay given.
PowerLoss ==
  /\ losses < MaxLosses
  /\ losses' = losses + 1
  /\ call' = [p \in Publishers |->
                IF call[p].at \in {"idle", "done"} THEN call[p] ELSE Done(call[p], "crashed")]
  /\ reader' = NotReading
  /\ toolchain' = {}
  /\ \/ /\ destination = Absent
        /\ UNCHANGED destination
     \/ /\ destination # Absent
        /\ ~ destination.synced
        /\ destination' = Absent
     \/ /\ destination # Absent
        /\ \E lost \in SUBSET (DOMAIN destination.tree \ destination.durable) :
             LET tree == Without(destination.tree, lost)
             IN  destination' = [destination EXCEPT !.tree = tree, !.durable = DOMAIN tree,
                                                    !.synced = TRUE]
  /\ UNCHANGED edits

Init ==
  /\ destination = Absent
  /\ call = [p \in Publishers |-> Idle]
  /\ reader = NotReading
  /\ toolchain = {}
  /\ losses = 0
  /\ edits = 0

Next ==
  \/ \E p \in Publishers :
       \/ \E recipes \in Images : Begin(p, recipes)
       \/ /\ call[p].at = "assemble"
          /\ \E bytes \in Reads(call[p].recipes[Len(call[p].read) + 1]) : Assemble(p, bytes)
       \/ Write(p)
       \/ CheckWritten(p)
       \/ WriteLock(p)
       \/ Reload(p)
       \/ SyncStaging(p)
       \/ Rename(p)
       \/ SyncParent(p)
       \/ SystemCallFails(p)
       \/ Crash(p)
  \/ ReadLock
  \/ ReadPackage
  \/ FinishRead
  \/ ForeignCreate
  \/ \E path \in (IF destination = Absent THEN {} ELSE DOMAIN destination.tree), node \in OtherNodes :
       ForeignEdit(path, node)
  \/ PowerLoss

Spec == Init /\ [][Next]_vars

-----------------------------------------------------------------------------
(* What image publication promises.                                         *)

\* No two resources at or above one another, none in the manifest's place.
PathsFit(manifest) ==
  \A r, q \in Range(manifest.resources) :
    /\ r.path # <<ManifestFile>>
    /\ r = q \/ ~ IsPrefix(r.path, q.path)

\* An image as a whole: its packages in an order that resolves, one owner for
\* each identity, all sums within the limits, attesters apart from all offers.
Deployable(recipes, read) ==
  LET manifests == [i \in DOMAIN read |-> ManifestOf(recipes[i], read[i])]
      all       == {manifests[i] : i \in DOMAIN read}
      names     == {recipes[i].directory : i \in DOMAIN read}
      offers(m) == DeclaredOffers(m, {[declaration |-> r] : r \in Range(m.resources)})
      attesters == LockOf(recipes, read).attesters
      earlier(i, d) == {j \in 1 .. i - 1 : manifests[j].package = d.package}
  IN  /\ LockFile[1] \notin names
      /\ \A i \in DOMAIN read :
           /\ Assembles(recipes[i], read[i])
           /\ PathsFit(manifests[i])
           /\ WithinLimits(manifests[i], ImageLimits.package)
           /\ \A d \in Range(manifests[i].dependencies) :
                \E j \in earlier(i, d) : PackageDigest(manifests[j]) = d.digest
           /\ \A reference \in References(manifests[i]) :
                \/ ExportsIdentity(manifests[i], reference)
                \/ \E d \in Range(manifests[i].dependencies) :
                     \E j \in earlier(i, d) : ExportsIdentity(manifests[j], reference)
           /\ OffersDistinct(manifests[i], {[declaration |-> r] :
                                             r \in Range(manifests[i].resources)})
      /\ SumFunction([i \in DOMAIN read |-> ResourceBytes(manifests[i])])
           <= ImageLimits.total_image_resource_bytes
      /\ SumFunction([i \in DOMAIN read |-> ManifestSize(manifests[i])])
           <= ImageLimits.total_image_manifest_bytes
      /\ \A m, n \in all : m # n =>
           /\ \A e \in Exports(m) : ~ ExportsIdentity(n, e)
           /\ {o.offer : o \in offers(m)} \cap {o.offer : o \in offers(n)} = {}
      /\ Cardinality(attesters) <= ImageLimits.attesters
      /\ \A a, b \in attesters : Authority(a) = Authority(b) => a = b
      /\ \A a \in attesters, m \in all : \A o \in offers(m) :
           /\ o.offer.implementation # a.implementation
           /\ o.offer.artifact_digest # a.artifact_digest

\* The packages are assembled, written, loaded and installed one after
\* another, under budgets that shrink: an image is published only if it is
\* deployable as a whole, and refused only if what was read of it is not.
PublishedIffDeployable ==
  \A p \in Publishers : call[p].at = "done" =>
    LET c == call[p]
    IN  /\ c.answer \in {"synchronized", "uncertain"} =>
             Len(c.read) = Len(c.recipes) /\ Deployable(c.recipes, c.read)
        /\ c.answer = "refused" =>
             \/ Len(c.recipes) \notin 1 .. ImageLimits.packages
             \/ ~ Deployable(c.recipes, c.read)

\* Paths with a directory above them that is inside another of the package.
Buried(tree) ==
  {path \in DOMAIN tree : \E n \in 3 .. Len(path) : IsKind(tree, SubSeq(path, 1, n), "directory")}

\* A publication reported as synchronized survives a power loss, its lock,
\* manifests and resources included.  Only what is two directories deep in
\* its package can be lost: nothing synchronizes the directory above it.
LossesAreBuried ==
  \A p \in Publishers :
    call[p].at = "done" /\ call[p].answer = "synchronized" =>
      /\ destination # Absent
      /\ destination.by = p
      /\ DOMAIN destination.published \ DOMAIN destination.tree \subseteq Buried(destination.published)

\* Nobody's publication replaces or changes what is at the destination,
\* whoever put it there after the publisher had looked.
CreateOnly ==
  [][destination # Absent /\ UNCHANGED <<losses, edits>> =>
       destination' = [destination EXCEPT !.synced = destination'.synced]]_vars

\* An error is an answer only as long as nothing is published.
ErrorsPublishNothing ==
  \A p \in Publishers :
    call[p].at = "done" /\ call[p].answer \in {"refused", "exists", "failed"} =>
      destination = Absent \/ destination.by # p

\* However the tree changes while it is read, a toolchain that is returned has
\* exactly the contents its lock names, within the limits, and attesters whose
\* bytes are there and are not those of any offer.
LoadedAsLocked ==
  \A t \in toolchain :
    /\ {<<IdentityOf(p), DigestOf(p)>> : p \in t.registry.packages}
         = {<<entry.package, entry.digest>> : entry \in Range(t.lock.packages)}
    /\ MapThenSumSet(LAMBDA p : ResourceBytes(p.manifest), t.registry.packages)
         <= ImageLimits.total_image_resource_bytes
    /\ \A a \in t.lock.attesters :
         /\ \E r \in t.registry.resources :
              /\ r.package = a.package
              /\ r.resource.declaration.name = a.resource
              /\ r.resource.bytes.digest = a.artifact_digest
         /\ \A o \in t.registry.offers :
              /\ o.offer.implementation # a.implementation
              /\ o.artifact.bytes.digest # a.artifact_digest
=============================================================================
