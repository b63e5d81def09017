------------------------------- MODULE Toolchain -------------------------------
(***************************************************************************)
(* Toolchain images as values (gooir-toolchain): recipes and the packages  *)
(* assembled from them, the tree an image is on disk, the lock, and the    *)
(* bounded load of the packages a lock names.                              *)
(*                                                                         *)
(* A tree is a function from paths, sequences of names, to nodes.  A lock  *)
(* that is not canonical, or whose digest is not its own, is not one.      *)
(***************************************************************************)
EXTENDS Packages

-----------------------------------------------------------------------------
(* Trees.                                                                   *)

ManifestFile == "gooir-package.json"
LockFile == <<"gooir-toolchain-lock.json">>

Directory == [kind |-> "directory"]
EmptyTree == [path \in {<<>>} |-> Directory]

\* The tree with one more node.
Placed(tree, new, node) ==
  [path \in DOMAIN tree \cup {new} |-> IF path = new THEN node ELSE tree[path]]

IsKind(tree, path, kind) == path \in DOMAIN tree /\ tree[path].kind = kind

Children(tree, path) == {child \in DOMAIN tree : child # <<>> /\ Front(child) = path}

-----------------------------------------------------------------------------
(* Recipes.  A recipe has a directory, an offer-free manifest, inputs (each *)
(* a name, a path and a source), providers and attesters.                   *)

\* PackageRecipe::from_manifest, with_package and the `with_` functions; one
\* provider or attester is an element of a set.
IsRecipe(recipe) ==
  /\ ValidStructure(recipe.manifest)
  /\ recipe.manifest.implementation_offers = <<>>
  /\ \A i, j \in recipe.inputs : i.name = j.name => i = j

CanBeBuilt(recipes) ==
  /\ \A recipe \in Range(recipes) : IsRecipe(recipe)
  /\ \A i, j \in DOMAIN recipes :
       \/ i = j
       \/ /\ recipes[i].manifest.package # recipes[j].manifest.package
          /\ recipes[i].directory # recipes[j].directory

SortedBy(declarations, Key(_)) ==
  CHOOSE list \in SetToSeqs(declarations) :
    \A i, j \in DOMAIN list : i < j => ~ Precedes(Key(list[j]), Key(list[i]))

\* What the bytes read for the inputs declare.
Measured(recipe, bytes) ==
  {[name |-> input.name, path |-> input.path,
    digest |-> bytes[input.name].digest, size |-> bytes[input.name].size] :
     input \in recipe.inputs}

ManifestOf(recipe, bytes) ==
  [recipe.manifest EXCEPT
     !.resources = SortedBy(Measured(recipe, bytes), NameOf),
     !.implementation_offers = SortedBy(recipe.providers, OfferSortKey)]

InputNames(recipe) == {input.name : input \in recipe.inputs}

Assembles(recipe, bytes) ==
  /\ \A i, j \in recipe.inputs : i.path = j.path => i = j
  /\ Range(recipe.manifest.resources) \subseteq Measured(recipe, bytes)
  /\ \A binding \in recipe.providers \cup recipe.attesters :
       binding.artifact \in InputNames(recipe)
  /\ ValidStructure(ManifestOf(recipe, bytes))

-----------------------------------------------------------------------------
(* Budgets: what the packages so far leave to the next one.                 *)

EmptySession == [registry |-> EmptyRegistry, resource_bytes |-> 0, manifest_bytes |-> 0]

ResourceBytes(manifest) ==
  SumFunction([i \in DOMAIN manifest.resources |-> manifest.resources[i].size])

Spend(session, manifest) ==
  [session EXCEPT !.resource_bytes = @ + ResourceBytes(manifest),
                  !.manifest_bytes = @ + ManifestSize(manifest)]

WithinBudget(session, limits) ==
  /\ session.resource_bytes <= limits.total_image_resource_bytes
  /\ session.manifest_bytes <= limits.total_image_manifest_bytes

\* Saturating subtraction.
Left(limit, spent) == IF spent > limit THEN 0 ELSE limit - spent

RemainingOf(limits, resources, manifests) ==
  [manifest_bytes       |-> Min({limits.package.manifest_bytes, manifests}),
   resources            |-> limits.package.resources,
   resource_bytes       |-> Min({limits.package.resource_bytes, resources}),
   total_resource_bytes |-> Min({limits.package.total_resource_bytes, resources})]

\* Fault: an exhausted budget becomes a limit of zero.
Remaining_NoFloor(limits, session) ==
  RemainingOf(limits,
              Left(limits.total_image_resource_bytes, session.resource_bytes),
              Left(limits.total_image_manifest_bytes, session.manifest_bytes))

\* A load refuses limits of zero, so one byte always remains.
Remaining(limits, session) ==
  RemainingOf(limits,
              Max({1, Left(limits.total_image_resource_bytes, session.resource_bytes)}),
              Max({1, Left(limits.total_image_manifest_bytes, session.manifest_bytes)}))

-----------------------------------------------------------------------------
(* Loading what a lock names.                                               *)

ValidLimits(limits) == \A field \in DOMAIN limits : limits[field] > 0

\* load_local_package on the directory of a tree, as one step: the package it
\* returns, if it returns one.
LoadPackage(tree, directory, reg, limits) ==
  LET file     == <<directory, ManifestFile>>
      manifest == tree[file].document.manifest
      place(r) == <<directory>> \o r.path
      Holds(r) == IsKind(tree, place(r), "resource") /\ Copies(r, tree[place(r)].bytes)
      resources == {[declaration |-> r, bytes |-> tree[place(r)].bytes] :
                      r \in Range(manifest.resources)}
  IN  IF /\ ValidLimits(limits)
         /\ IsKind(tree, file, "manifest")
         /\ Readable(tree[file].document)
         /\ WithinLimits(manifest, limits)
         /\ HasExactDependencies(reg, manifest)
         /\ ReferencesResolve(reg, manifest)
         /\ \A r \in Range(manifest.resources) : Holds(r)
         /\ OffersDistinct(manifest, resources)
      THEN {Loaded(manifest, resources, CapturedDependencies(reg, manifest))}
      ELSE {}

\* Fault: the content at a package's directory is not compared with the lock.
Expected_AnyContent(package, entry) == IdentityOf(package) = entry.package

Expected(package, entry) ==
  IdentityOf(package) = entry.package /\ DigestOf(package) = entry.digest

\* One round of load_locked_packages: the sessions, at most one, that follow.
LoadLocked(tree, session, entry, limits) ==
  {[Spend(session, package.manifest) EXCEPT !.registry = WithPackage(@, package)] :
     package \in {p \in LoadPackage(tree, entry.directory, session.registry,
                                    Remaining(limits, session)) :
                    /\ Expected(p, entry)
                    /\ WithinBudget(Spend(session, p.manifest), limits)
                    /\ InstallResult(session.registry, p) = "published"}}

-----------------------------------------------------------------------------
(* The lock.                                                                *)

Authority(binding) ==
  [suite |-> binding.suite, implementation |-> binding.implementation,
   artifact_digest |-> binding.artifact_digest]

ValidLock(lock) ==
  /\ IsList(lock.packages)
  /\ lock.packages # <<>>
  /\ \A i, j \in DOMAIN lock.packages :
       \/ i = j
       \/ /\ lock.packages[i].package # lock.packages[j].package
          /\ lock.packages[i].directory # lock.packages[j].directory
  /\ \A a \in lock.attesters :
       /\ \E entry \in Range(lock.packages) :
            entry.package = a.package /\ entry.digest = a.package_digest
       /\ a.resource_digest = a.artifact_digest
  /\ \A a, b \in lock.attesters : Authority(a) = Authority(b) => a = b

\* The first part of InstalledToolchain::load.
LockWithinLimits(lock, limits) ==
  /\ Len(lock.packages) <= limits.packages
  /\ Cardinality(lock.attesters) <= limits.attesters

\* The loop over the attesters in InstalledToolchain::load.
AttestersInstalled(reg, attesters) ==
  \A a \in attesters :
    /\ \E p \in Installed(reg, a.package) : DigestOf(p) = a.package_digest
    /\ \E r \in reg.resources :
         /\ r.package = a.package
         /\ r.resource.declaration.name = a.resource
         /\ r.resource.declaration.digest = a.resource_digest
    /\ a.resource_digest = a.artifact_digest

\* Fault: an attester is compared with the offers of its own package only.
Independent_OwnPackage(reg, attesters) ==
  \A a \in attesters, p \in reg.packages :
    IdentityOf(p) = a.package =>
      \A o \in DeclaredOffers(p.manifest, p.resources) :
        /\ o.offer.implementation # a.implementation
        /\ o.offer.artifact_digest # a.artifact_digest

\* validate_independence: of every offer of the image.
Independent(reg, attesters) ==
  \A a \in attesters, o \in reg.offers :
    /\ o.offer.implementation # a.implementation
    /\ o.offer.artifact_digest # a.artifact_digest

LoadsTo(tree, lock, limits) ==
  LET next(sessions, entry) ==
        UNION {LoadLocked(tree, session, entry, limits) : session \in sessions}
  IN  {session \in FoldLeft(next, {EmptySession}, lock.packages) :
         /\ AttestersInstalled(session.registry, lock.attesters)
         /\ Independent(session.registry, lock.attesters)}

\* InstalledToolchain::load of a tree that nobody changes meanwhile.
LoadImage(tree, limits) ==
  IF /\ IsKind(tree, LockFile, "lock")
     /\ ValidLock(tree[LockFile].lock)
     /\ LockWithinLimits(tree[LockFile].lock, limits)
  THEN {[lock |-> tree[LockFile].lock, registry |-> session.registry] :
          session \in LoadsTo(tree, tree[LockFile].lock, limits)}
  ELSE {}

-----------------------------------------------------------------------------
(* Writing a package: the file system calls of write_package.               *)

\* Fault: only the directory of the package is synchronized.
SyncsOf_RootOnly(directory, path) == <<>>

\* The directory a resource is in, and none above it.
SyncsOf(directory, path) == <<[op |-> "sync", path |-> <<directory>> \o Front(path)]>>

WritesOf(directory, resource, bytes) ==
  LET path == resource.path
  IN  [n \in 1 .. Len(path) - 1 |->
         [op |-> "ensure", path |-> <<directory>> \o SubSeq(path, 1, n), node |-> Directory]]
      \o <<[op |-> "create", path |-> <<directory>> \o path,
            node |-> [kind |-> "resource", bytes |-> bytes[resource.name]]]>>
      \o SyncsOf(directory, path)

Writes(recipe, bytes) ==
  LET manifest == ManifestOf(recipe, bytes)
      root     == <<recipe.directory>>
  IN  <<[op |-> "create", path |-> root, node |-> Directory]>>
      \o FlattenSeq([i \in DOMAIN manifest.resources |->
                       WritesOf(recipe.directory, manifest.resources[i], bytes)])
      \o <<[op |-> "create", path |-> root \o <<ManifestFile>>,
            node |-> [kind |-> "manifest",
                      document |-> [manifest |-> manifest,
                                    content_digest |-> PackageDigest(manifest)]]],
           [op |-> "sync", path |-> root]>>

\* lock_attesters.
Bindings(recipe, bytes) ==
  LET manifest == ManifestOf(recipe, bytes)
  IN  {[suite           |-> a.suite,
        implementation  |-> a.implementation,
        artifact_digest |-> bytes[a.artifact].digest,
        package         |-> manifest.package,
        package_digest  |-> PackageDigest(manifest),
        resource        |-> a.artifact,
        resource_digest |-> bytes[a.artifact].digest] : a \in recipe.attesters}

LockEntry(recipe, bytes) ==
  [package   |-> recipe.manifest.package,
   digest    |-> PackageDigest(ManifestOf(recipe, bytes)),
   directory |-> recipe.directory]
=============================================================================
