------------------------------- MODULE Packages -------------------------------
(***************************************************************************)
(* Registries of packages as values (gooir-package, loader.rs and          *)
(* registry.rs): what a load checks and returns, when a loaded package is  *)
(* valid against a registry, and the registry it gives when installed.     *)
(*                                                                         *)
(* The maps of a registry that are keyed by an exported identity are one   *)
(* set of entries, and inserting replaces the entries of the same key.     *)
(***************************************************************************)
EXTENDS PackageManifest

CONSTANT ManifestSize(_)  \* the length of a manifest's document

-----------------------------------------------------------------------------
(* Registries and handles.                                                  *)

EmptyRegistry == [packages |-> {}, exports |-> {}, resources |-> {}, offers |-> {}]

IdentityOf(package) == package.manifest.package
DigestOf(package) == PackageDigest(package.manifest)

Installed(reg, id) == {p \in reg.packages : IdentityOf(p) = id}

Exact(reg, dependency) ==
  {p \in Installed(reg, dependency.package) : DigestOf(p) = dependency.digest}

\* exact_dependencies: it fails when one is missing or has another digest.
HasExactDependencies(reg, manifest) ==
  \A d \in Range(manifest.dependencies) : Exact(reg, d) # {}

CapturedDependencies(reg, manifest) ==
  [i \in DOMAIN manifest.dependencies |->
     CHOOSE p \in Exact(reg, manifest.dependencies[i]) : TRUE]

Owns(reg, owners, reference) ==
  \E e \in reg.exports :
    e.kind = reference.kind /\ e.id = reference.id /\ e.owner \in owners

\* Fault: a reference may resolve through any installed package.
ReferencesResolve_AnyOwner(reg, manifest) ==
  \A reference \in References(manifest) :
    \/ ExportsIdentity(manifest, reference)
    \/ Owns(reg, {IdentityOf(p) : p \in reg.packages}, reference)

\* validate_external_ownership.
ReferencesResolve(reg, manifest) ==
  \A reference \in References(manifest) :
    \/ ExportsIdentity(manifest, reference)
    \/ Owns(reg, {d.package : d \in Range(manifest.dependencies)}, reference)

-----------------------------------------------------------------------------
(* Loaded packages.                                                         *)

\* Fault: bytes of the right length are taken for the declared ones.
Copies_SameSize(declaration, bytes) == bytes.size = declaration.size

\* The bytes are exactly those a resource declares.
Copies(declaration, bytes) ==
  bytes.size = declaration.size /\ bytes.digest = declaration.digest

ResourcesWithin(manifest, limits) ==
  LET sizes == [i \in DOMAIN manifest.resources |-> manifest.resources[i].size]
  IN  /\ Len(sizes) <= limits.resources
      /\ \A i \in DOMAIN sizes : sizes[i] <= limits.resource_bytes
      /\ SumFunction(sizes) <= limits.total_resource_bytes

WithinLimits(manifest, limits) ==
  ManifestSize(manifest) <= limits.manifest_bytes /\ ResourcesWithin(manifest, limits)

\* An offer is its own identity: offers of equal content are one offer.
OfferFrom(declaration, resource) ==
  [offer    |-> [implementation  |-> declaration.implementation,
                 capability      |-> declaration.capability,
                 artifact_digest |-> resource.declaration.digest],
   artifact |-> resource]

DeclaredOffers(manifest, resources) ==
  {OfferFrom(pair[1], pair[2]) :
     pair \in {p \in Range(manifest.implementation_offers) \X resources :
                 p[1].artifact = p[2].declaration.name}}

\* derive_offers fails when two declarations derive one offer.
OffersDistinct(manifest, resources) ==
  Cardinality({o.offer : o \in DeclaredOffers(manifest, resources)})
    = Len(manifest.implementation_offers)

\* Fault: a package is installed on the word of the registry it was loaded with.
ValidAgainst_AsLoaded(reg, package) == ValidStructure(package.manifest)

\* validate_against: every check of the load again, with this registry.
ValidAgainst(reg, package) ==
  LET manifest == package.manifest
  IN  /\ ValidStructure(manifest)
      /\ HasExactDependencies(reg, manifest)
      /\ Len(package.dependencies) = Len(manifest.dependencies)
      /\ \A i \in DOMAIN manifest.dependencies :
           /\ IdentityOf(package.dependencies[i]) = manifest.dependencies[i].package
           /\ DigestOf(package.dependencies[i]) = manifest.dependencies[i].digest
      /\ ReferencesResolve(reg, manifest)
      /\ \A declaration \in Range(manifest.resources) :
           \E r \in package.resources : r.declaration = declaration
                                     /\ Copies(declaration, r.bytes)
      /\ \A o \in package.offers : o.offer.artifact_digest = o.artifact.declaration.digest

\* What a load returns when all resources are read.
Loaded(manifest, resources, dependencies) ==
  [manifest     |-> manifest,
   resources    |-> resources,
   offers       |-> DeclaredOffers(manifest, resources),
   dependencies |-> dependencies]

-----------------------------------------------------------------------------
(* PackageRegistry::install.                                                *)

\* Fault: exported capabilities are not looked up.
Available_NotCapabilities(reg, package) ==
  /\ \A e \in Exports(package.manifest) : e.kind # "capability" =>
       \A f \in reg.exports :
         f.kind = e.kind /\ f.id = e.id => f.owner = IdentityOf(package)
  /\ \A o \in package.offers : o.offer \notin {p.offer : p \in reg.offers}

\* preflight_ownership: another owner, or an offer that is already there.
Available(reg, package) ==
  /\ \A e \in Exports(package.manifest), f \in reg.exports :
       f.kind = e.kind /\ f.id = e.id => f.owner = IdentityOf(package)
  /\ \A o \in package.offers : o.offer \notin {p.offer : p \in reg.offers}

\* Fault: the package at this identity is not looked for.
InstallResult_Reinserts(reg, package) ==
  IF ~ ValidAgainst(reg, package) THEN "invalid_package"
  ELSE IF ~ Available(reg, package) THEN "collision"
  ELSE "published"

InstallResult(reg, package) ==
  LET existing == Installed(reg, IdentityOf(package))
  IN  IF ~ ValidAgainst(reg, package) THEN "invalid_package"
      ELSE IF \E p \in existing : DigestOf(p) = DigestOf(package) THEN "already_installed"
      ELSE IF existing # {} THEN "identity_collision"
      ELSE IF ~ Available(reg, package) THEN "collision"
      ELSE "published"

Handle(package) ==
  [manifest |-> package.manifest, resources |-> package.resources,
   dependencies |-> package.dependencies]

Owned(package) ==
  {[kind |-> e.kind, id |-> e.id, declaration |-> e.declaration,
    owner |-> IdentityOf(package)] : e \in Exports(package.manifest)}

OwnedResources(package) ==
  {[package |-> IdentityOf(package), resource |-> r] : r \in package.resources}

\* install_new, on the copy that replaces the registry when all of it is done.
WithPackage(reg, package) ==
  [packages  |-> reg.packages \cup {Handle(package)},
   exports   |-> {f \in reg.exports : ~ ExportsIdentity(package.manifest, f)} \cup Owned(package),
   resources |-> reg.resources \cup OwnedResources(package),
   offers    |-> reg.offers \cup package.offers]
=============================================================================
