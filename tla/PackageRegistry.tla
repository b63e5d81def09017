--------------------------- MODULE PackageRegistry ---------------------------
(***************************************************************************)
(* Loading local packages and installing them (gooir-package, loader.rs    *)
(* and registry.rs).  A load reads a manifest, captures handles of its     *)
(* exact dependencies from a catalog, and copies the resources one by one  *)
(* out of a directory that others may be writing.  What it returns is a    *)
(* value: it may be kept, and installed later, in the catalog or in        *)
(* another registry.                                                       *)
(*                                                                         *)
(* The writer is unconstrained: every read returns some document, or some  *)
(* bytes.  The catalog is borrowed by the load, so nothing is installed in *)
(* it before the load returns.                                             *)
(***************************************************************************)
EXTENDS Packages

CONSTANTS
  Registries,  \* the registries of the program
  Documents,   \* documents a manifest file may hold
  Contents,    \* bytes a resource may hold, as [digest, size]
  Limits,      \* LoadLimits: manifest_bytes, resources, resource_bytes, total_resource_bytes
  MaxLoaded    \* bound: loaded packages kept at one time

Manifests == {document.manifest : document \in Documents}

ASSUME DocumentsParse == \A manifest \in Manifests : IsManifest(manifest)

\* A limit is a number of bytes.
ASSUME LimitsAreNumbers == Limits.total_resource_bytes \in Nat

\* Two contents have two digests.
ASSUME DigestsDiffer ==
  \A m, n \in Manifests : PackageDigest(m) = PackageDigest(n) => m = n

VARIABLES
  registry,  \* registry[r]: its packages, exports, resources and offers
  loader,    \* the load in progress
  loaded     \* the ValidatedPackages callers hold

vars == <<registry, loader, loaded>>

-----------------------------------------------------------------------------
(* load_local_package.                                                      *)

Idle == [status |-> "idle"]

Borrowed(r) == loader.status = "copying" /\ loader.catalog = r

\* A document that fails a check ends the load with nothing kept.
ReadManifest(catalog, document) ==
  LET manifest == document.manifest
      reg      == registry[catalog]
  IN  /\ loader = Idle
      /\ Readable(document)
      /\ WithinLimits(manifest, Limits)
      /\ HasExactDependencies(reg, manifest)
      /\ ReferencesResolve(reg, manifest)
      /\ loader' = [status |-> "copying", catalog |-> catalog, manifest |-> manifest,
                    copied |-> <<>>,
                    dependencies |-> CapturedDependencies(reg, manifest)]
      /\ UNCHANGED <<registry, loaded>>

Uncopied(manifest, copied) == Len(copied) < Len(manifest.resources)

\* Open the next resource and read it; whatever is not what the manifest
\* declares, a missing file included, ends the load.
CopyResource(bytes) ==
  /\ loader.status = "copying"
  /\ Uncopied(loader.manifest, loader.copied)
  /\ LET declaration == loader.manifest.resources[Len(loader.copied) + 1]
     IN  loader' = IF Copies(declaration, bytes)
                   THEN [loader EXCEPT !.copied =
                           Append(@, [declaration |-> declaration, bytes |-> bytes])]
                   ELSE Idle
  /\ UNCHANGED <<registry, loaded>>

LoadedPackage ==
  Loaded(loader.manifest, Range(loader.copied), loader.dependencies)

FinishLoad ==
  /\ loader.status = "copying"
  /\ ~ Uncopied(loader.manifest, loader.copied)
  /\ loaded' = IF /\ OffersDistinct(loader.manifest, Range(loader.copied))
                  /\ ValidAgainst(registry[loader.catalog], LoadedPackage)
               THEN loaded \cup {LoadedPackage} ELSE loaded
  /\ Cardinality(loaded') <= MaxLoaded
  /\ loader' = Idle
  /\ UNCHANGED registry

\* The caller drops a package it held.
Drop(package) ==
  /\ loaded' = loaded \ {package}
  /\ UNCHANGED <<registry, loader>>

-----------------------------------------------------------------------------
(* PackageRegistry::install.                                                *)

Install(r, package) ==
  /\ ~ Borrowed(r)
  /\ InstallResult(registry[r], package) = "published"
  /\ registry' = [registry EXCEPT ![r] = WithPackage(registry[r], package)]
  /\ UNCHANGED <<loader, loaded>>

\* A program may go on with a clone of a registry beside the registry.
CloneRegistry(r, s) ==
  /\ ~ Borrowed(s)
  /\ registry[s] = EmptyRegistry
  /\ registry' = [registry EXCEPT ![s] = registry[r]]
  /\ UNCHANGED <<loader, loaded>>

Init ==
  /\ registry = [r \in Registries |-> EmptyRegistry]
  /\ loader = Idle
  /\ loaded = {}

Next ==
  \/ \E r \in Registries, document \in Documents : ReadManifest(r, document)
  \/ \E bytes \in Contents : CopyResource(bytes)
  \/ FinishLoad
  \/ \E package \in loaded : Drop(package)
  \/ \E r \in Registries, package \in loaded : Install(r, package)
  \/ \E r, s \in Registries : CloneRegistry(r, s)

Spec == Init /\ [][Next]_vars

-----------------------------------------------------------------------------
(* What a registry promises.                                                *)

InstalledPackages == UNION {registry[r].packages : r \in Registries}

Indexed(reg) ==
  /\ \A p, q \in reg.packages : IdentityOf(p) = IdentityOf(q) => p = q
  /\ \A e, f \in reg.exports : e.kind = f.kind /\ e.id = f.id => e = f
  /\ reg.exports = UNION {Owned(p) : p \in reg.packages}
  /\ reg.resources = UNION {OwnedResources(p) : p \in reg.packages}
  /\ reg.offers = UNION {DeclaredOffers(p.manifest, p.resources) : p \in reg.packages}

\* The maps of a registry are the installed packages and nothing else: each
\* identity has one owner, which declares it, each package is whole, and what
\* a refused installation would have added is nowhere.
LookupsFollowPackages == \A r \in Registries : Indexed(registry[r])

\* No call changes or takes away an answer a registry has given ("monotonic").
LookupsStable ==
  [][\A r \in Registries :
       /\ registry[r].packages \subseteq registry'[r].packages
       /\ registry[r].exports \subseteq registry'[r].exports
       /\ registry[r].resources \subseteq registry'[r].resources
       /\ registry[r].offers \subseteq registry'[r].offers]_vars

DirectIn(reg, p) ==
  LET named == p.manifest.dependencies
  IN  /\ DOMAIN p.dependencies = DOMAIN named
      /\ \A i \in DOMAIN named :
           \E q \in Exact(reg, named[i]) : q.manifest = p.dependencies[i].manifest
      /\ \A reference \in References(p.manifest) :
           \/ ExportsIdentity(p.manifest, reference)
           \/ \E i \in DOMAIN named : ExportsIdentity(p.dependencies[i].manifest, reference)

\* Whatever registry a package was loaded with, where it is installed its
\* dependencies are installed at exactly the contents it names, its handles
\* are of those contents, and every identity it uses is exported by itself or
\* by one of them, never by a dependency of theirs.
ReferencesAreDirect ==
  \A r \in Registries : \A p \in registry[r].packages : DirectIn(registry[r], p)

\* The bytes kept are those the manifest declares, all of them and within the
\* limits, however the directory changed while they were copied, and an offer
\* names the digest of the bytes that will be run for it.
BytesAsDeclared ==
  \A p \in loaded \cup InstalledPackages :
    /\ {r.declaration : r \in p.resources} = Range(p.manifest.resources)
    /\ \A r \in p.resources :
         /\ r.bytes.digest = r.declaration.digest
         /\ r.bytes.size = r.declaration.size
    /\ \A o \in DeclaredOffers(p.manifest, p.resources) :
         o.offer.artifact_digest = o.artifact.bytes.digest
    /\ MapThenSumSet(LAMBDA r : r.bytes.size, p.resources) <= Limits.total_resource_bytes

\* Installing again what is installed returns the package that is there, also
\* when the second copy was loaded with another registry.
ReinstallAccepted ==
  \A r \in Registries, package \in loaded :
    (\E p \in Installed(registry[r], IdentityOf(package)) : DigestOf(p) = DigestOf(package))
      => InstallResult(registry[r], package) = "already_installed"

\* A planner can always be built from a registry: no offer in it implements a
\* capability that it does not have (gooir-planning refuses orphaned offers).
NoOrphanedOffer ==
  \A r \in Registries : \A o \in registry[r].offers :
    \E e \in registry[r].exports : e.kind = "capability" /\ e.id = o.offer.capability

\* The package that owns a value kind owns its dialect.
DialectsOwnTheirKinds ==
  \A r \in Registries : \A e \in registry[r].exports :
    e.kind = "value kind" =>
      \E f \in registry[r].exports :
        f.kind = "dialect" /\ f.id = DialectOf(e) /\ f.owner = e.owner
=============================================================================
