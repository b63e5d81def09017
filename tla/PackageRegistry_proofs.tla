------------------------ MODULE PackageRegistry_proofs ------------------------
(***************************************************************************)
(* Proofs about PackageRegistry, for every set of documents, registries    *)
(* and bytes.  The inductive invariant says of each registry that its maps *)
(* are its packages and that their references are direct, and carries      *)
(* along, for packages that are loaded or being loaded, what the manifest  *)
(* said when it was read: that is what a later installation relies on.     *)
(***************************************************************************)
EXTENDS PackageRegistry, DataTheorems

-----------------------------------------------------------------------------
(* Manifests.                                                               *)

\* No key comes twice in a strictly sorted list.
LEMMA SortedIsInjective ==
  ASSUME NEW keys,
         DOMAIN keys \subseteq Nat,
         \A i \in DOMAIN keys : keys[i] \in Seq(Nat),
         StrictlySorted(keys),
         NEW i \in DOMAIN keys, NEW j \in DOMAIN keys, keys[i] = keys[j]
  PROVE  i = j
<1>1. \A a \in Seq(Nat) : ~ Precedes(a, a)
  <2>1. \A a \in Seq(Nat) : \A k \in DOMAIN a : ~ (a[k] < a[k])
    OBVIOUS
  <2>2. QED
    BY <2>1 DEF Precedes
<1>2. ~ (i < j)
  BY <1>1 DEF StrictlySorted
<1>3. ~ (j < i)
  BY <1>1 DEF StrictlySorted
<1>4. QED
  BY <1>2, <1>3

\* Declarations with one identity are one declaration, in a list that was
\* validated.
LEMMA IdsAreUnique ==
  ASSUME NEW list, HasIds(list), StrictlySorted(KeysBy(list, IdOf)),
         NEW d \in Range(list), NEW e \in Range(list), d.id = e.id
  PROVE  d = e
<1> DEFINE keys == KeysBy(list, IdOf)
<1>1. PICK i \in DOMAIN list, j \in DOMAIN list : d = list[i] /\ e = list[j]
  BY DEF Range
<1>2. DOMAIN keys = DOMAIN list /\ DOMAIN list \subseteq Nat
  BY DEF KeysBy, HasIds, IsList
<1>3. \A k \in DOMAIN list : keys[k] = list[k].id /\ list[k].id \in Seq(Nat)
  BY DEF KeysBy, IdOf, HasIds, Range
<1> HIDE DEF keys
<1>4. StrictlySorted(keys)
  BY DEF keys
<1>5. i = j
  BY <1>1, <1>2, <1>3, <1>4, SortedIsInjective
<1>6. QED
  BY <1>1, <1>5

\* A value kind belongs to the one dialect its identity names, so it is
\* declared once in the whole manifest.
LEMMA ValueKindsAreUnique ==
  ASSUME NEW m, IsManifest(m), ValidDialects(m),
         NEW k \in ValueKinds(m), NEW l \in ValueKinds(m), k.id = l.id
  PROVE  k = l
<1>1. PICK c \in Range(m.dialects) : k \in Range(c.value_kinds)
  BY DEF ValueKinds
<1>2. PICK d \in Range(m.dialects) : l \in Range(d.value_kinds)
  BY DEF ValueKinds
<1>3. c.id = DialectOf(k) /\ d.id = DialectOf(l)
  BY <1>1, <1>2 DEF ValidDialects
<1>4. c = d
  BY <1>3, IdsAreUnique DEF DialectOf, ValidDialects, IsManifest
<1>5. QED
  BY <1>1, <1>2, <1>4, IdsAreUnique DEF ValidDialects, IsManifest

\* One entry for each identity, if there is one declaration for each.
LEMMA EntriesFollowIds ==
  ASSUME NEW kind, NEW declarations,
         \A c, d \in declarations : c.id = d.id => c = d
  PROVE  \A g, h \in Entries(kind, declarations) : g.id = h.id => g = h
BY DEF Entries

\* Entries keep the kind they were made with.
LEMMA EntriesKeepKind ==
  ASSUME NEW kind, NEW declarations, NEW e \in Entries(kind, declarations)
  PROVE  e.kind = kind
BY DEF Entries

\* A valid manifest exports an identity once.
LEMMA ExportsAreUnique ==
  ASSUME NEW m, IsManifest(m), ValidStructure(m),
         NEW e \in Exports(m), NEW f \in Exports(m), e.kind = f.kind, e.id = f.id
  PROVE  e = f
<1> DEFINE dialects == Entries("dialect", Range(m.dialects))
           kinds == Entries("value kind", ValueKinds(m))
           suites == Entries("conformance suite", Range(m.conformance_suites))
           capabilities == Entries("capability", Range(m.capabilities))
           implementations == Entries("implementation", Implementations(m))
<1>1. \A g \in Exports(m) : \/ g \in dialects
                            \/ g \in kinds
                            \/ g \in suites
                            \/ g \in capabilities
                            \/ g \in implementations
  BY DEF Exports
<1>2. \A g \in dialects : g.kind = "dialect"
  BY EntriesKeepKind
<1>3. \A g \in kinds : g.kind = "value kind"
  BY EntriesKeepKind
<1>4. \A g \in suites : g.kind = "conformance suite"
  BY EntriesKeepKind
<1>5. \A g \in capabilities : g.kind = "capability"
  BY EntriesKeepKind
<1>6. \A g \in implementations : g.kind = "implementation"
  BY EntriesKeepKind
<1>7. \A g, h \in dialects : g.id = h.id => g = h
  <2>1. \A c, d \in Range(m.dialects) : c.id = d.id => c = d
    BY IdsAreUnique DEF ValidStructure, ValidDialects, IsManifest
  <2>2. QED
    BY <2>1, EntriesFollowIds
<1>8. \A g, h \in kinds : g.id = h.id => g = h
  <2>1. \A c, d \in ValueKinds(m) : c.id = d.id => c = d
    BY ValueKindsAreUnique DEF ValidStructure
  <2>2. QED
    BY <2>1, EntriesFollowIds
<1>9. \A g, h \in suites : g.id = h.id => g = h
  <2>1. \A c, d \in Range(m.conformance_suites) : c.id = d.id => c = d
    BY IdsAreUnique DEF ValidStructure, IsManifest
  <2>2. QED
    BY <2>1, EntriesFollowIds
<1>10. \A g, h \in capabilities : g.id = h.id => g = h
  <2>1. \A c, d \in Range(m.capabilities) : c.id = d.id => c = d
    BY IdsAreUnique DEF ValidStructure, ValidCapabilities, IsManifest
  <2>2. QED
    BY <2>1, EntriesFollowIds
<1>11. \A g, h \in implementations : g.id = h.id => g = h
  <2>1. \A c, d \in Implementations(m) : c.id = d.id => c = d
    BY DEF Implementations
  <2>2. QED
    BY <2>1, EntriesFollowIds
<1> HIDE DEF dialects, kinds, suites, capabilities, implementations
<1>12. CASE e \in dialects
  BY <1>1, <1>2, <1>3, <1>4, <1>5, <1>6, <1>7, <1>12
<1>13. CASE e \in kinds
  BY <1>1, <1>2, <1>3, <1>4, <1>5, <1>6, <1>8, <1>13
<1>14. CASE e \in suites
  BY <1>1, <1>2, <1>3, <1>4, <1>5, <1>6, <1>9, <1>14
<1>15. CASE e \in capabilities
  BY <1>1, <1>2, <1>3, <1>4, <1>5, <1>6, <1>10, <1>15
<1>16. CASE e \in implementations
  BY <1>1, <1>2, <1>3, <1>4, <1>5, <1>6, <1>11, <1>16
<1>17. QED
  BY <1>1, <1>12, <1>13, <1>14, <1>15, <1>16

\* What is exported as a value kind is one the manifest declares.
LEMMA ValueKindExports ==
  ASSUME NEW m, NEW g \in Exports(m), g.kind = "value kind"
  PROVE  \E k \in ValueKinds(m) : k.id = g.id
<1>1. g \notin Entries("dialect", Range(m.dialects))
  BY EntriesKeepKind
<1>2. g \notin Entries("conformance suite", Range(m.conformance_suites))
  BY EntriesKeepKind
<1>3. g \notin Entries("capability", Range(m.capabilities))
  BY EntriesKeepKind
<1>4. g \notin Entries("implementation", Implementations(m))
  BY EntriesKeepKind
<1>5. g \in Entries("value kind", ValueKinds(m))
  BY <1>1, <1>2, <1>3, <1>4 DEF Exports
<1>6. PICK k \in ValueKinds(m) : g = [kind |-> "value kind", id |-> k.id, declaration |-> k]
  BY <1>5 DEF Entries
<1>7. QED
  BY <1>6

-----------------------------------------------------------------------------
(* Handles and packages.                                                    *)

\* What was captured with a manifest is what the manifest names.
CapturedAsNamed(p) ==
  /\ p.manifest \in Manifests
  /\ ValidStructure(p.manifest)
  /\ DOMAIN p.dependencies = DOMAIN p.manifest.dependencies
  /\ Len(p.dependencies) = Len(p.manifest.dependencies)
  /\ \A i \in DOMAIN p.manifest.dependencies :
       /\ p.dependencies[i].manifest \in Manifests
       /\ IdentityOf(p.dependencies[i]) = p.manifest.dependencies[i].package
       /\ DigestOf(p.dependencies[i]) = p.manifest.dependencies[i].digest

\* What a later installation still finds in a loaded package.
PackageOK(p) ==
  /\ CapturedAsNamed(p)
  /\ p.offers = DeclaredOffers(p.manifest, p.resources)
  /\ \A declaration \in Range(p.manifest.resources) :
       \E r \in p.resources : r.declaration = declaration /\ Copies(declaration, r.bytes)
  /\ \A o \in p.offers : o.offer.artifact_digest = o.artifact.declaration.digest

\* A load in progress is a record whose manifest passed the checks.
LoaderOK ==
  \/ loader = Idle
  \/ /\ loader = [status |-> "copying", catalog |-> loader.catalog,
                  manifest |-> loader.manifest, copied |-> loader.copied,
                  dependencies |-> loader.dependencies]
     /\ CapturedAsNamed(loader)

RegistryOK(reg) ==
  /\ Indexed(reg)
  /\ \A p \in reg.packages : CapturedAsNamed(p) /\ DirectIn(reg, p)

IInv ==
  /\ registry = [r \in Registries |-> registry[r]]
  /\ \A r \in Registries : RegistryOK(registry[r])
  /\ LoaderOK
  /\ \A p \in loaded : PackageOK(p)

\* Handles of exact dependencies are of the contents the manifest names.
LEMMA CaptureIsExact ==
  ASSUME NEW reg, RegistryOK(reg), NEW m \in Manifests, ValidStructure(m),
         HasExactDependencies(reg, m),
         NEW p, p.manifest = m, p.dependencies = CapturedDependencies(reg, m)
  PROVE  CapturedAsNamed(p)
<1>1. \A i \in DOMAIN m.dependencies :
        CapturedDependencies(reg, m)[i] \in Exact(reg, m.dependencies[i])
  BY DEF CapturedDependencies, HasExactDependencies, Range
<1>2. \A d, q : q \in Exact(reg, d) =>
        q.manifest \in Manifests /\ IdentityOf(q) = d.package /\ DigestOf(q) = d.digest
  BY DEF Exact, Installed, RegistryOK, CapturedAsNamed
<1>3. IsList(m.dependencies)
  BY DocumentsParse DEF IsManifest
<1>4. /\ DOMAIN CapturedDependencies(reg, m) = DOMAIN m.dependencies
      /\ Len(CapturedDependencies(reg, m)) = Len(m.dependencies)
  BY <1>3 DEF CapturedDependencies, IsList
<1>5. QED
  BY <1>1, <1>2, <1>4 DEF CapturedAsNamed

\* What publishing a package means.
LEMMA PublishedMeans ==
  ASSUME NEW reg, NEW p, InstallResult(reg, p) = "published"
  PROVE  /\ ValidAgainst(reg, p)
         /\ Installed(reg, IdentityOf(p)) = {}
         /\ Available(reg, p)
BY DEF InstallResult

\* A published package replaces nothing: whoever owned one of its identities
\* would be the same package, installed already.
LEMMA NothingReplaced ==
  ASSUME NEW reg, Indexed(reg), NEW p,
         Installed(reg, IdentityOf(p)) = {}, Available(reg, p)
  PROVE  /\ WithPackage(reg, p).exports = reg.exports \cup Owned(p)
         /\ \A e \in Owned(p), f \in reg.exports : ~ (e.kind = f.kind /\ e.id = f.id)
<1>1. \A f \in reg.exports : f.owner # IdentityOf(p)
  BY DEF Indexed, Owned, Installed
<1>2. \A e \in Exports(p.manifest), f \in reg.exports : ~ (e.kind = f.kind /\ e.id = f.id)
  BY <1>1 DEF Available
<1>3. \A e \in Owned(p), f \in reg.exports : ~ (e.kind = f.kind /\ e.id = f.id)
  BY <1>2 DEF Owned
<1>4. \A f \in reg.exports : ~ ExportsIdentity(p.manifest, f)
  BY <1>2 DEF ExportsIdentity
<1>5. QED
  BY <1>3, <1>4 DEF WithPackage

\* The maps of a registry stay those of its packages when one is published.
LEMMA PublishingIndexes ==
  ASSUME NEW reg, RegistryOK(reg), NEW p, PackageOK(p),
         InstallResult(reg, p) = "published"
  PROVE  Indexed(WithPackage(reg, p))
<1> DEFINE new == WithPackage(reg, p)
           h == Handle(p)
<1>1. Installed(reg, IdentityOf(p)) = {} /\ Available(reg, p) /\ Indexed(reg)
  BY PublishedMeans DEF RegistryOK
<1>2. /\ h.manifest = p.manifest
      /\ h.resources = p.resources
      /\ IdentityOf(h) = IdentityOf(p)
      /\ Owned(h) = Owned(p)
      /\ OwnedResources(h) = OwnedResources(p)
      /\ DeclaredOffers(h.manifest, h.resources) = p.offers
  BY DEF Handle, IdentityOf, Owned, OwnedResources, PackageOK
<1>3. /\ new.packages = reg.packages \cup {h}
      /\ new.exports = reg.exports \cup Owned(p)
      /\ new.resources = reg.resources \cup OwnedResources(p)
      /\ new.offers = reg.offers \cup p.offers
  BY <1>1, NothingReplaced DEF WithPackage
<1> HIDE DEF new, h
<1>4. \A q, t \in new.packages : IdentityOf(q) = IdentityOf(t) => q = t
  BY <1>1, <1>2, <1>3 DEF Indexed, Installed
<1>5. \A e, f \in new.exports : e.kind = f.kind /\ e.id = f.id => e = f
  <2>1. \A e, f \in reg.exports : e.kind = f.kind /\ e.id = f.id => e = f
    BY <1>1 DEF Indexed
  <2>2. \A e, f \in Owned(p) : e.kind = f.kind /\ e.id = f.id => e = f
    <3>1. IsManifest(p.manifest) /\ ValidStructure(p.manifest)
      BY DocumentsParse DEF PackageOK, CapturedAsNamed
    <3>2. QED
      BY <3>1, ExportsAreUnique DEF Owned
  <2>3. \A e \in Owned(p), f \in reg.exports : ~ (e.kind = f.kind /\ e.id = f.id)
    BY <1>1, NothingReplaced
  <2>4. QED
    BY <2>1, <2>2, <2>3, <1>3
<1>6. new.exports = UNION {Owned(q) : q \in new.packages}
  BY <1>1, <1>2, <1>3 DEF Indexed
<1>7. new.resources = UNION {OwnedResources(q) : q \in new.packages}
  BY <1>1, <1>2, <1>3 DEF Indexed
<1>8. new.offers = UNION {DeclaredOffers(q.manifest, q.resources) : q \in new.packages}
  BY <1>1, <1>2, <1>3 DEF Indexed
<1>9. QED
  BY <1>4, <1>5, <1>6, <1>7, <1>8 DEF Indexed, new

\* Packages of one digest have one manifest.
LEMMA SameDigestSameManifest ==
  ASSUME NEW p, NEW q, p.manifest \in Manifests, q.manifest \in Manifests,
         DigestOf(p) = DigestOf(q)
  PROVE  p.manifest = q.manifest
BY DigestsDiffer DEF DigestOf

\* What a package's references need is there when it is valid against a
\* registry: each is owned by a dependency, and the handle of that dependency
\* has the manifest the registry has.
LEMMA ValidMeansDirect ==
  ASSUME NEW reg, RegistryOK(reg), NEW p, PackageOK(p), ValidAgainst(reg, p)
  PROVE  DirectIn(reg, p)
<1> DEFINE named == p.manifest.dependencies
<1>1. \A i \in DOMAIN named :
        \E q \in Exact(reg, named[i]) : q.manifest = p.dependencies[i].manifest
  <2> SUFFICES ASSUME NEW i \in DOMAIN named
               PROVE  \E q \in Exact(reg, named[i]) : q.manifest = p.dependencies[i].manifest
    OBVIOUS
  <2>1. PICK q \in Exact(reg, named[i]) : TRUE
    BY DEF ValidAgainst, HasExactDependencies, Range
  <2>2. q.manifest \in Manifests /\ DigestOf(q) = named[i].digest
    BY <2>1 DEF Exact, Installed, RegistryOK, CapturedAsNamed
  <2>3. p.dependencies[i].manifest \in Manifests
        /\ DigestOf(p.dependencies[i]) = named[i].digest
    BY DEF PackageOK, CapturedAsNamed
  <2>4. QED
    BY <2>1, <2>2, <2>3, SameDigestSameManifest
<1>2. ASSUME NEW reference \in References(p.manifest)
      PROVE  \/ ExportsIdentity(p.manifest, reference)
             \/ \E i \in DOMAIN named : ExportsIdentity(p.dependencies[i].manifest, reference)
  <2>1. CASE ExportsIdentity(p.manifest, reference)
    BY <2>1
  <2>2. CASE Owns(reg, {d.package : d \in Range(named)}, reference)
    <3>1. PICK e \in reg.exports, i \in DOMAIN named :
            e.kind = reference.kind /\ e.id = reference.id /\ e.owner = named[i].package
      BY <2>2 DEF Owns, Range
    <3>2. PICK t \in reg.packages : e \in Owned(t)
      BY <3>1 DEF RegistryOK, Indexed
    <3>3. IdentityOf(t) = named[i].package /\ ExportsIdentity(t.manifest, reference)
      BY <3>1, <3>2 DEF Owned, ExportsIdentity
    <3>4. PICK q \in Exact(reg, named[i]) : q.manifest = p.dependencies[i].manifest
      BY <1>1
    <3>5. q = t
      BY <3>2, <3>3, <3>4 DEF Exact, Installed, RegistryOK, Indexed
    <3>6. QED
      BY <3>3, <3>4, <3>5
  <2>3. QED
    BY <2>1, <2>2 DEF ValidAgainst, ReferencesResolve
<1>3. QED
  BY <1>1, <1>2 DEF DirectIn, PackageOK, CapturedAsNamed

\* A package stays direct in a registry that has more packages.
LEMMA DirectIsMonotone ==
  ASSUME NEW reg, NEW new, reg.packages \subseteq new.packages,
         NEW p, DirectIn(reg, p)
  PROVE  DirectIn(new, p)
<1>1. \A d : Exact(reg, d) \subseteq Exact(new, d)
  BY DEF Exact, Installed
<1>2. QED
  BY <1>1 DEF DirectIn

\* Publishing keeps a registry as it should be, and adds to it.
LEMMA PublishingKeepsRegistryOK ==
  ASSUME NEW reg, RegistryOK(reg), NEW p, PackageOK(p),
         InstallResult(reg, p) = "published"
  PROVE  /\ RegistryOK(WithPackage(reg, p))
         /\ reg.packages \subseteq WithPackage(reg, p).packages
         /\ reg.exports \subseteq WithPackage(reg, p).exports
         /\ reg.resources \subseteq WithPackage(reg, p).resources
         /\ reg.offers \subseteq WithPackage(reg, p).offers
<1> DEFINE new == WithPackage(reg, p)
<1>1. new.packages = reg.packages \cup {Handle(p)}
  BY DEF WithPackage
<1>2. reg.resources \subseteq new.resources /\ reg.offers \subseteq new.offers
  BY DEF WithPackage
<1>3. reg.exports \subseteq new.exports
  BY PublishedMeans, NothingReplaced DEF RegistryOK
<1> HIDE DEF new
<1>4. CapturedAsNamed(Handle(p)) /\ (DirectIn(reg, p) => DirectIn(reg, Handle(p)))
  BY DEF Handle, CapturedAsNamed, DirectIn, PackageOK
<1>5. DirectIn(reg, Handle(p))
  BY <1>4, PublishedMeans, ValidMeansDirect
<1>6. \A q \in new.packages : CapturedAsNamed(q) /\ DirectIn(new, q)
  BY <1>1, <1>4, <1>5, DirectIsMonotone DEF RegistryOK
<1>7. Indexed(new)
  BY PublishingIndexes DEF new
<1>8. QED
  BY <1>1, <1>2, <1>3, <1>6, <1>7 DEF RegistryOK, new

-----------------------------------------------------------------------------
(* The invariant.                                                           *)

\* An empty registry satisfies the invariant.
LEMMA InitIInv == Init => IInv
<1> SUFFICES ASSUME Init PROVE IInv
  OBVIOUS
<1>1. RegistryOK(EmptyRegistry)
  BY DEF EmptyRegistry, RegistryOK, Indexed
<1>2. QED
  BY <1>1 DEF Init, IInv, LoaderOK

\* The invariant is inductive.
LEMMA StepKeepsIInv == IInv /\ [Next]_vars => IInv'
<1> SUFFICES ASSUME IInv, [Next]_vars PROVE IInv'
  OBVIOUS
<1>1. ASSUME NEW r \in Registries, NEW document \in Documents, ReadManifest(r, document)
      PROVE  IInv'
  <2>1. /\ UNCHANGED <<registry, loaded>>
        /\ loader' = [status |-> "copying", catalog |-> r, manifest |-> document.manifest,
                      copied |-> <<>>,
                      dependencies |-> CapturedDependencies(registry[r], document.manifest)]
    BY <1>1 DEF ReadManifest
  <2>2. loader'.manifest = document.manifest
        /\ loader'.dependencies = CapturedDependencies(registry[r], document.manifest)
    BY <2>1
  <2>3. RegistryOK(registry[r]) /\ document.manifest \in Manifests
        /\ ValidStructure(document.manifest)
        /\ HasExactDependencies(registry[r], document.manifest)
    BY <1>1 DEF IInv, Manifests, ReadManifest, Readable
  <2>4. CapturedAsNamed(loader')
    BY <2>2, <2>3, CaptureIsExact
  <2>5. LoaderOK'
    BY <2>1, <2>4 DEF LoaderOK, CapturedAsNamed
  <2>6. QED
    BY <2>1, <2>5 DEF IInv
<1>2. ASSUME NEW bytes \in Contents, CopyResource(bytes)
      PROVE  IInv'
  <2>1. UNCHANGED <<registry, loaded>> /\ loader.status = "copying"
    BY <1>2 DEF CopyResource
  <2>2. loader # Idle
    BY <2>1 DEF Idle
  <2>3. loader = [status |-> "copying", catalog |-> loader.catalog,
                  manifest |-> loader.manifest, copied |-> loader.copied,
                  dependencies |-> loader.dependencies]
        /\ CapturedAsNamed(loader)
    BY <2>2 DEF IInv, LoaderOK
  <2>4. CASE loader' = Idle
    BY <2>1, <2>4 DEF IInv, LoaderOK
  <2>5. CASE loader' # Idle
    <3>1. PICK copied : loader' = [loader EXCEPT !.copied = copied]
      BY <1>2, <2>5 DEF CopyResource
    <3>2. loader' = [status |-> "copying", catalog |-> loader.catalog,
                     manifest |-> loader.manifest, copied |-> copied,
                     dependencies |-> loader.dependencies]
      BY <2>3, <3>1
    <3>3. LoaderOK'
      BY <2>3, <3>2 DEF LoaderOK, CapturedAsNamed
    <3>4. QED
      BY <2>1, <3>3 DEF IInv
  <2>6. QED
    BY <2>4, <2>5
<1>3. ASSUME FinishLoad
      PROVE  IInv'
  <2>1. UNCHANGED registry /\ loader' = Idle /\ loader.status = "copying"
    BY <1>3 DEF FinishLoad
  <2>2. CapturedAsNamed(loader)
    BY <2>1 DEF IInv, LoaderOK, Idle
  <2>3. ASSUME ValidAgainst(registry[loader.catalog], LoadedPackage)
        PROVE  PackageOK(LoadedPackage)
    <3>1. CapturedAsNamed(LoadedPackage)
      BY <2>2 DEF LoadedPackage, Loaded, CapturedAsNamed
    <3>2. QED
      BY <2>3, <3>1 DEF PackageOK, LoadedPackage, Loaded, ValidAgainst
  <2>4. \A p \in loaded' : PackageOK(p)
    BY <1>3, <2>3 DEF FinishLoad, IInv
  <2>5. QED
    BY <2>1, <2>4 DEF IInv, LoaderOK
<1>4. ASSUME NEW package \in loaded, Drop(package)
      PROVE  IInv'
  BY <1>4 DEF Drop, IInv, LoaderOK
<1>5. ASSUME NEW r \in Registries, NEW package \in loaded, Install(r, package)
      PROVE  IInv'
  <2>1. RegistryOK(registry[r]) /\ PackageOK(package)
        /\ InstallResult(registry[r], package) = "published"
    BY <1>5 DEF Install, IInv
  <2>2. RegistryOK(WithPackage(registry[r], package))
    BY <2>1, PublishingKeepsRegistryOK
  <2>3. registry' = [s \in Registries |-> IF s = r THEN WithPackage(registry[r], package)
                                          ELSE registry[s]]
    BY <1>5 DEF Install, IInv
  <2>4. QED
    BY <1>5, <2>2, <2>3 DEF Install, IInv, LoaderOK
<1>6. ASSUME NEW r \in Registries, NEW s \in Registries, CloneRegistry(r, s)
      PROVE  IInv'
  BY <1>6 DEF CloneRegistry, IInv, LoaderOK
<1>7. CASE UNCHANGED vars
  BY <1>7 DEF vars, IInv, LoaderOK
<1>8. QED
  BY <1>1, <1>2, <1>3, <1>4, <1>5, <1>6, <1>7 DEF Next

\* The invariant holds of every run.
THEOREM InvariantHolds == Spec => []IInv
BY InitIInv, StepKeepsIInv, PTL DEF Spec

-----------------------------------------------------------------------------
(* What follows.                                                            *)

\* Every entry is an export of a package, which is its owner.
LEMMA EntriesHavePackages ==
  ASSUME NEW reg, Indexed(reg), NEW e \in reg.exports
  PROVE  \E p \in reg.packages :
           e.owner = IdentityOf(p) /\ ExportsIdentity(p.manifest, e)
<1>1. PICK p \in reg.packages : e \in Owned(p)
  BY DEF Indexed
<1>2. QED
  BY <1>1 DEF Owned, ExportsIdentity

\* Every export of a package has an entry, which it owns.
LEMMA PackagesHaveEntries ==
  ASSUME NEW reg, Indexed(reg), NEW p \in reg.packages, NEW reference,
         ExportsIdentity(p.manifest, reference)
  PROVE  \E e \in reg.exports :
           e.kind = reference.kind /\ e.id = reference.id /\ e.owner = IdentityOf(p)
<1>1. PICK g \in Exports(p.manifest) : g.kind = reference.kind /\ g.id = reference.id
  BY DEF ExportsIdentity
<1> DEFINE e == [kind |-> g.kind, id |-> g.id, declaration |-> g.declaration,
                 owner |-> IdentityOf(p)]
<1>2. e \in Owned(p)
  BY DEF Owned
<1>3. e \in reg.exports
  BY <1>2 DEF Indexed
<1>4. QED
  BY <1>1, <1>3

\* Every registry, in every program over any documents, has exactly the
\* identities its packages declare, each with one owner.
THEOREM LookupsFollowTheorem == Spec => []LookupsFollowPackages
<1>1. IInv => LookupsFollowPackages
  BY DEF IInv, RegistryOK, LookupsFollowPackages
<1>2. QED
  BY <1>1, InvariantHolds, PTL

\* References go to the package itself and to its exact direct dependencies,
\* also when it was loaded with another registry.
THEOREM ReferencesDirectTheorem == Spec => []ReferencesAreDirect
<1>1. IInv => ReferencesAreDirect
  BY DEF IInv, RegistryOK, ReferencesAreDirect
<1>2. QED
  BY <1>1, InvariantHolds, PTL

\* A registry only ever grows: no installation replaces an entry.
THEOREM LookupsStableTheorem == Spec => LookupsStable
<1> DEFINE Grows(r) == /\ registry[r].packages \subseteq registry'[r].packages
                       /\ registry[r].exports \subseteq registry'[r].exports
                       /\ registry[r].resources \subseteq registry'[r].resources
                       /\ registry[r].offers \subseteq registry'[r].offers
<1>1. ASSUME IInv, [Next]_vars, NEW q \in Registries
      PROVE  Grows(q)
  <2>1. ASSUME NEW r \in Registries, NEW package \in loaded, Install(r, package)
        PROVE  Grows(q)
    <3>1. RegistryOK(registry[r]) /\ PackageOK(package)
          /\ InstallResult(registry[r], package) = "published"
      BY <1>1, <2>1 DEF Install, IInv
    <3>2. registry'[q] = IF q = r THEN WithPackage(registry[r], package) ELSE registry[q]
      BY <1>1, <2>1 DEF Install, IInv
    <3>3. QED
      BY <3>1, <3>2, PublishingKeepsRegistryOK
  <2>2. ASSUME NEW r \in Registries, NEW s \in Registries, CloneRegistry(r, s)
        PROVE  Grows(q)
    <3>1. registry'[q] = IF q = s THEN registry[r] ELSE registry[q]
      BY <1>1, <2>2 DEF CloneRegistry, IInv
    <3>2. registry[s] = EmptyRegistry
      BY <2>2 DEF CloneRegistry
    <3>3. QED
      BY <3>1, <3>2 DEF EmptyRegistry
  <2>3. CASE UNCHANGED registry
    BY <2>3
  <2>4. QED
    BY <1>1, <2>1, <2>2, <2>3
    DEF Next, ReadManifest, CopyResource, FinishLoad, Drop, vars
<1>2. IInv /\ [Next]_vars => [\A r \in Registries : Grows(r)]_vars
  BY <1>1
<1>3. QED
  BY <1>2, InvariantHolds, PTL DEF Spec, LookupsStable

\* A planner can be built from every registry.
THEOREM NoOrphanTheorem == Spec => []NoOrphanedOffer
<1>1. ASSUME IInv, NEW r \in Registries, NEW o \in registry[r].offers
      PROVE  \E e \in registry[r].exports : e.kind = "capability" /\ e.id = o.offer.capability
  <2> DEFINE reg == registry[r]
  <2>1. RegistryOK(reg)
    BY <1>1 DEF IInv
  <2>2. PICK p \in reg.packages : o \in DeclaredOffers(p.manifest, p.resources)
    BY <1>1, <2>1 DEF RegistryOK, Indexed
  <2>3. PICK d \in Range(p.manifest.implementation_offers) : o.offer.capability = d.capability
    BY <2>2 DEF DeclaredOffers, OfferFrom
  <2> DEFINE used == Reference("capability", d.capability)
  <2>4. used \in References(p.manifest)
    BY DEF References
  <2>5. PICK q \in reg.packages : ExportsIdentity(q.manifest, used)
    <3>1. DirectIn(reg, p)
      BY <2>1 DEF RegistryOK
    <3>2. CASE ExportsIdentity(p.manifest, used)
      BY <3>2
    <3>3. CASE \E i \in DOMAIN p.manifest.dependencies :
                 ExportsIdentity(p.dependencies[i].manifest, used)
      BY <3>1, <3>3 DEF DirectIn, Exact, Installed
    <3>4. QED
      BY <2>4, <3>1, <3>2, <3>3 DEF DirectIn
  <2>6. \E e \in reg.exports : e.kind = used.kind /\ e.id = used.id
    BY <2>1, <2>5, PackagesHaveEntries DEF RegistryOK
  <2>7. QED
    BY <2>3, <2>6 DEF Reference
<1>2. IInv => NoOrphanedOffer
  BY <1>1 DEF NoOrphanedOffer
<1>3. QED
  BY <1>2, InvariantHolds, PTL

\* Installing what is installed is accepted, whichever registry it was loaded
\* with: everything the second validation asks for is there already.
THEOREM ReinstallTheorem == Spec => []ReinstallAccepted
<1>1. ASSUME IInv, NEW r \in Registries, NEW package \in loaded,
             NEW p \in Installed(registry[r], IdentityOf(package)),
             DigestOf(p) = DigestOf(package)
      PROVE  InstallResult(registry[r], package) = "already_installed"
  <2> DEFINE reg == registry[r]
             named == package.manifest.dependencies
  <2>1. RegistryOK(reg) /\ PackageOK(package) /\ p \in reg.packages
    BY <1>1 DEF IInv, Installed
  <2>2. p.manifest = package.manifest
    BY <1>1, <2>1, SameDigestSameManifest DEF RegistryOK, CapturedAsNamed, PackageOK
  <2>3. DirectIn(reg, p)
    BY <2>1 DEF RegistryOK
  <2>4. HasExactDependencies(reg, package.manifest)
    BY <2>2, <2>3 DEF DirectIn, HasExactDependencies, Range
  <2>5. ReferencesResolve(reg, package.manifest)
    <3>1. ASSUME NEW reference \in References(package.manifest),
                 ~ ExportsIdentity(package.manifest, reference)
          PROVE  Owns(reg, {d.package : d \in Range(named)}, reference)
      <4>1. PICK i \in DOMAIN named : ExportsIdentity(p.dependencies[i].manifest, reference)
        BY <2>2, <2>3, <3>1 DEF DirectIn
      <4>2. PICK q \in Exact(reg, named[i]) : q.manifest = p.dependencies[i].manifest
        BY <2>2, <2>3 DEF DirectIn
      <4>3. q \in reg.packages /\ IdentityOf(q) = named[i].package
        BY <4>2 DEF Exact, Installed
      <4>4. \E e \in reg.exports :
              e.kind = reference.kind /\ e.id = reference.id /\ e.owner = named[i].package
        BY <2>1, <4>1, <4>2, <4>3, PackagesHaveEntries DEF RegistryOK
      <4>5. QED
        BY <4>4 DEF Owns, Range
    <3>2. QED
      BY <3>1 DEF ReferencesResolve
  <2>6. ValidAgainst(reg, package)
    BY <2>1, <2>4, <2>5 DEF ValidAgainst, PackageOK, CapturedAsNamed
  <2>7. QED
    BY <1>1, <2>6 DEF InstallResult
<1>2. IInv => ReinstallAccepted
  BY <1>1 DEF ReinstallAccepted
<1>3. QED
  BY <1>2, InvariantHolds, PTL

\* The package that owns a value kind owns its dialect.
THEOREM DialectsTheorem == Spec => []DialectsOwnTheirKinds
<1>1. ASSUME IInv, NEW r \in Registries, NEW e \in registry[r].exports, e.kind = "value kind"
      PROVE  \E f \in registry[r].exports :
               f.kind = "dialect" /\ f.id = DialectOf(e) /\ f.owner = e.owner
  <2> DEFINE owner == Reference("dialect", DialectOf(e))
  <2>1. RegistryOK(registry[r])
    BY <1>1 DEF IInv
  <2>2. PICK p \in registry[r].packages :
          e.owner = IdentityOf(p) /\ ExportsIdentity(p.manifest, e)
    BY <1>1, <2>1, EntriesHavePackages DEF RegistryOK
  <2>3. PICK k \in ValueKinds(p.manifest) : k.id = e.id
    <3>1. PICK g \in Exports(p.manifest) : g.kind = "value kind" /\ g.id = e.id
      BY <1>1, <2>2 DEF ExportsIdentity
    <3>2. \E k \in ValueKinds(p.manifest) : k.id = g.id
      BY <3>1, ValueKindExports
    <3>3. QED
      BY <3>1, <3>2
  <2>4. PICK d \in Range(p.manifest.dialects) : k \in Range(d.value_kinds)
    BY DEF ValueKinds
  <2>5. d.id = DialectOf(e)
    BY <2>1, <2>3, <2>4
    DEF RegistryOK, CapturedAsNamed, ValidStructure, ValidDialects, DialectOf
  <2>6. ExportsIdentity(p.manifest, owner)
    <3>1. [kind |-> "dialect", id |-> d.id, declaration |-> d] \in Exports(p.manifest)
      BY DEF Exports, Entries
    <3>2. QED
      BY <2>5, <3>1 DEF ExportsIdentity, Reference
  <2>7. QED
    BY <2>1, <2>2, <2>6, PackagesHaveEntries DEF RegistryOK, Reference
<1>2. IInv => DialectsOwnTheirKinds
  BY <1>1 DEF DialectsOwnTheirKinds
<1>3. QED
  BY <1>2, InvariantHolds, PTL

-----------------------------------------------------------------------------
(* The bytes.  The invariant follows the copies of a load, one for each     *)
(* declaration in its order, into the set of resources a package keeps.     *)

Allowed(manifest) == manifest \in Manifests /\ ResourcesWithin(manifest, Limits)

\* The copies made so far are of the first declarations, with their bytes.
CopiedFrom(manifest, copied) ==
  /\ copied \in Seq([declaration : Range(manifest.resources), bytes : Contents])
  /\ Len(copied) <= Len(manifest.resources)
  /\ \A i \in 1 .. Len(copied) :
       copied[i].declaration = manifest.resources[i] /\ Copies(copied[i].declaration, copied[i].bytes)

\* A package's resources are copies of all the declarations.
Complete(p) ==
  /\ Allowed(p.manifest)
  /\ \E copied \in [DOMAIN p.manifest.resources -> p.resources] :
       /\ \A r \in p.resources : \E i \in DOMAIN p.manifest.resources : copied[i] = r
       /\ \A i \in DOMAIN p.manifest.resources :
            /\ copied[i].declaration = p.manifest.resources[i]
            /\ Copies(copied[i].declaration, copied[i].bytes)

Copying == loader = Idle \/ (Allowed(loader.manifest) /\ CopiedFrom(loader.manifest, loader.copied))

BytesInv ==
  /\ Copying
  /\ \A p \in loaded : Complete(p)
  /\ \A r \in Registries : \A p \in registry[r].packages : Complete(p)

\* A load that copied them all returns a complete package.
LEMMA LoadedIsComplete ==
  ASSUME NEW m, Allowed(m), NEW copied, CopiedFrom(m, copied),
         ~ Uncopied(m, copied), NEW dependencies
  PROVE  Complete(Loaded(m, Range(copied), dependencies))
<1> DEFINE p == Loaded(m, Range(copied), dependencies)
<1>1. p.manifest = m /\ p.resources = Range(copied)
  BY DEF Loaded
<1>2. IsList(m.resources)
  BY DocumentsParse DEF Allowed, IsManifest
<1>3. copied \in Seq([declaration : Range(m.resources), bytes : Contents])
        /\ Len(copied) <= Len(m.resources)
  BY DEF CopiedFrom
<1>4. DOMAIN copied = 1 .. Len(copied) /\ Len(copied) \in Nat
  BY <1>3
<1>5. DOMAIN copied = DOMAIN m.resources
  BY <1>2, <1>3, <1>4 DEF Uncopied, IsList
<1>6. copied \in [DOMAIN m.resources -> Range(copied)]
  BY <1>3, <1>5 DEF Range
<1>7. \A r \in Range(copied) : \E i \in DOMAIN m.resources : copied[i] = r
  BY <1>5 DEF Range
<1>8. \A i \in DOMAIN m.resources :
        copied[i].declaration = m.resources[i] /\ Copies(copied[i].declaration, copied[i].bytes)
  BY <1>4, <1>5 DEF CopiedFrom
<1> HIDE DEF p
<1> QED  BY <1>1, <1>6, <1>7, <1>8 DEF Complete, p

\* A handle has the resources of its package.
LEMMA HandleIsComplete ==
  ASSUME NEW p, Complete(p)
  PROVE  Complete(Handle(p))
<1>1. Handle(p).manifest = p.manifest /\ Handle(p).resources = p.resources
  BY DEF Handle
<1> QED  BY <1>1 DEF Complete

\* One more copy of the next declaration.
LEMMA CopyingGoesOn ==
  ASSUME NEW m, Allowed(m), NEW copied, CopiedFrom(m, copied), Uncopied(m, copied),
         NEW bytes \in Contents, Copies(m.resources[Len(copied) + 1], bytes)
  PROVE  CopiedFrom(m, Append(copied, [declaration |-> m.resources[Len(copied) + 1],
                                       bytes |-> bytes]))
<1> DEFINE n == Len(copied) + 1
           C == [declaration : Range(m.resources), bytes : Contents]
           copy == [declaration |-> m.resources[n], bytes |-> bytes]
<1>1. IsList(m.resources)
  BY DocumentsParse DEF Allowed, IsManifest
<1>2. copied \in Seq(C) /\ Len(copied) \in Nat
  BY DEF CopiedFrom
<1>3. n \in DOMAIN m.resources /\ n <= Len(m.resources)
  BY <1>1, <1>2 DEF Uncopied, IsList
<1>4. copy \in C /\ copy.declaration = m.resources[n] /\ copy.bytes = bytes
  BY <1>3 DEF Range
<1> HIDE DEF copy, C
<1>5. Append(copied, copy) \in Seq(C) /\ Len(Append(copied, copy)) = n
  BY <1>2, <1>4
<1>6. \A i \in 1 .. n : Append(copied, copy)[i] = IF i = n THEN copy ELSE copied[i]
  BY <1>2
<1>7. \A i \in 1 .. n :
        /\ Append(copied, copy)[i].declaration = m.resources[i]
        /\ Copies(Append(copied, copy)[i].declaration, Append(copied, copy)[i].bytes)
  BY <1>2, <1>4, <1>6 DEF CopiedFrom
<1> QED  BY <1>3, <1>5, <1>7 DEF CopiedFrom, copy, C

\* Nothing is installed at first, so no bytes are.
LEMMA InitBytes == Init => BytesInv
BY DEF Init, BytesInv, Copying, EmptyRegistry

\* Installed bytes stay as declared: the invariant of bytes is inductive.
LEMMA StepKeepsBytes == IInv /\ BytesInv /\ [Next]_vars => BytesInv'
<1> SUFFICES ASSUME IInv, BytesInv, [Next]_vars PROVE BytesInv'
  OBVIOUS
<1>1. ASSUME NEW r \in Registries, NEW document \in Documents, ReadManifest(r, document)
      PROVE  BytesInv'
  <2>1. /\ UNCHANGED <<registry, loaded>>
        /\ loader' = [status |-> "copying", catalog |-> r, manifest |-> document.manifest,
                      copied |-> <<>>,
                      dependencies |-> CapturedDependencies(registry[r], document.manifest)]
    BY <1>1 DEF ReadManifest
  <2>2. loader'.manifest = document.manifest /\ loader'.copied = <<>>
    BY <2>1
  <2>3. Allowed(document.manifest)
    BY <1>1 DEF Allowed, Manifests, ReadManifest, WithinLimits
  <2>4. CopiedFrom(document.manifest, <<>>)
    <3>1. IsList(document.manifest.resources)
      BY <2>3, DocumentsParse DEF Allowed, IsManifest
    <3> QED  BY <3>1 DEF CopiedFrom, IsList
  <2> QED  BY <2>1, <2>2, <2>3, <2>4 DEF BytesInv, Copying
<1>2. ASSUME NEW bytes \in Contents, CopyResource(bytes)
      PROVE  BytesInv'
  <2> DEFINE declaration == loader.manifest.resources[Len(loader.copied) + 1]
             copies == Append(loader.copied, [declaration |-> declaration, bytes |-> bytes])
  <2>1. UNCHANGED <<registry, loaded>> /\ loader.status = "copying"
    BY <1>2 DEF CopyResource
  <2>2. loader # Idle
    BY <2>1 DEF Idle
  <2>3. Allowed(loader.manifest) /\ CopiedFrom(loader.manifest, loader.copied)
    BY <2>2 DEF BytesInv, Copying
  <2>4. CASE loader' = Idle
    BY <2>1, <2>4 DEF BytesInv, Copying
  <2>5. CASE loader' # Idle
    <3>1. Copies(declaration, bytes) /\ loader' = [loader EXCEPT !.copied = copies]
      BY <1>2, <2>5 DEF CopyResource
    <3>2. loader'.manifest = loader.manifest /\ loader'.copied = copies
      BY <2>2, <3>1 DEF IInv, LoaderOK
    <3>3. CopiedFrom(loader.manifest, copies)
      BY <1>2, <2>3, <3>1, CopyingGoesOn DEF CopyResource
    <3> QED  BY <2>1, <2>3, <3>2, <3>3 DEF BytesInv, Copying
  <2> QED  BY <2>4, <2>5
<1>3. ASSUME FinishLoad
      PROVE  BytesInv'
  <2>1. UNCHANGED registry /\ loader' = Idle /\ loader.status = "copying"
        /\ ~ Uncopied(loader.manifest, loader.copied)
    BY <1>3 DEF FinishLoad
  <2>2. Allowed(loader.manifest) /\ CopiedFrom(loader.manifest, loader.copied)
    BY <2>1 DEF BytesInv, Copying, Idle
  <2>3. Complete(LoadedPackage)
    BY <2>1, <2>2, LoadedIsComplete DEF LoadedPackage
  <2>4. \A p \in loaded' : Complete(p)
    BY <1>3, <2>3 DEF FinishLoad, BytesInv
  <2> QED  BY <2>1, <2>4 DEF BytesInv, Copying
<1>4. ASSUME NEW package \in loaded, Drop(package)
      PROVE  BytesInv'
  BY <1>4 DEF Drop, BytesInv, Copying
<1>5. ASSUME NEW r \in Registries, NEW package \in loaded, Install(r, package)
      PROVE  BytesInv'
  <2>1. Complete(Handle(package))
    BY HandleIsComplete DEF BytesInv
  <2>2. \A s \in Registries : registry'[s] = IF s = r THEN WithPackage(registry[r], package)
                                             ELSE registry[s]
    BY <1>5 DEF Install, IInv
  <2>3. WithPackage(registry[r], package).packages
          = registry[r].packages \cup {Handle(package)}
    BY DEF WithPackage
  <2>4. \A s \in Registries : \A p \in registry'[s].packages : Complete(p)
    BY <2>1, <2>2, <2>3 DEF BytesInv
  <2> QED  BY <1>5, <2>4 DEF Install, BytesInv, Copying
<1>6. ASSUME NEW r \in Registries, NEW s \in Registries, CloneRegistry(r, s)
      PROVE  BytesInv'
  <2>1. \A t \in Registries : registry'[t] = IF t = s THEN registry[r] ELSE registry[t]
    BY <1>6 DEF CloneRegistry, IInv
  <2>2. \A t \in Registries : \A p \in registry'[t].packages : Complete(p)
    BY <2>1 DEF BytesInv
  <2> QED  BY <1>6, <2>2 DEF CloneRegistry, BytesInv, Copying
<1>7. CASE UNCHANGED vars
  BY <1>7 DEF vars, BytesInv, Copying
<1> QED  BY <1>1, <1>2, <1>3, <1>4, <1>5, <1>6, <1>7 DEF Next

\* Sums of sizes are numbers of units.
LEMMA SizesAreUnits ==
  ASSUME NEW S, IsFiniteSet(S), \A r \in S : r.bytes.size \in Nat
  PROVE  MapThenSumSet(LAMBDA r : r.bytes.size, S)
           = Cardinality(Units([r \in S |-> r.bytes.size], S))
<1> DEFINE w == [r \in S |-> r.bytes.size]
           iter == CHOOSE f : f = [s \in SUBSET S |->
                     IF s = {} THEN 0
                     ELSE (CHOOSE x \in s : TRUE).bytes.size + f[s \ {CHOOSE x \in s : TRUE}]]
<1>1. MapThenSumSet(LAMBDA r : r.bytes.size, S) = iter[S]
  BY DEF MapThenSumSet, MapThenFoldSet
<1>2. \A x \in S : w[x] \in Nat
  OBVIOUS
<1>3. \A f : f = [s \in SUBSET S |->
                    IF s = {} THEN 0
                    ELSE (CHOOSE x \in s : TRUE).bytes.size + f[s \ {CHOOSE x \in s : TRUE}]]
               <=> AddsUp(f, w, S)
  <2>1. \A s \in SUBSET S : s # {} => w[Picked(s)] = (CHOOSE x \in s : TRUE).bytes.size
    BY DEF Picked
  <2> QED  BY <2>1 DEF AddsUp, Picked
<1>4. AddsUp(iter, w, S)
  <2>1. PICK sum : AddsUp(sum, w, S)
    BY <1>2, SumExists
  <2>2. sum = [s \in SUBSET S |->
                 IF s = {} THEN 0
                 ELSE (CHOOSE x \in s : TRUE).bytes.size + sum[s \ {CHOOSE x \in s : TRUE}]]
    BY <1>3, <2>1
  <2>3. iter = [s \in SUBSET S |->
                  IF s = {} THEN 0
                  ELSE (CHOOSE x \in s : TRUE).bytes.size + iter[s \ {CHOOSE x \in s : TRUE}]]
    BY <2>2
  <2> HIDE DEF iter, w
  <2> QED  BY <1>3, <2>3
<1> HIDE DEF iter, w
<1> QED  BY <1>1, <1>2, <1>4, SumIsUnits DEF w

\* The sizes of what is kept sum up to no more than the declared ones do.
LEMMA KeptWithinLimits ==
  ASSUME NEW p, Complete(p)
  PROVE  MapThenSumSet(LAMBDA r : r.bytes.size, p.resources) <= Limits.total_resource_bytes
<1> DEFINE D == DOMAIN p.manifest.resources
           sizes == [i \in D |-> p.manifest.resources[i].size]
           w == [r \in p.resources |-> r.bytes.size]
<1>1. PICK copied \in [D -> p.resources] :
        /\ \A r \in p.resources : \E i \in D : copied[i] = r
        /\ \A i \in D : /\ copied[i].declaration = p.manifest.resources[i]
                        /\ Copies(copied[i].declaration, copied[i].bytes)
  BY DEF Complete
<1>2. IsManifest(p.manifest) /\ ResourcesWithin(p.manifest, Limits)
  BY DocumentsParse DEF Complete, Allowed
<1>3. IsFiniteSet(D) /\ \A i \in D : sizes[i] \in Nat
  <2>1. D = 1 .. Len(p.manifest.resources) /\ Len(p.manifest.resources) \in Nat
    BY <1>2 DEF IsManifest, IsList
  <2>2. IsFiniteSet(D)
    BY <2>1, FS_Interval
  <2> QED  BY <1>2, <2>2 DEF IsManifest, Range
<1>4. \A i \in D : copied[i].bytes.size = sizes[i]
  BY <1>1 DEF Copies
<1>5. IsFiniteSet(p.resources)
  <2>1. copied \in Surjection(D, p.resources)
    BY <1>1 DEF Surjection
  <2> QED  BY <1>3, <2>1, FS_Surjection
<1>6. \A r \in p.resources : r.bytes.size \in Nat
  <2> HIDE DEF sizes, D
  <2> QED  BY <1>1, <1>3, <1>4
<1>7. MapThenSumSet(LAMBDA r : r.bytes.size, p.resources) = Cardinality(Units(w, p.resources))
  BY <1>5, <1>6, SizesAreUnits
<1>8. SumFunction(sizes) = Cardinality(Units(sizes, D))
  <2>1. DOMAIN sizes = D
    OBVIOUS
  <2> HIDE DEF sizes
  <2> QED  BY <1>3, <2>1, SumFunctionIsUnits
<1>9. Cardinality(Units(w, p.resources)) <= Cardinality(Units(sizes, D))
  <2>1. \A i \in D : w[copied[i]] = sizes[i]
    BY <1>4
  <2> HIDE DEF w, sizes, D
  <2> QED  BY <1>1, <1>3, <2>1, ReachedWeighsNoMore
<1>10. SumFunction(sizes) <= Limits.total_resource_bytes
  BY <1>2 DEF ResourcesWithin
<1>11. Cardinality(Units(sizes, D)) \in Nat /\ Cardinality(Units(w, p.resources)) \in Nat
  <2>1. IsFiniteSet(Units(sizes, D)) /\ IsFiniteSet(Units(w, p.resources))
    <3>1. \A r \in p.resources : w[r] \in Nat
      BY <1>6
    <3> HIDE DEF w, sizes, D
    <3> QED  BY <1>3, <1>5, <3>1, UnitsFinite
  <2> QED  BY <2>1, FS_CardinalityType
<1> HIDE DEF w, sizes, D
<1> QED  BY <1>7, <1>8, <1>9, <1>10, <1>11, LimitsAreNumbers

\* What is kept is complete in every state.
THEOREM BytesInvariant == Spec => []BytesInv
BY InitBytes, StepKeepsBytes, InvariantHolds, PTL DEF Spec

\* Whatever the directory held while it was read, a package that is loaded or
\* installed has the bytes its manifest declares, all of them, within the limits.
THEOREM BytesTheorem == Spec => []BytesAsDeclared
<1>1. ASSUME NEW p, Complete(p)
      PROVE  /\ {r.declaration : r \in p.resources} = Range(p.manifest.resources)
             /\ \A r \in p.resources :
                  r.bytes.digest = r.declaration.digest /\ r.bytes.size = r.declaration.size
             /\ \A o \in DeclaredOffers(p.manifest, p.resources) :
                  o.offer.artifact_digest = o.artifact.bytes.digest
  <2> DEFINE D == DOMAIN p.manifest.resources
  <2>1. PICK copied \in [D -> p.resources] :
          /\ \A r \in p.resources : \E i \in D : copied[i] = r
          /\ \A i \in D : /\ copied[i].declaration = p.manifest.resources[i]
                          /\ Copies(copied[i].declaration, copied[i].bytes)
    BY <1>1 DEF Complete
  <2>2. {r.declaration : r \in p.resources} = Range(p.manifest.resources)
    BY <2>1 DEF Range
  <2>3. \A r \in p.resources :
          r.bytes.digest = r.declaration.digest /\ r.bytes.size = r.declaration.size
    BY <2>1 DEF Copies
  <2>4. \A o \in DeclaredOffers(p.manifest, p.resources) :
          o.offer.artifact_digest = o.artifact.bytes.digest
    BY <2>3 DEF DeclaredOffers, OfferFrom
  <2> QED  BY <2>2, <2>3, <2>4
<1>2. IInv /\ BytesInv => BytesAsDeclared
  <2>1. BytesInv => \A p \in loaded \cup InstalledPackages : Complete(p)
    BY DEF BytesInv, InstalledPackages
  <2> QED  BY <1>1, <2>1, KeptWithinLimits DEF BytesAsDeclared
<1> QED  BY <1>2, BytesInvariant, InvariantHolds, PTL
=============================================================================
