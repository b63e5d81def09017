--------------------------- MODULE PackageManifest ---------------------------
(***************************************************************************)
(* The package/v1 document of gooir-package (src/lib.rs): what a manifest  *)
(* declares, and when it is structurally valid on its own.                 *)
(*                                                                         *)
(* An identity is a tuple of numbers, so that identities have the order    *)
(* the code sorts them by (those of one list have one length); a value     *)
(* kind's is its dialect's followed by a name. Paths, media types,         *)
(* versions and extension keys are left out; `extensions` is one value     *)
(* that tells contents apart. A document is a manifest with the content    *)
(* digest written in it.                                                   *)
(***************************************************************************)
EXTENDS Naturals, SequencesExt

CONSTANT PackageDigest(_)  \* the identity of a manifest's content

\* What a parsed manifest is, before it is validated.
IsList(list) == Len(list) \in Nat /\ DOMAIN list = 1 .. Len(list)

HasIds(list) == IsList(list) /\ \A d \in Range(list) : d.id \in Seq(Nat)

IsManifest(manifest) ==
  /\ IsList(manifest.dependencies)
  /\ IsList(manifest.resources)
  /\ \A r \in Range(manifest.resources) : r.name \in Seq(Nat) /\ r.size \in Nat
  /\ HasIds(manifest.dialects)
  /\ \A dialect \in Range(manifest.dialects) : HasIds(dialect.value_kinds)
  /\ HasIds(manifest.conformance_suites)
  /\ HasIds(manifest.capabilities)
  /\ IsList(manifest.implementation_offers)

-----------------------------------------------------------------------------
(* Strictly sorted sets.                                                    *)

Precedes(a, b) ==
  \E i \in DOMAIN a \cap DOMAIN b :
    /\ a[i] < b[i]
    /\ \A j \in 1 .. i - 1 : a[j] = b[j]

StrictlySorted(keys) ==
  \A i, j \in DOMAIN keys : i < j => Precedes(keys[i], keys[j])

KeysBy(declarations, Key(_)) == [i \in DOMAIN declarations |-> Key(declarations[i])]

IdOf(declaration) == declaration.id
NameOf(declaration) == declaration.name
PackageOf(dependency) == dependency.package
OfferSortKey(offer) == offer.capability \o offer.implementation \o offer.artifact

-----------------------------------------------------------------------------
(* Structure.                                                               *)

ResourceNames(manifest) == {resource.name : resource \in Range(manifest.resources)}

ValidDependencies(manifest) ==
  /\ StrictlySorted(KeysBy(manifest.dependencies, PackageOf))
  /\ \A dependency \in Range(manifest.dependencies) : dependency.package # manifest.package

DialectOf(value_kind) == <<value_kind.id[1]>>

\* Fault: a dialect may declare a value kind of another one.
ValidDialects_AnyOwner(manifest) ==
  /\ StrictlySorted(KeysBy(manifest.dialects, IdOf))
  /\ \A dialect \in Range(manifest.dialects) :
       StrictlySorted(KeysBy(dialect.value_kinds, IdOf))

\* A schema is a set of at most one resource name.
ValidDialects(manifest) ==
  /\ StrictlySorted(KeysBy(manifest.dialects, IdOf))
  /\ \A dialect \in Range(manifest.dialects) :
       /\ StrictlySorted(KeysBy(dialect.value_kinds, IdOf))
       /\ \A value_kind \in Range(dialect.value_kinds) :
            /\ DialectOf(value_kind) = dialect.id
            /\ value_kind.schema \subseteq ResourceNames(manifest)

\* With gooir-capability's validate_spec, as far as manifests can break it.
ValidCapabilities(manifest) ==
  /\ StrictlySorted(KeysBy(manifest.capabilities, IdOf))
  /\ \A capability \in Range(manifest.capabilities) : capability.output_kinds # {}

ValidOffers(manifest) ==
  /\ StrictlySorted(KeysBy(manifest.implementation_offers, OfferSortKey))
  /\ \A offer \in Range(manifest.implementation_offers) :
       offer.artifact \in ResourceNames(manifest)

ValidStructure(manifest) ==
  /\ ValidDependencies(manifest)
  /\ StrictlySorted(KeysBy(manifest.resources, NameOf))
  /\ ValidDialects(manifest)
  /\ StrictlySorted(KeysBy(manifest.conformance_suites, IdOf))
  /\ ValidCapabilities(manifest)
  /\ ValidOffers(manifest)

\* read_manifest: what a document must be to yield its manifest.
Readable(document) ==
  /\ IsManifest(document.manifest)
  /\ ValidStructure(document.manifest)
  /\ document.content_digest = PackageDigest(document.manifest)

-----------------------------------------------------------------------------
(* What a manifest exports, and what it refers to.                          *)

ValueKinds(manifest) ==
  UNION {Range(dialect.value_kinds) : dialect \in Range(manifest.dialects)}

Entries(kind, declarations) ==
  {[kind |-> kind, id |-> d.id, declaration |-> d] : d \in declarations}

\* Of an implementation only the name is exported: its offers share it.
Implementations(manifest) ==
  {[id |-> offer.implementation] : offer \in Range(manifest.implementation_offers)}

\* Everything that can have only one owner.
Exports(manifest) ==
  Entries("dialect", Range(manifest.dialects))
    \cup Entries("value kind", ValueKinds(manifest))
    \cup Entries("conformance suite", Range(manifest.conformance_suites))
    \cup Entries("capability", Range(manifest.capabilities))
    \cup Entries("implementation", Implementations(manifest))

ExportsIdentity(manifest, reference) ==
  \E e \in Exports(manifest) : e.kind = reference.kind /\ e.id = reference.id

Reference(kind, id) == [kind |-> kind, id |-> id]

\* The identities a manifest uses and some package must own.
References(manifest) ==
  LET capabilities == Range(manifest.capabilities)
  IN  {Reference("conformance suite", c.default_conformance_suite) : c \in capabilities}
        \cup {Reference("value kind", k) :
                k \in UNION {c.input_kinds \cup c.output_kinds : c \in capabilities}}
        \cup {Reference("capability", offer.capability) :
                offer \in Range(manifest.implementation_offers)}
=============================================================================
