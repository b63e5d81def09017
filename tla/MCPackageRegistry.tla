-------------------------- MODULE MCPackageRegistry --------------------------
(* A small instance of PackageRegistry for TLC.                              *)
EXTENDS PackageRegistry

\* Contents are told apart by their package and their extensions.
MCPackageDigest(manifest) == <<manifest.package, manifest.extensions>>

Bytes(digest, size) == [digest |-> digest, size |-> size]
MCContents == {Bytes("a", 1), Bytes("b", 1), Bytes("a", 2)}
MCLimits ==
  [manifest_bytes |-> 7, resources |-> 2, resource_bytes |-> 2, total_resource_bytes |-> 2]

\* The number of its declarations and one: the largest just fits.
MCManifestSize(manifest) ==
  Len(manifest.dependencies) + Len(manifest.resources) + Len(manifest.dialects)
    + Len(manifest.conformance_suites) + Len(manifest.capabilities)
    + Len(manifest.implementation_offers) + 1

-----------------------------------------------------------------------------
(* Manifests.                                                               *)

Dependency(n, content) == [package |-> <<n>>, digest |-> <<<<n>>, content>>]
Resource(n, bytes) == [name |-> <<n>>, digest |-> bytes.digest, size |-> bytes.size]
ValueKind(d, k) == [id |-> <<d, k>>, schema |-> {}]
Dialect(d, value_kinds) == [id |-> <<d>>, value_kinds |-> value_kinds]
Suite(n) == [id |-> <<n>>]
Capability(n, suite, inputs, outputs) ==
  [id |-> <<n>>, default_conformance_suite |-> <<suite>>,
   input_kinds |-> inputs, output_kinds |-> outputs]
Offer(implementation, capability, resource) ==
  [implementation |-> <<implementation>>, capability |-> <<capability>>,
   artifact |-> <<resource>>]

Bare(n, content) ==
  [package |-> <<n>>, extensions |-> content, dependencies |-> <<>>, resources |-> <<>>,
   dialects |-> <<>>, conformance_suites |-> <<>>, capabilities |-> <<>>,
   implementation_offers |-> <<>>]

\* A dialect, a suite, a capability over them and an implementation of it.
Base ==
  [Bare(1, 1) EXCEPT
     !.resources = <<Resource(1, Bytes("a", 1)), Resource(2, Bytes("b", 1))>>,
     !.dialects = <<Dialect(1, <<ValueKind(1, 1)>>)>>,
     !.conformance_suites = <<Suite(1)>>,
     !.capabilities = <<Capability(1, 1, {<<1, 1>>}, {<<1, 1>>})>>,
     !.implementation_offers = <<Offer(1, 1, 1)>>]

\* The next release of the same package, with another value kind.
BaseNext ==
  [Bare(1, 2) EXCEPT
     !.dialects = <<Dialect(1, <<ValueKind(1, 1), ValueKind(1, 2)>>)>>,
     !.conformance_suites = <<Suite(1)>>]

\* A second implementation, using only what the first package exports.
User ==
  [Bare(2, 1) EXCEPT
     !.dependencies = <<Dependency(1, 1)>>,
     !.resources = <<Resource(1, Bytes("b", 1))>>,
     !.dialects = <<Dialect(2, <<ValueKind(2, 1)>>)>>,
     !.capabilities = <<Capability(2, 1, {<<1, 1>>}, {<<2, 1>>})>>,
     !.implementation_offers = <<Offer(2, 1, 1)>>]

\* It reaches the first package's value kind through its dependency only.
Indirect ==
  [Bare(3, 1) EXCEPT
     !.dependencies = <<Dependency(2, 1)>>,
     !.conformance_suites = <<Suite(3)>>,
     !.capabilities = <<Capability(3, 3, {<<1, 1>>}, {<<2, 1>>})>>]

\* The same, with the first package among its own dependencies.
Direct == [Indirect EXCEPT !.extensions = 2, !.dependencies = <<Dependency(1, 1), @[1]>>]

\* It declares the first package's capability as its own.
Rival ==
  [Bare(4, 1) EXCEPT
     !.dialects = <<Dialect(4, <<ValueKind(4, 1)>>)>>,
     !.conformance_suites = <<Suite(4)>>,
     !.capabilities = <<Capability(1, 4, {}, {<<4, 1>>})>>]

\* It declares a value kind of the first package's dialect as its own.
Squatter == [Bare(5, 1) EXCEPT !.dialects = <<Dialect(5, <<ValueKind(1, 9)>>)>>]

\* Two names for the same bytes, offered under both.
Twin ==
  [Bare(6, 1) EXCEPT
     !.dependencies = <<Dependency(1, 1)>>,
     !.resources = <<Resource(1, Bytes("a", 1)), Resource(2, Bytes("a", 1))>>,
     !.implementation_offers = <<Offer(6, 1, 1), Offer(6, 1, 2)>>]

\* Two releases named at once, and more bytes than the limits allow.
Both == [Bare(7, 1) EXCEPT !.dependencies = <<Dependency(1, 1), Dependency(1, 2)>>]
Large ==
  [Bare(8, 1) EXCEPT
     !.resources = <<Resource(1, Bytes("a", 1)), Resource(2, Bytes("a", 2))>>]

Document(manifest) ==
  [manifest |-> manifest, content_digest |-> MCPackageDigest(manifest)]

\* The digest of another content.
Stale == [manifest |-> User, content_digest |-> MCPackageDigest(Base)]

MCDocuments ==
  {Document(m) : m \in {Base, BaseNext, User, Indirect, Direct, Rival, Squatter, Twin,
                      Both, Large}}
    \cup {Stale}
=============================================================================
