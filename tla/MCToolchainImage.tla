--------------------------- MODULE MCToolchainImage ---------------------------
(* A small instance of ToolchainImage for TLC.                               *)
EXTENDS ToolchainImage

\* Contents are told apart by their package, resources, dialects and offers.
MCPackageDigest(manifest) ==
  <<manifest.package, {<<r.name, r.digest>> : r \in Range(manifest.resources)},
    {IdOf(d) : d \in Range(manifest.dialects)},
    {OfferSortKey(o) : o \in Range(manifest.implementation_offers)}>>

MCManifestSize(manifest) == 1

Bytes(digest, size) == [digest |-> digest, size |-> size]

\* What was measured, another build of the provider, and a longer one.
MCFileBytes == {Bytes("a", 1), Bytes("b", 1), Bytes("c", 2)}

MCImageLimits ==
  [packages |-> 2, attesters |-> 1,
   total_image_resource_bytes |-> 2, total_image_manifest_bytes |-> 2,
   package |-> [manifest_bytes |-> 1, resources |-> 2, resource_bytes |-> 2,
                total_resource_bytes |-> 2]]

-----------------------------------------------------------------------------
(* Recipes.                                                                  *)

Bare(n) ==
  [package |-> <<n>>, extensions |-> 1, dependencies |-> <<>>, resources |-> <<>>,
   dialects |-> <<>>, conformance_suites |-> <<>>, capabilities |-> <<>>,
   implementation_offers |-> <<>>]

Input(n, path, bytes) ==
  [name |-> <<n>>, path |-> path, source |-> "bytes", bytes |-> bytes]
FileInput(n, path) == [name |-> <<n>>, path |-> path, source |-> "file"]

Recipe(directory, manifest, inputs) ==
  [directory |-> directory, manifest |-> manifest, inputs |-> inputs,
   providers |-> {}, attesters |-> {}]

\* A capability with a provider, its artifact as deep as a path says.
Provider(n, path, bytes) ==
  [Recipe("provider",
     [Bare(n) EXCEPT
        !.dialects = <<[id |-> <<n>>, value_kinds |-> <<[id |-> <<n, 1>>, schema |-> {}]>>]>>,
        !.conformance_suites = <<[id |-> <<n>>]>>,
        !.capabilities = <<[id |-> <<n>>, default_conformance_suite |-> <<n>>,
                            input_kinds |-> {}, output_kinds |-> {<<n, 1>>}]>>],
     {Input(1, path, bytes)})
   EXCEPT !.providers = {[implementation |-> <<n>>, capability |-> <<n>>, artifact |-> <<1>>]}]

DigestWith(recipe) ==
  MCPackageDigest(ManifestOf(recipe, [name \in InputNames(recipe) |->
    (CHOOSE input \in recipe.inputs : input.name = name).bytes]))

\* An attester built from a source file, for the suite of a provider.
Attester(n, provider) ==
  [Recipe("attester",
     [Bare(n) EXCEPT !.dependencies = <<[package |-> provider.manifest.package,
                                         digest |-> DigestWith(provider)]>>],
     {FileInput(1, <<"run">>)})
   EXCEPT !.attesters = {[suite |-> <<1>>, implementation |-> <<n>>, artifact |-> <<1>>]}]

Shallow == Provider(1, <<"bin", "run">>, Bytes("a", 1))
Deep    == Provider(1, <<"bin", "x", "run">>, Bytes("c", 2))

\* Of its two resources, one is where a directory of the other would be.
Misplaced(first, second) ==
  Recipe("attester", Bare(3), {Input(1, first, Bytes("b", 1)), Input(2, second, Bytes("b", 1))})

MCImages ==
  {<<Shallow, Attester(2, Shallow)>>,                    \* good, if the file is
   <<Deep, Recipe("data", Bare(2), {})>>,                \* the whole budget, then none
   <<Attester(2, Shallow), Shallow>>,                    \* the order does not resolve
   <<Misplaced(<<"run">>, <<"run", "x", "y">>)>>,        \* paths that collide
   <<Misplaced(<<"run", "x">>, <<"run">>)>>}

\* Another release of the data, and another build of a file.
Release == [Bare(2) EXCEPT !.dialects = <<[id |-> <<2>>, value_kinds |-> <<>>]>>]

MCOtherNodes ==
  {[kind |-> "resource", bytes |-> Bytes("b", 1)],
   [kind |-> "manifest",
    document |-> [manifest |-> Release, content_digest |-> MCPackageDigest(Release)]]}
=============================================================================
