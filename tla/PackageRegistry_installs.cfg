SPECIFICATION Spec
CONSTANTS
  PackageDigest <- MCPackageDigest
  ManifestSize <- MCManifestSize
  Registries = {r, s}
  Documents <- MCDocuments
  Contents <- MCContents
  Limits <- MCLimits
  MaxLoaded = 3
INVARIANTS
  LookupsFollowPackages
  ReferencesAreDirect
  BytesAsDeclared
  ReinstallAccepted
