SPECIFICATION Spec
CONSTANTS
  PackageDigest <- MCPackageDigest
  ManifestSize <- MCManifestSize
  Publishers = {p, q}
  Images <- MCImages
  FileBytes <- MCFileBytes
  ImageLimits <- MCImageLimits
  OtherNodes <- MCOtherNodes
  MaxLosses = 1
  MaxEdits = 1
CHECK_DEADLOCK FALSE
INVARIANTS
  PublishedIffDeployable
  LossesAreBuried
  ErrorsPublishNothing
  LoadedAsLocked
PROPERTIES
  CreateOnly
