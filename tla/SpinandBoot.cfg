SPECIFICATION Spec
CONSTANTS
  UbootStart = 2
  UbootEnd   = 7
  NSec       = 1
  NBlocks    = 9
  Uboots = {v1, v2}
  Boot0s = {b1}
  BlksOf <- MCBlksOf
  MaxBad = 2
  MaxFaults = 1
INVARIANTS TypeOK DownloadedIsLoaded StillBoots
PROPERTIES SecureKept ComesToAnEnd
SYMMETRY Symm
