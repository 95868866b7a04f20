CONSTANTS
  Threads = {t1, t2}
  latin1 = latin1
  sjis = sjis
  swe7 = swe7
  IBM37 = IBM37
  ISO8859 = ISO8859
  IBM943 = IBM943
  NoPage = NoPage
  Charsets <- MCCharsets
  Ccsids <- MCCcsids
  EncodingMap <- MCEncodingMap
  Scheme <- MCScheme
  MaxConverter = 5
  MaxCcsid = 3
  MaxBlocks = 4
  LookupsMayFail = TRUE
  OneOpener = TRUE
SPECIFICATION Spec
SYMMETRY ThreadSymmetry
INVARIANTS
  GivenConverts
  HashIsMap
  RefusedWhenFull
