CONSTANTS
  r1 = r1
  r2 = r2
  bad = bad
  s1 = s1
  s2 = s2
  s3 = s3
  None = None
  Builds = {r1, r2}
  Good = {r1, r2}
  Stems = {s1, s2}
  StemOf <- OwnNames
  SlowStart = FALSE
  DiskFails = TRUE
SPECIFICATION FairSpec
PROPERTY InstalledIsServed
