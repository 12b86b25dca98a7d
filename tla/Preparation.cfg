\* Two manifests under one key, three submissions, a resume and a crash.
CONSTANTS
  src = src
  doc = doc
  m1 = m1
  m2 = m2
  None = None
  Files = {src, doc}
  Context = {src}
  WriteManifest = {src}
  Manifests = {m1, m2}
  MaxSubmissions = 3
  MaxClaims = 2
  MaxEdits = 2
  MaxCrashes = 1
SPECIFICATION PreparationSpec
CHECK_DEADLOCK FALSE
SYMMETRY MCSymmetry
INVARIANTS PreparationTypeOK 
 
