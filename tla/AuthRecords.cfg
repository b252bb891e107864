SPECIFICATION Spec
CONSTANTS
  Keys = {k1, k2}
  Emails = {e1}
  NoEmail = NoEmail
  NoKey = NoKey
  Fetches = {f1}
  Lifecycle = Lifecycle
  Nobody = Nobody
  MaxEdits = 2
  MaxSaves = 2
INVARIANTS
  TypeOK
  InstalledHaveRecords
 
SYMMETRY KeySymmetry
