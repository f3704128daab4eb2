SPECIFICATION Spec
CONSTANTS
  OidLen = 3
  Int64Max = 92
  MaxLen = 4
INVARIANTS OidNeverInteger SubjectReadsBack
