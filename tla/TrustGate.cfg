SPECIFICATION Spec
CONSTANTS
  ClaimIds = {c1, c2}
  EvidenceIds = {e1, e2, e3}
  MaxClaims = 2
  MaxEvidence = 2
SYMMETRY IdSymmetry
CHECK_DEADLOCK FALSE
INVARIANTS
  VerifiedIffBacked
  VerifiedClaimIsBacked
  FailedIsContradicted
PROPERTY FailureIsFinal
