SPECIFICATION Spec
CONSTANTS
  BASE_HZ = 100000000
  IDENTIFICATION_HZ = 400000
  DEFAULT_SPEED_HZ = 25000000
  TRIES = 3
  Rcas <- MCRcas
  Faults = FALSE
INVARIANTS
  InquiryProtectsCard
