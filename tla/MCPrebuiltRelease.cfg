SPECIFICATION Spec
CONSTANTS
  Sources = {d1, d2}
  Contracts = {c1, c2}
  Corpora = {k1, k2}
  Lists <- ListOf
  Volumes = {checkpoint, v2, alien}
  Checkpoint = checkpoint
  Foreign = {alien}
  MaxFaults = 2
  None = None
  Partial = Partial
  Unlabelled = Unlabelled
INVARIANTS
  TypeOK
  PairAgrees
  CandidateWhole
  EvidenceTrue
PROPERTIES
  CheckpointKept
  ReleaseFinishes
