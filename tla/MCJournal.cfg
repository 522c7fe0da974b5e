SPECIFICATION JournalSpec
CONSTANTS
  None = None
  Corrupt = Corrupt
  LegacyLogs <- OldLogs
  V1Snapshots <- OldSnapshots
  CompactEvery = 1
  MaxLease = 2
  MaxRequest = 2
  MaxSequence = 4
INVARIANTS
  ActedSurvives
  AdmittedExactlyOnce
  LeaseIdentitiesFresh
  BootsAgain
