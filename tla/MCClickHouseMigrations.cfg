SPECIFICATION Spec
CONSTANTS
  m1 = m1
  m2 = m2
  Migrators <- MCMigrators
  Commands <- MCCommands
  Heads = {2, 3}
  NoCommand = NoCommand
  Scripts <- MCScripts
SYMMETRY MCSymmetry
INVARIANTS TypeOK RecordedApplied StatsReadable SuccessExact RejectedOnlyTorn ScriptsRead
