SPECIFICATION Spec
CONSTANTS
  Domain <- MCDomain
  Base <- MCBase
  SanitizedDomain <- MCSanitizedDomain
  Continues <- MCContinues
  Commands <- MCCommands
  EabRequired = TRUE
  HoursPerDay = 2
  HoursLeft <- MCHoursLeft
  MaxCommands = 3
  MaxFaults = 1
INVARIANTS TypeOK KeyOutlivesCrash RunRecovers PairsMatch RenewKeepsNames ArchivedAreRevoked
