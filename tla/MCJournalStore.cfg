SPECIFICATION Spec
CONSTANTS
  Processes = {p1, p2}
  Entries = {j1, j2}
  NoEntry = NoEntry
  UpdateStates = {"accepted", "reconciliation_required"}
  MaxWrites = 2
  MaxFaults = 1
  MaxCrashes = 1
SYMMETRY JournalSymmetry
INVARIANTS
  EntryIsProtected
PROPERTIES
  AttemptClearsTemp
  ImplementsAtomicJournal
