SPECIFICATION TablesSpec
CONSTANTS
  Store = {a, b}
  Keys = 3
  MaxObservations = 2
  Retention = 1
  MaxCount = 2
  MaxPage = 1
  MaxTime = 2
  MaxFiles = 2
  MaxEvents = 2
  Limit = 1
  MaxId = 4
INVARIANTS
  RowsInv
  AuditInv
PROPERTIES
  HistoryKept
  GivesUpTheOldest
  KeepsTheNewest
SYMMETRY Symmetric
