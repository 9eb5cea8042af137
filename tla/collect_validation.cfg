SPECIFICATION Spec
CONSTANTS
  MaxImports = 2
  MaxRetries = 2
  MaxCommands = 2
CHECK_DEADLOCK FALSE
PROPERTIES ValidationWaitsForImport
