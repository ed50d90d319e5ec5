SPECIFICATION Spec
CONSTANTS
  Declarations <- MCDeclarations
  Features <- MCFeatures
  HandFiles <- MCHandFiles
  ConfigPath <- MCConfigPath
  PathOrder <- MCPathOrder
  Numerals <- MCNumerals
  MaxEdits = 2
INVARIANTS OutputsCurrent CheckIsTrue AttributesSettle WiringComplete CallsArrive MessagesArrive DataKept
