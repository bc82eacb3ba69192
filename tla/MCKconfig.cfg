\* One change, and one failure or death of the process.
SPECIFICATION KconfigSpec
CONSTANTS
  Type <- MCType
  TextOrder <- MCTextOrder
  SymbolList <- MCSymbolList
  Props <- MCProps
  ChoiceOf <- MCChoice
  Optional = {}
  AllNoY = {}
  Numeral <- MCNumeral
  Modules = "M"
  MenuOrder <- MCMenuOrder
  Entries <- MCEntries
  Numbers = {5}
  Files <- MCFiles
  MaxSets = 1
  MaxDeaths = 1
INVARIANTS TreeAsWritten LoopsFound ConfSettles
PROPERTY FilesHold
