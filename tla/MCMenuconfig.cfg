\* Lists, texts and fields of a few more items, lines and letters than fit;
\* two changes and three open calls.
SPECIFICATION MenuconfigSpec
CONSTANTS
  Type <- MCType
  TextOrder <- MCTextOrder
  SymbolList <- MCSymbolList
  Props <- MCProps
  ChoiceOf <- MCChoice
  Optional = {}
  AllNoY = {}
  Numeral <- MCNumeral
  Modules = "M"
  MenuOrder <- MCMenuOrder
  Entries <- MCEntries
  Files <- MCFiles
  Start = {"config"}
  Dirs = {"other"}
  Loads = {"other", "nofile"}
  Patterns = {"D"}
  Numbers = {4, 9}
  single_menu_mode = FALSE
  MaxSets = 2
  MaxCalls = 3
  Lists <- MCLists
  Heights = {0, 2, 3}
  NoEntry = 0
  Letters <- MCLetters
  Inits <- MCInits
  MAX_LEN = 5
  box_width = 3
  BlankCell = "_"
  Menus <- MemberLists
  list_height = 3
  NoSymbol = 0
  MaxRow = 4
  Texts <- ShownTexts
  PageHeights = {2, 3, 4}
  JUMP_NB = 2
  HScrollMax = 1
INVARIANT MenusTell
PROPERTIES Edits HighlightFollows ChoosesWhatIsShown PageFollows
