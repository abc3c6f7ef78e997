SPECIFICATION MCSpec
CONSTANTS
  Size = 5
  Newlines = {2, 3}
  BufSize = 2
  MaxCount = 4
  MaxAddresses = 3
  MaxSockets = 3
  MaxBadCloses = 1
  Chars = {"a", " ", "tab", "|", "&", ">"}
  MaxLine = 5
  Capacity = 1
  MaxArgs = 3
  MaxDirs = 2
  MaxBeyond = 1
  IntHalf = 4
  LongHalf = 128
  Ints <- MCInts
  Longs <- MCLongs
  MaxItems = 2
  Letters = {"/", "h", "x"}
  Home <- MCHome
  MaxName = 4
  NodeCount = 6
  ElementCount = 4
  MaxKey = 26
  MaxBits = 9
INVARIANTS
  ComponentsType
  StreamInOrder
  AnswerComplete
  NoSocketLeak
  NoListLeak
  TokensAreWords
  RoomForNull
  
  ArgumentsArrive
  LineIsFormatted
  RedBlackTree
  ForeachMeetsAll
  SplayTree
  ListsAgree
  HashesAgree
  BitsAgree
CHECK_DEADLOCK FALSE
