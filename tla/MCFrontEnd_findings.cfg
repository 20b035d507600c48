CONSTANTS
  Components <- MCComponents
  FileSystems <- Surprising
  Entries <- MCEntries
  MaxPath = 8
  MaxDepth = 8
  IntMax = 999
  Exponents <- MCExponents
  StrToD <- MCStrToD
  OutOfRange <- MCOutOfRange
  NodeWords = 7
  LongTexts <- MCLongTexts
  LongWords = 8
  LikeKeyword <- MCLikeKeyword
  Misspelt <- MCMisspelt
  LocalsMax = 8
  MaxStack = 64
  SectionMax = 65536
  CodeMax = 67108864
  ArenaSizes <- MCArenaSizes
  LikeMain = {"main"}
  Markers = {"window", "text", "loop", "pump_events", "on_click", "on_key", "on_mouse_move", "win32_message_box"}
  Damaged <- MCDamaged
SPECIFICATION FSpec
INVARIANTS TokensBack ReadBack IncludedOnce ReportedIsWritten
CHECK_DEADLOCK FALSE
