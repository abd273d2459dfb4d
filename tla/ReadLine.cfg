SPECIFICATION SpecLine
CONSTANTS
  SCREEN_ROWS = 4
  SCREEN_COLUMNS = 3
  Letters = {"a", "b"}
  MaxLine = 6
INVARIANTS
  PrintsAtCursor
  EmptyBehindCursor
  LineInBuffer
  EchoShowsLine
  PromptStays
