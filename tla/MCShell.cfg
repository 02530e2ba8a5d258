SPECIFICATION Spec
CONSTANTS
  Rows = 3
  Columns = 2
  LineSize = 7
  Glyphs <- MCGlyphs
  Typed <- MCTyped
  Prompt <- MCPrompt
  Limited <- MCLimited
  Outputs <- MCOutputs
INVARIANTS LineShown LineMirrored OneCursor
PROPERTIES CursorKept
