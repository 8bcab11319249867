SPECIFICATION ToolSpec
CONSTANTS
  Ints <- MCDigits
  Char <- MCChar
  Nodes <- MCNodes
  Documents <- MCDocuments
  Paths <- MCPaths
  Announces <- MCAnnounces
INVARIANT
  IntsShown
