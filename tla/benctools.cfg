SPECIFICATION ToolSpec
CONSTANTS
  Ints <- MCInts
  Char <- MCChar
  Nodes <- MCNodes
  Documents <- MCDocuments
  Paths <- MCPaths
  Announces <- MCAnnounces
INVARIANTS
  TreeShown
  TorrentRead
  RepliesRead
