SPECIFICATION ToolsSpec
CONSTANTS
  Agent = {a1, a2}
  Plugin = {"openapi", "graphql", "mcp"}
  Stored <- MCStored
  StoredAsks <- MCStored
  Typed <- MCTyped
  MaxCoreMs = 0
  MaxCoreCalls = 2
INVARIANT AcceptedToolIsTheOneShown
CHECK_DEADLOCK FALSE
