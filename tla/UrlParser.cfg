SPECIFICATION Spec
CONSTANTS
  Schemes <- MCSchemes
  Users <- MCUsers
  Hosts <- MCHosts
  Ports <- MCPorts
  Paths <- MCPaths
  Queries <- MCQueries
  Fragments <- MCFragments
INVARIANTS PartsExact RoundTrip
PROPERTY ParserEnds
CHECK_DEADLOCK FALSE
