SPECIFICATION SocksSpec
CONSTANTS
  Endpoints = {e1, e2}
  NoEndpoint = NoEndpoint
  Junk = 256
  Tunnel = 257
  Lengths = {0, 1, 255, 256}
  MaxStale = 2
INVARIANTS ConnectReports RequestsDecode BufferEmptied TunnelIntact NoFalseSuccess
PROPERTY OpsEnd
