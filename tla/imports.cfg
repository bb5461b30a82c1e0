SPECIFICATION FairSpec
CONSTANTS
    r1 = r1  r2 = r2  a = a  b = b  x = x  k1 = k1  k2 = k2  k3 = k3  u = u  v = v
    j1 = j1  j2 = j2  j3 = j3
    Runners = {r1, r2}
    Ops = {a, b, x}
    Jobs = {j1, j2, j3}
    NoJob = NoJob
    Keys = {k1, k2, k3}
    NoKey = NoKey
    Values = {u, v}
    NoValue = NoValue
    Raw <- MCRaw
    Unsupported = {x}
    BatchSize = 2
    Calls <- MCCalls
    MarkerFor <- MCMarkerFor
    NoMarker = NoMarker
    MaxStarts = 3
    MaxFaults = 1
INVARIANTS ChainIntact Provenance AppliedIsComplete
PROPERTIES AppendsBehind ImplementsImportContract Returns
