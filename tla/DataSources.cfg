\* Two connections, two stores, two requests, two executions and a deploy.
SPECIFICATION Spec
CONSTANTS
    c1 = c1  c2 = c2  s1 = s1  s2 = s2
    r1 = r1  r2 = r2  p1 = p1  p2 = p2
    NoConn = NoConn  NoStore = NoStore
    Conns <- TwoConns
    Stores <- TwoStores
    Requests <- TwoRequests
    Provisioners <- TwoProvisioners
    Deploys = TRUE
INVARIANTS
    ActiveWasTested
    ReadyMeansProvisioned
PROPERTIES
    StoreIdentitySticks
SYMMETRY Symmetry
CONSTRAINT Focus
\* Connection ids are finite in number, and every connection may be retired.
CHECK_DEADLOCK FALSE
