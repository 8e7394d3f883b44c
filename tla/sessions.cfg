SPECIFICATION Spec
CONSTANTS
    j1 = j1
    j2 = j2
    j3 = j3
    q1 = q1
    q2 = q2
    q3 = q3
    Logins <- ThreeLogins
    Requests <- ThreeRequests
CHECK_DEADLOCK FALSE
SYMMETRY Sym
INVARIANTS UnlistedIsRaced OutIsOut
