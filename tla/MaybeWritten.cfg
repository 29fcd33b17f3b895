SPECIFICATION Spec
CONSTANTS
    x = x
    y = y
    y0 = y0
    y1 = y1
    r = r
    d = d
    z = z
    B1 = B1
    B2 = B2
    B3 = B3
    B4 = B4
    T = T
    U = U
    RefT = RefT
    Deref = Deref
    F0 = F0
    F1 = F1
    local <- MClocal
    projection <- MCprojection
    ty <- MCty
    inner <- MCinner
    Place = {x, y, y0, r, d, z}
    Arg = {x}
    Exposed = {x, z}
    Aliases <- MCAliases
    Refs <- MCRefs
    Conflicts <- MCConflicts
    Reachable <- MCReachable
    ReachableMut <- MCReachableMut
    Block = {B1, B2, B3, B4}
    Entry = B1
    None = None
    Start = Start
    End = End
    Bodies <- MaybeBodies
INVARIANT
    FlowsFound
CHECK_DEADLOCK FALSE
