SPECIFICATION Spec
CONSTANTS
    f1 = f1
    f2 = f2
    f3 = f3
    m = m
    None = none
    Fn = {f1, f2, f3}
    Marker = {m}
    Programs <- MCPrograms
INVARIANTS
    InlineTowardsMarkers
    HiddenMarkersReported
    UnstubbedAsyncViewsAgree
PROPERTIES
    Judged
