SPECIFICATION EntrySpec
CONSTANTS
    Fn = {f1, f2, f3, pin_fn, future_fn, once}
    f1 = f1  f2 = f2  f3 = f3  pin_fn = pin_fn  future_fn = future_fn  once = once
    t1 = t1  t2 = t2  t3 = t3  m = m
    Ty = {t1, t2, t3}
    Marker = {m}
    None = None  Start = Start  End = End
    Programs <- MCPrograms
    TypeSystems <- MCTypeSystems
INVARIANT
    ArgumentMarkersRight
