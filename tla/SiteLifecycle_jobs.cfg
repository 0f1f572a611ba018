SPECIFICATION Spec
CONSTANTS
    blog = blog
    shop = shop
    v1 = v1
    v2 = v2
    p1 = p1
    p2 = p2
    home = home
    sub = sub
    None = None
    Sites = {blog, shop}
    Versions = {v1, v2}
    Ports = {p1, p2}
    Roots = {home, sub}
    Operations <- EveryOp
    MaxAsked = 3
    MaxQueued = 1
    MaxFaults = 2
SYMMETRY Symmetry
CHECK_DEADLOCK FALSE
INVARIANTS
    RowIsSupported
    SettledIsServed
    RebuildRestores
