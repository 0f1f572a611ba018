SPECIFICATION Spec
CONSTANTS
    blog = blog
    shop = shop
    v1 = v1
    v2 = v2
    p1 = p1
    p2 = p2
    home = home
    sub = sub
    None = None
    Sites = {blog, shop}
    Versions = {v1}
    Ports = {}
    Roots = {home}
    Operations <- TwoOps
    MaxAsked = 4
    MaxQueued = 2
    MaxFaults = 0
CHECK_DEADLOCK FALSE
INVARIANT
    ConfirmedSiteOnly
