SPECIFICATION CacheSpec
CONSTANTS
    p1 = p1
    p2 = p2
    merge = merge
    square = square
    mnt = mnt
    Absent = Absent
    Hole = Hole
    None = None
    Callers = {p1, p2}
    Circuits = {merge, square, mnt}
    Paths <- MCPaths
    CachePath <- Cycle
    Blocks = 2
SYMMETRY Symmetry
INVARIANT
    CachesNeverCollide
CHECK_DEADLOCK FALSE
