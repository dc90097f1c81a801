\* Ints end at 3, so that offsets overflow; up to three rows are paged
\* through with pages of one to four. The readers end, and so does the clock.
SPECIFICATION MCSpec

CONSTANTS
    Links = {l1, l2, l3}
    Mine = {l1, l2}
    Users = {u1, u2}
    Exports = {e1, e2}
    MaxTime = 2
    IntMax = 3
    MaxLimit = 4
    TopCount = 1

CHECK_DEADLOCK FALSE

INVARIANT TypeOK
INVARIANT PageIsRight
INVARIANT WalkMissesNothing
INVARIANT DashboardIsWhole
INVARIANT ExportIsSnapshot
