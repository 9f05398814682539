SPECIFICATION Spec
CONSTANTS
    Uids = {u1, u2}
    MaxProfiles = 3
    Points = {0, 7}
CHECK_DEADLOCK FALSE
INVARIANTS TypeOK RowsStay AllRowsZero
