SPECIFICATION Spec

CONSTANTS
    Starters = {s1, s2}
    Rows <- MCRows
    RowBits = 2
    Asked = 4

CHECK_DEADLOCK FALSE

INVARIANTS
    Consistent
    NeverWrongRow
    RowsFound
