SPECIFICATION Spec
SYMMETRY Alike
CONSTANTS
    a = a
    b = b
    Files = {a, b}
    NoFile = NoFile
    Lists <- MCLists
    LinesLeft = {0}
    MaxWrites = 3
    Times = {0, 1, 2, 4}
    Locations = {1, 2, 3, 4, 5, 6}
    Points <- MCPoints
    grid_size_x = 3
    grid_size_y = 2
    Margin = 10
    Views <- MCViews
    HoursOfDay = 2
    StepsPerHour = 2
    cancel_set = {128}
    add_duplicate_events = FALSE
    dropGFData = FALSE
    MaxImports = 2
INVARIANT
    HourQueryExact
CHECK_DEADLOCK FALSE
