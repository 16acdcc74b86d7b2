CONSTANTS
    MaxResults = 2
    MaxRows = 2
    MaxCols = 2
    Types = {"SYBINT4", "SYBVARCHAR"}
    CsvTexts = {"plain", "comma", "raw"}
    ErrorHandlers = {TRUE, FALSE}
    MaxSlots = 3
    Requests = {r1, r2}
    NoRequest = none
    Drivers = {"mssql", "odbc", "mysql"}
    MaxBatch = 3
SPECIFICATION MCSpec
INVARIANTS TypesOK  ErrorToHandler FieldsDescribeRows CleanStart OutcomeTold ErrorIsTheQuerys LoginFollowsServer
PROPERTIES QueryEnds
CHECK_DEADLOCK FALSE
