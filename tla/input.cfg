CONSTANTS
    BufSize = 4
    MaxBytes = 6
    HeaderKeys = {"Accept", "Acc", "Origin"}
    HeaderWords = {"application/json", "one"}
    MaxHeaders = 2
    MaxItems = 2
    QueryKeys = {"sql", "sql_user", "param1", "long"}
    Tokens = {"%2B", "%0A"}
    MaxPairs = 2
    MaxValue = 3
    ValueSize = 2
    FieldLen = 2
    MaxQueryParams = 2
    MaxText = 5
    MaxParams = 3
    Values = {"p1", "p2", "p3"}
    Magic = TRUE
    Given = {"c", "d", "f", "l", "p", "t", "v", "w"}
    MaxGiven = 2
    Lengths = {0, 1, 3}
    FirstSize = 2
    MaxLines = 3
SPECIFICATION MCSpec
INVARIANTS TypesOK ReturnsNextPiece HeadersHeeded FieldsAsSent  ParamsResolved
PROPERTIES ImplementsFraming EveryLineDelivered RunsSinceGo
CHECK_DEADLOCK FALSE
