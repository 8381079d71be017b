SPECIFICATION QuerySpec
CONSTANTS
    Client = {c1, c2}
    Reader = c1
    Email = {"ann", "bob"}
    Service = {"demo", "shop"}
    Demo = "demo"
    Lifetime = 1
    Window = 0
    Limit = 2
    MaxTime = 1
    MaxLogs = 2
    Faults = {"postgres", "clickhouse", "cut"}
INVARIANTS
    QueryTypeOK
    ScopedRows
    UserComplete
    PagesMissOnlyTies
