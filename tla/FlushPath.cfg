SPECIFICATION Spec
CONSTANTS
    UserKeys = {1, 2}
    Lengths = {0, 2}
    MaxPuts = 3
    MaxLevel = 2
    Overhead = 1
    TargetBlockSize = 2
INVARIANTS
    TypeOK
    SameAnswers
    TowersLinked
    TableDescribesMemtable
    BlocksPacked
    ScansComplete
CHECK_DEADLOCK FALSE
