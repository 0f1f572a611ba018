CHECK_DEADLOCK FALSE
SPECIFICATION DbSpec
CONSTANTS
    DbNames = {blogdb, shopdb}
    DbUsers = {ann, bob}
    NoDbUser = nobody
INVARIANTS
    OtherGrantsRemain
