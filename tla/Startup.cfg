\* Two processes, from each shape of the database, with a crash and a change of
\* the default tenant at any time.
SPECIFICATION FairSpec
CONSTANTS
    Procs = {p1, p2}
    Nobody = Nobody
    LeaseStale = 1
    LeaseWait = 1
    MaxCrashes = 1
    MaxChanges = 1
INVARIANTS FreshLeaseExcludes PastMigrationSchemaIsHead
PROPERTIES UndisturbedBootstrapHeals StartEnds
CHECK_DEADLOCK FALSE
