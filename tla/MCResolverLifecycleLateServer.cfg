\* One server, one reload, one query.
CONSTANTS
    NumServers = 1
    MaxReloads = 1
    Queries = {1}
SPECIFICATION Spec
\* SIGINT makes main return: the process really stops.
CHECK_DEADLOCK FALSE
INVARIANTS
    NoRequestOnShutDownHandler
