\* Two servers, two reloads, two queries.
CONSTANTS
    NumServers = 2
    MaxReloads = 2
    Queries = {1, 2}
SPECIFICATION FairSpec
\* SIGINT makes main return: the process really stops.
CHECK_DEADLOCK FALSE
INVARIANTS
    TypeOK
    ShutDownHandlerOnlyViaMissedServer
PROPERTIES
    ReloadCompletes
