\* Runs of the program one after another, failing or killed anywhere, on a host
\* whose configuration files, routes and interface change under it.
CONSTANTS
    None = None
    Missing = Missing
    Bad = Bad
    EmptyApn = ""
    DefaultMetric = 1000
    Configs <- Files
    CommandLines <- Given
    NPaths = 2
    MaxEdits = 1
    Addresses = {a1, a2}
    ServerLists <- Lists
    Lines = {"", "# Added by xmmrpc", "nameserver 1", "nameserver 2", "nameserver 3"}
    Resolvers <- Existing
    Metrics = {7, 1000}
    MaxRuns = 2
    MaxReloads = 1
SPECIFICATION Spec
INVARIANTS TypeOK SettingsOfOneFile RouteNeedsAddress HostAsAsked ServersListed
CHECK_DEADLOCK FALSE
