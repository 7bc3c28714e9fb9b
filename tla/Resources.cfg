SPECIFICATION Spec
CONSTANTS
    Topics = {t1, t2}
    Service = "service"
    Commands = {"cli"}
    Web = "web"
    Servers <- MCServers
    Tools = {"x"}
    MaxBrowsers = 2
SYMMETRY MCSymmetry
INVARIANTS
    LeaseCountsScopes
    ConnectionsFollowTheRun
    BrowserStaysBound
PROPERTY
    LeaseIsShared
