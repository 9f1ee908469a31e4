SPECIFICATION Spec
CONSTANTS
    Shapes <- MCShapes
    Starts <- MCStarts
    Services <- MCServices
    SelfServices = {"http"}
    Delegated = {"deleg"}
    Mangled <- MCMangled
    Queries <- MCQueries
    Browses <- MCBrowses
    MaxResults = 3
INVARIANT SyncIsFreedByBrowseSync
