SPECIFICATION LiveSpec
CONSTANTS
    Runners = {r1, r2}
    Provisioners = {p1, p2}
    NoRunner = NoRunner
    Images <- MCImages
    Stops <- MCStops
    Servers <- MCServers
    OwnerRoles <- MCOwnerRoles
    LoginRoles <- MCLoginRoles
    MaxStarts = 3
    MaxCrashes = 1
    MaxFailures = 1
INVARIANTS
    CachedRevisionTrue
    UpgradeLeavesNoCreate
    MembershipIsTransient
    VerifiedStaysTrue
PROPERTIES
    RunnersEnd
