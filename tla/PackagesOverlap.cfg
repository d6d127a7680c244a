SPECIFICATION FairSpec
CONSTANTS
    u1 = u1  u2 = u2  u3 = u3
    d1 = d1  d2 = d2
    alice = alice  bob = bob  root = root
    g1 = g1  g2 = g2  codec = codec
    NoGroup = NoGroup  NoRow = NoRow  NoPath = NoPath
    Uploads = {u1, u2, u3}
    NameOf <- MCNameOf
    OwnerOf <- MCOwnerOf
    GroupOf <- MCGroupOf
    Qualified = {u1, u2}
    Deletions = {d1, d2}
    ActorOf <- MCActorOf
    RoleOf <- MCRoleOf
    HomeOf <- MCHomeOf
    MaxCrashes = 1
    MaxFaults = 1
INVARIANT TypeOK
INVARIANT RowOwnsPath
INVARIANT BuildingHasWorkspace
INVARIANT SerialUseIsSafe
PROPERTY BuildEnds
PROPERTY OnlyManagersRemove
CHECK_DEADLOCK FALSE
