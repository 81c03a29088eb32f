CONSTANTS
    disk1 = disk1
    mail = mail
    z1 = z1
    r1 = r1
    r2 = r2
    Zones = {z1}
    GZ = GZ
    Listings <- JustBoth
    NoDir = NoDir
    BadDir = BadDir
    BadInfo = BadInfo
    Undefined = Undefined
    pluginTTL = 3
    pluginMaxConcurrent = 1
    Requests = {r1, r2}
SPECIFICATION FairSpec
INVARIANTS
    TypeOK
    EveryRunCounted
    ListIsThere
PROPERTIES
    ChangeReachesList
