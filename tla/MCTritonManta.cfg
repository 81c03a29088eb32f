CONSTANTS
    imgapi = imgapi
    moray = moray
    web = web
    blank = blank
    r1 = r1
    r2 = r2
    p1 = p1
    p2 = p2
    VMs = {imgapi, moray, web, blank}
    AdminZones = {imgapi, moray}
    RoleZones = {imgapi, web}
    EmptyRoleZones = {blank}
    MantaZones = {moray}
    Ports = {p1}
    NoPorts = NoPorts
    BadPorts = BadPorts
    NoEntry = NoEntry
    Requests = {r1}
SPECIFICATION Spec
INVARIANTS
    MantaNotIdentified
