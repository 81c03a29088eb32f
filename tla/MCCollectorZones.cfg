CONSTANTS
    time = time
    vm = vm
    plugin = plugin
    core = core
    z1 = z1
    gz = gz
    r1 = r1
    r2 = r2
    s1 = s1
    s2 = s2
    NoSub = NoSub
    GZ = gz
    VMs = {z1}
    Collectors = {time}
    Dir <- Common
    HasSubs = {}
    Subs = {}
    EmptyOK = {time}
    CoreZoneOnly = {}
    Cached = {time}
    PromText = {}
    Requests = {r1, r2}
    MAX_FAILS = 1
    MaxInstance = 2
    MaxReloads = 0
    Upgrades = FALSE
SPECIFICATION Spec
SYMMETRY RequestSymmetry
INVARIANTS
    TypeOK
    ZoneIsolation
    CollectedFromThisInstance
    FailuresBounded
    ReplyIsComplete
PROPERTIES
    DisabledForGood
