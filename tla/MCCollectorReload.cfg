CONSTANTS
    time = time
    vm = vm
    plugin = plugin
    core = core
    z1 = z1
    gz = gz
    r1 = r1
    r2 = r2
    s1 = s1
    s2 = s2
    NoSub = NoSub
    GZ = gz
    VMs = {z1}
    Collectors = {core, plugin}
    Dir <- CoreAndPlugins
    HasSubs = {plugin}
    Subs = {s1}
    EmptyOK = {plugin}
    CoreZoneOnly = {core}
    Cached = {}
    PromText = {core}
    Requests = {r1}
    MAX_FAILS = 1
    MaxInstance = 1
    MaxReloads = 1
    Upgrades = TRUE
SPECIFICATION FairSpec
PROPERTIES
    EveryRequestAnswered
    NeverSetBack
INVARIANTS
    ReplyIsComplete
