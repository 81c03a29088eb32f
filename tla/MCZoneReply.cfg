CONSTANTS
    gz = gz
    vm = vm
    vm2 = vm2
    a = a
    b = b
    admin = admin
    external = external
    p1 = p1
    p2 = p2
    Names = {a, b}
    NoName = NoName
    GZ = gz
    VM = vm
    OtherVM = vm2
    MaxInstance = 2
    MaxTrouble = 1
    PPAs = {0, 1, 2}
    NicsOf <- Nics
    OtherLinks = {0, 2}
    Unknown = Unknown
    Ports = {p1, p2}
    TextsOf <- Texts
SPECIFICATION FairSpec
INVARIANTS
    TypeOK
    ParsesByBlocks
    EachCallsBackOnce
    LabelsOfThisInstance
    AbortsOnlyUnlimited
PROPERTIES
    AnswersAreServed
    AnsweredUnlessHeldUp
