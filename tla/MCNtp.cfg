CONSTANTS
    a1 = a1
    a2 = a2
    p1 = p1
    p2 = p2
    Assids = {a1, a2}
    Remotes = {p1, p2}
    NoPeer = NoPeer
    States = {"candidate", "syspeer", "falseticker"}
SPECIFICATION Spec
INVARIANTS
    TypeOK
    SurvivesUnavailable
    SyspeerIsTheListedOne
