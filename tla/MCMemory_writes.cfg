SPECIFICATION Spec
CONSTANTS
    k1 = k1
    k2 = k2
    r1 = r1
    r2 = r2
    Writers = {w1, w2}
    Keys = {k1, k2}
    Routes = {r1, r2}
    Packs <- SomePacks
    Policies <- SomePolicies
    Races = {FALSE, TRUE}
    WriteBound = 2
    Absent = Absent
    Undeclared = Undeclared
    Nested = Nested
SYMMETRY AnyWriter
INVARIANTS
    TypeOK
    LoadsWhatIsAllowed
PROPERTIES
    VersionsIncrease
