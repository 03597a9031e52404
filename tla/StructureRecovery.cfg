SPECIFICATION Spec
CONSTANTS
    sA = sA
    sB = sB
    sC = sC
    main = main
    extra = extra
    m1 = m1
    m2 = m2
    p1 = p1
    p2 = p2
    Structures = {sA, sB, sC}
    Slots = {main, extra}
    Modules = {m1, m2}
    Providers = {p1, p2}
    FilesOf <- MCFewerFiles
    Uses <- MCUses
    LockOf <- MCLockOf
    None = None
    Partial = Partial
    MaxFaults = 2
INVARIANT TypeOK
INVARIANT PlantMatchesOrder
INVARIANT HealthyPlantKept
PROPERTY HealersSuffice
PROPERTY RequestsComplete
