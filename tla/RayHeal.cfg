SPECIFICATION HealSpec
CONSTANTS
    h1 = h1
    h2 = h2
    Healers <- MCHealers
    MaxHeadFaults = 3
INVARIANT JobOnHealedHead
PROPERTY HealthyHeadKept
PROPERTY HealsComplete
