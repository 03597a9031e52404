SPECIFICATION Spec
CONSTANTS
    Writers = {w1, w2}
    Readers = {r1}
    f1 = f1
    f2 = f2
    t1 = t1
    t2 = t2
    Files <- MCFiles
    Trees <- MCOneTree
    Entries <- MCEntries
    NoContent = NoContent
    MaxCrashes = 1
INVARIANT TypeOK
INVARIANT EntriesExist
INVARIANT LocatorSound
INVARIANT MaterializedComplete
