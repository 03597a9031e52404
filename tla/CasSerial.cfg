SPECIFICATION Spec
CONSTANTS
    Writers = {w1}
    Readers = {r1}
    f1 = f1
    f2 = f2
    t1 = t1
    t2 = t2
    Files <- MCFiles
    Trees <- MCTrees
    Entries <- MCEntries
    NoContent = NoContent
    MaxCrashes = 2
INVARIANT ReturnedIsReadable
PROPERTY ImplementsContentAddressed
