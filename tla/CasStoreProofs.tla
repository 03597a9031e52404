--------------------------- MODULE CasStoreProofs ----------------------------
(***************************************************************************)
(* The content store for every set of files, manifests, writers, readers   *)
(* and every number of crashes.  The first part holds for any number of    *)
(* writers; the second, the refinement of ContentAddressed, for one.       *)
(***************************************************************************)
EXTENDS CasStore, TLAPS

(***************************************************************************)
(* Part 1: any number of writers                                           *)
(***************************************************************************)
Exists(c) == blob[c] # "absent"

\* A put in progress: where it stands in put_tree's walk, and that the files
\* it has passed exist.
WriterGood(q) == q.pc # "idle" =>
    /\ q.cur \in Contents
    /\ q.target \in Contents
    /\ q.todo \subseteq Kids[q.target]
    /\ q.cur = q.target \/ q.cur \in Kids[q.target]
    /\ q.cur = q.target => q.todo = {}
    /\ \A f \in Kids[q.target] : f \in q.todo \cup {q.cur} \/ Exists(f)
    /\ q.pc \in {"compare", "write", "locator", "relocate", "locate", "collided"}
          => Exists(q.cur)
    /\ q.pc \in {"locator", "relocate", "locate"} => q.cur = q.target

WriterInv == \A w \in Writers : WriterGood(writer[w])

ReaderGood(q) == q.pc # "idle" =>
    /\ q.tree \in Trees
    /\ q.written \subseteq Entries[q.tree]
    /\ q.wrong = {}
    /\ q.pc = "got" => q.written = Entries[q.tree]

ReaderInv == \A r \in Readers : ReaderGood(reader[r])

CasInv == TypeOK /\ WriterInv /\ ReaderInv /\ EntriesExist /\ LocatorSound

------------------------------------------------------------------------------
\* What a content names: a manifest its entries, a file nothing.
LEMMA KidsFacts ==
    /\ \A c \in Contents : Kids[c] \subseteq Files
    /\ \A t \in Trees : t \in Contents /\ Kids[t] = Entries[t]
    /\ \A f \in Files : f \in Contents /\ Kids[f] = {}
BY ConstantsAssumption DEF Kids, Contents

LEMMA LocalTypes == IdleWriter \in WriterState /\ IdleReader \in ReaderState
BY DEF IdleWriter, Job, WriterState, IdleReader, Reading, ReaderState

LEMMA InitInv == Init => CasInv
<1> SUFFICES ASSUME Init PROVE CasInv
  OBVIOUS
<1>1. TypeOK
  BY LocalTypes DEF Init, TypeOK, FileState
<1>2. WriterInv /\ ReaderInv
  BY DEF Init, WriterInv, WriterGood, IdleWriter, Job, ReaderInv, ReaderGood,
         IdleReader, Reading
<1>3. EntriesExist /\ LocatorSound
  BY KidsFacts DEF Init, EntriesExist, LocatorSound
<1> QED BY <1>1, <1>2, <1>3 DEF CasInv

\* No blob vanishes.
BlobsStay == \A c \in Contents : blob[c] # "absent" => blob'[c] # "absent"

LEMMA GoodKept ==
    ASSUME BlobsStay, NEW q, WriterGood(q)
    PROVE  WriterGood(q)'
BY KidsFacts DEF WriterGood, Exists, BlobsStay, Contents

\* A put's step keeps the invariant when the state it moves to is good.
LEMMA WriterStep ==
    ASSUME CasInv, BlobsStay, NEW w \in Writers, NEW q \in WriterState,
           WriterGood(q)', MoveTo(w, q),
           blob' \in [Contents -> FileState], EntriesExist',
           locator' \in [Contents -> FileState], LocatorSound',
           returned' \subseteq Contents, UNCHANGED <<reader, crashes>>
    PROVE  CasInv'
<1>1. TypeOK'
  BY DEF CasInv, TypeOK, MoveTo
<1>2. WriterInv'
  BY GoodKept DEF CasInv, TypeOK, WriterInv, MoveTo
<1>3. ReaderInv'
  BY DEF CasInv, ReaderInv, ReaderGood
<1> QED BY <1>1, <1>2, <1>3 DEF CasInv

\* The next put of a walk: every entry passed exists.
LEMMA NextPutInv ==
    ASSUME CasInv, BlobsStay, NEW w \in Writers,
           NEW todo, NEW target \in Contents, NextPut(w, todo, target),
           todo \subseteq Kids[target],
           \A f \in Kids[target] : f \in todo \/ blob'[f] # "absent",
           blob' \in [Contents -> FileState], EntriesExist',
           UNCHANGED <<locator, returned, reader, crashes>>
    PROVE  CasInv'
<1>0. todo \in SUBSET Files /\ LocatorSound'
  BY KidsFacts DEF CasInv, LocatorSound, BlobsStay
<1>1. ASSUME NEW f \in todo, MoveTo(w, Job("check", f, todo \ {f}, target))
      PROVE  CasInv'
  <2>0. PICK q : q = Job("check", f, todo \ {f}, target)
    OBVIOUS
  <2>1. q \in WriterState
    BY <1>0, <2>0 DEF Job, WriterState, Contents
  <2>2. f # target
    BY <1>1, KidsFacts, ConstantsAssumption DEF Contents
  <2>3. WriterGood(q)'
    BY <1>0, <2>0, <2>2 DEF Job, WriterGood, Exists, Contents
  <2> QED BY <1>0, <1>1, <2>0, <2>1, <2>3, WriterStep DEF CasInv, TypeOK
<1>2. ASSUME todo = {}, MoveTo(w, Job("check", target, {}, target))
      PROVE  CasInv'
  <2>0. PICK q : q = Job("check", target, {}, target)
    OBVIOUS
  <2>1. q \in WriterState
    BY <2>0 DEF Job, WriterState
  <2>3. WriterGood(q)'
    BY <1>2, <2>0 DEF Job, WriterGood, Exists
  <2> QED BY <1>0, <1>2, <2>0, <2>1, <2>3, WriterStep DEF CasInv, TypeOK
<1> QED BY <1>1, <1>2 DEF NextPut

\* put() returns with its blob on disk.
LEMMA PutReturnsInv ==
    ASSUME CasInv, BlobsStay, NEW w \in Writers, writer[w].pc # "idle",
           PutReturns(w), blob'[writer[w].cur] # "absent",
           blob' \in [Contents -> FileState], EntriesExist',
           UNCHANGED <<locator, returned, reader, crashes>>
    PROVE  CasInv'
<1> DEFINE p == writer[w]
<1>0. p \in WriterState /\ WriterGood(p) /\ p.cur \in Contents /\ p.target \in Contents
  BY DEF CasInv, TypeOK, WriterInv, WriterGood
<1>1. CASE p.cur = p.target
  <2>0. PICK q : q = Job("locator", p.cur, {}, p.target)
    OBVIOUS
  <2>1. q \in WriterState
    BY <1>0, <2>0 DEF Job, WriterState
  <2>2. \A f \in Kids[p.target] : f \in Contents /\ (f \in {p.cur} \/ Exists(f))
    BY <1>0, <1>1, KidsFacts DEF WriterGood, Contents
  <2>3. WriterGood(q)'
    BY <1>0, <1>1, <2>0, <2>2 DEF Job, WriterGood, Exists, BlobsStay
  <2>4. MoveTo(w, q)
    BY <1>1, <2>0 DEF PutReturns
  <2>5. LocatorSound'
    BY DEF CasInv, LocatorSound, BlobsStay
  <2> QED BY <2>1, <2>3, <2>4, <2>5, WriterStep DEF CasInv, TypeOK
<1>2. CASE p.cur # p.target
  <2>1. NextPut(w, p.todo, p.target)
    BY <1>2 DEF PutReturns
  <2>2. \A f \in Kids[p.target] : f \in p.todo \/ blob'[f] # "absent"
    BY <1>0, KidsFacts DEF WriterGood, Exists, BlobsStay, Contents
  <2>3. p.todo \subseteq Kids[p.target]
    BY <1>0 DEF WriterGood
  <2>4. PICK todo, target : todo = p.todo /\ target = p.target
    OBVIOUS
  <2> QED BY <1>0, <2>1, <2>2, <2>3, <2>4, NextPutInv
<1> QED BY <1>1, <1>2

\* Every step of a put keeps the invariant.
LEMMA WriteInv ==
    ASSUME CasInv, NEW w \in Writers, Write(w)
    PROVE  CasInv'
<1> DEFINE p == writer[w]
<1>0. /\ p \in WriterState /\ WriterGood(p)
      /\ blob \in [Contents -> FileState] /\ locator \in [Contents -> FileState]
      /\ EntriesExist /\ LocatorSound /\ returned \subseteq Contents
  BY DEF CasInv, TypeOK, WriterInv
<1>1. ASSUME NEW f \in Files, PutBytes(w, f)
      PROVE  CasInv'
  <2> DEFINE q == Job("check", f, {}, f)
  <2>1. q \in WriterState /\ WriterGood(q)'
    BY KidsFacts DEF Job, WriterState, WriterGood
  <2>2. BlobsStay /\ EntriesExist' /\ LocatorSound'
    BY <1>0, <1>1 DEF PutBytes, BlobsStay, EntriesExist, LocatorSound
  <2> QED BY <1>0, <1>1, <2>1, <2>2, WriterStep DEF PutBytes
<1>2. ASSUME NEW t \in Trees, PutTree(w, t)
      PROVE  CasInv'
  <2>1. BlobsStay /\ EntriesExist'
    BY <1>0, <1>2 DEF PutTree, BlobsStay, EntriesExist
  <2>2. Entries[t] = Kids[t] /\ t \in Contents
    BY KidsFacts
  <2> QED BY <1>0, <1>2, <2>1, <2>2, NextPutInv DEF PutTree
<1>3. ASSUME CheckBlob(w)
      PROVE  CasInv'
  <2>0. PICK q : q = Job(IF blob[p.cur] = "absent" THEN "open" ELSE "compare",
                         p.cur, p.todo, p.target)
    OBVIOUS
  <2>1. q \in WriterState
    BY <1>0, <2>0 DEF Job, WriterState
  <2>2. WriterGood(q)
    BY <1>0, <1>3, <2>0 DEF Job, WriterGood, CheckBlob, Exists
  <2>3. BlobsStay /\ EntriesExist' /\ LocatorSound'
    BY <1>0, <1>3 DEF CheckBlob, BlobsStay, EntriesExist, LocatorSound
  <2>4. WriterGood(q)'
    BY <2>2, <2>3, GoodKept
  <2> QED BY <1>0, <1>3, <2>0, <2>1, <2>3, <2>4, WriterStep DEF CheckBlob
<1>4. ASSUME SameBytes(w)
      PROVE  CasInv'
  <2>1. BlobsStay /\ EntriesExist' /\ blob'[p.cur] # "absent" /\ p.pc # "idle"
    BY <1>0, <1>4 DEF SameBytes, BlobsStay, EntriesExist
  <2> QED BY <1>0, <1>4, <2>1, PutReturnsInv DEF SameBytes
<1>5. ASSUME Collision(w)
      PROVE  CasInv'
  <2>0. PICK q : q = Job("collided", p.cur, p.todo, p.target)
    OBVIOUS
  <2>1. q \in WriterState
    BY <1>0, <2>0 DEF Job, WriterState
  <2>2. WriterGood(q)
    BY <1>0, <1>5, <2>0 DEF Job, WriterGood, Collision
  <2>3. BlobsStay /\ EntriesExist' /\ LocatorSound'
    BY <1>0, <1>5 DEF Collision, BlobsStay, EntriesExist, LocatorSound
  <2>4. WriterGood(q)'
    BY <2>2, <2>3, GoodKept
  <2> QED BY <1>0, <1>5, <2>0, <2>1, <2>3, <2>4, WriterStep DEF Collision
<1>6. ASSUME OpenBlob(w)
      PROVE  CasInv'
  <2>0. PICK q : q = Job("write", p.cur, p.todo, p.target)
    OBVIOUS
  <2>1. q \in WriterState /\ p.cur \in Contents
    BY <1>0, <1>6, <2>0 DEF Job, WriterState, WriterGood, OpenBlob
  <2>2. BlobsStay /\ blob' \in [Contents -> FileState] /\ blob'[p.cur] # "absent"
    BY <1>0, <1>6, <2>1 DEF OpenBlob, BlobsStay, FileState
  <2>3. EntriesExist'
    <3> SUFFICES ASSUME NEW t \in Trees, blob'[t] # "absent", NEW f \in Entries[t]
                 PROVE  blob'[f] # "absent"
      BY DEF EntriesExist
    <3>1. t \in Contents /\ f \in Contents /\ f \in Kids[t]
      BY KidsFacts DEF Contents
    <3>2. CASE t = p.cur
      BY <1>0, <1>6, <2>2, <3>1, <3>2, KidsFacts, ConstantsAssumption
         DEF WriterGood, OpenBlob, Exists, BlobsStay, Contents
    <3>3. CASE t # p.cur
      BY <1>0, <1>6, <2>2, <3>1, <3>3 DEF EntriesExist, OpenBlob, BlobsStay
    <3> QED BY <3>2, <3>3
  <2>4. LocatorSound'
    BY <1>0, <1>6, <2>2 DEF OpenBlob, LocatorSound, BlobsStay
  <2>5. WriterGood(q)'
    BY <1>0, <1>6, <2>0, <2>2, KidsFacts
       DEF Job, WriterGood, OpenBlob, Exists, BlobsStay, Contents
  <2> QED BY <1>0, <1>6, <2>0, <2>1, <2>2, <2>3, <2>4, <2>5, WriterStep DEF OpenBlob
<1>7. ASSUME WriteBlob(w)
      PROVE  CasInv'
  <2>1. p.cur \in Contents /\ blob[p.cur] # "absent" /\ p.pc # "idle"
    BY <1>0, <1>7 DEF WriteBlob, WriterGood, Exists
  <2>2. BlobsStay /\ blob' \in [Contents -> FileState] /\ blob'[p.cur] # "absent"
    BY <1>0, <1>7, <2>1 DEF WriteBlob, BlobsStay, FileState
  <2>3. EntriesExist'
    BY <1>0, <1>7, <2>1, KidsFacts DEF WriteBlob, EntriesExist, Contents
  <2> QED BY <1>7, <2>1, <2>2, <2>3, PutReturnsInv DEF WriteBlob
<1>8. ASSUME ReadLocator(w)
      PROVE  CasInv'
  <2>0. PICK q : q = IF locator[p.cur] = "torn" THEN IdleWriter
                     ELSE Job("relocate", p.cur, {}, p.target)
    OBVIOUS
  <2>1. q \in WriterState
    BY <1>0, <2>0, LocalTypes DEF Job, WriterState
  <2>2. WriterGood(q)
    BY <1>0, <1>8, <2>0, KidsFacts
       DEF Job, WriterGood, ReadLocator, IdleWriter, Exists
  <2>3. BlobsStay /\ EntriesExist' /\ LocatorSound'
    BY <1>0, <1>8 DEF ReadLocator, BlobsStay, EntriesExist, LocatorSound
  <2>4. WriterGood(q)'
    BY <2>2, <2>3, GoodKept
  <2> QED BY <1>0, <1>8, <2>0, <2>1, <2>3, <2>4, WriterStep DEF ReadLocator
<1>9. ASSUME OpenLocator(w)
      PROVE  CasInv'
  <2>0. PICK q : q = Job("locate", p.cur, {}, p.target)
    OBVIOUS
  <2>1. q \in WriterState /\ p.cur \in Contents /\ Exists(p.cur)
    BY <1>0, <1>9, <2>0 DEF Job, WriterState, WriterGood, OpenLocator
  <2>2. WriterGood(q)
    BY <1>0, <1>9, <2>0 DEF Job, WriterGood, OpenLocator
  <2>3. BlobsStay /\ EntriesExist'
    BY <1>0, <1>9 DEF OpenLocator, BlobsStay, EntriesExist
  <2>4. locator' \in [Contents -> FileState] /\ LocatorSound'
    BY <1>0, <1>9, <2>1 DEF OpenLocator, LocatorSound, FileState, Exists
  <2>5. WriterGood(q)'
    BY <2>2, <2>3, GoodKept
  <2> QED BY <1>0, <1>9, <2>0, <2>1, <2>3, <2>4, <2>5, WriterStep DEF OpenLocator
<1>10. ASSUME WriteLocator(w)
       PROVE  CasInv'
  <2>1. p.cur \in Contents /\ Exists(p.cur) /\ p.target \in Contents
    BY <1>0, <1>10 DEF WriterGood, WriteLocator
  <2>2. IdleWriter \in WriterState /\ WriterGood(IdleWriter)'
    BY LocalTypes DEF IdleWriter, Job, WriterGood
  <2>3. BlobsStay /\ EntriesExist'
    BY <1>0, <1>10 DEF WriteLocator, BlobsStay, EntriesExist
  <2>4. locator' \in [Contents -> FileState] /\ LocatorSound'
    BY <1>0, <1>10, <2>1 DEF WriteLocator, LocatorSound, FileState, Exists
  <2> QED BY <1>0, <1>10, <2>1, <2>2, <2>3, <2>4, WriterStep DEF WriteLocator
<1>11. ASSUME AfterCollision(w)
       PROVE  CasInv'
  <2>1. IdleWriter \in WriterState /\ WriterGood(IdleWriter)'
    BY LocalTypes DEF IdleWriter, Job, WriterGood
  <2>2. BlobsStay /\ EntriesExist' /\ LocatorSound'
    BY <1>0, <1>11 DEF AfterCollision, BlobsStay, EntriesExist, LocatorSound
  <2> QED BY <1>0, <1>11, <2>1, <2>2, WriterStep DEF AfterCollision
<1> QED BY <1>1, <1>2, <1>3, <1>4, <1>5, <1>6, <1>7, <1>8, <1>9, <1>10, <1>11 DEF Write

\* cat_bytes returns the bytes asked for or raises.
LEMMA CatBytesVerified == \A c : CatBytes(c) \subseteq {"good", "raise"}
BY DEF CatBytes, Verified

\* A read's step keeps the invariant when the state it moves to is good.
LEMMA ReaderStep ==
    ASSUME CasInv, NEW r \in Readers, NEW q \in ReaderState, ReaderGood(q),
           reader' = [reader EXCEPT ![r] = q],
           UNCHANGED <<blob, locator, writer, returned, crashes>>
    PROVE  CasInv'
BY DEF CasInv, TypeOK, WriterInv, WriterGood, Exists, ReaderInv, ReaderGood,
       EntriesExist, LocatorSound

LEMMA ReadInv ==
    ASSUME CasInv, NEW r \in Readers, Read(r)
    PROVE  CasInv'
<1> DEFINE p == reader[r]
<1>0. p \in ReaderState /\ ReaderGood(p)
  BY DEF CasInv, TypeOK, ReaderInv
<1>1. ASSUME NEW t \in Trees, GetTree(r, t)
      PROVE  CasInv'
  <2>1. PICK b : reader' = [reader EXCEPT ![r] =
                    Reading(IF b = "raise" THEN "raised" ELSE "manifest", t, {}, {})]
    BY <1>1 DEF GetTree
  <2>2. PICK q : q = Reading(IF b = "raise" THEN "raised" ELSE "manifest", t, {}, {})
    OBVIOUS
  <2>3. q \in ReaderState /\ ReaderGood(q)
    BY <2>2 DEF Reading, ReaderState, ReaderGood, Contents
  <2> QED BY <1>1, <2>1, <2>2, <2>3, ReaderStep DEF GetTree
<1>2. ASSUME ReadManifest(r)
      PROVE  CasInv'
  <2>1. PICK b : reader' = [reader EXCEPT ![r] =
                    Reading(IF b = "raise" THEN "raised" ELSE "entries", p.tree, {}, {})]
    BY <1>2 DEF ReadManifest
  <2>2. PICK q : q = Reading(IF b = "raise" THEN "raised" ELSE "entries", p.tree, {}, {})
    OBVIOUS
  <2>3. q \in ReaderState /\ ReaderGood(q)
    BY <1>0, <1>2, <2>2 DEF Reading, ReaderState, ReaderGood, ReadManifest
  <2> QED BY <1>2, <2>1, <2>2, <2>3, ReaderStep DEF ReadManifest
<1>3. ASSUME NEW f \in Files, WriteEntry(r, f)
      PROVE  CasInv'
  <2>1. p.tree \in Trees /\ f \in Entries[p.tree] /\ p.wrong = {}
    BY <1>0, <1>3 DEF WriteEntry, ReaderGood
  <2>2. PICK b \in CatBytes(f) : reader' = [reader EXCEPT ![r] =
            IF b = "raise"
            THEN Reading("raised", p.tree, p.written, p.wrong)
            ELSE Reading("entries", p.tree, p.written \cup {f},
                         p.wrong \cup IF b = "good" THEN {} ELSE {f})]
    BY <1>3 DEF WriteEntry
  <2>3. b \in {"good", "raise"}
    BY CatBytesVerified
  <2>4. PICK q : q = IF b = "raise"
                     THEN Reading("raised", p.tree, p.written, {})
                     ELSE Reading("entries", p.tree, p.written \cup {f}, {})
    OBVIOUS
  <2>5. q \in ReaderState
    BY <1>0, <2>4 DEF Reading, ReaderState
  <2>6. ReaderGood(q)
    BY <1>0, <1>3, <2>1, <2>4 DEF Reading, ReaderGood, WriteEntry
  <2>7. reader' = [reader EXCEPT ![r] = q]
    BY <2>1, <2>2, <2>3, <2>4
  <2> QED BY <1>3, <2>5, <2>6, <2>7, ReaderStep DEF WriteEntry
<1>4. ASSUME GetReturns(r)
      PROVE  CasInv'
  <2>1. PICK q : q = Reading("got", p.tree, p.written, p.wrong)
    OBVIOUS
  <2>2. q \in ReaderState /\ ReaderGood(q)
    BY <1>0, <1>4, <2>1 DEF Reading, ReaderState, ReaderGood, GetReturns
  <2> QED BY <1>4, <2>1, <2>2, ReaderStep DEF GetReturns
<1>5. ASSUME NextGet(r)
      PROVE  CasInv'
  <2>1. IdleReader \in ReaderState /\ ReaderGood(IdleReader)
    BY LocalTypes DEF IdleReader, Reading, ReaderGood
  <2> QED BY <1>5, <2>1, ReaderStep DEF NextGet
<1> QED BY <1>1, <1>2, <1>3, <1>4, <1>5 DEF Read

LEMMA CrashInv == CasInv /\ Crash => CasInv'
BY LocalTypes, ConstantsAssumption
   DEF CasInv, Crash, TypeOK, WriterInv, WriterGood, IdleWriter, Job, ReaderInv,
       ReaderGood, IdleReader, Reading, EntriesExist, LocatorSound

LEMMA NextInv == CasInv /\ [Next]_vars => CasInv'
<1>1. CasInv /\ UNCHANGED vars => CasInv'
  BY DEF CasInv, TypeOK, WriterInv, WriterGood, Exists, ReaderInv, ReaderGood,
         EntriesExist, LocatorSound, vars
<1> QED BY <1>1, WriteInv, ReadInv, CrashInv DEF Next

\* The inductive invariant, for any number of writers, readers and crashes.
THEOREM CasInvariant == Spec => []CasInv
BY InitInv, NextInv, PTL DEF Spec

\* Type correctness of the content store.
THEOREM TypeCorrect == Spec => []TypeOK
BY CasInvariant, PTL DEF CasInv

\* put_tree never leaves a manifest file before a file for each entry.
THEOREM ManifestAfterEntries == Spec => []EntriesExist
BY CasInvariant, PTL DEF CasInv

\* No locator document for a blob the Node does not have.
THEOREM LocatorsAreSound == Spec => []LocatorSound
BY CasInvariant, PTL DEF CasInv

\* AddressStore.get returns only complete and verified directories.
THEOREM MaterializedIsComplete == Spec => []MaterializedComplete
<1>1. CasInv => MaterializedComplete
  BY DEF CasInv, ReaderInv, ReaderGood, MaterializedComplete
<1> QED BY <1>1, CasInvariant, PTL

------------------------------------------------------------------------------
(***************************************************************************)
(* Part 2: puts that do not overlap                                        *)
(***************************************************************************)
OneWriter == \A v, w \in Writers : v = w

\* A put that nobody disturbs: between its check and its open the blob stays
\* absent, and every file it has passed is whole.
SoloGood(q) == q.pc # "idle" =>
    /\ q.pc = "open" => blob[q.cur] = "absent"
    /\ q.pc \in {"locator", "relocate", "locate"} => q.cur \in Whole
    /\ \A f \in Kids[q.target] : f \in q.todo \cup {q.cur} \cup Whole

ManifestsClosed == \A c \in Whole : Kids[c] \subseteq Whole

SoloInv ==
    /\ CasInv
    /\ \A w \in Writers : SoloGood(writer[w])
    /\ ManifestsClosed
    /\ returned \subseteq Whole

\* A step of the only writer keeps SoloInv and maps to a step of
\* ContentAddressed, when blobs that are whole stay whole.
LEMMA SoloStep ==
    ASSUME OneWriter, SoloInv, CasInv', NEW w \in Writers, NEW q, MoveTo(w, q),
           SoloGood(q)',
           \/ Whole' = Whole
           \/ \E c \in Contents : Kids[c] \subseteq Whole /\ Whole' = Whole \cup {c},
           returned' \subseteq Whole'
    PROVE  SoloInv' /\ [ContentStore!Next]_Whole
<1>1. \A v \in Writers : v = w
  BY DEF OneWriter
<1>2. writer'[w] = q
  BY DEF SoloInv, CasInv, TypeOK, MoveTo
<1>3. \A v \in Writers : SoloGood(writer[v])'
  <2> SUFFICES ASSUME NEW v \in Writers PROVE SoloGood(writer[v])'
    OBVIOUS
  <2>1. v = w
    BY <1>1
  <2> QED BY <1>2, <2>1 DEF SoloGood
<1>4. ManifestsClosed'
  BY DEF SoloInv, ManifestsClosed
<1>5. [ContentStore!Next]_Whole
  BY DEF ContentStore!Next, ContentStore!Store
<1> QED BY <1>3, <1>4, <1>5 DEF SoloInv

\* put() returns with its blob whole.
LEMMA SoloPutReturns ==
    ASSUME OneWriter, SoloInv, CasInv', NEW w \in Writers, writer[w].pc # "idle",
           PutReturns(w), returned' = returned, writer[w].cur \in Whole',
           \/ Whole' = Whole
           \/ Kids[writer[w].cur] \subseteq Whole /\ Whole' = Whole \cup {writer[w].cur}
    PROVE  SoloInv' /\ [ContentStore!Next]_Whole
<1> DEFINE p == writer[w]
<1>0. /\ p.cur \in Contents /\ p.target \in Contents
      /\ p.todo \subseteq Kids[p.target] /\ SoloGood(p) /\ WriterGood(p)
  BY DEF SoloInv, CasInv, WriterInv, WriterGood
<1>1. returned' \subseteq Whole'
  BY DEF SoloInv
<1>2. \A f \in Kids[p.target] : f \in p.todo \/ f \in Whole'
  BY <1>0 DEF SoloGood
<1>3. CASE p.cur = p.target
  <2>1. PICK q : q = Job("locator", p.cur, {}, p.target)
    OBVIOUS
  <2>2. p.todo = {}
    BY <1>0, <1>3 DEF WriterGood
  <2>3. SoloGood(q)'
    BY <1>2, <2>1, <2>2 DEF SoloGood, Job
  <2>4. MoveTo(w, q)
    BY <1>3, <2>1 DEF PutReturns
  <2> QED BY <1>0, <1>1, <2>3, <2>4, SoloStep
<1>4. ASSUME NEW f \in p.todo, MoveTo(w, Job("check", f, p.todo \ {f}, p.target))
      PROVE  SoloInv' /\ [ContentStore!Next]_Whole
  <2>1. PICK q : q = Job("check", f, p.todo \ {f}, p.target)
    OBVIOUS
  <2>2. SoloGood(q)'
    BY <1>2, <2>1 DEF SoloGood, Job
  <2> QED BY <1>0, <1>1, <1>4, <2>1, <2>2, SoloStep
<1>5. ASSUME p.todo = {}, MoveTo(w, Job("check", p.target, {}, p.target))
      PROVE  SoloInv' /\ [ContentStore!Next]_Whole
  <2>1. PICK q : q = Job("check", p.target, {}, p.target)
    OBVIOUS
  <2>2. SoloGood(q)'
    BY <1>2, <1>5, <2>1 DEF SoloGood, Job
  <2> QED BY <1>0, <1>1, <1>5, <2>1, <2>2, SoloStep
<1> QED BY <1>3, <1>4, <1>5 DEF PutReturns, NextPut

LEMMA SoloWrite ==
    ASSUME OneWriter, SoloInv, CasInv', NEW w \in Writers, Write(w)
    PROVE  SoloInv' /\ [ContentStore!Next]_Whole
<1> DEFINE p == writer[w]
<1>0. /\ p \in WriterState /\ SoloGood(p) /\ WriterGood(p)
      /\ blob \in [Contents -> FileState] /\ returned \subseteq Whole
  BY DEF SoloInv, CasInv, WriterInv, TypeOK
<1>1. ASSUME NEW f \in Files, PutBytes(w, f)
      PROVE  SoloInv' /\ [ContentStore!Next]_Whole
  <2>1. PICK q : q = Job("check", f, {}, f)
    OBVIOUS
  <2>2. SoloGood(q)'
    BY <2>1, KidsFacts DEF SoloGood, Job
  <2> QED BY <1>0, <1>1, <2>1, <2>2, SoloStep DEF PutBytes, Whole
<1>2. ASSUME NEW t \in Trees, PutTree(w, t)
      PROVE  SoloInv' /\ [ContentStore!Next]_Whole
  <2>0. Kids[t] = Entries[t] /\ Whole' = Whole /\ returned' \subseteq Whole'
    BY <1>0, <1>2, KidsFacts DEF PutTree, Whole
  <2>1. ASSUME NEW f \in Entries[t], MoveTo(w, Job("check", f, Entries[t] \ {f}, t))
        PROVE  SoloInv' /\ [ContentStore!Next]_Whole
    <3>1. PICK q : q = Job("check", f, Entries[t] \ {f}, t)
      OBVIOUS
    <3>2. SoloGood(q)'
      BY <2>0, <3>1 DEF SoloGood, Job
    <3> QED BY <2>0, <2>1, <3>1, <3>2, SoloStep
  <2>2. ASSUME Entries[t] = {}, MoveTo(w, Job("check", t, {}, t))
        PROVE  SoloInv' /\ [ContentStore!Next]_Whole
    <3>1. PICK q : q = Job("check", t, {}, t)
      OBVIOUS
    <3>2. SoloGood(q)'
      BY <2>0, <2>2, <3>1 DEF SoloGood, Job
    <3> QED BY <2>0, <2>2, <3>1, <3>2, SoloStep
  <2> QED BY <1>2, <2>1, <2>2 DEF PutTree, NextPut
<1>3. ASSUME CheckBlob(w)
      PROVE  SoloInv' /\ [ContentStore!Next]_Whole
  <2>1. PICK q : q = Job(IF blob[p.cur] = "absent" THEN "open" ELSE "compare",
                         p.cur, p.todo, p.target)
    OBVIOUS
  <2>2. SoloGood(q)'
    BY <1>0, <1>3, <2>1 DEF SoloGood, Job, CheckBlob, Whole
  <2> QED BY <1>0, <1>3, <2>1, <2>2, SoloStep DEF CheckBlob, Whole
<1>4. ASSUME SameBytes(w)
      PROVE  SoloInv' /\ [ContentStore!Next]_Whole
  <2>1. Whole' = Whole /\ p.cur \in Whole'
    BY <1>0, <1>4 DEF SameBytes, Whole, WriterGood
  <2> QED BY <1>4, <2>1, SoloPutReturns DEF SameBytes
<1>5. ASSUME Collision(w)
      PROVE  SoloInv' /\ [ContentStore!Next]_Whole
  <2>1. PICK q : q = Job("collided", p.cur, p.todo, p.target)
    OBVIOUS
  <2>2. SoloGood(q)'
    BY <1>0, <1>5, <2>1 DEF SoloGood, Job, Collision, Whole
  <2> QED BY <1>0, <1>5, <2>1, <2>2, SoloStep DEF Collision, Whole
<1>6. ASSUME OpenBlob(w)
      PROVE  SoloInv' /\ [ContentStore!Next]_Whole
  <2>1. PICK q : q = Job("write", p.cur, p.todo, p.target)
    OBVIOUS
  <2>2. Whole' = Whole
    BY <1>0, <1>6 DEF OpenBlob, SoloGood, Whole
  <2>3. SoloGood(q)'
    BY <1>0, <1>6, <2>1, <2>2 DEF SoloGood, Job, OpenBlob
  <2> QED BY <1>0, <1>6, <2>1, <2>2, <2>3, SoloStep DEF OpenBlob
<1>7. ASSUME WriteBlob(w)
      PROVE  SoloInv' /\ [ContentStore!Next]_Whole
  <2>1. p.cur \in Contents /\ p.pc # "idle"
    BY <1>0, <1>7 DEF WriteBlob, WriterGood
  <2>2. Whole' = Whole \cup {p.cur} /\ p.cur \in Whole'
    BY <1>0, <1>7, <2>1 DEF WriteBlob, Whole
  <2>3. Kids[p.cur] \subseteq Whole
    <3>1. CASE p.cur = p.target
      <4>1. p.cur \notin Kids[p.cur] /\ p.todo = {}
        BY <1>0, <2>1, <3>1, KidsFacts, ConstantsAssumption DEF WriterGood, Contents
      <4> QED BY <1>0, <2>1, <3>1, <4>1 DEF SoloGood
    <3>2. CASE p.cur # p.target
      BY <1>0, <2>1, <3>2, KidsFacts DEF WriterGood
    <3> QED BY <3>1, <3>2
  <2> QED BY <1>7, <2>1, <2>2, <2>3, SoloPutReturns DEF WriteBlob
<1>8. ASSUME ReadLocator(w)
      PROVE  SoloInv' /\ [ContentStore!Next]_Whole
  <2>1. PICK q : q = IF locator[p.cur] = "torn" THEN IdleWriter
                     ELSE Job("relocate", p.cur, {}, p.target)
    OBVIOUS
  <2>2. p.todo = {}
    BY <1>0, <1>8 DEF WriterGood, ReadLocator
  <2>3. SoloGood(q)'
    BY <1>0, <1>8, <2>1, <2>2 DEF SoloGood, Job, IdleWriter, ReadLocator, Whole
  <2> QED BY <1>0, <1>8, <2>1, <2>3, SoloStep DEF ReadLocator, Whole
<1>9. ASSUME OpenLocator(w)
      PROVE  SoloInv' /\ [ContentStore!Next]_Whole
  <2>1. PICK q : q = Job("locate", p.cur, {}, p.target)
    OBVIOUS
  <2>2. p.todo = {}
    BY <1>0, <1>9 DEF WriterGood, OpenLocator
  <2>3. SoloGood(q)'
    BY <1>0, <1>9, <2>1, <2>2 DEF SoloGood, Job, OpenLocator, Whole
  <2> QED BY <1>0, <1>9, <2>1, <2>3, SoloStep DEF OpenLocator, Whole
<1>10. ASSUME WriteLocator(w)
       PROVE  SoloInv' /\ [ContentStore!Next]_Whole
  <2>1. SoloGood(IdleWriter)'
    BY DEF SoloGood, IdleWriter, Job
  <2>2. p.target \in Whole
    BY <1>0, <1>10 DEF SoloGood, WriterGood, WriteLocator
  <2>3. Whole' = Whole /\ returned' \subseteq Whole'
    BY <1>0, <1>10, <2>2 DEF WriteLocator, Whole
  <2> QED BY <1>10, <2>1, <2>3, SoloStep DEF WriteLocator
<1>11. ASSUME AfterCollision(w)
       PROVE  SoloInv' /\ [ContentStore!Next]_Whole
  <2>1. SoloGood(IdleWriter)'
    BY DEF SoloGood, IdleWriter, Job
  <2> QED BY <1>0, <1>11, <2>1, SoloStep DEF AfterCollision, Whole
<1> QED BY <1>1, <1>2, <1>3, <1>4, <1>5, <1>6, <1>7, <1>8, <1>9, <1>10, <1>11 DEF Write

LEMMA SoloInit == Init => SoloInv /\ ContentStore!Init
<1> SUFFICES ASSUME Init PROVE SoloInv /\ ContentStore!Init
  OBVIOUS
<1>1. Whole = {}
  BY DEF Init, Whole
<1>2. \A w \in Writers : SoloGood(writer[w])
  BY DEF Init, SoloGood, IdleWriter, Job
<1> QED BY <1>1, <1>2, InitInv DEF SoloInv, ManifestsClosed, Init, ContentStore!Init

LEMMA SoloNext ==
    ASSUME OneWriter, SoloInv, [Next]_vars
    PROVE  SoloInv' /\ [ContentStore!Next]_Whole
<1>0. CasInv'
  BY NextInv DEF SoloInv
<1>1. CASE \E w \in Writers : Write(w)
  BY <1>0, <1>1, SoloWrite
<1>2. CASE \E r \in Readers : Read(r)
  <2>1. UNCHANGED <<blob, writer, returned>>
    BY <1>2 DEF Read, GetTree, ReadManifest, WriteEntry, GetReturns, NextGet
  <2> QED BY <1>0, <2>1 DEF SoloInv, SoloGood, ManifestsClosed, Whole
<1>3. CASE Crash
  <2>1. \A w \in Writers : SoloGood(writer[w])'
    BY <1>3 DEF Crash, SoloGood, IdleWriter, Job
  <2> QED BY <1>0, <1>3, <2>1 DEF Crash, SoloInv, ManifestsClosed, Whole
<1>4. CASE UNCHANGED vars
  BY <1>0, <1>4 DEF SoloInv, SoloGood, ManifestsClosed, Whole, vars
<1> QED BY <1>1, <1>2, <1>3, <1>4 DEF Next

\* When puts do not overlap, what put_bytes or put_tree returned is readable,
\* entries included, ever after, through any number of crashes.
THEOREM ReturnedStaysReadable ==
    ASSUME OneWriter PROVE Spec => []ReturnedIsReadable
<1>1. SoloInv => ReturnedIsReadable
  BY DEF SoloInv, ManifestsClosed, ReturnedIsReadable
<1>2. SoloInv /\ [Next]_vars => SoloInv'
  BY SoloNext
<1> QED BY SoloInit, <1>1, <1>2, PTL DEF Spec

\* When puts do not overlap, the CAS directory implements ContentAddressed.
THEOREM Refinement ==
    ASSUME OneWriter PROVE Spec => ImplementsContentAddressed
<1>1. SoloInv /\ [Next]_vars => SoloInv' /\ [ContentStore!Next]_Whole
  BY SoloNext
<1> QED BY SoloInit, <1>1, PTL DEF Spec, ImplementsContentAddressed, ContentStore!Spec
==============================================================================
