------------------------------ MODULE CasStore -------------------------------
(***************************************************************************)
(* The Node-local content store: CasHttpStore.put (cas/store.py), put_tree *)
(* and materialize_tree (cas/manifest.py), the locator document put after  *)
(* every blob (cas/locators.py, content_mesh.py put_bytes and put_tree),   *)
(* and the verified reads of AddressStore (address_store/store.py).        *)
(*                                                                         *)
(* A blob is a file named by the sha256 of its bytes.  Nothing is locked   *)
(* or renamed into place: write_bytes opens (and truncates) the file, then *)
(* fills it, so the file passes through a state whose bytes are not the    *)
(* ones it is named for ("torn"), and a crash can leave it there.  Bytes   *)
(* are abstracted to whether they hash to the id they are asked for.       *)
(***************************************************************************)
EXTENDS Naturals, FiniteSets

CONSTANTS Writers, Readers,
          Files,       \* ids of plain blobs
          Trees,       \* ids of directory manifests
          Entries,     \* [Trees -> SUBSET Files], the entries of a manifest
          MaxCrashes,  \* bound on Node crashes
          NoContent

ASSUME ConstantsAssumption ==
    /\ Files \cap Trees = {}
    /\ Entries \in [Trees -> SUBSET Files]
    /\ NoContent \notin Files \cup Trees
    /\ MaxCrashes \in Nat

VARIABLES
    blob,      \* [Contents -> FileState]: .cats/ldp/cas/<hex>
    locator,   \* [Contents -> FileState]: registry/by-content/<id>.json
    writer,    \* [Writers -> WriterState]: threads in put_bytes or put_tree
    reader,    \* [Readers -> ReaderState]: threads in AddressStore.get of a tree
    returned,  \* history: the ids put_bytes and put_tree have returned
    crashes

vars == <<blob, locator, writer, reader, returned, crashes>>

Contents  == Files \cup Trees
Kids      == [c \in Contents |-> IF c \in Trees THEN Entries[c] ELSE {}]
FileState == {"absent", "torn", "whole"}

WriterState == [pc     : {"idle", "check", "compare", "open", "write",
                          "locator", "relocate", "locate", "collided"},
                cur    : Contents \cup {NoContent},  \* the argument of put()
                todo   : SUBSET Files,               \* files still to put
                target : Contents \cup {NoContent}]  \* what the call returns

ReaderState == [pc      : {"idle", "manifest", "entries", "got", "raised"},
                tree    : Contents \cup {NoContent},
                written : SUBSET Files,      \* files written under dest_dir
                wrong   : SUBSET Files]      \* the ones with other bytes

Job(pc, cur, todo, target) ==
    [pc |-> pc, cur |-> cur, todo |-> todo, target |-> target]
IdleWriter == Job("idle", NoContent, {}, NoContent)

Reading(pc, t, written, wrong) ==
    [pc |-> pc, tree |-> t, written |-> written, wrong |-> wrong]
IdleReader == Reading("idle", NoContent, {}, {})

Init ==
    /\ blob = [c \in Contents |-> "absent"]
    /\ locator = [c \in Contents |-> "absent"]
    /\ writer = [w \in Writers |-> IdleWriter]
    /\ reader = [r \in Readers |-> IdleReader]
    /\ returned = {}
    /\ crashes = 0

------------------------------------------------------------------------------
(***************************************************************************)
(* ContentMesh.put_bytes and ContentMesh.put_tree                          *)
(***************************************************************************)
MoveTo(w, job) == writer' = [writer EXCEPT ![w] = job]

\* Mutant of PutBytes: the locator is registered without the blob.
PutLocatorOnly(w, f) ==
    /\ writer[w].pc = "idle"
    /\ MoveTo(w, Job("locator", f, {}, f))
    /\ UNCHANGED <<blob, locator, reader, returned, crashes>>

\* put_bytes takes files and JSON documents, never the bytes of a manifest.
PutBytes(w, f) ==
    /\ writer[w].pc = "idle"
    /\ MoveTo(w, Job("check", f, {}, f))
    /\ UNCHANGED <<blob, locator, reader, returned, crashes>>

\* put_tree's walk: the next file in the order os.walk happens to give, the
\* manifest when there is none left.
NextPut(w, todo, target) ==
    \/ \E f \in todo : MoveTo(w, Job("check", f, todo \ {f}, target))
    \/ todo = {} /\ MoveTo(w, Job("check", target, {}, target))

\* Mutant of PutTree: the manifest is put before the files it names.
PutManifestFirst(w, t) ==
    /\ writer[w].pc = "idle"
    /\ MoveTo(w, Job("check", t, Entries[t], t))
    /\ UNCHANGED <<blob, locator, reader, returned, crashes>>

\* Mutant of PutTree: the walk meets the manifest among the files.
PutTreeSelf(w, t) ==
    /\ writer[w].pc = "idle"
    /\ NextPut(w, Entries[t] \cup {t}, t)
    /\ UNCHANGED <<blob, locator, reader, returned, crashes>>

PutTree(w, t) ==
    /\ writer[w].pc = "idle"
    /\ NextPut(w, Entries[t], t)
    /\ UNCHANGED <<blob, locator, reader, returned, crashes>>

\* The return of CasHttpStore.put, to the walk or to the locator put.
PutReturns(w) ==
    IF writer[w].cur = writer[w].target
    THEN MoveTo(w, Job("locator", writer[w].cur, {}, writer[w].target))
    ELSE NextPut(w, writer[w].todo, writer[w].target)

\* Mutant of CheckBlob: the blob is rewritten whether or not it is there.
CheckNothing(w) ==
    /\ writer[w].pc = "check"
    /\ MoveTo(w, Job("open", writer[w].cur, writer[w].todo, writer[w].target))
    /\ UNCHANGED <<blob, locator, reader, returned, crashes>>

\* if not path.is_file(): ... else: ...
CheckBlob(w) ==
    /\ writer[w].pc = "check"
    /\ MoveTo(w, Job(IF blob[writer[w].cur] = "absent" THEN "open" ELSE "compare",
                     writer[w].cur, writer[w].todo, writer[w].target))
    /\ UNCHANGED <<blob, locator, reader, returned, crashes>>

SameBytes(w) ==
    /\ writer[w].pc = "compare"
    /\ blob[writer[w].cur] = "whole"
    /\ PutReturns(w)
    /\ UNCHANGED <<blob, locator, reader, returned, crashes>>

\* raise RuntimeError('CAS digest collision ...')
Collision(w) ==
    /\ writer[w].pc = "compare"
    /\ blob[writer[w].cur] = "torn"
    /\ MoveTo(w, Job("collided", writer[w].cur, writer[w].todo, writer[w].target))
    /\ UNCHANGED <<blob, locator, reader, returned, crashes>>

OpenBlob(w) ==
    /\ writer[w].pc = "open"
    /\ blob' = [blob EXCEPT ![writer[w].cur] = "torn"]
    /\ MoveTo(w, Job("write", writer[w].cur, writer[w].todo, writer[w].target))
    /\ UNCHANGED <<locator, reader, returned, crashes>>

WriteBlob(w) ==
    /\ writer[w].pc = "write"
    /\ blob' = [blob EXCEPT ![writer[w].cur] = "whole"]
    /\ PutReturns(w)
    /\ UNCHANGED <<locator, reader, returned, crashes>>

\* LocatorIndex.put reads the document if there is one; a torn one raises.
ReadLocator(w) ==
    /\ writer[w].pc = "locator"
    /\ MoveTo(w, IF locator[writer[w].cur] = "torn" THEN IdleWriter
                 ELSE Job("relocate", writer[w].cur, {}, writer[w].target))
    /\ UNCHANGED <<blob, locator, reader, returned, crashes>>

OpenLocator(w) ==
    /\ writer[w].pc = "relocate"
    /\ locator' = [locator EXCEPT ![writer[w].cur] = "torn"]
    /\ MoveTo(w, Job("locate", writer[w].cur, {}, writer[w].target))
    /\ UNCHANGED <<blob, reader, returned, crashes>>

WriteLocator(w) ==
    /\ writer[w].pc = "locate"
    /\ locator' = [locator EXCEPT ![writer[w].cur] = "whole"]
    /\ returned' = returned \cup {writer[w].target}
    /\ MoveTo(w, IdleWriter)
    /\ UNCHANGED <<blob, reader, crashes>>

\* The caller of a put that raised goes on (the route answers 500).
AfterCollision(w) ==
    /\ writer[w].pc = "collided"
    /\ MoveTo(w, IdleWriter)
    /\ UNCHANGED <<blob, locator, reader, returned, crashes>>

------------------------------------------------------------------------------
(***************************************************************************)
(* AddressStore.get of a directory: cat_bytes, then materialize_tree       *)
(***************************************************************************)

\* _cas_local_bytes: the bytes of the local file, whatever they are.
LocalBytes(c) ==
    CASE blob[c] = "absent" -> "none"
      [] blob[c] = "torn"   -> "bad"
      [] blob[c] = "whole"  -> "good"

\* _cas_locator_bytes: the first locator that answers; a GET that fails goes
\* on to the next, one with the wrong digest raises, and so does a torn
\* locator document.  Peers are outside the model: they answer anything.
LocatorBytes(c) ==
    CASE locator[c] = "absent" -> {"none"}
      [] locator[c] = "torn"   -> {"raise"}
      [] locator[c] = "whole"  -> {"none", "good", "raise"}

\* Mutant of Verified: the digest of the bytes found is not compared.
Unverified(bytes) == IF bytes = "none" THEN "raise" ELSE bytes

\* The last check of cat_bytes on an ni: id: nothing found and a wrong digest
\* both raise.
Verified(bytes) == IF bytes = "good" THEN "good" ELSE "raise"

\* cat_bytes of an ni: id: the local file when there is one, else locators.
CatBytes(c) ==
    {Verified(b) : b \in IF LocalBytes(c) = "none" THEN LocatorBytes(c)
                                                   ELSE {LocalBytes(c)}}

\* cat_bytes of an hl: id: hints first, each fetched and verified like a
\* locator, then the ni: id.
CatHashlink(c) == {"good", "raise"} \cup CatBytes(c)

\* get() reads the manifest, by ni: or hl: id, to see that it is one ...
GetTree(r, t) ==
    /\ reader[r].pc = "idle"
    /\ \E b \in CatBytes(t) \cup CatHashlink(t) :
         reader' = [reader EXCEPT ![r] =
                      Reading(IF b = "raise" THEN "raised" ELSE "manifest", t, {}, {})]
    /\ UNCHANGED <<blob, locator, writer, returned, crashes>>

\* ... and materialize_tree reads it again for its entries.
ReadManifest(r) ==
    /\ reader[r].pc = "manifest"
    /\ \E b \in CatBytes(reader[r].tree) :
         reader' = [reader EXCEPT ![r] =
                      Reading(IF b = "raise" THEN "raised" ELSE "entries",
                              reader[r].tree, {}, {})]
    /\ UNCHANGED <<blob, locator, writer, returned, crashes>>

WriteEntry(r, f) ==
    /\ reader[r].pc = "entries"
    /\ f \in Entries[reader[r].tree] \ reader[r].written
    /\ \E b \in CatBytes(f) :
         reader' = [reader EXCEPT ![r] =
            IF b = "raise"
            THEN Reading("raised", reader[r].tree, reader[r].written, reader[r].wrong)
            ELSE Reading("entries", reader[r].tree, reader[r].written \cup {f},
                         reader[r].wrong \cup IF b = "good" THEN {} ELSE {f})]
    /\ UNCHANGED <<blob, locator, writer, returned, crashes>>

GetReturns(r) ==
    /\ reader[r].pc = "entries"
    /\ Entries[reader[r].tree] \subseteq reader[r].written
    /\ reader' = [reader EXCEPT ![r] =
                    Reading("got", reader[r].tree, reader[r].written, reader[r].wrong)]
    /\ UNCHANGED <<blob, locator, writer, returned, crashes>>

NextGet(r) ==
    /\ reader[r].pc \in {"got", "raised"}
    /\ reader' = [reader EXCEPT ![r] = IdleReader]
    /\ UNCHANGED <<blob, locator, writer, returned, crashes>>

------------------------------------------------------------------------------
\* The Node process dies: every thread is gone, every file stays as it is.
Crash ==
    /\ crashes < MaxCrashes
    /\ crashes' = crashes + 1
    /\ writer' = [w \in Writers |-> IdleWriter]
    /\ reader' = [r \in Readers |-> IdleReader]
    /\ UNCHANGED <<blob, locator, returned>>

Write(w) ==
    \/ \E f \in Files : PutBytes(w, f)
    \/ \E t \in Trees : PutTree(w, t)
    \/ CheckBlob(w) \/ SameBytes(w) \/ Collision(w) \/ OpenBlob(w) \/ WriteBlob(w)
    \/ ReadLocator(w) \/ OpenLocator(w) \/ WriteLocator(w)
    \/ AfterCollision(w)

Read(r) ==
    \/ \E t \in Trees : GetTree(r, t)
    \/ ReadManifest(r)
    \/ \E f \in Files : WriteEntry(r, f)
    \/ GetReturns(r)
    \/ NextGet(r)

Next ==
    \/ \E w \in Writers : Write(w)
    \/ \E r \in Readers : Read(r)
    \/ Crash

Spec == Init /\ [][Next]_vars

------------------------------------------------------------------------------
(***************************************************************************)
(* Properties                                                              *)
(***************************************************************************)

\* Every variable stays in its type.
TypeOK ==
    /\ blob \in [Contents -> FileState]
    /\ locator \in [Contents -> FileState]
    /\ writer \in [Writers -> WriterState]
    /\ reader \in [Readers -> ReaderState]
    /\ returned \subseteq Contents
    /\ crashes \in Nat

\* A manifest file is never on disk before a file for each of its entries,
\* whoever put them and wherever a crash fell: put_tree puts the entries
\* first and never overtakes one of its own writes.
EntriesExist ==
    \A t \in Trees : blob[t] # "absent" => \A f \in Entries[t] : blob[f] # "absent"

\* A locator document never advertises a blob the Node does not have:
\* put_bytes and put_tree register it after the put returned.
LocatorSound == \A c \in Contents : locator[c] # "absent" => blob[c] # "absent"

\* AddressStore.get of a directory that returns has written every entry, with
\* the bytes the manifest names, although manifest and entries are read one
\* by one while writers truncate, rewrite and crash.
MaterializedComplete ==
    \A r \in Readers : reader[r].pc = "got" =>
        /\ reader[r].written = Entries[reader[r].tree]
        /\ reader[r].wrong = {}

Whole == {c \in Contents : blob[c] = "whole"}

\* What a put has returned can be read back ever after, with everything it
\* names, through any number of crashes.  Holds when puts do not overlap.
ReturnedIsReadable == \A c \in returned : {c} \cup Kids[c] \subseteq Whole

ContentStore == INSTANCE ContentAddressed WITH stored <- Whole

\* The blobs implement a content-addressed store: the set of whole blobs only
\* grows, a manifest joins it after its entries, and no crash takes one out.
\* Holds when puts do not overlap.
ImplementsContentAddressed == ContentStore!Spec
==============================================================================
