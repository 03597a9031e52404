----------------------------- MODULE BomRegistry -----------------------------
(***************************************************************************)
(* The Node-local BOM registry: cats/network/registry/store.py             *)
(* (BomRegistry) and the Order intake that reads it                        *)
(* (cats/node/app.py, resolve_order_id).                                   *)
(*                                                                         *)
(* A record is one file under boms/; the reverse indexes are one JSON list *)
(* per data id under by-data/ and per Order id under by-order/.  Nothing   *)
(* is locked.  Path.write_text truncates the file when it opens it and     *)
(* fills it when it closes it, so every rewrite passes through an empty    *)
(* file, which json.loads rejects; that state is "torn".  Two writers that *)
(* have the file open both write from offset 0: a short list over a longer *)
(* one leaves the tail of the longer one, which json.loads rejects too.    *)
(*                                                                         *)
(* A writer is a Flask thread (or a one-shot process on the same           *)
(* CATS_HOME) inside BomRegistry.put; a reader is one inside               *)
(* resolve_order_id.  A crash stops all of them and leaves the files.      *)
(***************************************************************************)
EXTENDS Integers, Sequences, FiniteSets

CONSTANTS Writers, Readers,
          Boms,        \* BOM content ids
          Datas,       \* data content ids: the keys of by-data/
          Orders,      \* Order content ids: the keys of by-order/
          DataOf,      \* [Boms -> Datas], the data id of the BOM's Invoice
          OrderOf,     \* [Boms -> Orders], the Order id of the BOM's Invoice
          MaxCrashes,  \* bound on Node crashes
          NoBom

ASSUME ConstantsAssumption ==
    /\ Datas \cap Orders = {}
    /\ Datas # {}
    /\ DataOf \in [Boms -> Datas]
    /\ OrderOf \in [Boms -> Orders]
    /\ NoBom \notin Boms
    /\ MaxCrashes \in Nat

VARIABLES
    record,    \* [Boms -> FileState]: boms/<id>.json
    index,     \* [Keys -> IndexFile]: by-data/<id>.json and by-order/<id>.json
    writer,    \* [Writers -> WriterState]: the local state of each put
    reader,    \* [Readers -> ReaderState]: the local state of each intake
    returned,  \* history: the BOMs for which a put has returned
    crashes

vars == <<record, index, writer, reader, returned, crashes>>

Keys      == Datas \cup Orders
FileState == {"absent", "torn", "whole"}
IndexFile == [file : FileState,
              ids  : Seq(Boms),   \* what json.loads returns when it is whole
              size : Nat]         \* the length on disk, in list entries

WriterState == [pc    : {"idle", "record", "read", "open", "write"},
                bom   : Boms \cup {NoBom},
                stage : {"data", "order"},   \* which _append_index call
                seen  : Seq(Boms)]           \* the list it read

ReaderState == [pc    : {"idle", "record", "answered"},
                by    : {"data", "bom"},     \* content_id/data_uri or bom_uri
                key   : Datas,
                bom   : Boms \cup {NoBom},
                code  : {0, 200, 400, 404, 409, 500},
                known : SUBSET Boms]         \* history: returned, at the request

InList(b, s) == \E i \in 1 .. Len(s) : s[i] = b

PutAt(pc, b, stage, seen) == [pc |-> pc, bom |-> b, stage |-> stage, seen |-> seen]
IdleWriter == PutAt("idle", NoBom, "data", <<>>)

\* A request by data id d that has resolved to b; an answered request; none.
Asking(d, b, known) ==
    [pc |-> "record", by |-> "data", key |-> d, bom |-> b, code |-> 0, known |-> known]
Reply(by, d, b, code, known) ==
    [pc |-> "answered", by |-> by, key |-> d, bom |-> b, code |-> code, known |-> known]
AnyData == CHOOSE d \in Datas : TRUE
IdleReader ==
    [pc |-> "idle", by |-> "data", key |-> AnyData, bom |-> NoBom, code |-> 0, known |-> {}]

Init ==
    /\ record = [b \in Boms |-> "absent"]
    /\ index = [k \in Keys |-> [file |-> "absent", ids |-> <<>>, size |-> 0]]
    /\ writer = [w \in Writers |-> IdleWriter]
    /\ reader = [r \in Readers |-> IdleReader]
    /\ returned = {}
    /\ crashes = 0

------------------------------------------------------------------------------
(***************************************************************************)
(* BomRegistry.put                                                         *)
(***************************************************************************)

\* Mutant of KeyOf: by-data/ is keyed by some other data id, the Order's input.
KeyOfInput(w) == IF writer[w].stage = "data"
                 THEN CHOOSE d \in Datas : d # DataOf[writer[w].bom]
                 ELSE OrderOf[writer[w].bom]

\* The index file of the _append_index call this put is in.
KeyOf(w) == IF writer[w].stage = "data" THEN DataOf[writer[w].bom]
                                        ELSE OrderOf[writer[w].bom]

\* Mutant of OpenRecord: the indexes are appended to before the record exists.
OpenRecordLater(w, b) ==
    /\ writer[w].pc = "idle"
    /\ writer' = [writer EXCEPT ![w] = PutAt("read", b, "data", <<>>)]
    /\ UNCHANGED <<record, index, reader, returned, crashes>>

\* put() opens boms/<id>.json for writing, whether or not it exists.
OpenRecord(w, b) ==
    /\ writer[w].pc = "idle"
    /\ record' = [record EXCEPT ![b] = "torn"]
    /\ writer' = [writer EXCEPT ![w] = PutAt("record", b, "data", <<>>)]
    /\ UNCHANGED <<index, reader, returned, crashes>>

WriteRecord(w) ==
    /\ writer[w].pc = "record"
    /\ record' = [record EXCEPT ![writer[w].bom] = "whole"]
    /\ writer' = [writer EXCEPT ![w] = PutAt("read", writer[w].bom, "data", <<>>)]
    /\ UNCHANGED <<index, reader, returned, crashes>>

\* What follows an _append_index call: the by-order one, or put()'s return.
AfterAppend(w) ==
    IF writer[w].stage = "data"
    THEN /\ writer' = [writer EXCEPT ![w] =
                          PutAt("read", writer[w].bom, "order", <<>>)]
         /\ UNCHANGED returned
    ELSE /\ writer' = [writer EXCEPT ![w] = IdleWriter]
         /\ returned' = returned \cup {writer[w].bom}

\* _append_index: the BOM is already listed, so the file is left alone.
AlreadyListed(w) ==
    /\ writer[w].pc = "read"
    /\ index[KeyOf(w)].file = "whole"
    /\ InList(writer[w].bom, index[KeyOf(w)].ids)
    /\ AfterAppend(w)
    /\ UNCHANGED <<record, index, reader, crashes>>

\* Mutant of ReadIndex: the "if bom_id in existing" test is gone.
ReadIndexAlways(w) ==
    /\ writer[w].pc = "read"
    /\ index[KeyOf(w)].file # "torn"
    /\ writer' = [writer EXCEPT ![w] =
           PutAt("open", writer[w].bom, writer[w].stage, index[KeyOf(w)].ids)]
    /\ UNCHANGED <<record, index, reader, returned, crashes>>

\* Mutant of ReadIndex: _read_list returns None for an absent file.
ReadIndexNone(w) ==
    /\ writer[w].pc = "read"
    /\ index[KeyOf(w)].file # "torn"
    /\ ~ InList(writer[w].bom, index[KeyOf(w)].ids)
    /\ writer' = [writer EXCEPT ![w] =
           PutAt("open", writer[w].bom, writer[w].stage,
                 IF index[KeyOf(w)].file = "absent" THEN NoBom
                                                    ELSE index[KeyOf(w)].ids)]
    /\ UNCHANGED <<record, index, reader, returned, crashes>>

\* _append_index: the list is read (an absent file reads as the empty list).
ReadIndex(w) ==
    /\ writer[w].pc = "read"
    /\ index[KeyOf(w)].file # "torn"
    /\ ~ InList(writer[w].bom, index[KeyOf(w)].ids)
    /\ writer' = [writer EXCEPT ![w] =
           PutAt("open", writer[w].bom, writer[w].stage, index[KeyOf(w)].ids)]
    /\ UNCHANGED <<record, index, reader, returned, crashes>>

\* _append_index: json.loads of an empty file raises out of put().
PutRaises(w) ==
    /\ writer[w].pc = "read"
    /\ index[KeyOf(w)].file = "torn"
    /\ writer' = [writer EXCEPT ![w] = IdleWriter]
    /\ UNCHANGED <<record, index, reader, returned, crashes>>

Truncated == [file |-> "torn", ids |-> <<>>, size |-> 0]

OpenIndex(w) ==
    /\ writer[w].pc = "open"
    /\ index' = [index EXCEPT ![KeyOf(w)] = Truncated]
    /\ writer' = [writer EXCEPT ![w] =
           PutAt("write", writer[w].bom, writer[w].stage, writer[w].seen)]
    /\ UNCHANGED <<record, reader, returned, crashes>>

\* A list written from offset 0 over whatever another writer has put there
\* since this one truncated the file.
Overwrite(f, list) ==
    IF Len(list) >= f.size
    THEN [file |-> "whole", ids |-> list, size |-> Len(list)]
    ELSE [file |-> "torn", ids |-> <<>>, size |-> f.size]

\* The new list is the one read earlier with this BOM in front: newest first.
WriteIndex(w) ==
    /\ writer[w].pc = "write"
    /\ index' = [index EXCEPT ![KeyOf(w)] =
                    Overwrite(@, <<writer[w].bom>> \o writer[w].seen)]
    /\ AfterAppend(w)
    /\ UNCHANGED <<record, reader, crashes>>

------------------------------------------------------------------------------
(***************************************************************************)
(* resolve_order_id: intake by data id (content_id, hl or data_uri)        *)
(***************************************************************************)

\* Mutant of ResolveUniqueBom: _read_list swallows the JSONDecodeError.
ResolveTornAsEmpty(r, d) ==
    /\ reader[r].pc = "idle"
    /\ index[d].file # "whole"
    /\ reader' = [reader EXCEPT ![r] = Reply("data", d, NoBom, 404, returned)]
    /\ UNCHANGED <<record, index, writer, returned, crashes>>

\* resolve_unique_bom: one read of by-data/<d>.json.  A torn file raises
\* JSONDecodeError, a ValueError, which the handler maps to 400.
ResolveUniqueBom(r, d) ==
    /\ reader[r].pc = "idle"
    /\ reader' = [reader EXCEPT ![r] =
          CASE index[d].file = "torn"   -> Reply("data", d, NoBom, 400, returned)
            [] index[d].file = "absent" -> Reply("data", d, NoBom, 404, returned)
            [] index[d].file = "whole"  ->
                  IF Len(index[d].ids) > 1
                  THEN Reply("data", d, NoBom, 409, returned)
                  ELSE Asking(d, index[d].ids[1], returned)]
    /\ UNCHANGED <<record, index, writer, returned, crashes>>

\* lookup_order's answer, a read of boms/<id>.json; a torn file raises.
LookupCode(b, raised) ==
    CASE record[b] = "absent" -> 404
      [] record[b] = "torn"   -> raised
      [] record[b] = "whole"  -> 200

\* The later read of the record.  Here its ValueError is not caught in
\* resolve_order_id and surfaces as the route's 500.
LookupOrder(r) ==
    /\ reader[r].pc = "record"
    /\ reader' = [reader EXCEPT ![r] =
           Reply("data", reader[r].key, reader[r].bom, LookupCode(reader[r].bom, 500),
                 reader[r].known)]
    /\ UNCHANGED <<record, index, writer, returned, crashes>>

\* Intake by BOM: lookup_order alone, its ValueError mapped to 400.
ResolveBomUri(r, b) ==
    /\ reader[r].pc = "idle"
    /\ reader' = [reader EXCEPT ![r] =
           Reply("bom", AnyData, b, LookupCode(b, 400), returned)]
    /\ UNCHANGED <<record, index, writer, returned, crashes>>

NextRequest(r) ==
    /\ reader[r].pc = "answered"
    /\ reader' = [reader EXCEPT ![r] = IdleReader]
    /\ UNCHANGED <<record, index, writer, returned, crashes>>

------------------------------------------------------------------------------
\* The Node process dies: every thread is gone, every file stays as it is.
Crash ==
    /\ crashes < MaxCrashes
    /\ crashes' = crashes + 1
    /\ writer' = [w \in Writers |-> IdleWriter]
    /\ reader' = [r \in Readers |-> IdleReader]
    /\ UNCHANGED <<record, index, returned>>

Put(w) ==
    \/ \E b \in Boms : OpenRecord(w, b)
    \/ WriteRecord(w)
    \/ AlreadyListed(w)
    \/ ReadIndex(w)
    \/ PutRaises(w)
    \/ OpenIndex(w)
    \/ WriteIndex(w)

Intake(r) ==
    \/ \E d \in Datas : ResolveUniqueBom(r, d)
    \/ LookupOrder(r)
    \/ \E b \in Boms : ResolveBomUri(r, b)
    \/ NextRequest(r)

Next ==
    \/ \E w \in Writers : Put(w)
    \/ \E r \in Readers : Intake(r)
    \/ Crash

Spec == Init /\ [][Next]_vars

------------------------------------------------------------------------------
(***************************************************************************)
(* Properties                                                              *)
(***************************************************************************)

\* Every variable stays in its type.
TypeOK ==
    /\ record \in [Boms -> FileState]
    /\ index \in [Keys -> IndexFile]
    /\ writer \in [Writers -> WriterState]
    /\ reader \in [Readers -> ReaderState]
    /\ returned \subseteq Boms
    /\ crashes \in Nat

Files(b) == {DataOf[b], OrderOf[b]}

\* Every BOM an index file lists belongs under that key and has a record
\* file: put() writes boms/<id>.json before it touches either index, and no
\* interleaving of puts, nor a crash between the writes, can leave an index
\* entry that leads nowhere.
IndexSound ==
    \A k \in Keys : \A i \in 1 .. Len(index[k].ids) :
        /\ k \in Files(index[k].ids[i])
        /\ record[index[k].ids[i]] # "absent"

\* No index file lists a BOM twice, although two puts of the same BOM may
\* both find it absent: what is written is always a list read without the
\* BOM, with the BOM in front.
NoDuplicates ==
    \A k \in Keys : \A i, j \in 1 .. Len(index[k].ids) :
        index[k].ids[i] = index[k].ids[j] => i = j

ByData(r) == reader[r].by = "data"

\* Intake answers 404 only when no put that would have answered the request
\* had returned before it: lost updates, corrupted files and crashes may
\* hide a BOM behind another one or behind a 400, never behind "not found".
NotFoundIsTrue ==
    \A r \in Readers : (reader[r].pc = "answered" /\ reader[r].code = 404)
        => \A b \in reader[r].known :
              IF ByData(r) THEN DataOf[b] # reader[r].key ELSE b # reader[r].bom

\* Intake by data id answers 200 with the Order of a BOM that really has that
\* data id, even though the index and the record are read in two steps.
AnswerMatchesRequest ==
    \A r \in Readers :
        (reader[r].pc = "answered" /\ reader[r].code = 200 /\ ByData(r))
            => DataOf[reader[r].bom] = reader[r].key

\* resolve_unique_bom "Return[s] the sole BOM id": when intake resolves a
\* data id, at most one BOM had been registered for it by the time of the
\* request; otherwise it must answer 409.  Holds when puts do not overlap.
UniqueIsSole ==
    \A r \in Readers :
        ( /\ ByData(r)
          /\ \/ reader[r].pc = "record"
             \/ reader[r].pc = "answered" /\ reader[r].code = 200 )
        => \A b \in reader[r].known : DataOf[b] = reader[r].key => b = reader[r].bom

------------------------------------------------------------------------------
(***************************************************************************)
(* Refinement: without overlap and crashes the index files implement       *)
(* AppendOnlyIndex.  While a file is torn its list is the one its writer   *)
(* read.                                                                   *)
(***************************************************************************)
WritingTo(w, k) == writer[w].pc = "write" /\ KeyOf(w) = k

VisibleList(k) ==
    IF \E w \in Writers : WritingTo(w, k)
    THEN writer[CHOOSE w \in Writers : WritingTo(w, k)].seen
    ELSE index[k].ids

AppendOnly == INSTANCE AppendOnlyIndex WITH lists <- [k \in Keys |-> VisibleList(k)]

\* Every rewrite of an index file only prepends a BOM that was not listed:
\* lists grow at the front, newest first, and never lose an entry.
ImplementsAppendOnly == AppendOnly!Spec
==============================================================================
