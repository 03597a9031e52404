-------------------------- MODULE BomRegistryProofs --------------------------
(***************************************************************************)
(* What the registry keeps whatever the number of writers, readers, BOMs   *)
(* and crashes, and, in the last part, what it keeps when puts do not      *)
(* overlap: proved for every value of the constants of BomRegistry.  Then  *)
(* the exactness of the parity check (IndexParity).                        *)
(***************************************************************************)
EXTENDS IndexParity, TLAPS

(***************************************************************************)
(* The inductive invariant                                                 *)
(***************************************************************************)

\* A list that may be in the index file of key k: its BOMs belong under k,
\* have a record file and are listed once.
SoundList(k, s) == \A i \in 1 .. Len(s) :
    /\ k \in Files(s[i])
    /\ record[s[i]] # "absent"

DistinctList(s) == \A i, j \in 1 .. Len(s) : s[i] = s[j] => i = j

IndexInv == \A k \in Keys :
    /\ SoundList(k, index[k].ids)
    /\ DistinctList(index[k].ids)
    /\ index[k].file = "whole" => Len(index[k].ids) > 0

\* What a put in progress, in local state q, knows: its BOM has a record file
\* from its first step on, its by-data/ file exists once it works on
\* by-order/, and the list it will write back is sound and without its BOM.
KeyIn(q) == IF q.stage = "data" THEN DataOf[q.bom] ELSE OrderOf[q.bom]

WriterGood(q) == q.pc # "idle" =>
    /\ q.bom \in Boms
    /\ record[q.bom] # "absent"
    /\ q.stage = "order" => index[DataOf[q.bom]].file # "absent"
    /\ q.pc = "record" => q.stage = "data"
    /\ q.pc \in {"open", "write"} => /\ SoundList(KeyIn(q), q.seen)
                                     /\ DistinctList(q.seen)
                                     /\ ~ InList(q.bom, q.seen)
    /\ q.pc = "write" => index[KeyIn(q)].file # "absent"

WriterInv == \A w \in Writers : WriterGood(writer[w])

\* A put that returned left its record and its by-data/ file behind.
ReturnedInv == \A b \in returned :
    /\ record[b] # "absent"
    /\ index[DataOf[b]].file # "absent"

\* What an intake carries from the index read to the record read, and what
\* its answer means.
ReaderGood(q) ==
    /\ q.pc = "record" => /\ q.bom \in Boms
                          /\ record[q.bom] # "absent"
                          /\ DataOf[q.bom] = q.key
    /\ (q.pc = "answered" /\ q.code = 404)
          => \A b \in q.known : IF q.by = "data" THEN DataOf[b] # q.key ELSE b # q.bom
    /\ (q.pc = "answered" /\ q.code = 200 /\ q.by = "data") => DataOf[q.bom] = q.key

ReaderInv == \A r \in Readers : ReaderGood(reader[r])

RegistryInv == TypeOK /\ IndexInv /\ WriterInv /\ ReturnedInv /\ ReaderInv

------------------------------------------------------------------------------
(***************************************************************************)
(* Lemmas about types, lists and the frame of a step                       *)
(***************************************************************************)

\* The local states of a put, and of an intake, have their types.
LEMMA LocalTypes ==
    /\ IdleWriter \in WriterState
    /\ IdleReader \in ReaderState
    /\ AnyData \in Datas
<1>1. AnyData \in Datas
  BY ConstantsAssumption DEF AnyData
<1> QED BY <1>1 DEF IdleWriter, PutAt, WriterState, IdleReader, ReaderState

\* What putting a BOM in front of a list does to its elements.
LEMMA PrependFacts ==
    ASSUME NEW b \in Boms, NEW s \in Seq(Boms)
    PROVE  /\ <<b>> \o s \in Seq(Boms)
           /\ Len(<<b>> \o s) = Len(s) + 1
           /\ Len(s) \in Nat
           /\ \A i \in 1 .. Len(<<b>> \o s) :
                 (<<b>> \o s)[i] = IF i = 1 THEN b ELSE s[i - 1]
OBVIOUS

\* A BOM put in front of a list it is not in makes no duplicate.
LEMMA PrependDistinct ==
    ASSUME NEW b \in Boms, NEW s \in Seq(Boms), DistinctList(s), ~ InList(b, s)
    PROVE  DistinctList(<<b>> \o s)
<1> DEFINE t == <<b>> \o s
<1> SUFFICES ASSUME NEW i \in 1 .. Len(t), NEW j \in 1 .. Len(t), t[i] = t[j]
             PROVE  i = j
  BY DEF DistinctList
<1>1. /\ Len(s) \in Nat
      /\ i \in 1 .. Len(s) + 1 /\ j \in 1 .. Len(s) + 1
      /\ t[i] = IF i = 1 THEN b ELSE s[i - 1]
      /\ t[j] = IF j = 1 THEN b ELSE s[j - 1]
  BY PrependFacts
<1> HIDE DEF t
<1>2. CASE i = 1 /\ j = 1
  BY <1>2
<1>3. CASE i = 1 /\ j # 1
  <2>1. j - 1 \in 1 .. Len(s)
    BY <1>1, <1>3
  <2>2. s[j - 1] = b
    BY <1>1, <1>3
  <2> QED BY <2>1, <2>2 DEF InList
<1>4. CASE i # 1 /\ j = 1
  <2>1. i - 1 \in 1 .. Len(s)
    BY <1>1, <1>4
  <2>2. s[i - 1] = b
    BY <1>1, <1>4
  <2> QED BY <2>1, <2>2 DEF InList
<1>5. CASE i # 1 /\ j # 1
  <2>1. i - 1 \in 1 .. Len(s) /\ j - 1 \in 1 .. Len(s)
    BY <1>1, <1>5
  <2>2. s[i - 1] = s[j - 1]
    BY <1>1, <1>5
  <2>3. i - 1 = j - 1
    BY <2>1, <2>2 DEF DistinctList
  <2> QED BY <1>1, <2>3
<1> QED BY <1>2, <1>3, <1>4, <1>5

\* The key of an _append_index call is one of the BOM's two keys.
LEMMA KeyInType ==
    ASSUME NEW q, q.bom \in Boms
    PROVE  KeyIn(q) \in Keys /\ KeyIn(q) \in Files(q.bom)
BY ConstantsAssumption DEF KeyIn, Keys, Files

\* A list that is already sound stays sound while no record file vanishes.
LEMMA SoundListKept ==
    ASSUME NEW k, NEW s \in Seq(Boms), SoundList(k, s),
           \A b \in Boms : record[b] # "absent" => record'[b] # "absent"
    PROVE  SoundList(k, s)'
BY DEF SoundList

\* Every index file that existed still does.
NoFileVanishes ==
    /\ \A b \in Boms : record[b] # "absent" => record'[b] # "absent"
    /\ \A k \in Keys : index[k].file # "absent" => index'[k].file # "absent"

\* A local state that is good stays good while no file vanishes.
LEMMA GoodKept ==
    ASSUME NoFileVanishes
    PROVE  /\ \A q \in WriterState : WriterGood(q) => WriterGood(q)'
           /\ \A q \in ReaderState : ReaderGood(q) => ReaderGood(q)'
           /\ returned \subseteq Boms /\ ReturnedInv
                 => \A b \in returned : record'[b] # "absent" /\ index'[DataOf[b]].file # "absent"
<1>1. ASSUME NEW q \in WriterState, WriterGood(q)
      PROVE  WriterGood(q)'
  <2> SUFFICES ASSUME q.pc # "idle" PROVE WriterGood(q)'
    BY DEF WriterGood
  <2>1. q.bom \in Boms /\ q.seen \in Seq(Boms)
    BY <1>1 DEF WriterGood, WriterState
  <2>2. KeyIn(q) \in Keys /\ DataOf[q.bom] \in Keys
    BY <2>1, KeyInType, ConstantsAssumption DEF Keys
  <2>3. q.pc \in {"open", "write"} => SoundList(KeyIn(q), q.seen)'
    BY <1>1, <2>1, SoundListKept DEF WriterGood, NoFileVanishes
  <2> QED BY <1>1, <2>1, <2>2, <2>3 DEF WriterGood, NoFileVanishes, KeyIn
<1>2. ASSUME NEW q \in ReaderState, ReaderGood(q)
      PROVE  ReaderGood(q)'
  BY <1>2 DEF ReaderGood, NoFileVanishes
<1>3. ASSUME returned \subseteq Boms, ReturnedInv, NEW b \in returned
      PROVE  record'[b] # "absent" /\ index'[DataOf[b]].file # "absent"
  BY <1>3, ConstantsAssumption DEF ReturnedInv, NoFileVanishes, Keys
<1> QED BY <1>1, <1>2, <1>3

\* The initial states satisfy the invariant.
LEMMA InitInv == Init => RegistryInv
<1> SUFFICES ASSUME Init PROVE RegistryInv
  OBVIOUS
<1> USE DEF Init
<1>1. TypeOK
  BY LocalTypes, ConstantsAssumption DEF TypeOK, IndexFile, FileState
<1>2. IndexInv
  BY DEF IndexInv, SoundList, DistinctList
<1>3. WriterInv /\ ReturnedInv
  BY DEF WriterInv, WriterGood, ReturnedInv, IdleWriter, PutAt
<1>4. ReaderInv
  BY DEF ReaderInv, ReaderGood, IdleReader
<1> QED BY <1>1, <1>2, <1>3, <1>4 DEF RegistryInv

------------------------------------------------------------------------------
(***************************************************************************)
(* Every step keeps the invariant: the intake's, the put's and the crash.  *)
(***************************************************************************)

\* An intake's step keeps the invariant when the state it moves to is good.
LEMMA ReaderStep ==
    ASSUME RegistryInv, NEW r \in Readers, NEW q \in ReaderState, ReaderGood(q),
           reader' = [reader EXCEPT ![r] = q],
           UNCHANGED <<record, index, writer, returned, crashes>>
    PROVE  RegistryInv'
<1>1. NoFileVanishes
  BY DEF NoFileVanishes
<1>2. TypeOK'
  BY DEF RegistryInv, TypeOK
<1>3. IndexInv' /\ ReturnedInv'
  BY DEF RegistryInv, IndexInv, SoundList, ReturnedInv
<1>4. WriterInv'
  BY <1>1, GoodKept DEF RegistryInv, TypeOK, WriterInv
<1>5. ReaderInv'
  BY <1>1, GoodKept DEF RegistryInv, TypeOK, ReaderInv
<1> QED BY <1>2, <1>3, <1>4, <1>5 DEF RegistryInv

LEMMA IntakeInv ==
    ASSUME RegistryInv, NEW r \in Readers, Intake(r)
    PROVE  RegistryInv'
<1> USE DEF RegistryInv
<1>0. returned \in SUBSET Boms /\ reader[r] \in ReaderState
  BY DEF TypeOK
<1>1. ASSUME NEW d \in Datas, ResolveUniqueBom(r, d)
      PROVE  RegistryInv'
  <2>1. d \in Keys /\ index[d] \in IndexFile
    BY DEF TypeOK, Keys
  <2>2. CASE index[d].file = "absent"
    <3>1. \A b \in returned : DataOf[b] # d
      BY <2>2 DEF ReturnedInv
    <3> DEFINE q == Reply("data", d, NoBom, 404, returned)
    <3>2. q \in ReaderState /\ ReaderGood(q)
      BY <1>0, <3>1 DEF Reply, ReaderState, ReaderGood
    <3>3. reader' = [reader EXCEPT ![r] = q]
      BY <1>1, <2>2 DEF ResolveUniqueBom
    <3> HIDE DEF q
    <3> QED BY <1>1, <3>2, <3>3, ReaderStep DEF ResolveUniqueBom
  <2>3. CASE index[d].file = "torn"
    <3> DEFINE q == Reply("data", d, NoBom, 400, returned)
    <3>2. q \in ReaderState /\ ReaderGood(q)
      BY <1>0 DEF Reply, ReaderState, ReaderGood
    <3>3. reader' = [reader EXCEPT ![r] = q]
      BY <1>1, <2>3 DEF ResolveUniqueBom
    <3> HIDE DEF q
    <3> QED BY <1>1, <3>2, <3>3, ReaderStep DEF ResolveUniqueBom
  <2>4. CASE index[d].file = "whole" /\ Len(index[d].ids) > 1
    <3> DEFINE q == Reply("data", d, NoBom, 409, returned)
    <3>2. q \in ReaderState /\ ReaderGood(q)
      BY <1>0 DEF Reply, ReaderState, ReaderGood
    <3>3. reader' = [reader EXCEPT ![r] = q]
      BY <1>1, <2>4 DEF ResolveUniqueBom
    <3> HIDE DEF q
    <3> QED BY <1>1, <3>2, <3>3, ReaderStep DEF ResolveUniqueBom
  <2>5. CASE index[d].file = "whole" /\ ~ (Len(index[d].ids) > 1)
    <3> DEFINE b == index[d].ids[1]
               q == Asking(d, b, returned)
    <3>1. 1 \in 1 .. Len(index[d].ids) /\ b \in Boms
      BY <2>1, <2>5 DEF IndexInv, IndexFile
    <3>2. d \in Files(b) /\ record[b] # "absent"
      BY <2>1, <3>1 DEF IndexInv, SoundList
    <3>3. DataOf[b] = d
      BY <3>1, <3>2, ConstantsAssumption DEF Files
    <3>4. q \in ReaderState /\ ReaderGood(q)
      BY <1>0, <3>1, <3>2, <3>3 DEF Asking, ReaderState, ReaderGood
    <3>5. reader' = [reader EXCEPT ![r] = q]
      BY <1>1, <2>5 DEF ResolveUniqueBom
    <3> HIDE DEF q
    <3> QED BY <1>1, <3>4, <3>5, ReaderStep DEF ResolveUniqueBom
  <2> QED BY <2>1, <2>2, <2>3, <2>4, <2>5 DEF IndexFile, FileState
<1>2. ASSUME LookupOrder(r)
      PROVE  RegistryInv'
  <2> DEFINE b == reader[r].bom
             q == Reply("data", reader[r].key, b, LookupCode(b, 500), reader[r].known)
  <2>1. b \in Boms /\ record[b] \in {"torn", "whole"} /\ DataOf[b] = reader[r].key
    BY <1>2 DEF LookupOrder, ReaderInv, ReaderGood, TypeOK, FileState
  <2>2. LookupCode(b, 500) \in {200, 500}
    BY <2>1 DEF LookupCode
  <2>3. q \in ReaderState /\ ReaderGood(q)
    BY <1>0, <2>1, <2>2 DEF Reply, ReaderState, ReaderGood
  <2>4. reader' = [reader EXCEPT ![r] = q]
    BY <1>2 DEF LookupOrder
  <2> HIDE DEF q
  <2> QED BY <1>2, <2>3, <2>4, ReaderStep DEF LookupOrder
<1>3. ASSUME NEW b \in Boms, ResolveBomUri(r, b)
      PROVE  RegistryInv'
  <2> DEFINE q == Reply("bom", AnyData, b, LookupCode(b, 400), returned)
  <2>1. record[b] \in FileState
    BY DEF TypeOK
  <2>2. LookupCode(b, 400) \in {200, 400, 404}
    BY <2>1 DEF LookupCode, FileState
  <2>3. LookupCode(b, 400) = 404 => b \notin returned
    BY <2>1 DEF LookupCode, FileState, ReturnedInv
  <2>4. q \in ReaderState /\ ReaderGood(q)
    BY <1>0, <2>2, <2>3, LocalTypes DEF Reply, ReaderState, ReaderGood
  <2>5. reader' = [reader EXCEPT ![r] = q]
    BY <1>3 DEF ResolveBomUri
  <2> HIDE DEF q
  <2> QED BY <1>3, <2>4, <2>5, ReaderStep DEF ResolveBomUri
<1>4. ASSUME NextRequest(r)
      PROVE  RegistryInv'
  <2>1. IdleReader \in ReaderState /\ ReaderGood(IdleReader)
    BY LocalTypes DEF IdleReader, ReaderGood
  <2> QED BY <1>4, <2>1, ReaderStep DEF NextRequest
<1> QED BY <1>1, <1>2, <1>3, <1>4 DEF Intake

\* A put's step keeps the invariant when the files, and the state it moves
\* to, are good.
LEMMA WriterStep ==
    ASSUME RegistryInv, NoFileVanishes,
           NEW w \in Writers, NEW q \in WriterState, WriterGood(q)',
           writer' = [writer EXCEPT ![w] = q],
           record' \in [Boms -> FileState],
           index' \in [Keys -> IndexFile], IndexInv',
           UNCHANGED <<reader, crashes>>,
           \/ returned' = returned
           \/ \E b \in Boms : /\ returned' = returned \cup {b}
                              /\ record'[b] # "absent"
                              /\ index'[DataOf[b]].file # "absent"
    PROVE  RegistryInv'
<1>1. TypeOK'
  BY DEF RegistryInv, TypeOK
<1>2. ReturnedInv'
  BY GoodKept DEF RegistryInv, TypeOK, ReturnedInv
<1>3. WriterInv'
  BY GoodKept DEF RegistryInv, TypeOK, WriterInv
<1>4. ReaderInv'
  BY GoodKept DEF RegistryInv, TypeOK, ReaderInv
<1> QED BY <1>1, <1>2, <1>3, <1>4 DEF RegistryInv

\* The end of an _append_index call: it goes on to by-order/, or put() returns.
LEMMA AfterAppendInv ==
    ASSUME RegistryInv, NoFileVanishes, NEW w \in Writers, AfterAppend(w),
           writer[w].pc # "idle", UNCHANGED <<record, reader, crashes>>,
           index' \in [Keys -> IndexFile], IndexInv',
           index'[KeyOf(w)].file # "absent"
    PROVE  RegistryInv'
<1> DEFINE b == writer[w].bom
<1>1. /\ b \in Boms
      /\ writer[w].stage \in {"data", "order"}
      /\ record[b] # "absent"
      /\ record \in [Boms -> FileState]
      /\ writer[w].stage = "order" => index'[DataOf[b]].file # "absent"
  BY ConstantsAssumption
     DEF RegistryInv, TypeOK, WriterInv, WriterGood, WriterState, NoFileVanishes, Keys
<1>2. CASE writer[w].stage = "data"
  <2>0. PICK q : q = PutAt("read", b, "order", <<>>)
    OBVIOUS
  <2>1. q \in WriterState
    BY <1>1, <2>0 DEF PutAt, WriterState
  <2>2. WriterGood(q)'
    BY <1>1, <1>2, <2>0 DEF PutAt, WriterGood, KeyOf
  <2>3. writer' = [writer EXCEPT ![w] = q] /\ returned' = returned
    BY <1>2, <2>0 DEF AfterAppend
  <2> QED BY <1>1, <2>1, <2>2, <2>3, WriterStep
<1>3. CASE writer[w].stage = "order"
  <2>1. IdleWriter \in WriterState /\ WriterGood(IdleWriter)'
    BY LocalTypes DEF IdleWriter, PutAt, WriterGood
  <2>2. writer' = [writer EXCEPT ![w] = IdleWriter] /\ returned' = returned \cup {b}
    BY <1>3 DEF AfterAppend
  <2> QED BY <1>1, <1>3, <2>1, <2>2, WriterStep
<1> QED BY <1>1, <1>2, <1>3

LEMMA PutInv ==
    ASSUME RegistryInv, NEW w \in Writers, Put(w)
    PROVE  RegistryInv'
<1> USE DEF RegistryInv
<1>0. /\ writer[w] \in WriterState /\ WriterGood(writer[w])
      /\ record \in [Boms -> FileState]
      /\ index \in [Keys -> IndexFile]
  BY DEF TypeOK, WriterInv
<1>1. ASSUME NEW b \in Boms, OpenRecord(w, b)
      PROVE  RegistryInv'
  <2> DEFINE q == PutAt("record", b, "data", <<>>)
  <2>1. /\ record' \in [Boms -> FileState]
        /\ record'[b] # "absent"
        /\ NoFileVanishes
    BY <1>0, <1>1 DEF OpenRecord, FileState, NoFileVanishes
  <2>2. q \in WriterState /\ WriterGood(q)'
    BY <2>1 DEF PutAt, WriterState, WriterGood
  <2>3. IndexInv'
    BY <1>0, <1>1, <2>1, SoundListKept
       DEF IndexInv, IndexFile, OpenRecord, NoFileVanishes
  <2> QED BY <1>0, <1>1, <2>1, <2>2, <2>3, WriterStep DEF OpenRecord
<1>2. ASSUME WriteRecord(w)
      PROVE  RegistryInv'
  <2>q. PICK q : q = PutAt("read", writer[w].bom, "data", <<>>)
    OBVIOUS
  <2> DEFINE b == writer[w].bom
  <2>0. b \in Boms
    BY <1>0, <1>2 DEF WriteRecord, WriterGood
  <2>1. /\ record' \in [Boms -> FileState]
        /\ record'[b] # "absent"
        /\ NoFileVanishes
    BY <1>0, <1>2, <2>0 DEF WriteRecord, FileState, NoFileVanishes
  <2>2. q \in WriterState /\ WriterGood(q)'
    BY <2>q, <2>0, <2>1 DEF PutAt, WriterState, WriterGood
  <2>3. IndexInv'
    BY <1>0, <1>2, <2>1, SoundListKept
       DEF IndexInv, IndexFile, WriteRecord, NoFileVanishes
  <2> QED BY <1>0, <1>2, <2>q, <2>1, <2>2, <2>3, WriterStep DEF WriteRecord
<1>3. ASSUME AlreadyListed(w)
      PROVE  RegistryInv'
  <2>1. NoFileVanishes /\ index' = index
    BY <1>3 DEF AlreadyListed, NoFileVanishes
  <2>2. IndexInv' /\ index'[KeyOf(w)].file # "absent"
    BY <1>3, <2>1 DEF AlreadyListed, IndexInv, SoundList
  <2> QED BY <1>0, <1>3, <2>1, <2>2, AfterAppendInv DEF AlreadyListed
<1>4. ASSUME ReadIndex(w)
      PROVE  RegistryInv'
  <2> DEFINE b == writer[w].bom
             k == KeyOf(w)
  <2>q. PICK q : q = PutAt("open", b, writer[w].stage, index[k].ids)
    OBVIOUS
  <2>1. b \in Boms /\ record[b] # "absent"
    BY <1>0, <1>4 DEF ReadIndex, WriterGood
  <2>2. k \in Keys /\ k = KeyIn(q) /\ index[k].ids \in Seq(Boms)
    BY <1>0, <2>q, <2>1, KeyInType DEF KeyOf, KeyIn, PutAt, IndexFile
  <2>3. NoFileVanishes
    BY <1>4 DEF ReadIndex, NoFileVanishes
  <2>4. q \in WriterState
    BY <1>0, <2>q, <2>1, <2>2 DEF PutAt, WriterState
  <2>5. WriterGood(q)
    BY <1>0, <1>4, <2>q, <2>1, <2>2 DEF PutAt, WriterGood, ReadIndex, IndexInv
  <2>6. WriterGood(q)'
    BY <2>3, <2>4, <2>5, GoodKept
  <2>7. IndexInv'
    BY <1>4 DEF ReadIndex, IndexInv, SoundList
  <2> QED BY <1>0, <1>4, <2>q, <2>3, <2>4, <2>6, <2>7, WriterStep DEF ReadIndex
<1>5. ASSUME PutRaises(w)
      PROVE  RegistryInv'
  <2>1. IdleWriter \in WriterState /\ WriterGood(IdleWriter)'
    BY LocalTypes DEF IdleWriter, PutAt, WriterGood
  <2>2. IndexInv' /\ NoFileVanishes
    BY <1>5 DEF PutRaises, IndexInv, SoundList, NoFileVanishes
  <2> QED BY <1>0, <1>5, <2>1, <2>2, WriterStep DEF PutRaises
<1>6. ASSUME OpenIndex(w)
      PROVE  RegistryInv'
  <2> DEFINE b == writer[w].bom
             k == KeyOf(w)
  <2>q. PICK q : q = PutAt("write", b, writer[w].stage, writer[w].seen)
    OBVIOUS
  <2>p. PICK p : p = PutAt("open", b, writer[w].stage, writer[w].seen)
    OBVIOUS
  <2>1. b \in Boms /\ k \in Keys /\ k = KeyIn(q)
    BY <1>0, <1>6, <2>q, KeyInType DEF OpenIndex, WriterGood, KeyOf, KeyIn, PutAt
  <2>2. index' \in [Keys -> IndexFile] /\ index'[k] = Truncated
    BY <1>0, <1>6, <2>1 DEF OpenIndex, Truncated, IndexFile, FileState
  <2>3. NoFileVanishes
    BY <1>0, <1>6, <2>1 DEF OpenIndex, Truncated, NoFileVanishes
  <2>4. q \in WriterState /\ p \in WriterState
    BY <1>0, <2>q, <2>p, <2>1 DEF PutAt, WriterState
  <2>5. WriterGood(p)
    BY <1>0, <1>6, <2>p DEF OpenIndex, WriterGood, PutAt, KeyIn
  <2>6. WriterGood(p)'
    BY <2>3, <2>4, <2>5, GoodKept
  <2>7. WriterGood(q)'
    BY <2>q, <2>p, <2>1, <2>2, <2>6 DEF PutAt, WriterGood, Truncated, KeyIn
  <2>8. IndexInv'
    BY <1>0, <1>6, <2>1 DEF OpenIndex, Truncated, IndexInv, SoundList, DistinctList
  <2> QED BY <1>0, <1>6, <2>q, <2>2, <2>3, <2>4, <2>7, <2>8, WriterStep DEF OpenIndex
<1>7. ASSUME WriteIndex(w)
      PROVE  RegistryInv'
  <2> DEFINE b == writer[w].bom
             k == KeyOf(w)
             list == <<b>> \o writer[w].seen
             f == Overwrite(index[k], list)
  <2>1. b \in Boms /\ k \in Keys /\ k \in Files(b) /\ k = KeyIn(writer[w])
    BY <1>0, <1>7, KeyInType DEF WriteIndex, WriterGood, KeyOf, KeyIn
  <2>2. writer[w].seen \in Seq(Boms)
    BY <1>0 DEF WriterState
  <2>3. /\ SoundList(k, writer[w].seen) /\ DistinctList(writer[w].seen)
        /\ ~ InList(b, writer[w].seen) /\ record[b] # "absent"
    BY <1>0, <1>7, <2>1 DEF WriteIndex, WriterGood
  <2>4. list \in Seq(Boms) /\ Len(list) > 0 /\ Len(list) \in Nat
    BY <2>1, <2>2, PrependFacts
  <2>5. SoundList(k, list)
    BY <2>1, <2>2, <2>3, PrependFacts DEF SoundList
  <2>6. DistinctList(list)
    BY <2>1, <2>2, <2>3, PrependDistinct
  <2>7. /\ f \in IndexFile
        /\ f.file # "absent"
        /\ f.file = "whole" => Len(f.ids) > 0
        /\ SoundList(k, f.ids)
        /\ DistinctList(f.ids)
    <3>1. CASE Len(list) >= index[k].size
      BY <2>4, <2>5, <2>6, <3>1 DEF Overwrite, IndexFile, FileState
    <3>2. CASE ~ (Len(list) >= index[k].size)
      BY <1>0, <2>1, <3>2 DEF Overwrite, IndexFile, FileState, SoundList, DistinctList
    <3> QED BY <3>1, <3>2
  <2>8. index' = [index EXCEPT ![k] = f] /\ record' = record
    BY <1>7 DEF WriteIndex
  <2>9. index' \in [Keys -> IndexFile] /\ NoFileVanishes
    BY <1>0, <2>1, <2>7, <2>8 DEF NoFileVanishes
  <2>10. IndexInv'
    <3> SUFFICES ASSUME NEW j \in Keys
                 PROVE  /\ SoundList(j, index[j].ids)'
                        /\ DistinctList(index[j].ids)'
                        /\ index'[j].file = "whole" => Len(index'[j].ids) > 0
      BY DEF IndexInv
    <3>1. CASE j = k
      BY <1>0, <2>7, <2>8, <3>1 DEF SoundList, DistinctList
    <3>2. CASE j # k
      BY <1>0, <2>8, <3>2 DEF SoundList, DistinctList, IndexInv
    <3> QED BY <3>1, <3>2
  <2>11. index'[k].file # "absent"
    BY <1>0, <2>1, <2>7, <2>8
  <2> QED BY <1>7, <2>9, <2>10, <2>11, AfterAppendInv DEF WriteIndex
<1> QED BY <1>1, <1>2, <1>3, <1>4, <1>5, <1>6, <1>7 DEF Put

LEMMA CrashInv == RegistryInv /\ Crash => RegistryInv'
<1> SUFFICES ASSUME RegistryInv, Crash PROVE RegistryInv'
  OBVIOUS
<1>1. TypeOK'
  BY LocalTypes, ConstantsAssumption DEF RegistryInv, TypeOK, Crash
<1>2. IndexInv' /\ ReturnedInv'
  BY DEF RegistryInv, Crash, IndexInv, SoundList, ReturnedInv
<1>3. WriterInv'
  BY DEF Crash, WriterInv, WriterGood, IdleWriter, PutAt
<1>4. ReaderInv'
  BY DEF Crash, ReaderInv, ReaderGood, IdleReader
<1> QED BY <1>1, <1>2, <1>3, <1>4 DEF RegistryInv

LEMMA RegistryNext == RegistryInv /\ [Next]_vars => RegistryInv'
<1>1. RegistryInv /\ UNCHANGED vars => RegistryInv'
  BY DEF RegistryInv, TypeOK, IndexInv, SoundList, WriterInv, WriterGood, KeyIn,
         ReturnedInv, ReaderInv, ReaderGood, vars
<1> QED BY <1>1, IntakeInv, PutInv, CrashInv DEF Next

------------------------------------------------------------------------------
(***************************************************************************)
(* The theorems                                                            *)
(***************************************************************************)

\* The inductive invariant holds in every reachable state of put, intake and
\* crash, for every number of each.
THEOREM RegistryInvariant == Spec => []RegistryInv
BY InitInv, RegistryNext, PTL DEF Spec

\* Type correctness of the registry's files and threads.
THEOREM TypeCorrect == Spec => []TypeOK
BY RegistryInvariant, PTL DEF RegistryInv

\* An index entry always leads to a record and belongs under its key:
\* BomRegistry.put writes the record before the indexes.
THEOREM IndexIsSound == Spec => []IndexSound
<1>1. RegistryInv => IndexSound
  BY DEF RegistryInv, IndexInv, SoundList, IndexSound
<1> QED BY <1>1, RegistryInvariant, PTL

\* No index file lists a BOM twice, however puts of it overlap.
THEOREM IndexHasNoDuplicates == Spec => []NoDuplicates
<1>1. RegistryInv => NoDuplicates
  BY DEF RegistryInv, IndexInv, DistinctList, NoDuplicates
<1> QED BY <1>1, RegistryInvariant, PTL

\* resolve_order_id never answers "not found" for a BOM whose put returned
\* before the request, whatever was lost or torn since.
THEOREM NotFoundNeverHides == Spec => []NotFoundIsTrue
<1>1. RegistryInv => NotFoundIsTrue
  BY DEF RegistryInv, ReaderInv, ReaderGood, NotFoundIsTrue, ByData
<1> QED BY <1>1, RegistryInvariant, PTL

\* resolve_order_id answers with the Order of a BOM that has the data id asked.
THEOREM AnswersMatch == Spec => []AnswerMatchesRequest
<1>1. RegistryInv => AnswerMatchesRequest
  BY DEF RegistryInv, ReaderInv, ReaderGood, AnswerMatchesRequest, ByData
<1> QED BY <1>1, RegistryInvariant, PTL

------------------------------------------------------------------------------
(***************************************************************************)
(* One writer: what the registry promises when puts do not overlap         *)
(***************************************************************************)

OneWriter == \A v, w \in Writers : v = w

\* The file a put is about to rewrite is as the put read it, or as the put
\* truncated it, and its BOM is under by-data/ when it turns to by-order/.
SoloGood(q) ==
    /\ q.pc = "open" => index[KeyIn(q)].file # "torn" /\ index[KeyIn(q)].ids = q.seen
    /\ q.pc = "write" => index[KeyIn(q)] = Truncated
    /\ q.pc # "idle" /\ q.stage = "order" => InList(q.bom, index[DataOf[q.bom]].ids)

\* A BOM whose put returned is listed under its data id, unless a crash or the
\* running put left the file torn; the put is then about to list it again.
Kept(b) ==
    \/ InList(b, index[DataOf[b]].ids)
    \/ /\ index[DataOf[b]].file = "torn"
       /\ \A w \in Writers : WritingTo(w, DataOf[b]) => InList(b, writer[w].seen)

SoloInv ==
    /\ RegistryInv
    /\ \A w \in Writers : SoloGood(writer[w])
    /\ \A b \in returned : Kept(b)

Lists == [k \in Keys |-> VisibleList(k)]

LEMMA SoloInit ==
    ASSUME Init PROVE SoloInv /\ AppendOnly!Init
<1>1. RegistryInv
  BY InitInv
<1>2. \A w \in Writers : SoloGood(writer[w]) /\ \A k : ~ WritingTo(w, k)
  BY DEF Init, SoloGood, WritingTo, IdleWriter, PutAt
<1>3. \A k \in Keys : VisibleList(k) = << >>
  BY <1>2 DEF VisibleList, Init
<1> QED BY <1>1, <1>2, <1>3 DEF SoloInv, Init, AppendOnly!Init

\* What readers may rely on, with a single writer at work.
LEMMA VisibleSolo ==
    ASSUME OneWriter, NEW w \in Writers, NEW k \in Keys
    PROVE  VisibleList(k) = IF WritingTo(w, k) THEN writer[w].seen ELSE index[k].ids
<1>1. CASE WritingTo(w, k)
  <2>1. (CHOOSE v \in Writers : WritingTo(v, k)) = w
    BY <1>1 DEF OneWriter
  <2> QED BY <1>1, <2>1, Zenon DEF VisibleList
<1>2. CASE ~ WritingTo(w, k)
  <2>1. ~ \E v \in Writers : WritingTo(v, k)
    BY <1>2 DEF OneWriter
  <2> QED BY <1>2, <2>1 DEF VisibleList
<1> QED BY <1>1, <1>2

\* The BOM put in front of a list is in it, with those that were.
LEMMA PrependLists ==
    ASSUME NEW b \in Boms, NEW s \in Seq(Boms)
    PROVE  InList(b, <<b>> \o s) /\ \A c : InList(c, s) => InList(c, <<b>> \o s)
<1>1. 1 \in 1 .. Len(<<b>> \o s) /\ (<<b>> \o s)[1] = b
  BY PrependFacts
<1>2. ASSUME NEW c, NEW i \in 1 .. Len(s), s[i] = c
      PROVE  InList(c, <<b>> \o s)
  <2>1. i + 1 \in 1 .. Len(<<b>> \o s) /\ (<<b>> \o s)[i + 1] = s[i]
    BY PrependFacts
  <2> QED BY <1>2, <2>1 DEF InList
<1> QED BY <1>1, <1>2 DEF InList

\* A put that leaves the index files alone, and is not about to write one.
LEMMA SoloCalm ==
    ASSUME OneWriter, SoloInv, RegistryInv', NEW w \in Writers, NEW q \in WriterState,
           writer' = [writer EXCEPT ![w] = q], q.pc # "write", writer[w].pc # "write",
           index' = index, SoloGood(q),
           \/ returned' = returned
           \/ \E b \in Boms : returned' = returned \cup {b}
                             /\ InList(b, index[DataOf[b]].ids)
    PROVE  SoloInv' /\ [AppendOnly!Next]_Lists
<1>1. writer'[w] = q /\ \A v \in Writers : v = w
  BY DEF OneWriter, SoloInv, RegistryInv, TypeOK
<1>2. \A v \in Writers : SoloGood(writer[v])'
  BY <1>1 DEF SoloGood, KeyIn
<1>3. \A k : ~ WritingTo(w, k) /\ ~ WritingTo(w, k)'
  BY <1>1 DEF WritingTo
<1>4. \A b \in returned' : Kept(b)'
  BY <1>1, <1>3 DEF Kept, SoloInv, InList
<1>5. \A k \in Keys : VisibleList(k)' = VisibleList(k)
  <2> TAKE k \in Keys
  <2>1. VisibleList(k) = index[k].ids
    BY <1>3, VisibleSolo
  <2>2. VisibleList(k)' = index'[k].ids
    BY <1>1, <1>3 DEF VisibleList
  <2> QED BY <2>1, <2>2
<1>6. UNCHANGED Lists
  BY <1>5 DEF Lists
<1> QED BY <1>2, <1>4, <1>6 DEF SoloInv

\* The end of an _append_index call whose file now lists the BOM.
LEMMA SoloAfterAppend ==
    ASSUME SoloInv, OneWriter, RegistryInv', NEW w \in Writers, AfterAppend(w),
           writer[w].pc # "idle", InList(writer[w].bom, index'[KeyOf(w)].ids),
           \A k \in Keys : k # KeyOf(w) => index'[k] = index[k]
    PROVE  /\ \A v \in Writers : SoloGood(writer[v])'
           /\ writer'[w].pc \in {"idle", "read"}
           /\ \/ returned' = returned
              \/ \E b \in Boms : returned' = returned \cup {b}
                                /\ InList(b, index'[DataOf[b]].ids)
<1> DEFINE b == writer[w].bom
<1>1. writer \in [Writers -> WriterState] /\ \A v \in Writers : v = w
  BY DEF OneWriter, SoloInv, RegistryInv, TypeOK
<1>2. b \in Boms /\ DataOf[b] \in Keys /\ OrderOf[b] # DataOf[b]
  BY ConstantsAssumption DEF SoloInv, RegistryInv, WriterInv, WriterGood, Keys
<1>3. InList(b, index'[DataOf[b]].ids)
  <2>1. CASE writer[w].stage = "data"
    BY <2>1 DEF KeyOf
  <2>2. CASE writer[w].stage # "data"
    <3>1. writer[w].stage = "order" /\ KeyOf(w) = OrderOf[b]
      BY <1>1, <2>2 DEF WriterState, KeyOf
    <3> QED BY <1>2, <3>1 DEF SoloInv, SoloGood
  <2> QED BY <2>1, <2>2
<1>4. PICK q : q = writer'[w] /\
        \/ q = PutAt("read", b, "order", <<>>) /\ returned' = returned
        \/ q = IdleWriter /\ returned' = returned \cup {b}
  BY <1>1 DEF AfterAppend
<1>5. SoloGood(q)' /\ q.pc \in {"idle", "read"}
  BY <1>3, <1>4 DEF SoloGood, PutAt, IdleWriter
<1> QED BY <1>1, <1>2, <1>3, <1>4, <1>5

LEMMA SoloPut ==
    ASSUME OneWriter, SoloInv, RegistryInv', NEW w \in Writers, Put(w)
    PROVE  SoloInv' /\ [AppendOnly!Next]_Lists
<1>0. /\ writer \in [Writers -> WriterState] /\ index \in [Keys -> IndexFile]
      /\ WriterGood(writer[w]) /\ SoloGood(writer[w])
      /\ \A v \in Writers : v = w
  BY DEF SoloInv, RegistryInv, TypeOK, WriterInv, OneWriter
<1>1. ASSUME NEW b \in Boms, OpenRecord(w, b)
      PROVE  SoloInv' /\ [AppendOnly!Next]_Lists
  <2>1. PICK q : q = PutAt("record", b, "data", <<>>)
    OBVIOUS
  <2>2. q \in WriterState /\ SoloGood(q) /\ q.pc # "write"
    BY <2>1 DEF PutAt, WriterState, SoloGood
  <2> QED BY <1>1, <2>1, <2>2, SoloCalm DEF OpenRecord
<1>2. ASSUME WriteRecord(w)
      PROVE  SoloInv' /\ [AppendOnly!Next]_Lists
  <2>1. PICK q : q = PutAt("read", writer[w].bom, "data", <<>>)
    OBVIOUS
  <2>2. q \in WriterState /\ SoloGood(q) /\ q.pc # "write"
    BY <1>0, <2>1 DEF PutAt, WriterState, SoloGood
  <2> QED BY <1>2, <2>1, <2>2, SoloCalm DEF WriteRecord
<1>3. ASSUME AlreadyListed(w)
      PROVE  SoloInv' /\ [AppendOnly!Next]_Lists
  <2>1. AfterAppend(w) /\ index' = index /\ writer[w].pc = "read"
        /\ InList(writer[w].bom, index[KeyOf(w)].ids)
    BY <1>3 DEF AlreadyListed
  <2>2. /\ \A v \in Writers : SoloGood(writer[v])'
        /\ writer'[w].pc \in {"idle", "read"}
        /\ \/ returned' = returned
           \/ \E b \in Boms : returned' = returned \cup {b}
                             /\ InList(b, index'[DataOf[b]].ids)
    BY <2>1, SoloAfterAppend
  <2>3. PICK q : q = writer'[w] /\ writer' = [writer EXCEPT ![w] = q]
    BY <1>0, <2>1 DEF AfterAppend
  <2>4. q \in WriterState /\ SoloGood(q) /\ q.pc # "write"
    BY <2>1, <2>2, <2>3 DEF RegistryInv, TypeOK, SoloGood, KeyIn
  <2> QED BY <2>1, <2>2, <2>3, <2>4, SoloCalm
<1>4. ASSUME ReadIndex(w)
      PROVE  SoloInv' /\ [AppendOnly!Next]_Lists
  <2>1. PICK q : q = PutAt("open", writer[w].bom, writer[w].stage, index[KeyOf(w)].ids)
    OBVIOUS
  <2>2. writer[w].bom \in Boms /\ KeyOf(w) = KeyIn(q) /\ KeyOf(w) \in Keys
    BY <1>0, <1>4, <2>1, KeyInType DEF ReadIndex, WriterGood, KeyOf, KeyIn, PutAt
  <2>3. q \in WriterState /\ q.pc # "write"
    BY <1>0, <2>1, <2>2 DEF PutAt, WriterState, IndexFile
  <2>4. SoloGood(q)
    BY <1>0, <1>4, <2>1, <2>2 DEF ReadIndex, SoloGood, PutAt
  <2> QED BY <1>4, <2>1, <2>3, <2>4, SoloCalm DEF ReadIndex
<1>5. ASSUME PutRaises(w)
      PROVE  SoloInv' /\ [AppendOnly!Next]_Lists
  <2>1. IdleWriter \in WriterState /\ SoloGood(IdleWriter) /\ IdleWriter.pc # "write"
    BY LocalTypes DEF IdleWriter, PutAt, SoloGood
  <2> QED BY <1>5, <2>1, SoloCalm DEF PutRaises
<1>6. ASSUME OpenIndex(w)
      PROVE  SoloInv' /\ [AppendOnly!Next]_Lists
  <2> DEFINE k == KeyOf(w)
             s == writer[w].seen
  <2>1. PICK q : q = PutAt("write", writer[w].bom, writer[w].stage, s)
    OBVIOUS
  <2>2. writer[w].bom \in Boms /\ k = KeyIn(q) /\ k = KeyIn(writer[w]) /\ k \in Keys
    BY <1>0, <1>6, <2>1, KeyInType DEF OpenIndex, WriterGood, KeyOf, KeyIn, PutAt
  <2>3. writer'[w] = q /\ writer[w].pc = "open" /\ returned' = returned
    BY <1>0, <1>6, <2>1 DEF OpenIndex
  <2>4. index'[k] = Truncated /\ \A j \in Keys : j # k => index'[j] = index[j]
    BY <1>0, <1>6, <2>2 DEF OpenIndex
  <2>5. index[k].file # "torn" /\ index[k].ids = s
    BY <1>0, <2>2, <2>3 DEF SoloGood
  <2>6. DataOf[q.bom] \in Keys /\ (q.stage = "order" => DataOf[q.bom] # k)
    BY <2>1, <2>2, ConstantsAssumption DEF PutAt, KeyIn, Keys
  <2>7. SoloGood(q)'
    BY <1>0, <2>1, <2>2, <2>3, <2>4, <2>6 DEF SoloGood, PutAt, KeyIn
  <2>8. \A j \in Keys : /\ WritingTo(w, j)' <=> j = k
                        /\ ~ WritingTo(w, j)
    BY <2>1, <2>2, <2>3 DEF WritingTo, KeyOf, KeyIn, PutAt
  <2>9. ASSUME NEW b \in returned PROVE Kept(b)'
    <3>1. DataOf[b] \in Keys /\ Kept(b)
      BY ConstantsAssumption DEF SoloInv, RegistryInv, TypeOK, Keys
    <3>2. CASE DataOf[b] = k
      <4>1. InList(b, s)
        BY <2>5, <3>1, <3>2 DEF Kept
      <4>2. writer'[w].seen = s
        BY <2>1, <2>3 DEF PutAt
      <4> QED BY <1>0, <2>4, <3>2, <4>1, <4>2 DEF Kept, Truncated
    <3>3. CASE DataOf[b] # k
      BY <1>0, <2>4, <2>8, <3>1, <3>3 DEF Kept
    <3> QED BY <3>2, <3>3
  <2>10. ASSUME NEW j \in Keys PROVE VisibleList(j)' = VisibleList(j)
    <3>1. VisibleList(j) = index[j].ids
      BY <2>8, VisibleSolo
    <3>2. writer'[w].seen = s
      BY <2>1, <2>3 DEF PutAt
    <3>3. VisibleList(j)' = IF WritingTo(w, j)' THEN writer'[w].seen ELSE index'[j].ids
      <4>1. CASE WritingTo(w, j)'
        <5>1. (CHOOSE v \in Writers : WritingTo(v, j)') = w
          BY <1>0, <4>1
        <5> QED BY <4>1, <5>1, Zenon DEF VisibleList
      <4>2. CASE ~ WritingTo(w, j)'
        BY <1>0, <4>2 DEF VisibleList
      <4> QED BY <4>1, <4>2
    <3> QED BY <2>4, <2>5, <2>8, <3>1, <3>2, <3>3
  <2> QED BY <1>0, <2>3, <2>7, <2>9, <2>10 DEF SoloInv, Lists
<1>7. ASSUME WriteIndex(w)
      PROVE  SoloInv' /\ [AppendOnly!Next]_Lists
  <2> DEFINE k == KeyOf(w)
             b == writer[w].bom
             s == writer[w].seen
  <2>1. b \in Boms /\ k = KeyIn(writer[w]) /\ k \in Keys /\ s \in Seq(Boms)
        /\ ~ InList(b, s) /\ writer[w].pc = "write"
    BY <1>0, <1>7, KeyInType DEF WriteIndex, WriterGood, KeyOf, KeyIn, WriterState
  <2>2. index[k] = Truncated
    BY <1>0, <2>1 DEF SoloGood
  <2>3. index'[k].ids = <<b>> \o s /\ \A j \in Keys : j # k => index'[j] = index[j]
    <3>1. index' = [index EXCEPT ![k] = Overwrite(index[k], <<b>> \o s)]
      BY <1>7 DEF WriteIndex
    <3>2. Len(<<b>> \o s) >= index[k].size
      BY <2>1, <2>2, PrependFacts DEF Truncated
    <3>3. Overwrite(index[k], <<b>> \o s).ids = <<b>> \o s
      BY <3>2 DEF Overwrite
    <3> QED BY <1>0, <2>1, <3>1, <3>3
  <2>4. /\ \A v \in Writers : SoloGood(writer[v])'
        /\ writer'[w].pc \in {"idle", "read"}
        /\ \/ returned' = returned
           \/ \E c \in Boms : returned' = returned \cup {c}
                             /\ InList(c, index'[DataOf[c]].ids)
    <3>1. AfterAppend(w) /\ InList(b, index'[KeyOf(w)].ids)
      BY <1>7, <2>1, <2>3, PrependLists DEF WriteIndex
    <3> QED BY <2>1, <2>3, <3>1, SoloAfterAppend
  <2>5. \A j \in Keys : ~ WritingTo(w, j)' /\ (WritingTo(w, j) <=> j = k)
    BY <2>1, <2>4 DEF WritingTo, KeyOf, KeyIn
  <2>6. ASSUME NEW c \in returned PROVE InList(c, index'[DataOf[c]].ids) \/ Kept(c)'
    <3>1. DataOf[c] \in Keys /\ Kept(c)
      BY ConstantsAssumption DEF SoloInv, RegistryInv, TypeOK, Keys
    <3>2. CASE DataOf[c] = k
      <4>1. ~ InList(c, index[k].ids)
        BY <2>2 DEF Truncated, InList
      <4>2. InList(c, s)
        BY <2>5, <3>1, <3>2, <4>1 DEF Kept
      <4> QED BY <2>1, <2>3, <3>2, <4>2, PrependLists
    <3>3. CASE DataOf[c] # k
      BY <1>0, <2>3, <2>5, <3>1, <3>3 DEF Kept
    <3> QED BY <3>2, <3>3
  <2>7. \A c \in returned' : Kept(c)'
    BY <2>4, <2>6 DEF Kept
  <2>8. ASSUME NEW j \in Keys
        PROVE  VisibleList(j)' = IF j = k THEN <<b>> \o VisibleList(j) ELSE VisibleList(j)
    <3>1. VisibleList(j) = IF j = k THEN s ELSE index[j].ids
      BY <2>5, VisibleSolo
    <3>2. VisibleList(j)' = index'[j].ids
      BY <1>0, <2>5 DEF VisibleList
    <3> QED BY <2>3, <3>1, <3>2
  <2>9. AppendOnly!Prepend(k, b)
    <3>1. VisibleList(k) = s
      BY <2>1, <2>5, VisibleSolo
    <3>2. b \notin AppendOnly!Listed(k)
      BY <2>1, <3>1 DEF AppendOnly!Listed, InList
    <3>3. Lists' = [Lists EXCEPT ![k] = <<b>> \o @]
      BY <2>1, <2>8 DEF Lists
    <3> QED BY <3>2, <3>3 DEF AppendOnly!Prepend, Lists
  <2>10. AppendOnly!Next
    BY <2>1, <2>9 DEF AppendOnly!Next
  <2> QED BY <2>4, <2>7, <2>10 DEF SoloInv
<1> QED BY <1>1, <1>2, <1>3, <1>4, <1>5, <1>6, <1>7 DEF Put

LEMMA SoloNext ==
    ASSUME OneWriter, SoloInv, [Next]_vars
    PROVE  SoloInv' /\ (Crash \/ [AppendOnly!Next]_Lists)
<1>0. RegistryInv'
  BY RegistryNext DEF SoloInv
<1>1. CASE \E w \in Writers : Put(w)
  BY <1>0, <1>1, SoloPut
<1>2. CASE (\E r \in Readers : Intake(r)) \/ UNCHANGED vars
  <2>1. UNCHANGED <<index, writer, returned>>
    BY <1>2 DEF Intake, ResolveUniqueBom, LookupOrder, ResolveBomUri, NextRequest, vars
  <2>2. \A v \in Writers, k \in Keys : WritingTo(v, k)' = WritingTo(v, k)
    BY <2>1 DEF WritingTo, KeyOf
  <2>3. SoloInv'
    BY <1>0, <2>1 DEF SoloInv, SoloGood, KeyIn, Kept, WritingTo, KeyOf
  <2>4. UNCHANGED Lists
    BY <2>1 DEF Lists, VisibleList, WritingTo, KeyOf
  <2> QED BY <2>3, <2>4
<1>3. CASE Crash
  <2>1. \A v \in Writers : SoloGood(writer[v])' /\ \A k : ~ WritingTo(v, k)'
    BY <1>3 DEF Crash, SoloGood, WritingTo, IdleWriter, PutAt
  <2>2. UNCHANGED <<index, returned>>
    BY <1>3 DEF Crash
  <2>3. \A b \in returned : Kept(b)'
    BY <2>1, <2>2 DEF SoloInv, Kept
  <2> QED BY <1>0, <1>3, <2>1, <2>2, <2>3 DEF SoloInv
<1> QED BY <1>1, <1>2, <1>3 DEF Next

\* UniqueIsSole, with what makes it inductive: only an intake by data id goes
\* from the index to the record in two steps.
Sole ==
    /\ UniqueIsSole
    /\ \A r \in Readers : reader[r].pc = "record" => ByData(r)

\* When puts do not overlap, an intake by data id that resolves names the only
\* BOM registered for that data by then, through any number of crashes: a BOM
\* whose put returned is never dropped from its list (resolve_unique_bom).
THEOREM ResolvedIsSole ==
    ASSUME OneWriter PROVE Spec => []UniqueIsSole
<1>1. SoloInv /\ Sole /\ [Next]_vars => Sole'
  <2> SUFFICES ASSUME SoloInv, Sole, [Next]_vars PROVE Sole'
    OBVIOUS
  <2>0. reader \in [Readers -> ReaderState]
    BY DEF SoloInv, RegistryInv, TypeOK
  <2>1. CASE UNCHANGED reader
    BY <2>1 DEF Sole, UniqueIsSole, ByData
  <2>2. ASSUME NEW r \in Readers, NEW d \in Datas, ResolveUniqueBom(r, d)
        PROVE  Sole'
    <3>1. d \in Keys /\ index[d] \in IndexFile
      BY DEF SoloInv, RegistryInv, TypeOK, Keys
    <3>2. CASE index[d].file = "whole" /\ ~ (Len(index[d].ids) > 1)
      <4>1. reader' = [reader EXCEPT ![r] = Asking(d, index[d].ids[1], returned)]
        BY <2>2, <3>2 DEF ResolveUniqueBom
      <4>2. ASSUME NEW b \in returned, DataOf[b] = d PROVE b = index[d].ids[1]
        <5>1. InList(b, index[d].ids)
          BY <3>2, <4>2 DEF SoloInv, Kept
        <5> QED BY <3>1, <3>2, <5>1 DEF InList, IndexFile
      <4> QED BY <2>0, <4>1, <4>2 DEF Sole, UniqueIsSole, ByData, Asking
    <3>3. CASE ~ (index[d].file = "whole" /\ ~ (Len(index[d].ids) > 1))
      <4>1. PICK code \in {400, 404, 409} :
              reader' = [reader EXCEPT ![r] = Reply("data", d, NoBom, code, returned)]
        <5>1. CASE index[d].file = "torn"
          BY <2>2, <5>1 DEF ResolveUniqueBom
        <5>2. CASE index[d].file = "absent"
          BY <2>2, <5>2 DEF ResolveUniqueBom
        <5>3. CASE index[d].file = "whole" /\ Len(index[d].ids) > 1
          <6>1. reader' = [reader EXCEPT ![r] = Reply("data", d, NoBom, 409, returned)]
            BY <2>2, <5>3 DEF ResolveUniqueBom
          <6> QED BY <6>1
        <5> QED BY <3>1, <3>3, <5>1, <5>2, <5>3 DEF IndexFile, FileState
      <4> QED BY <2>0, <4>1 DEF Sole, UniqueIsSole, ByData, Reply
    <3> QED BY <3>2, <3>3
  <2>3. ASSUME NEW r \in Readers, LookupOrder(r) PROVE Sole'
    <3>1. PICK code : reader' = [reader EXCEPT ![r] =
             Reply("data", reader[r].key, reader[r].bom, code, reader[r].known)]
      BY <2>3 DEF LookupOrder
    <3>2. reader[r].pc = "record" /\ reader[r].by \in {"data", "bom"}
      BY <2>0, <2>3 DEF LookupOrder, ReaderState
    <3>3. ByData(r)
      BY <3>2 DEF Sole
    <3> QED BY <2>0, <3>1, <3>2, <3>3 DEF Sole, UniqueIsSole, ByData, Reply
  <2>4. ASSUME NEW r \in Readers, NEW b \in Boms, ResolveBomUri(r, b) PROVE Sole'
    <3>1. PICK code : reader' = [reader EXCEPT ![r] = Reply("bom", AnyData, b, code, returned)]
      BY <2>4 DEF ResolveBomUri
    <3> QED BY <2>0, <3>1 DEF Sole, UniqueIsSole, ByData, Reply
  <2>5. ASSUME NEW r \in Readers, NextRequest(r) PROVE Sole'
    BY <2>0, <2>5 DEF NextRequest, Sole, UniqueIsSole, ByData, IdleReader
  <2>6. CASE Crash
    BY <2>6 DEF Crash, Sole, UniqueIsSole, ByData, IdleReader
  <2>7. CASE \E w \in Writers : Put(w)
    BY <2>1, <2>7 DEF Put, OpenRecord, WriteRecord, AlreadyListed, ReadIndex, PutRaises,
                      OpenIndex, WriteIndex
  <2> QED BY <2>1, <2>2, <2>3, <2>4, <2>5, <2>6, <2>7 DEF Next, Intake, vars
<1>2. SoloInv /\ [Next]_vars => SoloInv'
  BY SoloNext
<1>3. Init => Sole
  BY DEF Init, Sole, UniqueIsSole, ByData, IdleReader
<1> QED BY SoloInit, <1>1, <1>2, <1>3, PTL DEF Spec, Sole

\* When puts do not overlap and the Node does not crash, the index files
\* implement AppendOnlyIndex: no entry of a list is ever lost or moved but by a
\* new one in front (_append_index).
THEOREM IndexRefinement ==
    ASSUME OneWriter, MaxCrashes = 0 PROVE Spec => ImplementsAppendOnly
<1>1. SoloInv /\ [Next]_vars => SoloInv' /\ [AppendOnly!Next]_Lists
  <2>1. SoloInv => ~ Crash
    BY DEF SoloInv, RegistryInv, TypeOK, Crash
  <2> QED BY <2>1, SoloNext
<1> QED BY SoloInit, <1>1, PTL DEF Spec, ImplementsAppendOnly, AppendOnly!Spec, Lists

------------------------------------------------------------------------------
(***************************************************************************)
(* The parity check                                                        *)
(***************************************************************************)

\* The files a check is about: the record R, the lists D and O of its data and
\* its Order and the locators L, here; those with a 2 where the Node answers.
Matching(c, R, D, O, L, R2, D2, O2, L2) ==
    /\ R = "whole" /\ R2 = "whole"
    /\ D.file # "torn" /\ D2.file # "torn" /\ D2.ids = D.ids /\ InList(c.bom, D.ids)
    /\ O.file # "torn" /\ O2.file # "torn" /\ O2.ids = O.ids /\ InList(c.bom, O.ids)
    /\ L.file # "torn" /\ L2.file = "whole" /\ Range(L.ids) = Range(L2.ids)
    /\ ~ c.ambiguous => Len(D.ids) = 1

\* What a check that has come to c.pc has found in them.
AfterUris   == {"get_bom", "get_data", "get_order", "get_uris", "ok"}
AfterUnique == {"order", "uris"} \cup AfterUris

Found(c, R, D, O, L, R2, D2, O2, L2) ==
    /\ c.pc = "failed" => ~ Matching(c, R, D, O, L, R2, D2, O2, L2)
    /\ c.pc # "failed" => R = "whole"
    /\ c.pc \in {"unique"} \cup AfterUnique => D.file # "torn" /\ c.data = D.ids
    /\ c.pc \in AfterUnique => /\ InList(c.bom, D.ids)
                               /\ ~ c.ambiguous => Len(D.ids) = 1
    /\ c.pc \in {"uris"} \cup AfterUris => O.file # "torn" /\ c.order = O.ids
    /\ c.pc \in AfterUris => L.file # "torn" /\ c.uris = Range(L.ids)
    /\ c.pc \in AfterUris \ {"get_bom"} => R2 = "whole"
    /\ c.pc \in {"get_order", "get_uris", "ok"} => D2.file # "torn" /\ D2.ids = c.data
    /\ c.pc \in {"get_uris", "ok"} =>
          O2.file # "torn" /\ O2.ids = c.order /\ InList(c.bom, c.order)
    /\ c.pc = "ok" => L2.file = "whole" /\ Range(L2.ids) = c.uris

CheckPlaces == {"idle", "data", "unique", "failed"} \cup AfterUnique

CheckShape(c) ==
    /\ c = [pc |-> c.pc, bom |-> c.bom, ambiguous |-> c.ambiguous, data |-> c.data,
             order |-> c.order, uris |-> c.uris, touched |-> c.touched,
             known |-> c.known, asOf |-> c.asOf]
    /\ c.pc \in CheckPlaces /\ (c.pc # "idle" => c.bom \in Boms)

\* While nothing the check is about has changed, the files still are what it found.
CheckInv ==
    /\ CheckShape(check)
    /\ check.pc # "idle" =>
         \/ check.touched
         \/ Found(check, record[check.bom], index[DataKey], index[OrderKey], locators[DataKey],
                  Served.record[check.bom], Served.index[DataKey], Served.index[OrderKey],
                  Served.locators[DataKey])

LEMMA AgreeMatches ==
    Agree <=> Matching(check, record[check.bom], index[DataKey], index[OrderKey],
                       locators[DataKey], Served.record[check.bom], Served.index[DataKey],
                       Served.index[OrderKey], Served.locators[DataKey])
BY DEF Agree, Matching

LEMMA CheckInit == ParityInit => CheckInv
BY DEF ParityInit, CheckInv, CheckShape, CheckPlaces

\* A read that raises, over files that do not match.
LEMMA ReadRaises ==
    ASSUME NEW c, CheckShape(c), c.pc # "idle", NEW n, n = [c EXCEPT !.pc = "failed"],
           NEW R, NEW D, NEW O, NEW L, NEW R2, NEW D2, NEW O2, NEW L2,
           c.touched \/ ~ Matching(c, R, D, O, L, R2, D2, O2, L2)
    PROVE  /\ CheckShape(n) /\ n.pc # "idle" /\ n.bom = c.bom
           /\ n.touched \/ Found(n, R, D, O, L, R2, D2, O2, L2)
<1>1. n = [pc |-> "failed", bom |-> c.bom, ambiguous |-> c.ambiguous, data |-> c.data,
           order |-> c.order, uris |-> c.uris, touched |-> c.touched,
           known |-> c.known, asOf |-> c.asOf]
  BY DEF CheckShape
<1>2. /\ n.pc = "failed" /\ n.bom = c.bom /\ n.touched = c.touched
      /\ n.ambiguous = c.ambiguous
  BY <1>1
<1>3. CheckShape(n)
  BY <1>1, <1>2 DEF CheckShape, CheckPlaces
<1>4. ~ Matching(c, R, D, O, L, R2, D2, O2, L2) => ~ Matching(n, R, D, O, L, R2, D2, O2, L2)
  BY <1>2 DEF Matching
<1>5. ~ Matching(n, R, D, O, L, R2, D2, O2, L2) => Found(n, R, D, O, L, R2, D2, O2, L2)
  BY <1>2 DEF Found, AfterUnique, AfterUris
<1> QED BY <1>2, <1>3, <1>4, <1>5

\* A step of the check leaves the files alone.
LEMMA ReadStep ==
    ASSUME CheckInv, UNCHANGED <<vars, locators, mirror>>, CheckShape(check'),
           check'.bom = check.bom,
           \/ check'.touched
           \/ Found(check', record[check.bom], index[DataKey], index[OrderKey],
                    locators[DataKey], Served.record[check.bom], Served.index[DataKey],
                    Served.index[OrderKey], Served.locators[DataKey])
    PROVE  CheckInv'
<1>1. /\ record' = record /\ index' = index /\ locators' = locators /\ Served' = Served
      /\ DataKey' = DataKey /\ OrderKey' = OrderKey
  BY DEF vars, Served, Home, DataKey, OrderKey
<1> QED BY <1>1 DEF CheckInv

\* Every read keeps what the check has found up to date.
LEMMA ChecksStep ==
    ASSUME CheckInv, Checks PROVE CheckInv'
<1> DEFINE R == record[check.bom]           R2 == Served.record[check.bom]
           D == index[DataKey]              D2 == Served.index[DataKey]
           O == index[OrderKey]             O2 == Served.index[OrderKey]
           L == locators[DataKey]           L2 == Served.locators[DataKey]
           Holds(n) == /\ CheckShape(n) /\ n.bom = check.bom
                       /\ n.touched \/ Found(n, R, D, O, L, R2, D2, O2, L2)
<1>1. CheckShape(check)
  BY DEF CheckInv
<1>2. check.pc # "idle" => check.touched \/ Found(check, R, D, O, L, R2, D2, O2, L2)
  BY DEF CheckInv
<1>3. ASSUME UNCHANGED <<vars, locators, mirror>>, Holds(check') PROVE CheckInv'
  BY <1>3, ReadStep
<1>4. ASSUME NEW b \in Asked, NEW amb \in BOOLEAN, GetRecord(b, amb) PROVE CheckInv'
  <2> DEFINE pc == IF record[b] = "whole" THEN "data" ELSE "failed"
  <2>1. /\ check' = [pc |-> pc, bom |-> b, ambiguous |-> amb, data |-> << >>, order |-> << >>,
                     uris |-> {}, touched |-> FALSE, known |-> returned, asOf |-> << >>]
        /\ UNCHANGED <<vars, locators, mirror>>
    BY <1>4 DEF GetRecord
  <2>2. pc \in {"data", "failed"} /\ (pc = "data" <=> record[b] = "whole")
    OBVIOUS
  <2> HIDE DEF pc
  <2>3. check'.pc = pc /\ check'.bom = b
    BY <2>1
  <2>4. CheckShape(check')
    BY <2>1, <2>2, <2>3, ParityAssumption DEF CheckShape, CheckPlaces
  <2>5. record' = record
    BY <2>1 DEF vars
  <2>6. ASSUME NEW D3, NEW O3, NEW L3, NEW R4, NEW D4, NEW O4, NEW L4
        PROVE  Found(check', record'[check'.bom], D3, O3, L3, R4, D4, O4, L4)
    BY <2>2, <2>3, <2>5 DEF Found, Matching, AfterUnique, AfterUris
  <2> QED BY <2>4, <2>6 DEF CheckInv
<1> HIDE DEF R, R2, D, D2, O, O2, L, L2
<1>5. ASSUME check.pc # "idle", check' = [check EXCEPT !.pc = "failed"],
             ~ check.touched => ~ Matching(check, R, D, O, L, R2, D2, O2, L2)
      PROVE  Holds(check')
  BY <1>1, <1>5, ReadRaises
<1>6. CASE LookupBom
  <2> DEFINE passes == D.file # "torn"
  <2>1. /\ check.pc = "data" /\ UNCHANGED <<vars, locators, mirror>>
        /\ check' = IF passes THEN [check EXCEPT !.pc = "unique", !.data = D.ids]
                             ELSE [check EXCEPT !.pc = "failed"]
    BY <1>6 DEF LookupBom, Reads, D
  <2>2. CASE passes
    <3> DEFINE n == check'
    <3>1. n = [pc |-> "unique", bom |-> check.bom, ambiguous |-> check.ambiguous,
               data |-> D.ids, order |-> check.order, uris |-> check.uris,
               touched |-> check.touched, known |-> check.known, asOf |-> check.asOf]
      BY <1>1, <2>1, <2>2 DEF CheckShape
    <3> HIDE DEF n
    <3>2. /\ n.pc = "unique" /\ n.bom = check.bom
          /\ n.touched = check.touched /\ n.ambiguous = check.ambiguous
          /\ n.data = D.ids /\ n.order = check.order /\ n.uris = check.uris
      BY <3>1
    <3>3. CheckShape(n)
      BY <1>1, <2>1, <3>1, <3>2 DEF CheckShape, CheckPlaces, AfterUnique, AfterUris
    <3>4. ~ check.touched => Found(n, R, D, O, L, R2, D2, O2, L2)
      BY <1>2, <2>1, <2>2, <3>2 DEF Found, AfterUnique, AfterUris
    <3> QED BY <1>3, <2>1, <3>2, <3>3, <3>4 DEF n
  <2>3. CASE ~ passes
    <3>1. ~ check.touched => ~ Matching(check, R, D, O, L, R2, D2, O2, L2)
      BY <1>2, <2>1, <2>3 DEF Found, Matching, AfterUnique, AfterUris
    <3> QED BY <1>3, <1>5, <2>1, <2>3, <3>1
  <2> QED BY <2>2, <2>3
<1>7. CASE ResolveUnique
  <2> DEFINE passes == D.file # "torn" /\ Unique(D.ids)
  <2>1. /\ check.pc = "unique" /\ UNCHANGED <<vars, locators, mirror>>
        /\ check' = IF passes THEN [check EXCEPT !.pc = "order"]
                             ELSE [check EXCEPT !.pc = "failed"]
    BY <1>7 DEF ResolveUnique, Reads, D
  <2>2. CASE passes
    <3> DEFINE n == check'
    <3>1. n = [pc |-> "order", bom |-> check.bom, ambiguous |-> check.ambiguous,
               data |-> check.data, order |-> check.order, uris |-> check.uris,
               touched |-> check.touched, known |-> check.known, asOf |-> check.asOf]
      BY <1>1, <2>1, <2>2 DEF CheckShape
    <3> HIDE DEF n
    <3>2. /\ n.pc = "order" /\ n.bom = check.bom
          /\ n.touched = check.touched /\ n.ambiguous = check.ambiguous
          /\ n.data = check.data /\ n.order = check.order /\ n.uris = check.uris
      BY <3>1
    <3>3. CheckShape(n)
      BY <1>1, <2>1, <3>1, <3>2 DEF CheckShape, CheckPlaces, AfterUnique, AfterUris
    <3>4. ~ check.touched => Found(n, R, D, O, L, R2, D2, O2, L2)
      BY <1>2, <2>1, <2>2, <3>2 DEF Found, AfterUnique, AfterUris, Unique, InList
    <3> QED BY <1>3, <2>1, <3>2, <3>3, <3>4 DEF n
  <2>3. CASE ~ passes
    <3>1. ~ check.touched => ~ Matching(check, R, D, O, L, R2, D2, O2, L2)
      BY <1>2, <2>1, <2>3 DEF Found, Matching, AfterUnique, AfterUris, Unique, InList
    <3> QED BY <1>3, <1>5, <2>1, <2>3, <3>1
  <2> QED BY <2>2, <2>3
<1>8. CASE LookupByOrder
  <2> DEFINE passes == O.file # "torn"
  <2>1. /\ check.pc = "order" /\ UNCHANGED <<vars, locators, mirror>>
        /\ check' = IF passes THEN [check EXCEPT !.pc = "uris", !.order = O.ids]
                             ELSE [check EXCEPT !.pc = "failed"]
    BY <1>8 DEF LookupByOrder, Reads, O
  <2>2. CASE passes
    <3> DEFINE n == check'
    <3>1. n = [pc |-> "uris", bom |-> check.bom, ambiguous |-> check.ambiguous,
               data |-> check.data, order |-> O.ids, uris |-> check.uris,
               touched |-> check.touched, known |-> check.known, asOf |-> check.asOf]
      BY <1>1, <2>1, <2>2 DEF CheckShape
    <3> HIDE DEF n
    <3>2. /\ n.pc = "uris" /\ n.bom = check.bom
          /\ n.touched = check.touched /\ n.ambiguous = check.ambiguous
          /\ n.data = check.data /\ n.order = O.ids /\ n.uris = check.uris
      BY <3>1
    <3>3. CheckShape(n)
      BY <1>1, <2>1, <3>1, <3>2 DEF CheckShape, CheckPlaces, AfterUnique, AfterUris
    <3>4. ~ check.touched => Found(n, R, D, O, L, R2, D2, O2, L2)
      BY <1>2, <2>1, <2>2, <3>2 DEF Found, AfterUnique, AfterUris
    <3> QED BY <1>3, <2>1, <3>2, <3>3, <3>4 DEF n
  <2>3. CASE ~ passes
    <3>1. ~ check.touched => ~ Matching(check, R, D, O, L, R2, D2, O2, L2)
      BY <1>2, <2>1, <2>3 DEF Found, Matching, AfterUnique, AfterUris
    <3> QED BY <1>3, <1>5, <2>1, <2>3, <3>1
  <2> QED BY <2>2, <2>3
<1>9. CASE LookupUris
  <2> DEFINE passes == L.file # "torn"
  <2>1. /\ check.pc = "uris" /\ UNCHANGED <<vars, locators, mirror>>
        /\ check' = IF passes THEN [check EXCEPT !.pc = "get_bom", !.uris = Range(L.ids)]
                             ELSE [check EXCEPT !.pc = "failed"]
    BY <1>9 DEF LookupUris, Reads, L
  <2>2. CASE passes
    <3> DEFINE n == check'
    <3>1. n = [pc |-> "get_bom", bom |-> check.bom, ambiguous |-> check.ambiguous,
               data |-> check.data, order |-> check.order, uris |-> Range(L.ids),
               touched |-> check.touched, known |-> check.known, asOf |-> check.asOf]
      BY <1>1, <2>1, <2>2 DEF CheckShape
    <3> HIDE DEF n
    <3>2. /\ n.pc = "get_bom" /\ n.bom = check.bom
          /\ n.touched = check.touched /\ n.ambiguous = check.ambiguous
          /\ n.data = check.data /\ n.order = check.order /\ n.uris = Range(L.ids)
      BY <3>1
    <3>3. CheckShape(n)
      BY <1>1, <2>1, <3>1, <3>2 DEF CheckShape, CheckPlaces, AfterUnique, AfterUris
    <3>4. ~ check.touched => Found(n, R, D, O, L, R2, D2, O2, L2)
      BY <1>2, <2>1, <2>2, <3>2 DEF Found, AfterUnique, AfterUris
    <3> QED BY <1>3, <2>1, <3>2, <3>3, <3>4 DEF n
  <2>3. CASE ~ passes
    <3>1. ~ check.touched => ~ Matching(check, R, D, O, L, R2, D2, O2, L2)
      BY <1>2, <2>1, <2>3 DEF Found, Matching, AfterUnique, AfterUris
    <3> QED BY <1>3, <1>5, <2>1, <2>3, <3>1
  <2> QED BY <2>2, <2>3
<1>10. CASE GetBom
  <2> DEFINE passes == R2 = "whole"
  <2>1. /\ check.pc = "get_bom" /\ UNCHANGED <<vars, locators, mirror>>
        /\ check' = IF passes THEN [check EXCEPT !.pc = "get_data"]
                             ELSE [check EXCEPT !.pc = "failed"]
    BY <1>10 DEF GetBom, Reads, R2
  <2>2. CASE passes
    <3> DEFINE n == check'
    <3>1. n = [pc |-> "get_data", bom |-> check.bom, ambiguous |-> check.ambiguous,
               data |-> check.data, order |-> check.order, uris |-> check.uris,
               touched |-> check.touched, known |-> check.known, asOf |-> check.asOf]
      BY <1>1, <2>1, <2>2 DEF CheckShape
    <3> HIDE DEF n
    <3>2. /\ n.pc = "get_data" /\ n.bom = check.bom
          /\ n.touched = check.touched /\ n.ambiguous = check.ambiguous
          /\ n.data = check.data /\ n.order = check.order /\ n.uris = check.uris
      BY <3>1
    <3>3. CheckShape(n)
      BY <1>1, <2>1, <3>1, <3>2 DEF CheckShape, CheckPlaces, AfterUnique, AfterUris
    <3>4. ~ check.touched => Found(n, R, D, O, L, R2, D2, O2, L2)
      BY <1>2, <2>1, <2>2, <3>2 DEF Found, AfterUnique, AfterUris
    <3> QED BY <1>3, <2>1, <3>2, <3>3, <3>4 DEF n
  <2>3. CASE ~ passes
    <3>1. ~ check.touched => ~ Matching(check, R, D, O, L, R2, D2, O2, L2)
      BY <1>2, <2>1, <2>3 DEF Found, Matching, AfterUnique, AfterUris
    <3> QED BY <1>3, <1>5, <2>1, <2>3, <3>1
  <2> QED BY <2>2, <2>3
<1>11. CASE GetByData
  <2> DEFINE passes == SameList(D2, check.data)
  <2>1. /\ check.pc = "get_data" /\ UNCHANGED <<vars, locators, mirror>>
        /\ check' = IF passes THEN [check EXCEPT !.pc = "get_order", !.asOf = ListedAsOf(OrderKey)]
                             ELSE [check EXCEPT !.pc = "failed"]
    BY <1>11 DEF GetByData, Reads, D2
  <2>2. CASE passes
    <3> DEFINE n == check'
    <3>1. n = [pc |-> "get_order", bom |-> check.bom, ambiguous |-> check.ambiguous,
               data |-> check.data, order |-> check.order, uris |-> check.uris,
               touched |-> check.touched, known |-> check.known, asOf |-> ListedAsOf(OrderKey)]
      BY <1>1, <2>1, <2>2 DEF CheckShape
    <3> HIDE DEF n
    <3>2. /\ n.pc = "get_order" /\ n.bom = check.bom
          /\ n.touched = check.touched /\ n.ambiguous = check.ambiguous
          /\ n.data = check.data /\ n.order = check.order /\ n.uris = check.uris
      BY <3>1
    <3>3. CheckShape(n)
      BY <1>1, <2>1, <3>1, <3>2 DEF CheckShape, CheckPlaces, AfterUnique, AfterUris
    <3>4. ~ check.touched => Found(n, R, D, O, L, R2, D2, O2, L2)
      BY <1>2, <2>1, <2>2, <3>2 DEF Found, AfterUnique, AfterUris, SameList
    <3> QED BY <1>3, <2>1, <3>2, <3>3, <3>4 DEF n
  <2>3. CASE ~ passes
    <3>1. ~ check.touched => ~ Matching(check, R, D, O, L, R2, D2, O2, L2)
      BY <1>2, <2>1, <2>3 DEF Found, Matching, AfterUnique, AfterUris, SameList
    <3> QED BY <1>3, <1>5, <2>1, <2>3, <3>1
  <2> QED BY <2>2, <2>3
<1>12. CASE GetByOrder
  <2> DEFINE passes == SameList(O2, check.order) /\ InList(check.bom, check.order)
  <2>1. /\ check.pc = "get_order" /\ UNCHANGED <<vars, locators, mirror>>
        /\ check' = IF passes THEN [check EXCEPT !.pc = "get_uris"]
                             ELSE [check EXCEPT !.pc = "failed"]
    BY <1>12 DEF GetByOrder, Reads, O2
  <2>2. CASE passes
    <3> DEFINE n == check'
    <3>1. n = [pc |-> "get_uris", bom |-> check.bom, ambiguous |-> check.ambiguous,
               data |-> check.data, order |-> check.order, uris |-> check.uris,
               touched |-> check.touched, known |-> check.known, asOf |-> check.asOf]
      BY <1>1, <2>1, <2>2 DEF CheckShape
    <3> HIDE DEF n
    <3>2. /\ n.pc = "get_uris" /\ n.bom = check.bom
          /\ n.touched = check.touched /\ n.ambiguous = check.ambiguous
          /\ n.data = check.data /\ n.order = check.order /\ n.uris = check.uris
      BY <3>1
    <3>3. CheckShape(n)
      BY <1>1, <2>1, <3>1, <3>2 DEF CheckShape, CheckPlaces, AfterUnique, AfterUris
    <3>4. ~ check.touched => Found(n, R, D, O, L, R2, D2, O2, L2)
      BY <1>2, <2>1, <2>2, <3>2 DEF Found, AfterUnique, AfterUris, SameList
    <3> QED BY <1>3, <2>1, <3>2, <3>3, <3>4 DEF n
  <2>3. CASE ~ passes
    <3>1. ~ check.touched => ~ Matching(check, R, D, O, L, R2, D2, O2, L2)
      BY <1>2, <2>1, <2>3 DEF Found, Matching, AfterUnique, AfterUris, SameList
    <3> QED BY <1>3, <1>5, <2>1, <2>3, <3>1
  <2> QED BY <2>2, <2>3
<1>13. CASE GetByContent
  <2> DEFINE passes == L2.file = "whole" /\ Range(L2.ids) = check.uris
  <2>1. /\ check.pc = "get_uris" /\ UNCHANGED <<vars, locators, mirror>>
        /\ check' = IF passes THEN [check EXCEPT !.pc = "ok"]
                             ELSE [check EXCEPT !.pc = "failed"]
    BY <1>13 DEF GetByContent, Reads, L2
  <2>2. CASE passes
    <3> DEFINE n == check'
    <3>1. n = [pc |-> "ok", bom |-> check.bom, ambiguous |-> check.ambiguous,
               data |-> check.data, order |-> check.order, uris |-> check.uris,
               touched |-> check.touched, known |-> check.known, asOf |-> check.asOf]
      BY <1>1, <2>1, <2>2 DEF CheckShape
    <3> HIDE DEF n
    <3>2. /\ n.pc = "ok" /\ n.bom = check.bom
          /\ n.touched = check.touched /\ n.ambiguous = check.ambiguous
          /\ n.data = check.data /\ n.order = check.order /\ n.uris = check.uris
      BY <3>1
    <3>3. CheckShape(n)
      BY <1>1, <2>1, <3>1, <3>2 DEF CheckShape, CheckPlaces, AfterUnique, AfterUris
    <3>4. ~ check.touched => Found(n, R, D, O, L, R2, D2, O2, L2)
      BY <1>2, <2>1, <2>2, <3>2 DEF Found, AfterUnique, AfterUris
    <3> QED BY <1>3, <2>1, <3>2, <3>3, <3>4 DEF n
  <2>3. CASE ~ passes
    <3>1. ~ check.touched => ~ Matching(check, R, D, O, L, R2, D2, O2, L2)
      BY <1>2, <2>1, <2>3 DEF Found, Matching, AfterUnique, AfterUris
    <3> QED BY <1>3, <1>5, <2>1, <2>3, <3>1
  <2> QED BY <2>2, <2>3
<1> QED BY <1>4, <1>6, <1>7, <1>8, <1>9, <1>10, <1>11, <1>12, <1>13 DEF Checks

\* A registration leaves the check as it is, or notes that what it is about changed.
LEMMA TouchStep ==
    ASSUME CheckInv, Touching, UNCHANGED mirror PROVE CheckInv'
<1> DEFINE changed == check.bom \in Boms /\ FilesOf'[check.bom] # FilesOf[check.bom]
           n == check'
<1>1. CheckShape(check)
  BY DEF CheckInv
<1>2. n = [pc |-> check.pc, bom |-> check.bom, ambiguous |-> check.ambiguous,
           data |-> check.data, order |-> check.order, uris |-> check.uris,
           touched |-> check.touched \/ changed, known |-> check.known, asOf |-> check.asOf]
  BY <1>1 DEF Touching, CheckShape
<1> HIDE DEF n, changed
<1>3. /\ n.pc = check.pc /\ n.bom = check.bom /\ n.ambiguous = check.ambiguous
      /\ n.data = check.data /\ n.order = check.order /\ n.uris = check.uris
      /\ n.touched = (check.touched \/ changed)
  BY <1>2
<1>4. CheckShape(n)
  BY <1>1, <1>2, <1>3 DEF CheckShape
<1>5. CASE check.pc = "idle"
  BY <1>3, <1>4, <1>5 DEF CheckInv, n
<1>6. CASE n.touched
  BY <1>4, <1>6 DEF CheckInv, n
<1>7. CASE check.pc # "idle" /\ ~ n.touched
  <2>1. ~ check.touched /\ ~ changed /\ check.bom \in Boms
    BY <1>1, <1>3, <1>7 DEF CheckShape
  <2> DEFINE b == check.bom
  <2>2. FilesOf'[b] = FilesOf[b]
    BY <2>1 DEF changed
  <2>3. /\ FilesOf[b] = <<record[b], index[DataOf[b]], index[OrderOf[b]], locators[DataOf[b]]>>
        /\ FilesOf'[b] = <<record'[b], index'[DataOf[b]], index'[OrderOf[b]],
                           locators'[DataOf[b]]>>
    BY <2>1 DEF FilesOf
  <2>4. /\ record'[b] = record[b] /\ index'[DataOf[b]] = index[DataOf[b]]
        /\ index'[OrderOf[b]] = index[OrderOf[b]]
        /\ locators'[DataOf[b]] = locators[DataOf[b]]
    BY <2>2, <2>3
  <2>5. /\ DataKey' = DataOf[b] /\ DataKey = DataOf[b]
        /\ OrderKey' = OrderOf[b] /\ OrderKey = OrderOf[b]
    BY <1>3 DEF DataKey, OrderKey, n
  <2>6. /\ Served'.record[b] = Served.record[b] /\ Served'.index[DataKey'] = Served.index[DataKey]
        /\ Served'.index[OrderKey'] = Served.index[OrderKey]
        /\ Served'.locators[DataKey'] = Served.locators[DataKey]
    BY <2>4, <2>5 DEF Served, Home
  <2>7. Found(check, record[b], index[DataKey], index[OrderKey], locators[DataKey],
              Served.record[b], Served.index[DataKey], Served.index[OrderKey],
              Served.locators[DataKey])
    BY <1>7, <2>1 DEF CheckInv
  <2>8. Found(n, record[b], index[DataKey], index[OrderKey], locators[DataKey],
              Served.record[b], Served.index[DataKey], Served.index[OrderKey],
              Served.locators[DataKey])
    BY <1>3, <2>7 DEF Found, Matching
  <2>9. Found(n, record'[n.bom], index'[DataKey'], index'[OrderKey'], locators'[DataKey'],
              Served'.record[n.bom], Served'.index[DataKey'], Served'.index[OrderKey'],
              Served'.locators[DataKey'])
    BY <1>3, <2>4, <2>5, <2>6, <2>8
  <2> QED BY <1>4, <2>9 DEF CheckInv, n
<1> QED BY <1>5, <1>6, <1>7

\* When nothing that concerns the BOM is written while the check runs, it passes if
\* and only if the two homes agree, whatever they hold by then
\* (assert_registry_index_parity): a read that raises has seen what does not agree,
\* and what a read has found is still there at the end.
THEOREM ParityIsExact == ParitySpec => []ParityExact
<1>1. CheckInv => ParityExact
  <2> SUFFICES ASSUME CheckInv, check.pc \in {"ok", "failed"}, ~ check.touched
               PROVE  check.pc = "ok" <=> Agree
    BY DEF ParityExact
  <2> DEFINE R == record[check.bom]           R2 == Served.record[check.bom]
             D == index[DataKey]              D2 == Served.index[DataKey]
             O == index[OrderKey]             O2 == Served.index[OrderKey]
             L == locators[DataKey]           L2 == Served.locators[DataKey]
  <2>1. Found(check, R, D, O, L, R2, D2, O2, L2)
    BY DEF CheckInv
  <2>2. Agree <=> Matching(check, R, D, O, L, R2, D2, O2, L2)
    BY AgreeMatches
  <2> HIDE DEF R, R2, D, D2, O, O2, L, L2
  <2>3. check.pc = "ok" => Matching(check, R, D, O, L, R2, D2, O2, L2)
    BY <2>1 DEF Found, Matching, AfterUnique, AfterUris
  <2>4. check.pc = "failed" => ~ Matching(check, R, D, O, L, R2, D2, O2, L2)
    BY <2>1 DEF Found
  <2> QED BY <2>2, <2>3, <2>4
<1>2. CheckInv /\ [ParityNext]_parityVars => CheckInv'
  <2> SUFFICES ASSUME CheckInv, [ParityNext]_parityVars PROVE CheckInv'
    OBVIOUS
  <2>1. CASE \E w \in Writers : Registers(w) /\ Touching /\ UNCHANGED mirror
    BY <2>1, TouchStep
  <2>2. CASE NodeDies /\ Surviving
    <3>1. PICK pc \in {check.pc, IF Ended THEN check.pc ELSE "failed"} :
             check' = [check EXCEPT !.touched = TRUE, !.pc = pc]
      BY <2>2 DEF Surviving
    <3> DEFINE n == check'
    <3>2. n = [pc |-> pc, bom |-> check.bom, ambiguous |-> check.ambiguous,
               data |-> check.data, order |-> check.order, uris |-> check.uris,
               touched |-> TRUE, known |-> check.known, asOf |-> check.asOf]
      BY <3>1 DEF CheckInv, CheckShape
    <3> HIDE DEF n
    <3>3. n.pc = pc /\ n.bom = check.bom /\ n.touched = TRUE
      BY <3>2
    <3>4. pc \in CheckPlaces /\ (pc # "idle" => check.bom \in Boms)
      BY <3>1 DEF CheckInv, CheckShape, CheckPlaces, Ended
    <3>5. CheckShape(n)
      BY <3>2, <3>3, <3>4 DEF CheckShape
    <3> QED BY <3>3, <3>5 DEF CheckInv, n
  <2>3. CASE CopyHome
    <3>1. check' = check /\ check.pc = "idle" /\ CheckShape(check)
      BY <2>3 DEF CopyHome, CheckInv
    <3>2. check'.pc = "idle" /\ CheckShape(check')
      BY <3>1
    <3> QED BY <3>2 DEF CheckInv
  <2>4. CASE Checks
    BY <2>4, ChecksStep
  <2>5. CASE UNCHANGED parityVars
    <3>1. /\ record' = record /\ index' = index /\ locators' = locators
          /\ check' = check /\ Served' = Served /\ DataKey' = DataKey /\ OrderKey' = OrderKey
      BY <2>5 DEF parityVars, vars, Served, Home, DataKey, OrderKey
    <3> QED BY <3>1 DEF CheckInv
  <2> QED BY <2>1, <2>2, <2>3, <2>4, <2>5 DEF ParityNext
<1> QED BY CheckInit, <1>1, <1>2, PTL DEF ParitySpec
==============================================================================
