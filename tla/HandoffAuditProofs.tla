-------------------------- MODULE HandoffAuditProofs --------------------------
(***************************************************************************)
(* The audits of a hand-off for every set of executions, whatever Orders,  *)
(* data, Functions and Structures they share, and every number of faults.  *)
(***************************************************************************)
EXTENDS HandoffAudit, FiniteSetTheorems, SequenceTheorems, TLAPS

\* The documents of an execution that refer to others.
Nodes(r) ==
    {Bom(r), Invoice(r), Doc("order", OrderOf[r]), Doc("data_stages", r),
     Doc("structure_as_executed", r), Doc("runtime_sbom", r),
     Doc("function", FunctionOf[OrderOf[r]]), Doc("structure", StructureOf[OrderOf[r]]),
     Doc("input_invoice", OrderOf[r]), Doc("input_data_sbom", OrderOf[r]),
     Doc("infrastructure_as_executed", r)}

------------------------------------------------------------------------------
(***************************************************************************)
(* Documents                                                               *)
(***************************************************************************)
LEMMA DocFields ==
    ASSUME NEW kind, NEW of
    PROVE  Doc(kind, of).kind = kind /\ Doc(kind, of).of = of
BY DEF Doc

LEMMA UriFields ==
    ASSUME NEW path, NEW id
    PROVE  /\ URI(path, id).path = path /\ URI(path, id).id = id
           /\ Cas(id) = URI("cas", id)
BY DEF URI, Cas

LEMMA UriEqual ==
    ASSUME NEW p, NEW q, NEW a, NEW b, URI(p, a) = URI(q, b)
    PROVE  p = q /\ a = b
BY UriFields

LEMMA DocEqual ==
    ASSUME NEW p, NEW q, NEW a, NEW b, Doc(p, a) = Doc(q, b)
    PROVE  p = q /\ a = b
BY DocFields

\* What each slot of each document refers to.
LEMMA EnvelopeTargets ==
    ASSUME NEW r
    PROVE  /\ Target(Bom(r), "invoice") = Invoice(r)
           /\ Target(Bom(r), "log") = Doc("log", r)
           /\ Target(Invoice(r), "order") = Doc("order", OrderOf[r])
           /\ Target(Invoice(r), "data") = Doc("data", DataOf[r])
           /\ Target(Invoice(r), "data_stages") = Doc("data_stages", r)
           /\ Target(Invoice(r), "seed") = Doc("seed", r)
           /\ Target(Invoice(r), "structure_as_executed") = Doc("structure_as_executed", r)
           /\ Target(Invoice(r), "runtime_sbom") = Doc("runtime_sbom", r)
BY DEF Target, Doc, Bom, Invoice

LEMMA OrderTargets ==
    ASSUME NEW o
    PROVE  /\ Target(Doc("order", o), "function") = Doc("function", FunctionOf[o])
           /\ Target(Doc("order", o), "structure") = Doc("structure", StructureOf[o])
           /\ Target(Doc("order", o), "invoice") = Doc("input_invoice", o)
           /\ Target(Doc("input_invoice", o), "data") = Doc("data", InputOf[o])
BY DEF Target, Doc

LEMMA StageTargets ==
    ASSUME NEW r
    PROVE  /\ Target(Doc("data_stages", r), "egressed_data") = Doc("data", DataOf[r])
           /\ Target(Doc("data_stages", r), "integrated_data") =
                Doc("integrated_data", DataOf[r])
           /\ Target(Doc("data_stages", r), "ingressed_data") =
                Doc("data", InputOf[OrderOf[r]])
BY DEF Target, Doc

\* Other documents own what they refer to.
LEMMA PartTargets ==
    ASSUME NEW w, NEW kind,
           NEW s \in FunctionSlots \cup StructureSlots \cup OrderSboms
                     \cup {"plant_as_executed", "infrastructure_as_executed",
                           "object_store_as_executed", "cyclonedx", "syft", "dcat", "spdx"}
    PROVE  Target(Doc(kind, w), s) = Doc(s, w)
BY DEF Target, Doc, FunctionSlots, StructureSlots, OrderSboms

LEMMA SlotTable ==
    /\ Slots("bom") = {"invoice", "log"}
    /\ Slots("invoice") = {"order", "data", "data_stages", "seed",
                           "structure_as_executed", "runtime_sbom"}
    /\ Slots("data_stages") = StageSlots
    /\ Slots("order") = {"function", "structure", "invoice"} \cup OrderSboms
    /\ Slots("input_invoice") = {"data"}
    /\ Slots("function") = FunctionSlots
    /\ Slots("structure") = StructureSlots
    /\ Slots("structure_as_executed") = {"plant_as_executed", "infrastructure_as_executed"}
    /\ Slots("infrastructure_as_executed") = {"object_store_as_executed"}
    /\ Slots("runtime_sbom") = {"cyclonedx", "syft"}
    /\ Slots("input_data_sbom") = {"dcat", "spdx"}
    /\ \A k \in {"log", "data", "integrated_data", "seed", "cyclonedx", "syft", "dcat", "spdx",
                 "plant_as_executed", "object_store_as_executed", "function_sbom",
                 "structure_sbom", "missing"} \cup FunctionSlots \cup StructureSlots :
         Slots(k) = {}
BY DEF Slots, FunctionSlots, StructureSlots

LEMMA SlotIs ==
    ASSUME NEW id, NEW s
    PROVE  /\ s \in Slots(id.kind) =>
                Slot(id, s) = URI(IF id.kind = "bom" /\ s = "invoice" THEN "invoices"
                                  ELSE "cas", Target(id, s))
           /\ s \notin Slots(id.kind) => Slot(id, s) = None
BY DEF Slot

LEMMA OwnersOf ==
    ASSUME NEW r \in Runs
    PROVE  /\ {"missing", r, OrderOf[r], DataOf[r]} \subseteq Owners
           /\ InputOf[OrderOf[r]] \in Owners /\ FunctionOf[OrderOf[r]] \in Owners
           /\ StructureOf[OrderOf[r]] \in Owners
<1>1. OrderOf[r] \in Orders
  BY DEF Orders
<1> QED BY <1>1 DEF Owners

\* A document of an execution refers to documents with an owner, and to no
\* others that refer to more than those.
SlotGood(r, d, s) ==
    /\ Target(d, s) \in Ids /\ Target(d, s).kind # "missing"
    /\ Target(d, s) \in Nodes(r) \/ Slots(Target(d, s).kind) = {}

LeafKinds ==
    {"log", "data", "integrated_data", "seed", "cyclonedx", "syft", "dcat", "spdx",
     "plant_as_executed", "object_store_as_executed", "function_sbom", "structure_sbom"}
        \cup FunctionSlots \cup StructureSlots

LEMMA LeafGood ==
    ASSUME NEW r, NEW d, NEW s, NEW k \in LeafKinds, NEW w \in Owners,
           Target(d, s) = Doc(k, w)
    PROVE  SlotGood(r, d, s)
<1>1. k \in Kinds /\ k # "missing"
  BY DEF LeafKinds, Kinds, FunctionSlots, StructureSlots, OrderSboms
<1>2. Slots(k) = {}
  BY SlotTable DEF LeafKinds
<1> QED BY <1>1, <1>2, DocFields DEF SlotGood, Ids, Doc

LEMMA NodeGood ==
    ASSUME NEW r, NEW d, NEW s, NEW w \in Owners,
           NEW k \in {"invoice", "order", "data_stages", "structure_as_executed", "function",
                      "runtime_sbom", "structure", "input_invoice", "input_data_sbom",
                      "infrastructure_as_executed"},
           Target(d, s) = Doc(k, w), Doc(k, w) \in Nodes(r)
    PROVE  SlotGood(r, d, s)
<1>1. k \in Kinds /\ k # "missing"
  BY DEF Kinds, OrderSboms
<1> QED BY <1>1, DocFields DEF SlotGood, Ids, Doc

LEMMA NodeSlots ==
    ASSUME NEW r \in Runs, NEW d \in Nodes(r), NEW s \in Slots(d.kind)
    PROVE  SlotGood(r, d, s)
<1> DEFINE o == OrderOf[r]
<1> HIDE DEF o
<1>0. /\ "missing" \in Owners /\ r \in Owners /\ o \in Owners /\ DataOf[r] \in Owners
      /\ InputOf[o] \in Owners /\ FunctionOf[o] \in Owners /\ StructureOf[o] \in Owners
  BY OwnersOf DEF o
<1>1. CASE d = Bom(r)
  <2>1. s \in {"invoice", "log"}
    BY <1>1, SlotTable, DocFields DEF Bom
  <2>2. CASE s = "invoice"
    BY <1>0, <1>1, <2>2, EnvelopeTargets, NodeGood DEF Nodes, Invoice
  <2>3. CASE s = "log"
    BY <1>0, <1>1, <2>3, EnvelopeTargets, LeafGood DEF LeafKinds
  <2> QED BY <2>1, <2>2, <2>3
<1>2. CASE d = Invoice(r)
  <2>1. s \in {"order", "data", "data_stages", "seed", "structure_as_executed", "runtime_sbom"}
    BY <1>2, SlotTable, DocFields DEF Invoice
  <2>2. CASE s \in {"data", "seed"}
    BY <1>0, <1>2, <2>2, EnvelopeTargets, LeafGood DEF LeafKinds
  <2>3. CASE s = "order"
    BY <1>0, <1>2, <2>3, EnvelopeTargets, NodeGood DEF Nodes, o
  <2>4. CASE s \in {"data_stages", "structure_as_executed", "runtime_sbom"}
    BY <1>0, <1>2, <2>4, EnvelopeTargets, NodeGood DEF Nodes
  <2> QED BY <2>1, <2>2, <2>3, <2>4
<1>3. CASE d = Doc("order", o)
  <2>1. s \in {"function", "structure", "invoice"} \cup OrderSboms
    BY <1>3, SlotTable, DocFields
  <2>2. CASE s \in {"function_sbom", "structure_sbom"}
    BY <1>0, <1>3, <2>2, PartTargets, LeafGood DEF LeafKinds, OrderSboms
  <2>3. CASE s = "input_data_sbom"
    BY <1>0, <1>3, <2>3, PartTargets, NodeGood DEF Nodes, o, OrderSboms
  <2>4. CASE s \in {"function", "structure", "invoice"}
    BY <1>0, <1>3, <2>4, OrderTargets, NodeGood DEF Nodes, o
  <2> QED BY <2>1, <2>2, <2>3, <2>4 DEF OrderSboms
<1>4. CASE d = Doc("data_stages", r)
  <2>1. s \in StageSlots
    BY <1>4, SlotTable, DocFields
  <2> QED BY <1>0, <1>4, <2>1, StageTargets, LeafGood DEF LeafKinds, StageSlots, o
<1>5. CASE d = Doc("input_invoice", o)
  <2>1. s = "data"
    BY <1>5, SlotTable, DocFields
  <2> QED BY <1>0, <1>5, <2>1, OrderTargets, LeafGood DEF LeafKinds
<1>6. CASE d = Doc("structure_as_executed", r)
  <2>1. s \in {"plant_as_executed", "infrastructure_as_executed"}
    BY <1>6, SlotTable, DocFields
  <2>2. Target(d, s) = Doc(s, r)
    BY <1>6, <2>1, PartTargets
  <2> QED BY <1>0, <2>1, <2>2, LeafGood, NodeGood DEF LeafKinds, Nodes
<1>7. CASE d \in {Doc("runtime_sbom", r), Doc("infrastructure_as_executed", r),
                  Doc("input_data_sbom", o)}
  <2>1. s \in {"object_store_as_executed", "cyclonedx", "syft", "dcat", "spdx"}
    BY <1>7, SlotTable, DocFields
  <2>2. \E w \in Owners : Target(d, s) = Doc(s, w)
    BY <1>0, <1>7, <2>1, PartTargets
  <2> QED BY <2>1, <2>2, LeafGood DEF LeafKinds
<1>8. CASE d \in {Doc("function", FunctionOf[o]), Doc("structure", StructureOf[o])}
  <2>1. s \in FunctionSlots \cup StructureSlots
    BY <1>8, SlotTable, DocFields
  <2>2. \E w \in Owners : Target(d, s) = Doc(s, w)
    BY <1>0, <1>8, <2>1, PartTargets
  <2> QED BY <2>1, <2>2, LeafGood DEF LeafKinds
<1> QED BY <1>1, <1>2, <1>3, <1>4, <1>5, <1>6, <1>7, <1>8 DEF Nodes, o

LEMMA NodeUris ==
    ASSUME NEW r \in Runs, NEW d \in Nodes(r), NEW s \in Slots(d.kind)
    PROVE  /\ Slot(d, s) # None /\ Slot(d, s).id = Target(d, s)
           /\ Slot(d, s) = URI(Slot(d, s).path, Target(d, s))
           /\ Slot(d, s).path \in {"cas", "invoices"}
           /\ Target(d, s) # Missing
<1>1. Target(d, s) \in Ids /\ Target(d, s).kind # "missing"
  BY NodeSlots DEF SlotGood
<1>2. PICK p \in {"cas", "invoices"} : Slot(d, s) = URI(p, Target(d, s))
  BY SlotIs
<1>3. URI(p, Target(d, s)) \in Uri
  BY <1>1 DEF URI, Uri, Paths
<1> QED BY <1>1, <1>2, <1>3, UriFields, NoneAssumption, DocFields DEF Missing

------------------------------------------------------------------------------
(***************************************************************************)
(* What can be reached from a BOM                                          *)
(***************************************************************************)
Root(r)   == URI("boms", Bom(r))
Linked(r) == {Root(r)} \cup UNION {Uris(d) : d \in Nodes(r)}

LEMMA BelowLinked ==
    ASSUME NEW r \in Runs, NEW U \in SUBSET Linked(r)
    PROVE  Below(U) \in SUBSET Linked(r)
<1> SUFFICES ASSUME NEW u \in U, NEW v \in Uris(u.id)
             PROVE  v \in Linked(r)
  BY DEF Below
<1>1. CASE u = Root(r)
  BY <1>1, UriFields DEF Root, Linked, Nodes
<1>2. CASE u # Root(r)
  <2>0. PICK d \in Nodes(r) : u \in Uris(d)
    BY <1>2 DEF Linked
  <2>1. PICK s \in Slots(d.kind) : u = Slot(d, s)
    BY <2>0 DEF Uris
  <2>2. u.id = Target(d, s)
    BY <2>1, NodeUris
  <2>3. Slots(u.id.kind) # {}
    BY DEF Uris
  <2>4. u.id \in Nodes(r)
    BY <2>2, <2>3, NodeSlots DEF SlotGood
  <2> QED BY <2>4 DEF Linked
<1> QED BY <1>1, <1>2

LEMMA BelowHas ==
    ASSUME NEW U, NEW u \in U, NEW s \in Slots(u.id.kind)
    PROVE  U \in SUBSET Below(U) /\ Slot(u.id, s) \in Below(U)
BY DEF Below, Uris

LEMMA ChainLinked ==
    ASSUME NEW r \in Runs
    PROVE  Chain[r] \in SUBSET Linked(r)
<1>1. {Root(r)} \in SUBSET Linked(r)
  BY DEF Linked
<1>2. Below({Root(r)}) \in SUBSET Linked(r)
  BY <1>1, BelowLinked
<1>3. Below(Below({Root(r)})) \in SUBSET Linked(r)
  BY <1>2, BelowLinked
<1>4. Below(Below(Below({Root(r)}))) \in SUBSET Linked(r)
  BY <1>3, BelowLinked
<1>5. Below(Below(Below(Below({Root(r)})))) \in SUBSET Linked(r)
  BY <1>4, BelowLinked
<1> QED BY <1>5 DEF Chain, Root

\* Four levels are enough to reach every document that refers to others, and
\* what it refers to.
LEMMA ChainHas ==
    ASSUME NEW r \in Runs
    PROVE  /\ Root(r) \in Chain[r]
           /\ \A d \in Nodes(r) : \A s \in Slots(d.kind) : Slot(d, s) \in Chain[r]
<1> DEFINE L0 == {Root(r)}
           L1 == Below(L0)
           L2 == Below(L1)
           L3 == Below(L2)
           L4 == Below(L3)
           o  == OrderOf[r]
           Reaches(L, d) == \E u \in L : u.id = d
<1>0. Chain[r] = L4
  BY DEF Chain, Root
<1>1. ASSUME NEW L, NEW d, Reaches(L, d), NEW s \in Slots(d.kind)
      PROVE  Slot(d, s) \in Below(L)
  BY <1>1, BelowHas
<1>2. /\ \A u \in L0 : u \in L1
      /\ \A u \in L1 : u \in L2
      /\ \A u \in L2 : u \in L3
      /\ \A u \in L3 : u \in L4
  BY DEF Below
<1> HIDE DEF L1, L2, L3, L4, o
<1>3. Reaches(L0, Bom(r))
  BY UriFields DEF Root
<1>4. Reaches(L1, Invoice(r))
  <2>1. Slot(Bom(r), "invoice") \in L1 /\ Slot(Bom(r), "invoice").id = Invoice(r)
    BY <1>1, <1>3, SlotTable, DocFields, NodeUris, EnvelopeTargets DEF L1, Bom, Nodes
  <2> QED BY <2>1
<1>5. \A s \in {"order", "data_stages", "structure_as_executed", "runtime_sbom"} :
         Reaches(L2, Target(Invoice(r), s))
  <2> TAKE s \in {"order", "data_stages", "structure_as_executed", "runtime_sbom"}
  <2>1. Slot(Invoice(r), s) \in L2 /\ Slot(Invoice(r), s).id = Target(Invoice(r), s)
    BY <1>1, <1>4, SlotTable, DocFields, NodeUris DEF L2, Invoice, Nodes
  <2> QED BY <2>1
<1>6. /\ Reaches(L2, Doc("order", o)) /\ Reaches(L2, Doc("data_stages", r))
      /\ Reaches(L2, Doc("structure_as_executed", r)) /\ Reaches(L2, Doc("runtime_sbom", r))
  BY <1>5, EnvelopeTargets DEF o
<1>7. \A s \in {"function", "structure", "invoice", "input_data_sbom"} :
         Reaches(L3, Target(Doc("order", o), s))
  <2> TAKE s \in {"function", "structure", "invoice", "input_data_sbom"}
  <2>0. s \in Slots(Doc("order", o).kind) /\ Doc("order", o) \in Nodes(r)
    BY SlotTable, DocFields DEF Nodes, OrderSboms, o
  <2>1. Slot(Doc("order", o), s) \in L3 /\ Slot(Doc("order", o), s).id = Target(Doc("order", o), s)
    BY <1>1, <1>6, <2>0, NodeUris DEF L3
  <2> QED BY <2>1
<1>8. Reaches(L3, Doc("infrastructure_as_executed", r))
  <2> DEFINE d == Doc("structure_as_executed", r)
             s == "infrastructure_as_executed"
  <2>0. s \in Slots(d.kind) /\ d \in Nodes(r) /\ Target(d, s) = Doc(s, r)
    BY SlotTable, DocFields, PartTargets DEF Nodes
  <2>1. Slot(d, s) \in L3 /\ Slot(d, s).id = Target(d, s)
    BY <1>1, <1>6, <2>0, NodeUris DEF L3
  <2> QED BY <2>0, <2>1
<1>9. /\ Reaches(L3, Doc("function", FunctionOf[o])) /\ Reaches(L3, Doc("input_invoice", o))
      /\ Reaches(L3, Doc("structure", StructureOf[o])) /\ Reaches(L3, Doc("input_data_sbom", o))
  BY <1>7, OrderTargets, PartTargets DEF OrderSboms
<1>10. \A d \in Nodes(r) : Reaches(L3, d)
  BY <1>2, <1>3, <1>4, <1>6, <1>8, <1>9 DEF Nodes, o
<1> QED BY <1>0, <1>1, <1>2, <1>10 DEF L4

LEMMA ChainIds ==
    ASSUME NEW r \in Runs, NEW u \in Linked(r)
    PROVE  /\ u.id \in Ids /\ u.id # Missing /\ u = URI(u.path, u.id)
           /\ u.path \in {"cas", "boms", "invoices"}
<1>1. CASE u = Root(r)
  <2>1. Bom(r) \in Ids /\ Bom(r) # Missing
    BY OwnersOf, DocFields DEF Bom, Doc, Ids, Kinds, Missing
  <2> QED BY <1>1, <2>1, UriFields DEF Root
<1>2. CASE u # Root(r)
  <2>1. PICK d \in Nodes(r) : u \in Uris(d)
    BY <1>2 DEF Linked
  <2>2. PICK s \in Slots(d.kind) : u = Slot(d, s)
    BY <2>1 DEF Uris
  <2> QED BY <2>2, NodeUris, NodeSlots DEF SlotGood
<1> QED BY <1>1, <1>2

LEMMA DocumentsTyped == Documents \in SUBSET Ids /\ Missing \in Ids
<1>1. Documents \in SUBSET Ids
  BY ChainLinked, ChainIds DEF Documents, DocsOf
<1>2. Missing \in Ids
  BY DEF Missing, Doc, Ids, Kinds, Owners
<1> QED BY <1>1, <1>2

------------------------------------------------------------------------------
(***************************************************************************)
(* What a comparison shows                                                 *)
(***************************************************************************)

\* What HTTP serves is a document, right or wrong.
WrongTyped == \A u \in DOMAIN wrong : wrong[u] \in Ids

LEMMA HttpTyped ==
    ASSUME WrongTyped, NEW u, u.id \in Ids
    PROVE  Http(u) \in Ids
BY DocumentsTyped DEF WrongTyped, Http, CasResource, LdpResource

LEMMA MeshGives ==
    ASSUME NEW id, NEW u
    PROVE  MeshId(id) \in {id, Missing} /\ MeshUri(u) \in {u.id, Missing}
BY DEF MeshId, MeshUri

\* The mesh checks digests, so what agrees with it is the document that the URI
\* names, however many faults there are.
LEMMA FetchSound ==
    ASSUME NEW s, NEW u, NEW rec, Fetch(s, u, rec)
    PROVE  Http(u) = u.id
<1> DEFINE id == IF s \in RegStem THEN RecordId(rec, s) ELSE None
<1>1. CASE id = None
  BY <1>1, MeshGives DEF Fetch, FetchAt
<1>2. CASE id # None
  <2>1. id = u.id
    BY <1>2 DEF Fetch, FetchAt, RegistryAgrees
  <2> QED BY <1>2, <2>1, MeshGives DEF Fetch, FetchAt
<1> QED BY <1>1, <1>2

LEMMA SlotsSound ==
    ASSUME NEW r \in Runs, NEW d \in Nodes(r), NEW stems, FetchSlots(d, stems, r),
           NEW s \in stems \cap Slots(d.kind)
    PROVE  Http(Slot(d, s)) = Target(d, s)
<1>1. Fetch(s, Slot(d, s), r)
  BY NodeUris DEF FetchSlots, FetchSlot
<1> QED BY <1>1, FetchSound, NodeUris

\* A session that passes has read the BOM of its execution: a document without
\* the members of a BOM is refused, and so is the BOM of another execution.
LEMMA BomSound ==
    ASSUME WrongTyped, NEW r \in Runs, SessionPasses(r)
    PROVE  HttpBom(r) = Bom(r)
<1> DEFINE b == HttpBom(r)
<1>1. b \in Ids
  <2>1. Bom(r) \in Ids
    BY OwnersOf DEF Bom, Doc, Ids, Kinds
  <2> QED BY <2>1, HttpTyped, UriFields DEF HttpBom
<1>2. b.kind = "bom"
  BY DEF SessionPasses, ExecutionBound, Used
<1>3. b = Doc("bom", b.of) /\ b.of \in Owners
  BY <1>1, <1>2 DEF Ids, Doc
<1>4. Slot(b, "invoice") = URI("invoices", Doc("invoice", b.of))
  BY <1>2, <1>3, SlotIs, SlotTable, EnvelopeTargets DEF Bom, Invoice
<1>5. Slot(b, "invoice") # None
  <2>1. Doc("invoice", b.of) \in Ids
    BY <1>3 DEF Doc, Ids, Kinds
  <2>2. URI("invoices", Doc("invoice", b.of)) \in Uri
    BY <2>1 DEF URI, Uri, Paths
  <2> QED BY <1>4, <2>2, NoneAssumption
<1>6. Slot(b, "invoice") = Slot(Bom(r), "invoice")
  BY <1>5 DEF SessionPasses, EnvelopeAudit, HandoffCoherent
<1>7. Slot(Bom(r), "invoice") = URI("invoices", Doc("invoice", r))
  BY SlotIs, SlotTable, DocFields, EnvelopeTargets DEF Bom, Invoice
<1>8. Doc("invoice", b.of) = Doc("invoice", r)
  BY <1>4, <1>6, <1>7, UriEqual
<1> QED BY <1>3, <1>8, DocEqual DEF Bom

\* ... from there every document is compared before what it refers to is read.
LEMMA SessionSound ==
    ASSUME WrongTyped, NEW r \in Runs, SessionPasses(r),
           NEW d \in Nodes(r), NEW s \in Slots(d.kind),
           d.kind \notin {"structure_as_executed", "infrastructure_as_executed"}
    PROVE  Http(Slot(d, s)) = Target(d, s)
<1> DEFINE o == OrderOf[r]
           OD == Doc("order", o)
<1>0. {Bom(r), Invoice(r), OD} \subseteq Nodes(r)
  BY DEF Nodes
<1> HIDE DEF o, OD
<1>1. \A x \in Slots("bom") : Http(Slot(Bom(r), x)) = Target(Bom(r), x)
  <2>1. FetchSlots(Bom(r), {"invoice", "log"}, r)
    BY BomSound DEF SessionPasses, EnvelopeAudit, BomEquiv
  <2> QED BY <1>0, <2>1, SlotsSound, SlotTable, DocFields DEF Bom
<1>2. HttpInvoice(r) = Invoice(r)
  BY <1>1, SlotTable, EnvelopeTargets DEF HttpInvoice
<1>3. InvoiceEquiv(Invoice(r), r)
  BY <1>2 DEF SessionPasses, EnvelopeAudit
<1>4. \A x \in Slots("invoice") : Http(Slot(Invoice(r), x)) = Target(Invoice(r), x)
  <2>1. FetchSlots(Invoice(r), Slots("invoice"), r)
    BY <1>3 DEF InvoiceEquiv
  <2> QED BY <1>0, <2>1, SlotsSound, DocFields DEF Invoice
<1>5. HttpOrder(r) = OD
  BY <1>2, <1>4, SlotTable, EnvelopeTargets DEF HttpOrder, o, OD
<1>6. OrderEquiv(OD, r)
  BY <1>5 DEF SessionPasses, OrderAudit
<1>7. \A x \in Slots("order") : Http(Slot(OD, x)) = Target(OD, x)
  <2>1. FetchSlots(OD, Slots("order") \ {"invoice"}, r)
    BY <1>6 DEF OrderEquiv
  <2>2. \A x \in Slots("order") \ {"invoice"} : Http(Slot(OD, x)) = Target(OD, x)
    BY <1>0, <2>1, SlotsSound, DocFields DEF OD
  <2>3. Slot(OD, "invoice") # None /\ Slot(OD, "invoice").id = Target(OD, "invoice")
    BY <1>0, NodeUris, SlotTable, DocFields DEF OD
  <2>4. Fetch("invoice", Slot(OD, "invoice"), InputRecord(r))
    BY <1>6, <2>3 DEF OrderEquiv, FetchSlot
  <2> QED BY <2>2, <2>3, <2>4, FetchSound
<1>8. CASE d \in {Bom(r), Invoice(r), OD}
  BY <1>1, <1>4, <1>7, <1>8, DocFields DEF Bom, Invoice, OD
<1>9. CASE d = Doc("data_stages", r)
  <2>1. Http(Slot(Invoice(r), "data_stages")) = d /\ Slot(Invoice(r), "data_stages") # None
    BY <1>0, <1>4, <1>9, SlotTable, EnvelopeTargets, NodeUris, DocFields DEF Invoice
  <2>2. FetchSlots(d, StageSlots, r)
    BY <1>3, <2>1 DEF InvoiceEquiv
  <2> QED BY <1>9, <2>2, SlotsSound, SlotTable, DocFields
<1>10. CASE d = Doc("runtime_sbom", r)
  <2>1. Http(Slot(Invoice(r), "runtime_sbom")) = d /\ Slot(Invoice(r), "runtime_sbom") # None
    BY <1>0, <1>4, <1>10, SlotTable, EnvelopeTargets, NodeUris, DocFields DEF Invoice
  <2>2. FetchSlots(d, Slots("runtime_sbom"), r)
    BY <1>3, <2>1 DEF InvoiceEquiv
  <2> QED BY <1>10, <2>2, SlotsSound, SlotTable, DocFields
<1>11. \A x \in Slots("order") : Slot(OD, x) # None
  BY <1>0, NodeUris, DocFields DEF OD
<1>12. CASE d = Doc("function", FunctionOf[o])
  <2>1. Http(Slot(OD, "function")) = d
    BY <1>7, <1>12, SlotTable, OrderTargets DEF OD
  <2>2. FetchSlots(d, FunctionSlots, r)
    BY <1>6, <1>11, <2>1, SlotTable DEF OrderEquiv
  <2> QED BY <1>12, <2>2, SlotsSound, SlotTable, DocFields
<1>13. CASE d = Doc("structure", StructureOf[o])
  <2>1. Http(Slot(OD, "structure")) = d
    BY <1>7, <1>13, SlotTable, OrderTargets DEF OD
  <2>2. FetchSlots(d, StructureSlots, r)
    BY <1>6, <1>11, <2>1, SlotTable DEF OrderEquiv
  <2> QED BY <1>13, <2>2, SlotsSound, SlotTable, DocFields
<1>14. CASE d = Doc("input_data_sbom", o)
  <2>1. Http(Slot(OD, "input_data_sbom")) = d /\ "input_data_sbom" \in Slots("order")
    BY <1>7, <1>14, SlotTable, PartTargets DEF OD, OrderSboms
  <2>2. FetchSlots(d, Slots("input_data_sbom"), r)
    BY <1>6, <1>11, <2>1 DEF OrderEquiv
  <2> QED BY <1>14, <2>2, SlotsSound, SlotTable, DocFields
<1>15. CASE d = Doc("input_invoice", o)
  <2>1. Http(Slot(OD, "invoice")) = d
    BY <1>7, <1>15, SlotTable, OrderTargets DEF OD
  <2>2. FetchSlot(d, "data", InputRecord(r))
    BY <1>6, <1>11, <2>1, SlotTable DEF OrderEquiv, OrderInvoiceEquiv
  <2>3. s = "data" /\ Slot(d, s) # None /\ Slot(d, s).id = Target(d, s)
    BY <1>15, SlotTable, DocFields, NodeUris
  <2> QED BY <2>2, <2>3, FetchSound DEF FetchSlot
<1> QED BY <1>8, <1>9, <1>10, <1>12, <1>13, <1>14, <1>15, DocFields DEF Nodes, o, OD

LEMMA LogRuns ==
    ASSUME NEW home \in Seq(Runs)
    PROVE  /\ Range(home) \subseteq Runs
           /\ \A r \in Range(home) : \E k \in DOMAIN home : home[k] = r
           /\ \A k \in DOMAIN home : home[k] \in Range(home)
BY DEF Range

\* The record names the data of the run, whatever could not be read for it.
LEMMA DataRecorded ==
    ASSUME NEW r \in Runs
    PROVE  RecordId(r, "data") = Doc("data", DataOf[r]) /\ RecordId(r, "data") # None
<1>1. RecordId(r, "data") = Cited(r, "data")
  BY AuditAssumption
     DEF RecordId, NoRecord, RecordFields, InvoiceFields, Uncited, OrderSboms, NestedStages
<1>2. Cited(r, "data") = Doc("data", DataOf[r])
  BY EnvelopeTargets DEF Cited, InvoiceFields, OrderFields, OrderSboms
<1>3. Doc("data", DataOf[r]) \in Ids
  BY OwnersOf DEF Doc, Ids, Kinds
<1> QED BY <1>1, <1>2, <1>3, NoneAssumption

LEMMA AuditsSound ==
    ASSUME WrongTyped, log \in Seq(Runs)
    PROVE  AuditsAreSound
<1> SUFFICES ASSUME NEW r \in Range(log)
             PROVE  /\ SessionPasses(r) =>
                         /\ \A u \in Audited(r) : Http(u) = u.id
                         /\ \A index \in {"data", "order"} : r \in Range(Entries(log, index, r))
                         /\ MeshId(Doc("data", DataOf[r])) = Doc("data", DataOf[r])
                    /\ \A q \in Range(log) \ {r} : ~ HandoffCoherent(r, q)
  BY DEF AuditsAreSound
<1>0. r \in Runs /\ \A q \in Range(log) : q \in Runs
  BY LogRuns
<1>1. ASSUME SessionPasses(r), NEW u \in Audited(r)
      PROVE  Http(u) = u.id
  <2>1. u \in Linked(r)
    BY <1>0, ChainLinked DEF Audited
  <2>2. CASE u = Root(r)
    BY <1>0, <1>1, <2>2, BomSound, UriFields DEF Root, HttpBom
  <2>3. CASE u # Root(r)
    <3>1. PICK d \in Nodes(r) : u \in Uris(d)
      BY <2>1, <2>3 DEF Linked
    <3>2. PICK s \in Slots(d.kind) : u = Slot(d, s)
      BY <3>1 DEF Uris
    <3>3. u.id = Target(d, s)
      BY <1>0, <3>2, NodeUris
    <3>4. CASE d.kind \notin {"structure_as_executed", "infrastructure_as_executed"}
      BY <1>0, <1>1, <3>2, <3>3, <3>4, SessionSound
    <3>5. CASE d.kind \in {"structure_as_executed", "infrastructure_as_executed"}
      <4>1. d = Doc(d.kind, r)
        BY <3>5, DocFields DEF Nodes, Bom, Invoice
      <4>2. s \in {"plant_as_executed", "infrastructure_as_executed", "object_store_as_executed"}
        BY <3>5, SlotTable
      <4>3. Target(d, s) = Doc(s, r)
        BY <4>1, <4>2, PartTargets
      <4> QED BY <3>3, <4>2, <4>3, DocFields DEF Audited
    <3> QED BY <3>4, <3>5
  <2> QED BY <2>2, <2>3
<1>2. ASSUME SessionPasses(r), NEW index \in {"data", "order"}
      PROVE  r \in Range(Entries(log, index, r))
  <2>1. <<index, r>> \notin gaps
    BY <1>2 DEF SessionPasses, CatalogAudit, Projected, Listed
  <2>2. PICK k \in DOMAIN log : log[k] = r
    BY LogRuns
  <2> QED BY <2>1, <2>2 DEF Entries, Restrict, Range
<1>3. ASSUME SessionPasses(r)
      PROVE  MeshId(Doc("data", DataOf[r])) = Doc("data", DataOf[r])
  <2>1. HttpInvoice(r) = Invoice(r)
    <3>1. Bom(r) \in Nodes(r) /\ "invoice" \in Slots(Bom(r).kind)
      BY SlotTable, DocFields DEF Nodes, Bom
    <3> QED BY <1>0, <1>3, <3>1, SessionSound, EnvelopeTargets, DocFields DEF HttpInvoice, Bom
  <2>2. FetchSlot(Invoice(r), "data", r)
    BY <1>3, <2>1, SlotTable DEF SessionPasses, EnvelopeAudit, InvoiceEquiv, FetchSlots
  <2>3. Invoice(r) \in Nodes(r) /\ "data" \in Slots(Invoice(r).kind)
    BY SlotTable, DocFields DEF Nodes, Invoice
  <2>4. Fetch("data", Slot(Invoice(r), "data"), r)
    BY <1>0, <2>2, <2>3, NodeUris DEF FetchSlot
  <2>5. MeshId(RecordId(r, "data")) # Missing
    BY <1>0, <2>4, DataRecorded DEF Fetch, FetchAt, RegStem
  <2> QED BY <1>0, <2>5, DataRecorded, MeshGives
<1>4. ASSUME NEW q \in Range(log) \ {r}
      PROVE  ~ HandoffCoherent(r, q)
  <2>1. RecordUri(q, "bom_ldp") = URI("boms", Bom(q))
    BY <1>0, AuditAssumption DEF RecordUri, NoRecord
  <2>2. URI("boms", Bom(q)) # URI("boms", Bom(r))
    BY UriEqual, DocEqual DEF Bom
  <2> QED BY <2>1, <2>2 DEF HandoffCoherent, ResponseAgrees
<1> QED BY <1>1, <1>2, <1>3, <1>4

------------------------------------------------------------------------------
(***************************************************************************)
(* What an undisturbed Node serves                                         *)
(***************************************************************************)
Clean ==
    /\ DOMAIN wrong = {} /\ lost = {} /\ adrift = {} /\ gaps = {} /\ mirror = None
    /\ log \in Seq(Runs)

LEMMA NodeDocs ==
    ASSUME NEW r \in Runs, NEW d \in Nodes(r), NEW s \in Slots(d.kind)
    PROVE  Target(d, s) \in DocsOf[r]
BY ChainHas, NodeUris DEF DocsOf

LEMMA DocsTyped ==
    ASSUME NEW r \in Runs, NEW id \in DocsOf[r]
    PROVE  /\ id \in Ids /\ id # Missing /\ id # None
           /\ \A p \in Paths : URI(p, id) # None
<1>1. id \in Ids /\ id # Missing
  BY ChainLinked, ChainIds DEF DocsOf
<1>2. \A p \in Paths : URI(p, id) \in Uri
  BY <1>1 DEF URI, Uri
<1> QED BY <1>1, <1>2, NoneAssumption

LEMMA CleanHttp ==
    ASSUME Clean, NEW r \in Range(log), NEW id \in DocsOf[r], NEW p \in {"cas", "boms", "invoices"}
    PROVE  Http(URI(p, id)) = id
<1>1. r \in Runs
  BY LogRuns DEF Clean
<1>2. URI(p, id) # None
  BY <1>1, DocsTyped DEF Paths
<1>3. Knows(id)
  BY DEF Knows, Served, Clean
<1> QED BY <1>2, <1>3, UriFields DEF Http, CasResource, LdpResource, Clean

LEMMA CleanSlot ==
    ASSUME Clean, NEW r \in Range(log), NEW d \in Nodes(r), NEW s \in Slots(d.kind)
    PROVE  Http(Slot(d, s)) = Target(d, s)
<1>1. r \in Runs
  BY LogRuns DEF Clean
<1> QED BY <1>1, NodeUris, NodeDocs, CleanHttp

LEMMA CleanRoot ==
    ASSUME Clean, NEW r \in Range(log)
    PROVE  /\ HttpBom(r) = Bom(r) /\ HttpInvoice(r) = Invoice(r)
           /\ HttpOrder(r) = Doc("order", OrderOf[r])
           /\ Bom(r) \in DocsOf[r]
<1>1. r \in Runs
  BY LogRuns DEF Clean
<1>2. Bom(r) \in DocsOf[r]
  BY <1>1, ChainHas, UriFields DEF DocsOf, Root
<1>3. HttpBom(r) = Bom(r)
  BY <1>2, CleanHttp DEF HttpBom
<1>4. HttpInvoice(r) = Invoice(r)
  BY CleanSlot, SlotTable, DocFields, EnvelopeTargets DEF HttpInvoice, Nodes, Bom
<1>5. HttpOrder(r) = Doc("order", OrderOf[r])
  BY <1>4, CleanSlot, SlotTable, DocFields, EnvelopeTargets DEF HttpOrder, Nodes, Invoice
<1> QED BY <1>2, <1>3, <1>4, <1>5

\* The documents that a record cites are those of the execution.
LEMMA CitedDocs ==
    ASSUME NEW r \in Runs, NEW s \in RecordFields
    PROVE  /\ Cited(r, s) \in DocsOf[r]
           /\ s \in InvoiceFields => Cited(r, s) = Target(Invoice(r), s)
           /\ s \in OrderFields => Cited(r, s) = Target(Doc("order", OrderOf[r]), s)
<1> DEFINE o == OrderOf[r]
<1>0. InvoiceFields \cap OrderFields = {}
  BY DEF InvoiceFields, OrderFields, OrderSboms
<1>1. CASE s \in InvoiceFields
  <2>1. Cited(r, s) = Target(Invoice(r), s)
    BY <1>0, <1>1 DEF Cited, InvoiceFields
  <2>2. Invoice(r) \in Nodes(r) /\ s \in Slots(Invoice(r).kind)
    BY <1>1, SlotTable, DocFields DEF Nodes, Invoice, InvoiceFields
  <2> QED BY <1>0, <1>1, <2>1, <2>2, NodeDocs
<1>2. CASE s \in OrderFields
  <2>1. Cited(r, s) = Target(Doc("order", o), s)
    BY <1>0, <1>2 DEF Cited, OrderFields, OrderSboms
  <2>2. Doc("order", o) \in Nodes(r) /\ s \in Slots(Doc("order", o).kind)
    BY <1>2, SlotTable, DocFields DEF Nodes, OrderFields
  <2> QED BY <1>0, <1>2, <2>1, <2>2, NodeDocs
<1>3. CASE s = "integration_data"
  <2>1. s \notin InvoiceFields \cup OrderFields
    BY <1>3 DEF InvoiceFields, OrderFields, OrderSboms
  <2>2. Cited(r, s) = Target(Doc("data_stages", r), "integrated_data")
    BY <1>3, <2>1, StageTargets DEF Cited
  <2>3. Doc("data_stages", r) \in Nodes(r)
        /\ "integrated_data" \in Slots(Doc("data_stages", r).kind)
    BY SlotTable, DocFields DEF Nodes, StageSlots
  <2> QED BY <2>1, <2>2, <2>3, NodeDocs
<1>4. CASE s \in {"input_data", "ingress_data"}
  <2>1. s \notin InvoiceFields \cup OrderFields /\ s # "integration_data"
    BY <1>4 DEF InvoiceFields, OrderFields, OrderSboms
  <2>2. Cited(r, s) = Target(Doc("input_invoice", o), "data")
    BY <1>4, <2>1, OrderTargets, DocFields DEF Cited
  <2>3. Doc("input_invoice", o) \in Nodes(r) /\ "data" \in Slots(Doc("input_invoice", o).kind)
    BY SlotTable, DocFields DEF Nodes
  <2> QED BY <2>1, <2>2, <2>3, NodeDocs
<1> QED BY <1>1, <1>2, <1>3, <1>4 DEF RecordFields

LEMMA RecordIds ==
    ASSUME NEW r \in Runs, NEW s
    PROVE  /\ s \in RecordFields => RecordId(r, s) \in {None, Cited(r, s)}
           /\ s \notin RecordFields => RecordId(r, s) = None
BY DEF RecordId

LEMMA RecordUris ==
    ASSUME NEW r \in Runs
    PROVE  /\ RecordUri(r, "bom_ldp") = Root(r)
           /\ RecordUri(r, "invoice") = URI("invoices", Invoice(r))
           /\ RecordUri(r, "order") = OrderUri(r)
           /\ \A s : s \notin {"bom_ldp", "invoice", "order"} =>
                IF RecordId(r, s) = None \/ s \in {"function", "structure", "input_data"}
                THEN RecordUri(r, s) = None ELSE RecordUri(r, s) = Cas(RecordId(r, s))
BY AuditAssumption DEF RecordUri, NoRecord, Root

LEMMA OrderUris ==
    ASSUME NEW r \in Runs
    PROVE  /\ OrderUri(r) \in {Cas(Doc("order", OrderOf[r])), URI("orders", Doc("order", OrderOf[r]))}
           /\ OrderUri(r).id = Doc("order", OrderOf[r])
           /\ OrderUri(r) # None /\ Doc("order", OrderOf[r]) \in DocsOf[r]
<1>1. Doc("order", OrderOf[r]) \in DocsOf[r]
  BY CitedDocs, EnvelopeTargets DEF RecordFields, InvoiceFields
<1>2. OrderUri(r) \in {Cas(Doc("order", OrderOf[r])), URI("orders", Doc("order", OrderOf[r]))}
  BY DEF OrderUri
<1> QED BY <1>1, <1>2, UriFields, DocsTyped DEF Paths

\* The registry has nothing against the locators of its own execution.
LEMMA NothingRecorded ==
    ASSUME NEW u, NEW s, NEW rec \in Runs \cup {NoRecord},
           rec = NoRecord \/ s \notin RecordFields \cup {"bom_ldp", "invoice"}
    PROVE  RegistryAgrees(s, u, rec) /\ RecordId(rec, s) = None
<1>1. RecordId(rec, s) = None
  BY DEF RecordId
<1>2. RecordUri(rec, s) = None
  <2>1. CASE rec = NoRecord
    BY <2>1, AuditAssumption DEF RecordUri, NoRecord
  <2>2. CASE rec # NoRecord
    BY <1>1, <2>2, RecordUris DEF RecordFields, InvoiceFields
  <2> QED BY <2>1, <2>2
<1> QED BY <1>1, <1>2 DEF RegistryAgrees

LEMMA SlotRecorded ==
    ASSUME NEW r \in Runs, NEW d \in Nodes(r), NEW s \in Slots(d.kind),
           d.kind # "input_invoice", d.kind = "order" => s # "invoice"
    PROVE  RegistryAgrees(s, Slot(d, s), r)
<1> DEFINE u == Slot(d, s)
<1>0. u.id = Target(d, s)
  BY NodeUris
<1>1. CASE s \notin RecordFields \cup {"bom_ldp", "invoice"}
  BY <1>1, NothingRecorded
<1>2. CASE s = "invoice"
  <2>1. d = Bom(r)
    BY <1>2, SlotTable, DocFields
       DEF Nodes, Bom, Invoice, FunctionSlots, StructureSlots, StageSlots
  <2>2. u.id = Invoice(r)
    BY <1>0, <1>2, <2>1, EnvelopeTargets
  <2>3. "invoice" \notin RecordFields
    BY DEF RecordFields, InvoiceFields, OrderFields, OrderSboms
  <2> QED BY <1>2, <2>2, <2>3, RecordUris, RecordIds, UriFields DEF RegistryAgrees
<1>3. CASE s \in RecordFields
  <2>1. u.id = Cited(r, s) /\ (s = "data" => u = Cas(Cited(r, s)))
    <3>1. CASE d = Invoice(r)
      <4>1. s \in InvoiceFields
        BY <1>3, <3>1, SlotTable, DocFields
           DEF Invoice, InvoiceFields, RecordFields, OrderFields, OrderSboms
      <4>2. Slot(d, s) = Cas(Target(d, s))
        BY <3>1, SlotIs, UriFields, DocFields DEF Invoice
      <4> QED BY <1>0, <1>3, <3>1, <4>1, <4>2, CitedDocs
    <3>2. CASE d = Doc("order", OrderOf[r])
      <4>1. s \in OrderFields /\ s # "data"
        BY <1>3, <3>2, SlotTable, DocFields DEF OrderFields, OrderSboms
      <4> QED BY <1>0, <1>3, <3>2, <4>1, CitedDocs
    <3>3. d \in {Invoice(r), Doc("order", OrderOf[r])}
      <4> USE SlotTable, DocFields
      <4>1. s \in {"order", "data", "seed", "data_stages", "runtime_sbom", "function",
                   "structure", "function_sbom", "structure_sbom", "input_data_sbom",
                   "input_data", "ingress_data", "integration_data"}
        BY <1>3 DEF RecordFields, InvoiceFields, OrderFields, OrderSboms
      <4>2. d \notin {Bom(r), Doc("data_stages", r)}
        BY <4>1 DEF Bom, StageSlots
      <4>3. d \notin {Doc("structure_as_executed", r), Doc("runtime_sbom", r),
                      Doc("infrastructure_as_executed", r)}
        BY <4>1
      <4>4. d \notin {Doc("function", FunctionOf[OrderOf[r]]),
                      Doc("structure", StructureOf[OrderOf[r]])}
        BY <4>1 DEF FunctionSlots, StructureSlots
      <4>5. d \notin {Doc("input_invoice", OrderOf[r]), Doc("input_data_sbom", OrderOf[r])}
        BY <4>1
      <4> QED BY <4>2, <4>3, <4>4, <4>5 DEF Nodes
    <3> QED BY <3>1, <3>2, <3>3
  <2>2. s \notin {"bom_ldp", "invoice"}
    BY <1>3 DEF RecordFields, InvoiceFields, OrderFields, OrderSboms
  <2>3. RecordId(r, s) \in {None, Cited(r, s)}
    BY <1>3, RecordIds
  <2>4. CASE s = "order"
    BY <2>1, <2>3, <2>4, RecordUris, OrderUris, CitedDocs, EnvelopeTargets, <1>3
       DEF RegistryAgrees, InvoiceFields
  <2>5. CASE s # "order"
    <3>1. RecordUri(r, s) = None \/ RecordUri(r, s) = Cas(Cited(r, s))
      BY <2>2, <2>3, <2>5, RecordUris
    <3> QED BY <2>1, <2>3, <3>1, UriFields DEF RegistryAgrees
  <2> QED BY <2>4, <2>5
<1>4. s # "bom_ldp"
  BY DEF Slots, FunctionSlots, StructureSlots, StageSlots, OrderSboms
<1> QED BY <1>1, <1>2, <1>3, <1>4

------------------------------------------------------------------------------
(***************************************************************************)
(* Over an undisturbed Node the audits pass                                *)
(***************************************************************************)
LEMMA CleanMesh ==
    ASSUME Clean, NEW id, NEW u
    PROVE  MeshId(id) = id /\ MeshUri(u) = u.id
BY DEF Clean, MeshId, MeshUri

LEMMA CleanFetchAt ==
    ASSUME Clean, NEW r \in Range(log), NEW id \in DocsOf[r],
           NEW p \in {"cas", "boms", "invoices"}, NEW s, NEW rec,
           RegistryAgrees(s, URI(p, id), rec)
    PROVE  FetchAt(s, URI(p, id), rec, id)
<1>1. r \in Runs
  BY LogRuns DEF Clean
<1> QED BY <1>1, CleanHttp, DocsTyped DEF FetchAt

LEMMA CleanFetch ==
    ASSUME Clean, NEW r \in Range(log), NEW d \in Nodes(r), NEW s \in Slots(d.kind),
           NEW rec, RegistryAgrees(s, Slot(d, s), rec)
    PROVE  Fetch(s, Slot(d, s), rec)
<1> DEFINE u == Slot(d, s)
           id == IF s \in RegStem THEN RecordId(rec, s) ELSE None
<1>0. r \in Runs
  BY LogRuns DEF Clean
<1>1. u = URI(u.path, u.id) /\ u.path \in {"cas", "boms", "invoices"} /\ u.id \in DocsOf[r]
  BY <1>0, NodeUris, NodeDocs
<1> HIDE DEF u
<1>2. FetchAt(s, u, rec, u.id)
  BY <1>1, CleanFetchAt DEF u
<1>3. CASE id = None
  BY <1>2, <1>3, CleanMesh DEF Fetch, u
<1>4. CASE id # None
  <2>1. id = u.id
    BY <1>4 DEF RegistryAgrees, u
  <2> QED BY <1>2, <1>4, <2>1, CleanMesh DEF Fetch, u
<1> QED BY <1>3, <1>4

LEMMA CleanSlots ==
    ASSUME Clean, NEW r \in Range(log), NEW d \in Nodes(r), NEW stems,
           d.kind # "input_invoice", d.kind = "order" => "invoice" \notin stems
    PROVE  FetchSlots(d, stems, r)
<1>0. r \in Runs
  BY LogRuns DEF Clean
<1> SUFFICES ASSUME NEW s \in stems, Slot(d, s) # None
             PROVE  Fetch(s, Slot(d, s), r)
  BY DEF FetchSlots, FetchSlot
<1>1. s \in Slots(d.kind)
  BY SlotIs
<1> QED BY <1>0, <1>1, SlotRecorded, CleanFetch

LEMMA CleanInput ==
    ASSUME Clean, NEW r \in Range(log), NEW d \in Nodes(r), NEW s
    PROVE  FetchSlot(d, s, InputRecord(r))
<1> SUFFICES ASSUME Slot(d, s) # None
             PROVE  Fetch(s, Slot(d, s), NoRecord)
  BY DEF FetchSlot, InputRecord
<1>1. s \in Slots(d.kind)
  BY SlotIs
<1>2. RegistryAgrees(s, Slot(d, s), NoRecord)
  BY NothingRecorded
<1> QED BY <1>1, <1>2, CleanFetch

\* The documents of an execution, with the slots that each has.
LEMMA NodeHas ==
    ASSUME NEW r \in Runs, NEW d \in Nodes(r), NEW stems, stems \subseteq Slots(d.kind)
    PROVE  HasSlots(d, stems)
BY NodeUris DEF HasSlots

LEMMA CleanProjected ==
    ASSUME Clean, NEW r \in Range(log)
    PROVE  Projected(r)
<1>1. \A id : Locators(id) # << >>
  BY DEF Clean, Locators
<1> QED BY <1>1 DEF Projected, Listed, Clean

LEMMA CleanOrderUri ==
    ASSUME Clean, NEW r \in Range(log)
    PROVE  Http(OrderUri(r)) = Doc("order", OrderOf[r])
<1> DEFINE d == Doc("order", OrderOf[r])
<1>0. r \in Runs
  BY LogRuns DEF Clean
<1> HIDE DEF d
<1>1. CASE OrderUri(r) = Cas(d)
  BY <1>0, <1>1, OrderUris, CleanHttp, UriFields DEF d
<1>2. CASE OrderUri(r) = URI("orders", d)
  <2>1. OrderUri(r) # None /\ OrderUri(r).path = "orders" /\ OrderUri(r).id = d
    BY <1>0, <1>2, OrderUris, UriFields DEF d
  <2>2. \E q \in Range(Served) : OrderUri(q) = OrderUri(r)
    BY DEF Served, Clean
  <2> QED BY <2>1, <2>2 DEF Http, LdpResource, Clean, d
<1> QED BY <1>0, <1>1, <1>2, OrderUris DEF d

LEMMA CleanReachable ==
    ASSUME Clean, NEW r \in Range(log)
    PROVE  Reachable(r)
<1>0. r \in Runs
  BY LogRuns DEF Clean
<1>1. Slot(HttpBom(r), "invoice") = URI("invoices", Invoice(r))
  BY CleanRoot, SlotIs, SlotTable, DocFields, EnvelopeTargets DEF Bom, Invoice
<1>2. Http(RecordUri(r, "bom_ldp")) # Missing
  BY <1>0, RecordUris, CleanRoot, CleanHttp, DocsTyped DEF Root
<1>3. Http(RecordUri(r, "invoice")) # Missing
  <2>1. "invoice" \in Slots(Bom(r).kind) /\ Bom(r) \in Nodes(r)
    BY SlotTable, DocFields DEF Bom, Nodes
  <2>2. Invoice(r) \in DocsOf[r]
    BY <1>0, <2>1, NodeDocs, EnvelopeTargets
  <2> QED BY <1>0, <2>2, RecordUris, CleanHttp, DocsTyped
<1>4. Http(RecordUri(r, "order")) # Missing
  BY <1>0, RecordUris, CleanOrderUri, OrderUris, DocsTyped
<1>5. ASSUME NEW s \in {"data", "seed", "data_stages", "ingress_data", "integration_data"},
             RecordUri(r, s) # None
      PROVE  Http(RecordUri(r, s)) # Missing
  <2>1. RecordUri(r, s) = Cas(RecordId(r, s)) /\ RecordId(r, s) # None
    BY <1>0, <1>5, RecordUris
  <2>2. s \in RecordFields
    BY <1>5 DEF RecordFields, InvoiceFields
  <2>3. RecordId(r, s) = Cited(r, s) /\ Cited(r, s) \in DocsOf[r]
    BY <1>0, <2>1, <2>2, RecordIds, CitedDocs
  <2> QED BY <1>0, <2>1, <2>3, CleanHttp, DocsTyped, UriFields
<1> QED BY <1>0, <1>1, <1>2, <1>3, <1>4, <1>5, RecordUris DEF Reachable

\* What following the slots of an execution gives.
LEMMA CleanParts ==
    ASSUME Clean, NEW r \in Range(log)
    PROVE  LET o == Doc("order", OrderOf[r]) IN
           /\ Http(Slot(Invoice(r), "data_stages")) = Doc("data_stages", r)
           /\ Http(Slot(Invoice(r), "runtime_sbom")) = Doc("runtime_sbom", r)
           /\ Http(Slot(Invoice(r), "seed")) = Doc("seed", r)
           /\ Http(Slot(Invoice(r), "structure_as_executed")) = Doc("structure_as_executed", r)
           /\ Http(Slot(o, "function")) = Doc("function", FunctionOf[OrderOf[r]])
           /\ Http(Slot(o, "structure")) = Doc("structure", StructureOf[OrderOf[r]])
           /\ Http(Slot(o, "invoice")) = Doc("input_invoice", OrderOf[r])
           /\ Http(Slot(o, "input_data_sbom")) = Doc("input_data_sbom", OrderOf[r])
<1> DEFINE o == Doc("order", OrderOf[r])
<1>1. \A s \in Slots("invoice") : Http(Slot(Invoice(r), s)) = Target(Invoice(r), s)
  BY CleanSlot, DocFields DEF Nodes, Invoice
<1>2. o \in Nodes(r) /\ o.kind = "order"
  BY DocFields DEF Nodes
<1>3. \A s \in Slots("order") : Http(Slot(o, s)) = Target(o, s)
  BY <1>2, CleanSlot
<1>4. Target(o, "input_data_sbom") = Doc("input_data_sbom", OrderOf[r])
  BY PartTargets DEF OrderSboms
<1> QED BY <1>1, <1>3, <1>4, SlotTable, EnvelopeTargets, OrderTargets DEF OrderSboms

LEMMA CleanCoherent ==
    ASSUME Clean, NEW r \in Range(log)
    PROVE  HandoffCoherent(r, r)
<1> DEFINE o == Doc("order", OrderOf[r])
<1>0. r \in Runs
  BY LogRuns DEF Clean
<1>1. Slot(Bom(r), "invoice") = URI("invoices", Invoice(r))
  BY SlotIs, SlotTable, DocFields, EnvelopeTargets DEF Bom, Invoice
<1>2. ResponseAgrees(r, r)
  BY <1>0, <1>1, RecordUris DEF ResponseAgrees, Root
<1>3. HttpBom(r) = Bom(r) /\ Bom(r) # Missing
  BY <1>0, CleanRoot, DocsTyped
<1>4. HasSlots(Invoice(r), {"order", "data", "seed"})
  BY <1>0, NodeHas, SlotTable, DocFields DEF Nodes, Invoice
<1>5. HasSlots(o, {"function", "structure", "invoice"})
  <2>1. o \in Nodes(r) /\ {"function", "structure", "invoice"} \subseteq Slots(o.kind)
    BY SlotTable, DocFields DEF Nodes
  <2> QED BY <1>0, <2>1, NodeHas
<1>6. Slot(Invoice(r), "data") = Cas(Doc("data", DataOf[r]))
  BY SlotIs, SlotTable, DocFields, EnvelopeTargets, UriFields DEF Invoice
<1>7. RecordUri(r, "data") = Cas(Doc("data", DataOf[r]))
  BY <1>0, RecordUris, DataRecorded
<1>8. Slot(Invoice(r), "order").id = o
  BY SlotIs, SlotTable, DocFields, EnvelopeTargets, UriFields DEF Invoice
<1>9. RecordUri(r, "order").id = o
  BY <1>0, RecordUris, OrderUris
<1> QED BY <1>2, <1>3, <1>4, <1>5, <1>6, <1>7, <1>8, <1>9, CleanRoot DEF HandoffCoherent

LEMMA StageDocs ==
    ASSUME NEW r \in Runs
    PROVE  /\ Doc("data", InputOf[OrderOf[r]]) \in DocsOf[r]
           /\ Doc("integrated_data", DataOf[r]) \in DocsOf[r]
           /\ Doc("data", DataOf[r]) \in DocsOf[r]
           /\ Doc("structure_as_executed", r) \in DocsOf[r]
<1>1. Doc("data_stages", r) \in Nodes(r) /\ StageSlots \subseteq Slots(Doc("data_stages", r).kind)
  BY SlotTable, DocFields DEF Nodes
<1>2. Invoice(r) \in Nodes(r) /\ "structure_as_executed" \in Slots(Invoice(r).kind)
  BY SlotTable, DocFields DEF Nodes, Invoice
<1> QED BY <1>1, <1>2, NodeDocs, StageTargets, EnvelopeTargets DEF StageSlots

\* What the BOM of an execution says of its stages.
LEMMA LineageOf ==
    ASSUME NEW r \in Runs
    PROVE  LET input  == Doc("data", InputOf[OrderOf[r]])
               staged == Doc("integrated_data", DataOf[r])
               data   == Doc("data", DataOf[r])
               sae    == Entity(Doc("structure_as_executed", r), None) IN
           /\ how[r] = "bom_stages" =>
                StageLineage(Bom(r)) = <<Entity(data, None), sae>>
           /\ how[r] # "bom_stages" =>
                StageLineage(Bom(r)) =
                  <<Entity(input, IF how[r] = "bom_input" THEN None ELSE input),
                    Entity(staged, input), Entity(data, staged), sae>>
BY DocFields DEF StageLineage, Bom

LEMMA LineageDocs ==
    ASSUME NEW r \in Runs
    PROVE  /\ \A e \in Range(StageLineage(Bom(r))) : \E id \in DocsOf[r] : e.id = Cas(id)
           /\ Entity(Doc("structure_as_executed", r), None) \in Range(StageLineage(Bom(r)))
<1> DEFINE L == StageLineage(Bom(r))
<1>1. \A x, y : Entity(x, y).id = Cas(x)
  BY DEF Entity
<1>2. CASE how[r] = "bom_stages"
  <2> DEFINE a == Entity(Doc("data", DataOf[r]), None)
             b == Entity(Doc("structure_as_executed", r), None)
  <2>1. L = <<a, b>>
    BY <1>2, LineageOf
  <2>2. \E id \in DocsOf[r] : a.id = Cas(id)
    BY <1>1, StageDocs
  <2>3. \E id \in DocsOf[r] : b.id = Cas(id)
    BY <1>1, StageDocs
  <2> HIDE DEF a
  <2>4. Range(L) = {a, b}
    BY <2>1 DEF Range
  <2> QED BY <2>2, <2>3, <2>4
<1>3. CASE how[r] # "bom_stages"
  <2> DEFINE input  == Doc("data", InputOf[OrderOf[r]])
             staged == Doc("integrated_data", DataOf[r])
             a == Entity(input, IF how[r] = "bom_input" THEN None ELSE input)
             b == Entity(staged, input)
             c == Entity(Doc("data", DataOf[r]), staged)
             d == Entity(Doc("structure_as_executed", r), None)
  <2>1. L = <<a, b, c, d>>
    BY <1>3, LineageOf
  <2>2. \E id \in DocsOf[r] : a.id = Cas(id)
    BY <1>1, StageDocs
  <2>3. \E id \in DocsOf[r] : b.id = Cas(id)
    BY <1>1, StageDocs
  <2>4. \E id \in DocsOf[r] : c.id = Cas(id)
    BY <1>1, StageDocs
  <2>5. \E id \in DocsOf[r] : d.id = Cas(id)
    BY <1>1, StageDocs
  <2> HIDE DEF a, b, c
  <2>6. Range(L) = {a, b, c, d}
    BY <2>1 DEF Range
  <2> QED BY <2>2, <2>3, <2>4, <2>5, <2>6
<1> QED BY <1>2, <1>3

LEMMA CleanEnvelope ==
    ASSUME Clean, NEW r \in Range(log)
    PROVE  EnvelopeAudit(r)
<1>0. r \in Runs
  BY LogRuns DEF Clean
<1>1. BomEquiv(Bom(r), r)
  <2>1. FetchSlots(Bom(r), {"invoice", "log"}, r)
    BY CleanSlots, DocFields DEF Nodes, Bom
  <2>2. ASSUME NEW e \in Range(StageLineage(Bom(r)))
        PROVE  FetchAt("stageLineage", e.id, r, MeshId(e.id.id))
    <3>1. PICK id \in DocsOf[r] : e.id = URI("cas", id)
      BY <1>0, LineageDocs, UriFields
    <3>2. RegistryAgrees("stageLineage", e.id, r)
      BY <1>0, NothingRecorded DEF RecordFields, InvoiceFields, OrderFields, OrderSboms
    <3>3. MeshId(e.id.id) = id
      BY <3>1, CleanMesh, UriFields
    <3> QED BY <3>1, <3>2, <3>3, CleanFetchAt
  <2> QED BY <2>1, <2>2 DEF BomEquiv
<1>2. InvoiceEquiv(Invoice(r), r)
  <2>1. FetchSlots(Invoice(r), Slots("invoice"), r)
    BY CleanSlots, DocFields DEF Nodes, Invoice
  <2>2. FetchSlots(Doc("data_stages", r), StageSlots, r)
    BY CleanSlots, DocFields DEF Nodes
  <2>3. FetchSlots(Doc("runtime_sbom", r), Slots("runtime_sbom"), r)
    BY CleanSlots, DocFields DEF Nodes
  <2>4. HasSlots(Doc("runtime_sbom", r), {"cyclonedx"})
    BY <1>0, NodeHas, SlotTable, DocFields DEF Nodes
  <2> QED BY <2>1, <2>2, <2>3, <2>4, CleanParts DEF InvoiceEquiv
<1> QED BY <1>1, <1>2, CleanRoot, CleanCoherent DEF EnvelopeAudit

LEMMA CleanOrder ==
    ASSUME Clean, NEW r \in Range(log)
    PROVE  OrderAudit(r)
<1> DEFINE o  == Doc("order", OrderOf[r])
           fn == Doc("function", FunctionOf[OrderOf[r]])
           st == Doc("structure", StructureOf[OrderOf[r]])
           iv == Doc("input_invoice", OrderOf[r])
           sb == Doc("input_data_sbom", OrderOf[r])
<1>0. r \in Runs
  BY LogRuns DEF Clean
<1>1. /\ {o, fn, st, iv, sb} \subseteq Nodes(r)
      /\ o.kind = "order" /\ fn.kind = "function" /\ st.kind = "structure"
      /\ iv.kind = "input_invoice" /\ sb.kind = "input_data_sbom"
  BY DocFields DEF Nodes
<1>2. /\ Http(Slot(o, "function")) = fn /\ Http(Slot(o, "structure")) = st
      /\ Http(Slot(o, "invoice")) = iv /\ Http(Slot(o, "input_data_sbom")) = sb
      /\ HttpOrder(r) = o
  BY CleanParts, CleanRoot
<1> HIDE DEF o, fn, st, iv, sb
<1>3. HasSlots(fn, FunctionSlots) /\ FetchSlots(fn, FunctionSlots, r)
  BY <1>0, <1>1, NodeHas, CleanSlots, SlotTable
<1>4. HasSlots(st, StructureSlots) /\ FetchSlots(st, StructureSlots, r)
  BY <1>0, <1>1, NodeHas, CleanSlots, SlotTable
<1>5. HasSlots(iv, {"data"}) /\ OrderInvoiceEquiv(iv, r)
  BY <1>0, <1>1, NodeHas, CleanInput, SlotTable DEF OrderInvoiceEquiv
<1>6. HasSlots(sb, Slots("input_data_sbom")) /\ FetchSlots(sb, Slots("input_data_sbom"), r)
  BY <1>0, <1>1, NodeHas, CleanSlots
<1>7. FetchSlots(o, Slots("order") \ {"invoice"}, r) /\ FetchSlot(o, "invoice", InputRecord(r))
  BY <1>1, CleanSlots, CleanInput
<1>8. OrderEquiv(o, r)
  BY <1>2, <1>3, <1>4, <1>5, <1>6, <1>7 DEF OrderEquiv
<1> QED BY <1>2, <1>3, <1>4, <1>5, <1>8 DEF OrderAudit

LEMMA CleanBound ==
    ASSUME Clean, NEW r \in Range(log)
    PROVE  ExecutionBound(r)
<1> DEFINE a == Slot(Invoice(r), "order")
           b == Slot(Bom(r), "invoice")
<1>1. Used(Bom(r)) = <<a, b>>
  BY DocFields DEF Used, Bom
<1>2. Http(a) = HttpOrder(r) /\ Http(b) = HttpInvoice(r)
  BY CleanRoot DEF HttpOrder, HttpInvoice
<1> HIDE DEF a, b
<1>3. Len(<<a, b>>) >= 2 /\ <<a, b>>[1] = a /\ <<a, b>>[2] = b
  OBVIOUS
<1> QED BY <1>1, <1>2, <1>3, CleanRoot DEF ExecutionBound, a, b

LEMMA CleanExecuted ==
    ASSUME Clean, NEW r \in Range(log)
    PROVE  AsExecuted(r)
<1> DEFINE sae == Doc("structure_as_executed", r)
           inf == Doc("infrastructure_as_executed", r)
           u   == Slot(Invoice(r), "structure_as_executed")
           o   == Doc("order", OrderOf[r])
<1>0. r \in Runs
  BY LogRuns DEF Clean
<1>1. {sae, inf, o} \subseteq Nodes(r) /\ sae.kind = "structure_as_executed"
      /\ inf.kind = "infrastructure_as_executed" /\ o.kind = "order"
  BY DocFields DEF Nodes
<1>2. Http(u) = sae /\ HttpInvoice(r) = Invoice(r) /\ HttpOrder(r) = o /\ HttpBom(r) = Bom(r)
  BY CleanParts, CleanRoot
<1>3. u.id = sae
  BY SlotIs, SlotTable, DocFields, EnvelopeTargets, UriFields DEF Invoice
<1>4. \E e \in Range(StageLineage(Bom(r))) : e.id.id = u.id /\ e.from = None
  <2>1. Entity(sae, None).id.id = sae /\ Entity(sae, None).from = None
    BY UriFields DEF Entity
  <2> QED BY <1>0, <1>3, <2>1, LineageDocs
<1>5. /\ Http(Slot(sae, "plant_as_executed")) = Doc("plant_as_executed", r)
      /\ Http(Slot(sae, "infrastructure_as_executed")) = inf
  BY <1>1, CleanSlot, SlotTable, PartTargets
<1>6. HasSlots(sae, Slots("structure_as_executed"))
      /\ HasSlots(inf, Slots("infrastructure_as_executed"))
  BY <1>0, <1>1, NodeHas
<1>7. Http(Slot(inf, "object_store_as_executed")) # Missing
  BY <1>0, <1>1, CleanSlot, SlotTable, NodeUris
<1>8. Slot(o, "structure").id.of = StructureOf[OrderOf[r]]
  BY <1>0, <1>1, NodeUris, SlotTable, OrderTargets, DocFields
<1> HIDE DEF sae, inf, u, o
<1> QED BY <1>2, <1>4, <1>5, <1>6, <1>7, <1>8, DocFields DEF AsExecuted, u

\* The first stage copies the input and each of the others starts where the one
\* before it ended.
LEMMA CleanStages ==
    ASSUME Clean, NEW r \in Range(log), how[r] # "bom_input"
    PROVE  StageAudit(r)
<1> DEFINE stages == StageLineage(Bom(r))
           hops == {k \in DOMAIN stages : stages[k].from # None}
           earlier(k) == {j \in hops : j < k}
<1>0. r \in Runs /\ HttpBom(r) = Bom(r)
  BY LogRuns, CleanRoot DEF Clean
<1>1. \A x : Entity(x, None).from = None
  BY DEF Entity
<1>2. SUFFICES ASSUME NEW k \in hops
               PROVE  /\ earlier(k) = {} => stages[k].id = stages[k].from
                      /\ \A j \in earlier(k) : (\A i \in earlier(k) : i <= j) =>
                            stages[k].from = stages[j].id
  BY <1>0, <1>2 DEF StageAudit, LineageCoherent, SameContent
<1>3. CASE how[r] = "bom_stages"
  <2>1. stages = <<Entity(Doc("data", DataOf[r]), None),
                   Entity(Doc("structure_as_executed", r), None)>>
    BY <1>0, <1>3, LineageOf
  <2> HIDE DEF stages
  <2>2. DOMAIN stages = {1, 2} /\ stages[1].from = None /\ stages[2].from = None
    BY <1>1, <2>1
  <2> QED BY <2>2
<1>4. CASE how[r] # "bom_stages"
  <2> DEFINE input  == Doc("data", InputOf[OrderOf[r]])
             staged == Doc("integrated_data", DataOf[r])
             data   == Doc("data", DataOf[r])
             sae    == Doc("structure_as_executed", r)
  <2>1. stages = <<Entity(input, input), Entity(staged, input), Entity(data, staged),
                   Entity(sae, None)>>
    BY <1>0, <1>4, LineageOf
  <2>2. input \in Ids /\ staged \in Ids
    BY <1>0, StageDocs, DocsTyped
  <2> HIDE DEF stages, input, staged, data, sae
  <2>3. input # None /\ staged # None /\ Cas(input) # None /\ Cas(staged) # None
    BY <2>2, NoneAssumption DEF Cas, URI, Uri, Paths
  <2>4. \A x, y : y # None => Entity(x, y).from = Cas(y)
    BY DEF Entity
  <2>5. \A x, y : Entity(x, y).id = Cas(x)
    BY DEF Entity
  <2>6. /\ DOMAIN stages = {1, 2, 3, 4}
        /\ stages[1] = Entity(input, input) /\ stages[2] = Entity(staged, input)
        /\ stages[3] = Entity(data, staged) /\ stages[4] = Entity(sae, None)
    BY <2>1
  <2>7. /\ stages[1].id = Cas(input) /\ stages[1].from = Cas(input)
        /\ stages[2].id = Cas(staged) /\ stages[2].from = Cas(input)
        /\ stages[3].from = Cas(staged) /\ stages[4].from = None
    BY <1>1, <2>3, <2>4, <2>5, <2>6
  <2>8. hops = {1, 2, 3}
    BY <2>3, <2>6, <2>7
  <2> HIDE DEF hops
  <2>9. CASE k = 1
    <3>1. earlier(k) = {}
      BY <2>8, <2>9
    <3> QED BY <2>7, <2>9, <3>1
  <2>10. CASE k = 2
    <3>1. earlier(k) = {1}
      BY <2>8, <2>10
    <3> QED BY <2>7, <2>10, <3>1
  <2>11. CASE k = 3
    <3>1. earlier(k) = {1, 2}
      BY <2>8, <2>11
    <3>2. ~ (2 <= 1)
      OBVIOUS
    <3> QED BY <2>7, <2>11, <3>1, <3>2
  <2> QED BY <2>8, <2>9, <2>10, <2>11
<1> QED BY <1>3, <1>4

LEMMA CleanLink ==
    ASSUME Clean, NEW p \in Range(log), NEW n \in Range(log)
    PROVE  LinkAudited(p, n) <=> ProcessLink(p, n)
<1> DEFINE o(r) == Doc("order", OrderOf[r])
<1>0. p \in Runs /\ n \in Runs
  BY LogRuns DEF Clean
<1>1. ASSUME NEW r \in Range(log), r \in Runs
      PROVE  /\ HttpOrder(r) = o(r) /\ HttpInvoice(r) = Invoice(r)
             /\ Slot(o(r), "function").id = Doc("function", FunctionOf[OrderOf[r]])
             /\ Slot(o(r), "structure").id = Doc("structure", StructureOf[OrderOf[r]])
             /\ Slot(Invoice(r), "data").id = Doc("data", DataOf[r])
             /\ Http(Slot(o(r), "invoice")) = Doc("input_invoice", OrderOf[r])
             /\ Slot(Doc("input_invoice", OrderOf[r]), "data").id =
                   Doc("data", InputOf[OrderOf[r]])
             /\ Http(Slot(Invoice(r), "seed")) = Doc("seed", r)
  <2>1. /\ {o(r), Invoice(r), Doc("input_invoice", OrderOf[r])} \subseteq Nodes(r)
        /\ o(r).kind = "order" /\ Invoice(r).kind = "invoice"
        /\ Doc("input_invoice", OrderOf[r]).kind = "input_invoice"
    BY DocFields DEF Nodes, Invoice
  <2>2. HttpOrder(r) = o(r) /\ HttpInvoice(r) = Invoice(r)
    BY <1>1, CleanRoot
  <2>3. /\ Slot(o(r), "function").id = Doc("function", FunctionOf[OrderOf[r]])
        /\ Slot(o(r), "structure").id = Doc("structure", StructureOf[OrderOf[r]])
    BY <1>1, <2>1, NodeUris, SlotTable, OrderTargets
  <2>4. Slot(Invoice(r), "data").id = Doc("data", DataOf[r])
    BY <1>1, <2>1, NodeUris, SlotTable, EnvelopeTargets
  <2>5. Slot(Doc("input_invoice", OrderOf[r]), "data").id = Doc("data", InputOf[OrderOf[r]])
    BY <1>1, <2>1, NodeUris, SlotTable, OrderTargets
  <2> QED BY <1>1, <2>2, <2>3, <2>4, <2>5, CleanParts
<1>2. \A k, a, b : Doc(k, a) = Doc(k, b) <=> a = b
  BY DocEqual
<1>3. LinkAudited(p, n) <=>
         /\ FunctionOf[OrderOf[p]] # FunctionOf[OrderOf[n]]
         /\ StructureOf[OrderOf[p]] = StructureOf[OrderOf[n]]
         /\ DataOf[p] = InputOf[OrderOf[n]] /\ DataOf[p] # DataOf[n] /\ p # n
  BY <1>0, <1>1, <1>2 DEF LinkAudited
<1> QED BY <1>3 DEF ProcessLink

LEMMA NoAlarm ==
    ASSUME Clean
    PROVE  \A r \in Range(log) :
               /\ SessionPasses(r)
               /\ how[r] # "bom_input" => StageAudit(r)
               /\ \A n \in Range(log) : LinkAudited(r, n) <=> ProcessLink(r, n)
BY CleanProjected, CleanReachable, CleanEnvelope, CleanOrder, CleanBound, CleanExecuted,
   CleanStages, CleanLink DEF SessionPasses, CatalogAudit

------------------------------------------------------------------------------
(***************************************************************************)
(* Types, and the bound on faults                                          *)
(***************************************************************************)
LogTypes ==
    /\ log \in Seq(Runs) /\ \A j, k \in 1 .. Len(log) : log[j] = log[k] => j = k
    /\ how \in [Runs -> Hitches]

FaultTypes ==
    /\ IsFiniteSet(DOMAIN wrong) /\ IsFiniteSet(lost) /\ IsFiniteSet(adrift)
    /\ IsFiniteSet(gaps)
    /\ \A u \in DOMAIN wrong : wrong[u] \in Documents \cup {Missing}
    /\ lost \subseteq Documents /\ adrift \subseteq Documents
    /\ gaps \subseteq {"data", "order"} \X Runs
    /\ mirror = None \/ mirror \in Seq(Runs)

AuditTypes == LogTypes /\ FaultTypes /\ Faults <= MaxFaults

LEMMA FaultCounts ==
    ASSUME FaultTypes
    PROVE  /\ Cardinality(DOMAIN wrong) \in Nat /\ Cardinality(lost) \in Nat
           /\ Cardinality(adrift) \in Nat /\ Cardinality(gaps) \in Nat
           /\ Faults = 0 => /\ DOMAIN wrong = {} /\ lost = {} /\ adrift = {} /\ gaps = {}
                            /\ mirror = None
<1>1. /\ Cardinality(DOMAIN wrong) \in Nat /\ Cardinality(lost) \in Nat
      /\ Cardinality(adrift) \in Nat /\ Cardinality(gaps) \in Nat
  BY FS_CardinalityType DEF FaultTypes
<1>2. ASSUME Faults = 0
      PROVE  /\ Cardinality(DOMAIN wrong) = 0 /\ Cardinality(lost) = 0
             /\ Cardinality(adrift) = 0 /\ Cardinality(gaps) = 0 /\ mirror = None
  BY <1>1, <1>2 DEF Faults
<1> QED BY <1>1, <1>2, FS_EmptySet DEF FaultTypes

\* One more element, one more fault.
LEMMA OneMore ==
    ASSUME NEW S, NEW x, IsFiniteSet(S)
    PROVE  /\ IsFiniteSet(S \cup {x}) /\ Cardinality(S) \in Nat
           /\ Cardinality(S \cup {x}) \in Nat
           /\ Cardinality(S \cup {x}) <= Cardinality(S) + 1
<1>1. IsFiniteSet(S \cup {x}) /\ Cardinality(S) \in Nat /\ Cardinality(S \cup {x}) \in Nat
  BY FS_AddElement, FS_CardinalityType
<1> QED BY <1>1, FS_AddElement

LEMMA KnownDocuments ==
    ASSUME log \in Seq(Runs)
    PROVE  Known \subseteq Documents
BY LogRuns DEF Known, Documents

LEMMA TypesInit == Init => AuditTypes
<1> SUFFICES ASSUME Init PROVE AuditTypes
  OBVIOUS
<1>1. LogTypes
  BY DEF Init, LogTypes, Hitches
<1>2. FaultTypes
  BY FS_EmptySet DEF Init, FaultTypes
<1>3. Faults = 0
  BY FS_EmptySet DEF Init, Faults
<1> QED BY <1>1, <1>2, <1>3, AuditAssumption DEF AuditTypes

LEMMA TypesNext == AuditTypes /\ [Next]_vars => AuditTypes'
<1> SUFFICES ASSUME AuditTypes, [Next]_vars PROVE AuditTypes'
  OBVIOUS
<1>0. FaultTypes /\ LogTypes /\ MaxFaults \in Nat
  BY AuditAssumption DEF AuditTypes
<1>1. ASSUME NEW r \in Runs, NEW hitch \in Hitches, Execute(r, hitch)
      PROVE  AuditTypes'
  <2>1. log' = Append(log, r) /\ log \in Seq(Runs) /\ r \notin Range(log)
    BY <1>0, <1>1 DEF Execute, LogTypes
  <2>2. /\ log' \in Seq(Runs) /\ Len(log') = Len(log) + 1 /\ log'[Len(log) + 1] = r
        /\ \A k \in 1 .. Len(log) : log'[k] = log[k] /\ log[k] # r
    BY <2>1 DEF Range
  <2>3. LogTypes'
    BY <1>0, <1>1, <2>2 DEF Execute, LogTypes
  <2>4. FaultTypes' /\ Faults' = Faults
    BY <1>0, <1>1 DEF Execute, FaultTypes, Faults
  <2> QED BY <2>3, <2>4 DEF AuditTypes
<1>2. ASSUME UNCHANGED <<log, how, wrong, lost, adrift, gaps, mirror>>
      PROVE  AuditTypes'
  BY <1>2 DEF AuditTypes, LogTypes, FaultTypes, Faults
<1>3. ASSUME NEW r \in Range(log), NEW index \in {"data", "order"},
             CanFail, LoseEntry(index, r)
      PROVE  AuditTypes'
  <2>1. r \in Runs
    BY <1>0, LogRuns DEF LogTypes
  <2>2. /\ gaps' = gaps \cup {<<index, r>>} /\ CanFail
        /\ UNCHANGED <<log, how, wrong, lost, adrift, mirror>>
    BY <1>3 DEF LoseEntry
  <2>3. FaultTypes'
    <3>1. IsFiniteSet(gaps')
      BY <1>0, <2>2, OneMore DEF FaultTypes
    <3>2. gaps' \subseteq {"data", "order"} \X Runs
      BY <1>0, <2>1, <2>2 DEF FaultTypes
    <3> QED BY <1>0, <2>2, <3>1, <3>2 DEF FaultTypes
  <2>4. Cardinality(gaps') \in Nat /\ Cardinality(gaps') <= Cardinality(gaps) + 1
    BY <1>0, <2>2, OneMore DEF FaultTypes
  <2>5. Faults' <= MaxFaults
    BY <1>0, <2>2, <2>4, FaultCounts DEF Faults, CanFail
  <2> QED BY <1>0, <2>2, <2>3, <2>5 DEF AuditTypes, LogTypes
<1>4. ASSUME NEW id \in Known, CanFail, LoseBlob(id)
      PROVE  AuditTypes'
  <2>1. id \in Documents
    BY <1>0, KnownDocuments DEF LogTypes
  <2>2. /\ lost' = lost \cup {id} /\ CanFail
        /\ UNCHANGED <<log, how, wrong, adrift, gaps, mirror>>
    BY <1>4 DEF LoseBlob
  <2>3. FaultTypes'
    BY <1>0, <2>1, <2>2, OneMore DEF FaultTypes
  <2>4. Cardinality(lost') \in Nat /\ Cardinality(lost') <= Cardinality(lost) + 1
    BY <1>0, <2>2, OneMore DEF FaultTypes
  <2>5. Faults' <= MaxFaults
    BY <1>0, <2>2, <2>4, FaultCounts DEF Faults, CanFail
  <2> QED BY <1>0, <2>2, <2>3, <2>5 DEF AuditTypes, LogTypes
<1>5. ASSUME NEW id \in Known, CanFail, LoseLocators(id)
      PROVE  AuditTypes'
  <2>1. id \in Documents
    BY <1>0, KnownDocuments DEF LogTypes
  <2>2. /\ adrift' = adrift \cup {id} /\ CanFail
        /\ UNCHANGED <<log, how, wrong, lost, gaps, mirror>>
    BY <1>5 DEF LoseLocators
  <2>3. FaultTypes'
    BY <1>0, <2>1, <2>2, OneMore DEF FaultTypes
  <2>4. Cardinality(adrift') \in Nat /\ Cardinality(adrift') <= Cardinality(adrift) + 1
    BY <1>0, <2>2, OneMore DEF FaultTypes
  <2>5. Faults' <= MaxFaults
    BY <1>0, <2>2, <2>4, FaultCounts DEF Faults, CanFail
  <2> QED BY <1>0, <2>2, <2>3, <2>5 DEF AuditTypes, LogTypes
<1>6. ASSUME NEW id \in Known \cup {Missing}, NEW u, CanFail, Tamper(u, id)
      PROVE  AuditTypes'
  <2>1. id \in Documents \cup {Missing}
    BY <1>0, KnownDocuments DEF LogTypes
  <2>2. /\ wrong' = [v \in DOMAIN wrong \cup {u} |-> IF v = u THEN id ELSE wrong[v]]
        /\ CanFail /\ UNCHANGED <<log, how, lost, adrift, gaps, mirror>>
    BY <1>6 DEF Tamper
  <2>3. DOMAIN wrong' = DOMAIN wrong \cup {u}
    BY <2>2
  <2>4. FaultTypes'
    <3>1. ASSUME NEW v \in DOMAIN wrong'
          PROVE  wrong'[v] \in Documents \cup {Missing}
      <4>1. wrong'[v] = IF v = u THEN id ELSE wrong[v]
        BY <2>2, <2>3, <3>1
      <4> QED BY <1>0, <2>1, <2>3, <3>1, <4>1 DEF FaultTypes
    <3>2. IsFiniteSet(DOMAIN wrong \cup {u})
      BY <1>0, OneMore DEF FaultTypes
    <3>3. IsFiniteSet(DOMAIN wrong')
      BY <2>3, <3>2
    <3> QED BY <1>0, <2>2, <3>1, <3>3 DEF FaultTypes
  <2>5. /\ Cardinality(DOMAIN wrong') \in Nat
        /\ Cardinality(DOMAIN wrong') <= Cardinality(DOMAIN wrong) + 1
    BY <1>0, <2>3, OneMore DEF FaultTypes
  <2>6. Faults' <= MaxFaults
    BY <1>0, <2>2, <2>5, FaultCounts DEF Faults, CanFail
  <2> QED BY <1>0, <2>2, <2>4, <2>6 DEF AuditTypes, LogTypes
<1>7. ASSUME NEW n \in 0 .. Len(log), CanFail, OtherNode(n)
      PROVE  AuditTypes'
  <2>1. SubSeq(log, 1, n) \in Seq(Runs)
    BY <1>0, SubSeqProperties DEF LogTypes
  <2>2. /\ mirror = None /\ mirror' = SubSeq(log, 1, n) /\ CanFail
        /\ UNCHANGED <<log, how, wrong, lost, adrift, gaps>>
    BY <1>7 DEF OtherNode
  <2>3. FaultTypes'
    BY <1>0, <2>1, <2>2 DEF FaultTypes
  <2>4. Faults' <= MaxFaults
    BY <1>0, <2>2, FaultCounts DEF Faults, CanFail
  <2> QED BY <1>0, <2>2, <2>3, <2>4 DEF AuditTypes, LogTypes
<1>8. CASE UNCHANGED vars
  BY <1>2, <1>8 DEF vars
<1> QED BY <1>1, <1>3, <1>4, <1>5, <1>6, <1>7, <1>8 DEF Next

LEMMA LogCounted ==
    ASSUME LogTypes
    PROVE  Cardinality(Range(log)) = Len(log)
<1>1. log \in Seq(Runs) /\ DOMAIN log = 1 .. Len(log) /\ Len(log) \in Nat
  BY DEF LogTypes
<1>2. log \in Surjection(1 .. Len(log), Range(log))
  BY <1>1 DEF Surjection, Range
<1>3. log \in Injection(1 .. Len(log), Range(log))
  BY <1>1, <1>2 DEF Injection, IsInjective, Surjection, LogTypes
<1>4. IsFiniteSet(1 .. Len(log)) /\ Cardinality(1 .. Len(log)) = Len(log)
  BY <1>1, FS_Interval
<1> QED BY <1>2, <1>3, <1>4, FS_Surjection

------------------------------------------------------------------------------
(***************************************************************************)
(* Theorems                                                                *)
(***************************************************************************)
LEMMA AuditInductive == Spec => []AuditTypes
BY TypesInit, TypesNext, PTL DEF Spec

\* Every variable of HandoffAudit stays in its type, no execution is registered
\* twice and the faults stay within their bound.
THEOREM AuditTyped == Spec => []TypeOK
<1>1. AuditTypes => TypeOK
  <2> SUFFICES ASSUME AuditTypes PROVE TypeOK
    OBVIOUS
  <2>1. Cardinality(Range(log)) = Len(log)
    BY LogCounted DEF AuditTypes
  <2> QED BY <2>1 DEF AuditTypes, LogTypes, FaultTypes, TypeOK
<1> QED BY <1>1, AuditInductive, PTL

\* A session that passes has read the documents of its execution and left it
\* findable, and the record of another execution is refused, for every set of
\* executions and every number of faults.
THEOREM AuditsSoundAlways == Spec => []AuditsAreSound
<1>1. AuditTypes => AuditsAreSound
  <2> SUFFICES ASSUME AuditTypes PROVE AuditsAreSound
    OBVIOUS
  <2>1. WrongTyped
    BY DocumentsTyped DEF AuditTypes, FaultTypes, WrongTyped
  <2> QED BY <2>1, AuditsSound DEF AuditTypes, LogTypes
<1> QED BY <1>1, AuditInductive, PTL

\* Without faults the audits pass for every execution, whatever it shares with
\* others and whatever hitch it had, and the audit of a link passes exactly for
\* the links that linkProcess makes.
THEOREM NoFalseAlarms == Spec => []NoFalseAlarm
<1>1. AuditTypes => NoFalseAlarm
  <2> SUFFICES ASSUME AuditTypes, Faults = 0
               PROVE  \A r \in Range(log) :
                        /\ SessionPasses(r)
                        /\ how[r] # "bom_input" => StageAudit(r)
                        /\ \A n \in Range(log) : LinkAudited(r, n) <=> ProcessLink(r, n)
    BY DEF NoFalseAlarm
  <2>1. Clean
    BY FaultCounts DEF AuditTypes, LogTypes, Clean
  <2> QED BY <2>1, NoAlarm
<1> QED BY <1>1, AuditInductive, PTL
==============================================================================
