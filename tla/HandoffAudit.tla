----------------------------- MODULE HandoffAudit -----------------------------
(***************************************************************************)
(* What an execution leaves for its consumers, and the audits that a       *)
(* consumer runs over it before it trusts the hand-off                     *)
(* (network/registry/{handoff,content_equiv,execution_bind,as_executed,    *)
(* projection,reachability,lineage}.py, cas/manifest_equiv.py; the session *)
(* is that of notebooks/cats_demo.py).  IndexParity has the parity check.  *)
(*                                                                         *)
(* A document is named by its content id: a kind and an owner.  It is      *)
(* served over HTTP at one or more URIs and read by id from the content    *)
(* mesh, which checks the digest.  What HTTP serves may be wrong.          *)
(***************************************************************************)
EXTENDS Naturals, Sequences, FiniteSets, Functions

CONSTANTS Runs,          \* executions
          OrderOf,       \* [Runs -> Orders]
          DataOf,        \* [Runs -> Data]: what a run produces
          InputOf,       \* [Orders -> Data]: what an Order consumes
          FunctionOf,    \* [Orders -> Functions]
          StructureOf,   \* [Orders -> Structures]
          MaxFaults,     \* bound on faults
          MaxHitches,    \* bound on executions with a hitch
          None

Orders == {OrderOf[r] : r \in Runs}

ASSUME AuditAssumption ==
    /\ \A r \in Runs : r \in DOMAIN OrderOf /\ r \in DOMAIN DataOf
    /\ \A o \in Orders : /\ o \in DOMAIN InputOf /\ o \in DOMAIN FunctionOf
                         /\ o \in DOMAIN StructureOf
    /\ None \notin Runs /\ None \notin Seq(Runs)
    /\ MaxFaults \in Nat /\ MaxHitches \in Nat

VARIABLES
    log,      \* Seq(Runs): the registered executions, in order
    how,      \* [Runs -> Hitches]: what went wrong, unnoticed, in an execution
    wrong,    \* URI -> Documents: what HTTP serves instead, where it is wrong
    lost,     \* documents whose CAS blob is gone
    adrift,   \* documents whose locator list is gone
    gaps,     \* {"data", "order"} \X Runs: entries lost from a reverse index
    mirror    \* None, or the executions known to the Node that answers HTTP

vars == <<log, how, wrong, lost, adrift, gaps, mirror>>

------------------------------------------------------------------------------
(***************************************************************************)
(* Documents                                                               *)
(***************************************************************************)
Doc(kind, of) == [kind |-> kind, of |-> of]
Missing       == Doc("missing", "missing")

\* resource_ldp_uri: a container of the Node and a content id in it ...
URI(path, id) == [path |-> path, id |-> id]
\* ... and content_uri: every content id has a URI under /ldp/cas.
Cas(id)       == URI("cas", id)

FunctionSlots  == {"infrafunction_source", "infrafunction", "process_source", "process"}
StructureSlots == {"infrastructure", "plant", "root"}
StageSlots     == {"egressed_data", "integrated_data", "ingressed_data"}
OrderSboms     == {"function_sbom", "structure_sbom", "input_data_sbom"}

\* Content ids and the URIs that hold them.
Kinds  == {"bom", "log", "invoice", "data", "integrated_data", "data_stages", "seed",
           "order", "input_invoice", "function", "structure", "runtime_sbom", "cyclonedx",
           "syft", "dcat", "spdx", "structure_as_executed", "plant_as_executed",
           "infrastructure_as_executed", "object_store_as_executed", "missing"}
              \cup FunctionSlots \cup StructureSlots \cup OrderSboms
Owners == {"missing"} \cup Runs \cup Orders \cup {DataOf[r] : r \in Runs}
              \cup UNION {{InputOf[o], FunctionOf[o], StructureOf[o]} : o \in Orders}
Ids    == [kind : Kinds, of : Owners]
Paths  == {"cas", "boms", "invoices", "orders"}
Uri    == [path : Paths, id : Ids]

ASSUME NoneAssumption == None \notin Ids /\ None \notin Uri

\* The *_uri slots of a document, by its kind.
Slots(kind) ==
    CASE kind = "bom"             -> {"invoice", "log"}
      [] kind = "invoice"         -> {"order", "data", "data_stages", "seed",
                                      "structure_as_executed", "runtime_sbom"}
      [] kind = "data_stages"     -> StageSlots
      [] kind = "order"           -> {"function", "structure", "invoice"} \cup OrderSboms
      [] kind = "input_invoice"   -> {"data"}
      [] kind = "function"        -> FunctionSlots
      [] kind = "structure"       -> StructureSlots
      [] kind = "structure_as_executed" ->
           {"plant_as_executed", "infrastructure_as_executed"}
      [] kind = "infrastructure_as_executed" -> {"object_store_as_executed"}
      [] kind = "runtime_sbom"    -> {"cyclonedx", "syft"}
      [] kind = "input_data_sbom" -> {"dcat", "spdx"}
      [] OTHER                    -> {}

\* What the slot s of a document refers to.
Target(id, s) ==
    LET w == id.of IN
    CASE s = "order" -> Doc("order", OrderOf[w])
      [] s = "invoice" /\ id.kind = "order" -> Doc("input_invoice", w)
      [] s = "data" /\ id.kind = "input_invoice" -> Doc("data", InputOf[w])
      [] s \in {"data", "egressed_data"} /\ id.kind # "input_invoice" -> Doc("data", DataOf[w])
      [] s = "ingressed_data" -> Doc("data", InputOf[OrderOf[w]])
      [] s = "integrated_data" -> Doc("integrated_data", DataOf[w])
      [] s = "function" -> Doc("function", FunctionOf[w])
      [] s = "structure" -> Doc("structure", StructureOf[w])
      [] OTHER -> Doc(s, w)

\* set_ref: a slot holds the Node's CAS URI; only the BOM names its Invoice by
\* the LDP URI.
Slot(id, s) ==
    IF s \in Slots(id.kind)
    THEN URI(IF id.kind = "bom" /\ s = "invoice" THEN "invoices" ELSE "cas", Target(id, s))
    ELSE None

Uris(id) == {Slot(id, s) : s \in Slots(id.kind)}
Below(uris) == uris \cup UNION {Uris(u.id) : u \in uris}

\* Every URI that can be followed from the BOM of a run.
Bom(r)     == Doc("bom", r)
Invoice(r) == Doc("invoice", r)
Chain      == [r \in Runs |-> Below(Below(Below(Below({URI("boms", Bom(r))}))))]
DocsOf     == [r \in Runs |-> {u.id : u \in Chain[r]}]
Documents  == UNION {DocsOf[r] : r \in Runs}

\* The step that failed and was caught: the Order's LDP resource (Runtime.execute),
\* a read of the input Invoice or of the data stages for the BOM, or a read of
\* the Order, the input Invoice or the data stages for the registry record.
Hitches == {"none", "order_ldp", "bom_input", "bom_stages",
            "record_order", "record_input", "record_stages"}

\* build_execution_bom: the entities of stageLineage.
Entity(id, from) == [id |-> Cas(id), from |-> IF from = None THEN None ELSE Cas(from)]
StageLineage(b) ==
    LET r       == b.of
        input   == Doc("data", InputOf[OrderOf[r]])
        staged  == Doc("integrated_data", DataOf[r])
        data    == Doc("data", DataOf[r])
        sae     == Entity(Doc("structure_as_executed", r), None) IN
    IF b.kind # "bom" THEN << >>
    ELSE IF how[r] = "bom_stages" THEN <<Entity(data, None), sae>>
    ELSE <<Entity(input, IF how[r] = "bom_input" THEN None ELSE input),
           Entity(staged, input), Entity(data, staged), sae>>

\* build_execution_bom: prov:used is the Order, then the Invoice.
Used(b) ==
    IF b.kind # "bom" THEN << >>
    ELSE <<Slot(Invoice(b.of), "order"), Slot(b, "invoice")>>

\* Runtime.execute publishes the Order unless that fails.
OrderUri(r) ==
    LET o == Doc("order", OrderOf[r]) IN
    IF how[r] = "order_ldp" THEN Cas(o) ELSE URI("orders", o)

\* build_record: the documents a registry record cites, by field ...
InvoiceFields == {"order", "data", "seed", "data_stages", "runtime_sbom"}
OrderFields   == {"function", "structure"} \cup OrderSboms
RecordFields  == InvoiceFields \cup OrderFields
                     \cup {"input_data", "ingress_data", "integration_data"}

Cited(r, s) ==
    LET o == Doc("order", OrderOf[r]) IN
    CASE s \in InvoiceFields -> Target(Invoice(r), s)
      [] s \in OrderFields -> Target(o, s)
      [] s = "integration_data" -> Doc("integrated_data", DataOf[r])
      [] OTHER -> Doc("data", InputOf[o.of])

\* resolve_invoice_data_stages: what it finds only in the data_stages nest.  The
\* final data is named by the Invoice itself.
NestedStages == {"ingress_data", "integration_data"}

\* ... and those it does without when a document could not be read for it.
Uncited(hitch) ==
    CASE hitch = "record_order"  -> {"function", "structure", "input_data"} \cup OrderSboms
      [] hitch = "record_input"  -> {"input_data"}
      [] hitch = "record_stages" -> NestedStages
      [] OTHER -> {}

\* The id and the URI of a field of the record of rec, None when it has none or
\* there is no record.
NoRecord == None
RecordId(rec, s) ==
    IF rec # NoRecord /\ s \in RecordFields /\ s \notin Uncited(how[rec])
    THEN Cited(rec, s) ELSE None

RecordUri(rec, s) ==
    CASE rec = NoRecord -> None
      [] rec # NoRecord /\ s = "bom_ldp" -> URI("boms", Bom(rec))
      [] rec # NoRecord /\ s = "invoice" -> URI("invoices", Invoice(rec))
      [] rec # NoRecord /\ s = "order" -> OrderUri(rec)
      [] OTHER -> IF s \in {"function", "structure", "input_data"} \/ RecordId(rec, s) = None
                  THEN None ELSE Cas(RecordId(rec, s))

------------------------------------------------------------------------------
(***************************************************************************)
(* Reading                                                                 *)
(***************************************************************************)

\* The executions known to the Node that answers.
Served == IF mirror = None THEN log ELSE mirror

Knows(id) == \E r \in Range(Served) : id \in DocsOf[r]

\* GET /ldp/cas/<digest>
CasResource(u) == IF Knows(u.id) /\ u.id \notin lost THEN u.id ELSE Missing

\* GET /ldp/boms, /ldp/invoices and /ldp/orders
LdpResource(u) ==
    IF \/ u.path \in {"boms", "invoices"} /\ Knows(u.id)
       \/ u.path = "orders" /\ \E r \in Range(Served) : OrderUri(r) = u
    THEN u.id ELSE Missing

\* What a GET of u gives.
Http(u) ==
    IF u = None THEN Missing
    ELSE IF u \in DOMAIN wrong THEN wrong[u]
    ELSE IF u.path = "cas" THEN CasResource(u) ELSE LdpResource(u)

\* LocatorIndex.lookup_uris.
Locators(id) ==
    IF id \in adrift THEN << >>
    ELSE IF id.kind = "invoice" THEN <<Cas(id), URI("invoices", id)>>
    ELSE IF id.kind = "order" /\ \E r \in Range(log) : OrderUri(r) = URI("orders", id)
         THEN <<Cas(id), URI("orders", id)>> ELSE <<Cas(id)>>

\* AddressStore.cat_bytes of an id: the local blob, or the first locator that
\* answers, whose answer must have the digest.
MeshId(id) ==
    LET uris == Locators(id) IN
    IF \/ id \notin lost
       \/ \E k \in DOMAIN uris : /\ Http(uris[k]) = id
                                 /\ \A j \in 1 .. k - 1 : Http(uris[j]) = Missing
    THEN id ELSE Missing

\* AddressStore.cat_bytes of a URI: the local file, or the answer of the Node,
\* which must have the digest of the path.
MeshUri(u) ==
    IF u.path = "cas" /\ u.id \in lost
    THEN (IF Http(u) = u.id THEN u.id ELSE Missing) ELSE u.id

------------------------------------------------------------------------------
(***************************************************************************)
(* Content equivalence.  rec is the run whose registry record is used, or  *)
(* NoRecord.                                                               *)
(***************************************************************************)

\* The stems for which a record is asked for an id.
RegStem == {"order", "data", "seed", "data_stages", "function", "structure", "invoice",
            "structure_as_executed", "runtime_sbom"} \cup OrderSboms

\* _assert_registry_digest_agreement: the URI itself for data, its digest for
\* the others, and the id.
RegistryAgrees(s, u, rec) ==
    /\ RecordUri(rec, s) # None =>
         IF s = "data" THEN RecordUri(rec, s) = u ELSE RecordUri(rec, s).id = u.id
    /\ s \in RegStem /\ RecordId(rec, s) # None => RecordId(rec, s) = u.id

\* assert_fetch_equiv: what the mesh has under the locator is what HTTP serves.
FetchAt(s, u, rec, read) ==
    /\ read # Missing /\ Http(u) = read
    /\ RegistryAgrees(s, u, rec)

Fetch(s, u, rec) ==
    LET id == IF s \in RegStem THEN RecordId(rec, s) ELSE None IN
    FetchAt(s, u, rec, IF id = None THEN MeshUri(u) ELSE MeshId(id))

\* An absent slot is skipped.
FetchSlot(doc, s, rec) == Slot(doc, s) # None => Fetch(s, Slot(doc, s), rec)
FetchSlots(doc, stems, rec) == \A s \in stems : FetchSlot(doc, s, rec)
HasSlots(doc, stems) == \A s \in stems : Slot(doc, s) # None

\* assert_bom_content_equiv: a stage is read by its contentId.
BomEquiv(b, rec) ==
    /\ FetchSlots(b, {"invoice", "log"}, rec)
    /\ \A e \in Range(StageLineage(b)) :
         FetchAt("stageLineage", e.id, rec, MeshId(e.id.id))

\* Mutant of InvoiceEquiv: the nests are not opened.
InvoiceEquivFlat(i, rec) == FetchSlots(i, Slots("invoice"), rec)

\* assert_invoice_content_equiv: a nest is read before its slots are.
InvoiceEquiv(i, rec) ==
    LET stages == Slot(i, "data_stages")
        sbom == Slot(i, "runtime_sbom") IN
    /\ FetchSlots(i, Slots("invoice"), rec)
    /\ stages # None => FetchSlots(Http(stages), StageSlots, rec)
    /\ sbom # None => /\ HasSlots(Http(sbom), {"cyclonedx"})
                      /\ FetchSlots(Http(sbom), Slots("runtime_sbom"), rec)

\* Mutant of InputRecord: the input Invoice is held against the record.
InputRecordKept(rec) == rec

\* assert_order_subcomponent_equiv: the record speaks of the output Invoice, so
\* it is not used for the input Invoice and its data.
InputRecord(rec) == NoRecord

OrderInvoiceEquiv(i, rec) == FetchSlot(i, "data", InputRecord(rec))

\* assert_order_content_equiv.
OrderEquiv(o, rec) ==
    LET at(s) == Slot(o, s) IN
    /\ FetchSlots(o, Slots("order") \ {"invoice"}, rec)
    /\ FetchSlot(o, "invoice", InputRecord(rec))
    /\ at("function") # None => FetchSlots(Http(at("function")), FunctionSlots, rec)
    /\ at("structure") # None => FetchSlots(Http(at("structure")), StructureSlots, rec)
    /\ at("invoice") # None => OrderInvoiceEquiv(Http(at("invoice")), rec)
    /\ at("input_data_sbom") # None =>
         LET nest == Http(at("input_data_sbom")) IN
         HasSlots(nest, Slots("input_data_sbom"))
             /\ FetchSlots(nest, Slots("input_data_sbom"), rec)

------------------------------------------------------------------------------
(***************************************************************************)
(* The audits of one execution: the response of r against the record rec   *)
(***************************************************************************)
HttpBom(r)     == Http(URI("boms", Bom(r)))
HttpInvoice(r) == Http(Slot(Bom(r), "invoice"))
HttpOrder(r)   == Http(Slot(HttpInvoice(r), "order"))

\* assert_control_plane_handoff_coherence: the locators of the response are
\* those of the record ...
ResponseAgrees(r, rec) ==
    /\ RecordUri(rec, "bom_ldp") = URI("boms", Bom(r))
    /\ RecordUri(rec, "invoice") = Slot(Bom(r), "invoice")

\* ... the BOM names the Invoice, the Invoice an Order, data and seed, those the
\* record has, and the Order its parts.
HandoffCoherent(r, rec) ==
    LET b == HttpBom(r)
        i == HttpInvoice(r) IN
    /\ ResponseAgrees(r, rec)
    /\ b # Missing /\ Slot(b, "invoice") \in {None, Slot(Bom(r), "invoice")}
    /\ HasSlots(i, {"order", "data", "seed"})
    /\ RecordUri(rec, "data") = Slot(i, "data")
    /\ RecordUri(rec, "order").id = Slot(i, "order").id
    /\ HasSlots(HttpOrder(r), {"function", "structure", "invoice"})

Listed(index, r) == r \in Range(log) /\ <<index, r>> \notin gaps

\* assert_handoff_projection_complete: the record is found through both reverse
\* indexes and its ids have locators.
Projected(r) ==
    /\ Listed("data", r) /\ Listed("order", r)
    /\ Locators(Bom(r)) # << >>
    /\ \A s \in RecordFields \ {"function", "structure", "input_data"} :
         RecordId(r, s) # None => Locators(RecordId(r, s)) # << >>

\* assert_registry_claims_reachable.
Reachable(r) ==
    /\ \A s \in {"bom_ldp", "invoice", "order", "data", "seed", "data_stages",
                 "ingress_data", "integration_data"} :
         RecordUri(r, s) # None => Http(RecordUri(r, s)) # Missing
    /\ Slot(HttpBom(r), "invoice") \in {None, RecordUri(r, "invoice")}

\* assert_execution_bind: prov:used is this Order and this Invoice, and GET of
\* each gives the envelope that the hand-off gave.
ExecutionBound(r) ==
    LET used == Used(HttpBom(r)) IN
    /\ Len(used) >= 2
    /\ used[1].id = Slot(HttpInvoice(r), "order").id /\ Http(used[1]) = HttpOrder(r)
    /\ used[2].id = Slot(Bom(r), "invoice").id /\ Http(used[2]) = HttpInvoice(r)

\* assert_directory_manifest_equiv.
SameContent(u, v) == u = v \/ (Http(u) # Missing /\ Http(u) = Http(v))

\* assert_stage_lineage_payload_equiv: the first hop copies, a later one starts
\* where the one before it ended.
LineageCoherent(b) ==
    LET stages     == StageLineage(b)
        hops       == {k \in DOMAIN stages : stages[k].from # None}
        earlier(k) == {j \in hops : j < k} IN
    \A k \in hops :
        /\ earlier(k) = {} => SameContent(stages[k].id, stages[k].from)
        /\ \A j \in earlier(k) : (\A i \in earlier(k) : i <= j) =>
              SameContent(stages[k].from, stages[j].id)

\* assert_structure_as_executed_bind and the slots of what was executed; the
\* Plant's applied_structure_id is the Structure of the Order.  A Plant runs
\* the Structure of the Order (OrderExecution).
AsExecuted(r) ==
    LET u     == Slot(HttpInvoice(r), "structure_as_executed")
        sae   == Http(u)
        plant == Http(Slot(sae, "plant_as_executed"))
        infra == Http(Slot(sae, "infrastructure_as_executed")) IN
    /\ \E e \in Range(StageLineage(HttpBom(r))) : e.id.id = u.id /\ e.from = None
    /\ HasSlots(sae, Slots("structure_as_executed"))
    /\ plant.kind = "plant_as_executed"
    /\ StructureOf[OrderOf[plant.of]] = Slot(HttpOrder(r), "structure").id.of
    /\ HasSlots(infra, Slots("infrastructure_as_executed"))
    /\ Http(Slot(infra, "object_store_as_executed")) # Missing

\* The audits of cats_demo.py, apart from the parity of the indexes:
\* the catalogue, the BOM with its Invoice, the Order with its parts, and the
\* stages.
CatalogAudit(r)  == Projected(r) /\ Reachable(r)
EnvelopeAudit(r) ==
    HandoffCoherent(r, r) /\ BomEquiv(HttpBom(r), r) /\ InvoiceEquiv(HttpInvoice(r), r)
OrderAudit(r) ==
    LET part(s) == Http(Slot(HttpOrder(r), s)) IN
    /\ OrderEquiv(HttpOrder(r), r)
    /\ HasSlots(part("function"), FunctionSlots)
    /\ FetchSlots(part("function"), FunctionSlots, r)
    /\ HasSlots(part("structure"), StructureSlots)
    /\ FetchSlots(part("structure"), StructureSlots, r)
    /\ HasSlots(part("invoice"), {"data"}) /\ OrderInvoiceEquiv(part("invoice"), r)
StageAudit(r) == LineageCoherent(HttpBom(r))

\* Without the lineage of the stages, which is looked at apart.
SessionPasses(r) == /\ CatalogAudit(r) /\ EnvelopeAudit(r) /\ OrderAudit(r)
                    /\ ExecutionBound(r) /\ AsExecuted(r)

\* assert_order_pairing_lineage, assert_invoice_data_chain and
\* assert_distinct_executions for a run n that linkProcess made from p.
LinkAudited(p, n) ==
    LET id(doc, s) == Slot(doc, s).id
        input == Http(Slot(HttpOrder(n), "invoice")) IN
    /\ id(HttpOrder(p), "function") # id(HttpOrder(n), "function")
    /\ id(HttpOrder(p), "structure") = id(HttpOrder(n), "structure")
    /\ id(HttpInvoice(p), "data") = id(input, "data")
    /\ id(HttpInvoice(p), "data") # id(HttpInvoice(n), "data")
    /\ Http(Slot(HttpInvoice(p), "seed")) # Http(Slot(HttpInvoice(n), "seed"))

------------------------------------------------------------------------------
Keys(index, r) == IF index = "data" THEN DataOf[r] ELSE OrderOf[r]

\* BomRegistry.lookup_bom and lookup_by_order in a home with these executions: a
\* list, given as a function from the time of a put to the run it was for.
Entries(home, index, r) ==
    Restrict(home, {k \in DOMAIN home : /\ Keys(index, home[k]) = Keys(index, r)
                                        /\ <<index, home[k]>> \notin gaps})

------------------------------------------------------------------------------
(***************************************************************************)
(* Executions and faults                                                   *)
(***************************************************************************)

\* Executor.execute, Runtime.execute: documents, LDP resources, locators and
\* registry record.  The data of a prior run is there before it is consumed.
Execute(r, hitch) ==
    /\ r \notin Range(log)
    /\ hitch # "none" => Cardinality({q \in Runs : how[q] # "none"}) < MaxHitches
    /\ \A p \in Runs : DataOf[p] = InputOf[OrderOf[r]] =>
          \E q \in Range(log) : DataOf[q] = DataOf[p]
    /\ log' = Append(log, r)
    /\ how' = [how EXCEPT ![r] = hitch]
    /\ UNCHANGED <<wrong, lost, adrift, gaps, mirror>>

Faults == Cardinality(DOMAIN wrong) + Cardinality(lost) + Cardinality(adrift)
              + Cardinality(gaps) + (IF mirror = None THEN 0 ELSE 1)
CanFail == Faults < MaxFaults

Known     == UNION {DocsOf[r] : r \in Range(log)}
Published == UNION {Chain[r] \cup {OrderUri(r)} : r \in Range(log)}

\* HTTP serves nothing at u, another document of that kind, or a JSON object of
\* another kind: a damaged or overwritten file, a proxy, a Node that moved.
Tamper(u, id) ==
    /\ id # u.id /\ id.kind \in {u.id.kind, "seed", "missing"}
    /\ u \notin DOMAIN wrong /\ Http(u) = u.id
    /\ wrong' = [v \in DOMAIN wrong \cup {u} |-> IF v = u THEN id ELSE wrong[v]]
    /\ UNCHANGED <<log, how, lost, adrift, gaps, mirror>>

LoseBlob(id) ==
    /\ id \notin lost /\ lost' = lost \cup {id}
    /\ UNCHANGED <<log, how, wrong, adrift, gaps, mirror>>

LoseLocators(id) ==
    /\ id \notin adrift /\ adrift' = adrift \cup {id}
    /\ UNCHANGED <<log, how, wrong, lost, gaps, mirror>>

\* An index entry is lost to an overlapping put (BomRegistry).
LoseEntry(index, r) ==
    /\ Listed(index, r) /\ gaps' = gaps \cup {<<index, r>>}
    /\ UNCHANGED <<log, how, wrong, lost, adrift, mirror>>

\* CAT_NODE_HOST names a Node with a home of its own: a copy that was taken
\* earlier or an empty one.
OtherNode(n) ==
    /\ mirror = None /\ mirror' = SubSeq(log, 1, n)
    /\ UNCHANGED <<log, how, wrong, lost, adrift, gaps>>

Init ==
    /\ log = << >> /\ how = [r \in Runs |-> "none"]
    /\ wrong = << >> /\ lost = {} /\ adrift = {} /\ gaps = {}
    /\ mirror = None

Next ==
    \/ \E r \in Runs, hitch \in Hitches : Execute(r, hitch)
    \/ CanFail /\
          \/ \E r \in Range(log), index \in {"data", "order"} : LoseEntry(index, r)
          \/ \E id \in Known : LoseBlob(id) \/ LoseLocators(id)
          \/ \E u \in Published, id \in Known \cup {Missing} : Tamper(u, id)
          \/ \E n \in 0 .. Len(log) : OtherNode(n)

Spec == Init /\ [][Next]_vars

------------------------------------------------------------------------------
(***************************************************************************)
(* Properties                                                              *)
(***************************************************************************)

\* Every variable stays in its type, and no execution is registered twice.
TypeOK ==
    /\ log \in Seq(Runs) /\ Cardinality(Range(log)) = Len(log)
    /\ how \in [Runs -> Hitches]
    /\ \A u \in DOMAIN wrong : wrong[u] \in Documents \cup {Missing}
    /\ lost \subseteq Documents /\ adrift \subseteq Documents
    /\ gaps \subseteq {"data", "order"} \X Runs
    /\ mirror = None \/ mirror \in Seq(Runs)
    /\ Faults <= MaxFaults

\* n runs the Order that linkProcess made from the run p: the Structure is
\* carried, the Function is new, and what p produced is consumed and changed.
ProcessLink(p, n) ==
    /\ InputOf[OrderOf[n]] = DataOf[p] /\ DataOf[n] # DataOf[p]
    /\ StructureOf[OrderOf[n]] = StructureOf[OrderOf[p]]
    /\ FunctionOf[OrderOf[n]] # FunctionOf[OrderOf[p]]

\* The audits raise no false alarm: over an undisturbed Node they pass for
\* every execution, also when it could not publish its Order or read the Order's
\* documents for the record, and the audit of a link passes for two executions
\* exactly when the second continues the first.  The lineage of the stages is
\* left out when the BOM was built without the input.
NoFalseAlarm ==
    Faults = 0 => \A r \in Range(log) :
        /\ SessionPasses(r)
        /\ how[r] # "bom_input" => StageAudit(r)
        /\ \A n \in Range(log) : LinkAudited(r, n) <=> ProcessLink(r, n)

\* What the session compares with the mesh or with a digest.
Audited(r) ==
    {u \in Chain[r] : u.id.kind \notin
        {"plant_as_executed", "infrastructure_as_executed", "object_store_as_executed"}}

\* The audits miss nothing.  A session that passes has found every document
\* that it is about: following the URIs from the BOM gives the documents of this
\* execution, none missing and none of another one, whatever a fault makes HTTP
\* serve.  It leaves an execution that linkProcess can build on: its BOM is found
\* by the data and by the Order, and the mesh has the data.  And the record of
\* another execution is refused, also of one that ran the same Order and produced
\* the same data.
AuditsAreSound ==
    \A r \in Range(log) :
        /\ \/ /\ \A u \in Audited(r) : Http(u) = u.id
              /\ \A index \in {"data", "order"} : r \in Range(Entries(log, index, r))
              /\ MeshId(Doc("data", DataOf[r])) = Doc("data", DataOf[r])
           \/ ~ SessionPasses(r)
        /\ \A q \in Range(log) \ {r} : ~ HandoffCoherent(r, q)
==============================================================================
