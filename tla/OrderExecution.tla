---------------------------- MODULE OrderExecution ----------------------------
(***************************************************************************)
(* POST /cat/node/init: a Flask thread takes one Order through             *)
(* Runtime.initFactory (bootstrap BOM, materialised documents, Structure,  *)
(* Function, Executor), the Process (ingress, integration, egress) and the *)
(* publication of the signed BOM (node/app.py, runtime/__init__.py,        *)
(* assembler.py, executor.py, processor.py, content_mesh.py).              *)
(*                                                                         *)
(* Every thread uses the one Runtime of the Node: its attributes, the      *)
(* files bom.json, invoice.json and order.json and the Structure home are  *)
(* shared and nothing locks them.  A value is named after the Order it     *)
(* stems from, so mixing two Orders shows.  The bootstrap BOM and Invoice  *)
(* are content-addressed and hold the Order's id, so they are named after  *)
(* it too.                                                                 *)
(***************************************************************************)
EXTENDS Naturals, FiniteSets

CONSTANTS Orders,           \* Order content ids
          Requests,         \* HTTP requests, each served by its own thread
          MaxCrashes,       \* bound on crashes of the Node process
          None

ASSUME ConstantsAssumption ==
    /\ None \notin Orders \cup Requests
    /\ MaxCrashes \in Nat

VARIABLES
    pc, order,    \* [Requests -> ...]: where a thread is, the Order it serves
    pass,         \* [Requests -> 1..2]: which call of getEnhancedBom it is in
    seen,         \* [Requests -> Enhanced]: what that call is to return
    mine,         \* [Requests -> Locals]: what its Executor holds
    rtInit,       \* Runtime.init_bom_json_id
    rtEnhanced,   \* Runtime.enhanced_bom
    rtBom,        \* Runtime.bom_json_id
    rtHome,       \* Runtime.INTEGRATION_HOME: whose job directory
    meshHome,     \* ContentMesh.INTEGRATION_HOME
    bomJson, invoiceJson, orderJson,  \* the shared files
    home,         \* whose Structure tree is in Structure home
    plant,        \* whose Structure the Plant runs
    staged,       \* [Requests -> SUBSET Orders]: the staging directory's input
    out,          \* [Requests -> SUBSET Orders]: integration/outputs, {} if absent
    published,    \* [Requests -> SUBSET Places]: where its BOM got to
    orderLdp,     \* [Orders -> Contents]: the Orders' LDP resources
    solid,        \* BOOLEAN: solid_configured()
    overlapped,   \* history: two requests have been under way at once
    crashes

request == <<pc, order, pass, seen, mine>>
runtime == <<rtInit, rtEnhanced, rtBom, rtHome, meshHome>>
files   == <<bomJson, invoiceJson, orderJson, home>>
work    == <<plant, staged, out>>
public  == <<published, orderLdp>>
setting == <<solid, overlapped, crashes>>
vars    == <<request, runtime, files, work, public, setting>>

\* A resource that was truncated and not written is torn.
Contents == {"none", "torn", "whole"}

Places == {"invoice", "cas", "ldp", "solid", "announced", "registry"}

\* An enhanced BOM: its bom_json_id and the init_data it names.
Enhanced == [id : Orders \cup {None}, init : Orders \cup {None}]
Nothing  == [id |-> None, init |-> None]

\* doc: Executor.enhanced_bom['order'].  input: the Processor's input data.
\* ran: the Plant of the snapshot.  stage: the staging directory.  dir: the
\* directory it waits for.  data: the integrated data.  orderUri: order_uri of
\* the registry record.  wrote (history): how far its write of the Order's LDP
\* resource got.
Locals == [doc : Orders \cup {None}, input : Orders \cup {None},
           ran : Orders \cup {None}, stage : Requests \cup {None},
           dir : Requests \cup {None}, data : SUBSET Orders,
           orderUri : Orders \cup {None}, wrote : {"no", "open", "done"}]

Over    == {"ok", "failed"}
PCs     == {"new", "init", "bom", "invoice", "order", "tree", "enhance", "assign", 
            "function", "executor", "homes", "reconcile", "ingress", "integration", "cache",
            "dispatch", "wait", "collect", "egress", "invoicing", "mint", "ldp",
            "orderldp", "orderput", "solid", "announce", "register"} \cup Over
Running(r) == pc[r] \notin {"new"} \cup Over

NoLocals == [doc |-> None, input |-> None, ran |-> None, stage |-> None,
             dir |-> None, data |-> {}, orderUri |-> None, wrote |-> "no"]

Init ==
    /\ pc = [r \in Requests |-> "new"] /\ order = [r \in Requests |-> None]
    /\ pass = [r \in Requests |-> 1] /\ seen = [r \in Requests |-> Nothing]
    /\ mine = [r \in Requests |-> NoLocals]
    /\ rtInit = None /\ rtEnhanced = Nothing /\ rtBom = None
    /\ rtHome = None /\ meshHome = None
    /\ bomJson = None /\ invoiceJson = None /\ orderJson = None
    /\ home = None /\ plant = None
    /\ staged = [r \in Requests |-> {}] /\ out = [r \in Requests |-> {}]
    /\ published = [r \in Requests |-> {}]
    /\ orderLdp = [o \in Orders |-> "none"]  \* the Orders were minted elsewhere
    /\ solid \in BOOLEAN /\ overlapped = FALSE /\ crashes = 0

Step(r, from, to) == pc[r] = from /\ pc' = [pc EXCEPT ![r] = to]

------------------------------------------------------------------------------
(***************************************************************************)
(* Intake and assembly                                                     *)
(***************************************************************************)

\* run_order: the Order, its Function, Structure and Invoice are resolved.
RunOrder(r, o) ==
    /\ Step(r, "new", "init")
    /\ order' = [order EXCEPT ![r] = o]
    /\ overlapped' = (overlapped \/ \E q \in Requests : Running(q))
    /\ UNCHANGED <<pass, seen, mine, runtime, files, work, public, solid, crashes>>

\* ContentMesh.initBOMcar mints the bootstrap BOM; Runtime remembers its id.
InitBomCar(r) ==
    /\ Step(r, "init", "bom")
    /\ rtInit' = order[r]
    /\ UNCHANGED <<order, pass, seen, mine, rtEnhanced, rtBom, rtHome, meshHome,
                   files, work, public, setting>>

\* getEnhancedBom, first of Runtime.init_bom_json_id, then of
\* Runtime.bom_json_id: each document is written to its shared file and read
\* back from there, and the next one is the one that it names.
WriteBom(r) ==
    /\ Step(r, "bom", "invoice")
    /\ bomJson' = IF pass[r] = 1 THEN rtInit ELSE rtBom
    /\ seen' = [seen EXCEPT ![r].id = bomJson']
    /\ UNCHANGED <<order, pass, mine, runtime, invoiceJson, orderJson, home,
                   work, public, setting>>

WriteInvoice(r) ==
    /\ Step(r, "invoice", "order")
    /\ seen' = [seen EXCEPT ![r].init = bomJson]
    /\ invoiceJson' = bomJson
    /\ UNCHANGED <<order, pass, mine, runtime, bomJson, orderJson, home, work,
                   public, setting>>

WriteOrder(r) ==
    /\ Step(r, "order", "tree")
    /\ orderJson' = invoiceJson
    /\ UNCHANGED <<order, pass, seen, mine, runtime, bomJson, invoiceJson, home,
                   work, public, setting>>

\* The Structure tree named by order.json goes to the Structure home; the
\* Executor keeps the documents of its own call.
WriteTree(r) ==
    /\ Step(r, "tree", IF pass[r] = 1 THEN "enhance" ELSE "homes")
    /\ home' = orderJson
    /\ mine' = [mine EXCEPT ![r].doc = orderJson]
    /\ UNCHANGED <<order, pass, seen, runtime, bomJson, invoiceJson, orderJson,
                   work, public, setting>>

\* Runtime.initBOMcar: enhanced_bom is assigned ...
AssignEnhanced(r) ==
    /\ Step(r, "enhance", "assign")
    /\ rtEnhanced' = seen[r]
    /\ UNCHANGED <<order, pass, seen, mine, rtInit, rtBom, rtHome, meshHome, files,
                   work, public, setting>>

\* Mutant of AssignBom: an id that is already there is kept.
AssignBomOnce(r) ==
    /\ Step(r, "assign", "function")
    /\ rtBom' = IF rtBom = None THEN rtEnhanced.id ELSE rtBom
    /\ rtInit' = rtEnhanced.id
    /\ UNCHANGED <<order, pass, seen, mine, rtEnhanced, rtHome, meshHome, files,
                   work, public, setting>>

\* ... then bom_json_id and init_bom_json_id from that attribute.
AssignBom(r) ==
    /\ Step(r, "assign", "function")
    /\ rtBom' = rtEnhanced.id /\ rtInit' = rtEnhanced.id
    /\ UNCHANGED <<order, pass, seen, mine, rtEnhanced, rtHome, meshHome, files,
                   work, public, setting>>

\* Assembler.assemble: InfraFunction and Processor take the input data from
\* Runtime.enhanced_bom ...
NewFunction(r) ==
    /\ Step(r, "function", "executor")
    /\ mine' = [mine EXCEPT ![r].input = rtEnhanced.init]
    /\ UNCHANGED <<order, pass, seen, runtime, files, work, public, setting>>

\* ... and the Executor calls getEnhancedBom again.
NewExecutor(r) ==
    /\ Step(r, "executor", "bom")
    /\ pass' = [pass EXCEPT ![r] = 2]
    /\ UNCHANGED <<order, seen, mine, runtime, files, work, public, setting>>

------------------------------------------------------------------------------
(***************************************************************************)
(* Execution                                                               *)
(***************************************************************************)

\* Executor.catStore: a new job directory, in the shared attributes.
CatStore(r) ==
    /\ Step(r, "homes", "reconcile")
    /\ rtHome' = r /\ meshHome' = r
    /\ UNCHANGED <<order, pass, seen, mine, rtInit, rtEnhanced, rtBom, files, work,
                   public, setting>>

\* open_structure_ports: reconcile applies what is in the Structure home (the
\* module StructureReconcile) and the snapshot describes the Plant.
OpenStructurePorts(r) ==
    /\ Step(r, "reconcile", "ingress")
    /\ plant' = home
    /\ mine' = [mine EXCEPT ![r].ran = home]
    /\ UNCHANGED <<order, pass, seen, runtime, files, staged, out, public, setting>>

\* Processor.Ingress mints the input data anew, under the id it had.
Ingress(r) ==
    /\ Step(r, "ingress", "integration")
    /\ UNCHANGED <<order, pass, seen, mine, runtime, files, work, public, setting>>

\* Processor.Integration begins with the directory for the results.
IntegrationHome(r) ==
    /\ Step(r, "integration", "cache")
    /\ rtHome' = meshHome
    /\ UNCHANGED <<order, pass, seen, mine, rtInit, rtEnhanced, rtBom, meshHome,
                   files, work, public, setting>>

\* stage_for_plant: the directory staged_<seconds>.  Two threads that stage in
\* the same second write to the same one.
Staging   == {q \in Requests : Running(q) /\ mine[q].stage # None}
Stages(r) == {r} \cup {mine[q].stage : q \in Staging}

Stage(r) ==
    /\ Step(r, "cache", "dispatch")
    /\ \E n \in Stages(r) :
         /\ staged' = [staged EXCEPT ![n] = @ \cup {mine[r].input}]
         /\ mine' = [mine EXCEPT ![r].stage = n]
    /\ UNCHANGED <<order, pass, seen, runtime, files, plant, out, public, setting>>

\* Mutant of Dispatch: the result is not downloaded.
DispatchNoResult(r) ==
    /\ Step(r, "dispatch", "wait")
    /\ UNCHANGED <<order, pass, seen, mine, runtime, files, work, public, setting>>

\* infrafunction_subproc: the job reads the staging directory and its result
\* is downloaded to Runtime.INTEGRATION_HOME.
Dispatch(r) ==
    /\ Step(r, "dispatch", "wait")
    /\ out' = [out EXCEPT ![rtHome] = @ \cup staged[mine[r].stage]]
    /\ UNCHANGED <<order, pass, seen, mine, runtime, files, plant, staged, public,
                   setting>>

\* wait_for_directory, without a time limit, on the attribute as it is now ...
WaitForDirectory(r) ==
    /\ Step(r, "wait", "collect")
    /\ mine' = [mine EXCEPT ![r].dir = rtHome]
    /\ UNCHANGED <<order, pass, seen, runtime, files, work, public, setting>>

\* ... and put_dir of the attribute, which raises unless it is a directory.
Collect(r) ==
    /\ pc[r] = "collect" /\ out[mine[r].dir] # {}
    /\ pc' = [pc EXCEPT ![r] = IF out[rtHome] = {} THEN "failed" ELSE "egress"]
    /\ mine' = [mine EXCEPT ![r].data = out[rtHome]]
    /\ UNCHANGED <<order, pass, seen, runtime, files, work, public, setting>>

Egress(r) ==
    /\ Step(r, "egress", "invoicing")
    /\ UNCHANGED <<order, pass, seen, mine, runtime, files, work, public, setting>>

------------------------------------------------------------------------------
(***************************************************************************)
(* Publication.  The seed makes every Invoice, and so every BOM, new: it   *)
(* is named after its request.                                             *)
(***************************************************************************)
Publish(r, place) == published' = [published EXCEPT ![r] = @ \cup {place}]

\* Executor.execute: as-executed documents, data stages, seed and Invoice go
\* to the CAS, the Invoice to its LDP resource.
PublishInvoice(r) ==
    /\ Step(r, "invoicing", "mint")
    /\ Publish(r, "invoice")
    /\ UNCHANGED <<order, pass, seen, mine, runtime, files, work, orderLdp, setting>>

\* Runtime.execute: the signed BOM is minted ...
MintBom(r) ==
    /\ Step(r, "mint", "ldp")
    /\ Publish(r, "cas")
    /\ UNCHANGED <<order, pass, seen, mine, runtime, files, work, orderLdp, setting>>

\* ... put in the local LDP container ...
PublishLdp(r) ==
    /\ Step(r, "ldp", "orderldp")
    /\ Publish(r, "ldp")
    /\ UNCHANGED <<order, pass, seen, mine, runtime, files, work, orderLdp, setting>>

\* ... the Order's LDP resource written, anew for each execution of the Order:
\* write_bytes truncates it ...
OpenOrderLdp(r) ==
    /\ Step(r, "orderldp", "orderput")
    /\ orderLdp' = [orderLdp EXCEPT ![order[r]] = "torn"]
    /\ mine' = [mine EXCEPT ![r].wrote = "open"]
    /\ UNCHANGED <<order, pass, seen, runtime, files, work, published, setting>>

\* ... and fills it; the locator index, which comes next, may fail ...
FillOrderLdp(r) ==
    /\ Step(r, "orderput", "solid")
    /\ orderLdp' = [orderLdp EXCEPT ![order[r]] = "whole"]
    /\ \E uri \in {order[r], None} :
         mine' = [mine EXCEPT ![r].wrote = "done", ![r].orderUri = uri]
    /\ UNCHANGED <<order, pass, seen, runtime, files, work, published, setting>>

\* Mutant of OrderLdpFails: order_uri is set before the put that fails.
OrderLdpFailsUriFirst(r) ==
    /\ pc[r] \in {"orderldp", "orderput"} /\ pc' = [pc EXCEPT ![r] = "solid"]
    /\ mine' = [mine EXCEPT ![r].orderUri = order[r]]
    /\ UNCHANGED <<order, pass, seen, runtime, files, work, public, setting>>

\* ... and a failure is only logged.
OrderLdpFails(r) ==
    /\ pc[r] \in {"orderldp", "orderput"} /\ pc' = [pc EXCEPT ![r] = "solid"]
    /\ mine' = [mine EXCEPT ![r].orderUri = None]
    /\ UNCHANGED <<order, pass, seen, runtime, files, work, public, setting>>

\* ... the Solid copy, which must succeed when configured ...
PublishSolid(r) ==
    /\ Step(r, "solid", "announce")
    /\ IF solid THEN Publish(r, "solid") ELSE UNCHANGED published
    /\ UNCHANGED <<order, pass, seen, mine, runtime, files, work, orderLdp, setting>>

\* ... the LDN announcement, best effort ...
Announce(r) ==
    /\ Step(r, "announce", "register")
    /\ \/ solid /\ Publish(r, "announced")
       \/ UNCHANGED published
    /\ UNCHANGED <<order, pass, seen, mine, runtime, files, work, orderLdp, setting>>

\* ... and the registry record; then the response goes out.
Register(r) ==
    /\ Step(r, "register", "ok")
    /\ Publish(r, "registry")
    /\ UNCHANGED <<order, pass, seen, mine, runtime, files, work, orderLdp, setting>>

------------------------------------------------------------------------------
(***************************************************************************)
(* Failures                                                                *)
(***************************************************************************)

\* Any call raises: execute_init_cat answers with an error.  What the thread
\* has written stays.  Nothing raises in the loop of wait_for_directory.
Raises(r) ==
    /\ Running(r)
    /\ pc[r] = "collect" => out[mine[r].dir] # {}
    /\ pc' = [pc EXCEPT ![r] = "failed"]
    /\ UNCHANGED <<order, pass, seen, mine, runtime, files, work, public, setting>>

\* The Node dies and starts again: a new Runtime, the files as they are.
Crash ==
    /\ crashes < MaxCrashes /\ crashes' = crashes + 1
    /\ pc' = [r \in Requests |-> IF Running(r) THEN "failed" ELSE pc[r]]
    /\ rtInit' = None /\ rtEnhanced' = Nothing /\ rtBom' = None
    /\ rtHome' = None /\ meshHome' = None
    /\ UNCHANGED <<order, pass, seen, mine, files, work, public, solid, overlapped>>

------------------------------------------------------------------------------
Serve(r) ==
    \/ InitBomCar(r) \/ WriteBom(r) \/ WriteInvoice(r) \/ WriteOrder(r)
    \/ WriteTree(r) \/ AssignEnhanced(r) \/ AssignBom(r) \/ NewFunction(r)
    \/ NewExecutor(r) \/ CatStore(r) \/ OpenStructurePorts(r) \/ Ingress(r)
    \/ IntegrationHome(r) \/ Stage(r) \/ Dispatch(r) \/ WaitForDirectory(r)
    \/ Collect(r) \/ Egress(r) \/ PublishInvoice(r) \/ MintBom(r) \/ PublishLdp(r)
    \/ OpenOrderLdp(r) \/ FillOrderLdp(r) \/ OrderLdpFails(r)
    \/ PublishSolid(r) \/ Announce(r) \/ Register(r)

\* Every request has been answered.
Finished == (\A r \in Requests : pc[r] \in Over) /\ UNCHANGED vars

Next ==
    \/ \E r \in Requests, o \in Orders : RunOrder(r, o)
    \/ \E r \in Requests : Serve(r) \/ Raises(r)
    \/ Crash
    \/ Finished

Spec == Init /\ [][Next]_vars

------------------------------------------------------------------------------
(***************************************************************************)
(* Properties                                                              *)
(***************************************************************************)

\* Every variable stays in its type.
TypeOK ==
    /\ pc \in [Requests -> PCs] /\ order \in [Requests -> Orders \cup {None}]
    /\ pass \in [Requests -> 1 .. 2] /\ seen \in [Requests -> Enhanced]
    /\ mine \in [Requests -> Locals]
    /\ {rtInit, rtBom} \subseteq Orders \cup {None} /\ rtEnhanced \in Enhanced
    /\ {rtHome, meshHome} \subseteq Requests \cup {None}
    /\ {bomJson, invoiceJson, orderJson, home, plant} \subseteq Orders \cup {None}
    /\ staged \in [Requests -> SUBSET Orders] /\ out \in [Requests -> SUBSET Orders]
    /\ published \in [Requests -> SUBSET Places] /\ orderLdp \in [Orders -> Contents]
    /\ {solid, overlapped} \subseteq BOOLEAN /\ crashes \in 0 .. MaxCrashes

Minted(r) == "cas" \in published[r]

\* A signed BOM speaks of one Order: the input data its provenance and its
\* Process name, the Plant it ran on and the data it produced are those of the
\* Order the client asked for, whatever earlier requests, failed ones too, and
\* crashes have left in the Runtime, the files and the directories.  The shared
\* Runtime makes no such promise once two requests have overlapped.
BomCoherent ==
    \A r \in Requests : Minted(r) /\ ~ overlapped =>
        /\ mine[r].doc = order[r] /\ mine[r].input = order[r]
        /\ mine[r].ran = order[r] /\ mine[r].data = {order[r]}

\* "the locally materialized order.json and this final Invoice's order ref are
\* the exact same id for every execution" (Executor.execute).
OrderDocIsInvoiceOrder ==
    \A r \in Requests : "invoice" \in published[r] => mine[r].doc = order[r]

\* wait_for_directory has no timeout, so the directory it polls must be the one
\* the job's result was downloaded to, after failed requests and crashes too, as
\* long as no two requests have overlapped.  (RayPlantPort.wait, a part of
\* Dispatch, has no timeout either: it waits for Ray to end the job.)
WaitEnds ==
    \A r \in Requests : pc[r] = "collect" /\ ~ overlapped => out[mine[r].dir] # {}

\* The order_uri of r leads to its Order, if nobody is, or was cut, rewriting it.
Resolves(r) ==
    /\ mine[r].orderUri = order[r] /\ orderLdp[order[r]] # "none"
    /\ orderLdp[order[r]] = "torn" =>
         \E q \in Requests \ {r} : order[q] = order[r] /\ mine[q].wrote = "open"

\* Whoever is told of a BOM finds it.  A BOM the registry lists can be fetched
\* wherever its record says it is: CAS, LDP, Invoice and, when configured, Solid.
\* An order_uri is only given when the Order's resource was written, and that
\* resource is whole but for another execution of the same Order, which has
\* truncated it and is about to fill it, or has failed or died in between.  A
\* peer that got an announcement can read the BOM from Solid and from the Node;
\* a client that got an answer finds its BOM in the registry.  Also with
\* concurrent requests, errors that are swallowed, and crashes.
LocatorsResolve ==
    \A r \in Requests :
        /\ "registry" \in published[r] =>
             /\ {"invoice", "cas", "ldp"} \subseteq published[r]
             /\ solid => "solid" \in published[r]
             /\ mine[r].orderUri # None => Resolves(r)
        /\ "announced" \in published[r] => {"cas", "ldp", "solid"} \subseteq published[r]
        /\ pc[r] = "ok" => "registry" \in published[r]
==============================================================================
