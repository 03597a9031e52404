------------------------- MODULE OrderExecutionProofs -------------------------
(***************************************************************************)
(* Order execution for every set of Orders and of requests and every       *)
(* number of crashes.  One invariant follows a request along its steps: a  *)
(* shared attribute or file that some thread has passed holds an Order's   *)
(* value, and the value of that thread's own Order as long as no two       *)
(* requests have overlapped.                                               *)
(***************************************************************************)
EXTENDS OrderExecution, TLAPS

ToInit     == {"init"}
ToBom      == ToInit \cup {"bom"}
ToInvoice  == ToBom \cup {"invoice"}
ToOrder    == ToInvoice \cup {"order"}
ToTree     == ToOrder \cup {"tree"}
ToEnhance  == ToTree \cup {"enhance"}
ToAssign   == ToEnhance \cup {"assign"}
ToFunction == ToAssign \cup {"function"}

ToHomes     == ToFunction \cup {"executor", "homes"}
ToReconcile == ToHomes \cup {"reconcile"}
ToCache     == ToReconcile \cup {"ingress", "integration", "cache"}
ToDispatch  == ToCache \cup {"dispatch"}
ToWait      == ToDispatch \cup {"wait"}
ToCollect   == ToWait \cup {"collect"}
ToMint      == ToCollect \cup {"egress", "invoicing", "mint"}

\* A thread is past the assembly steps named, the second pass of
\* getEnhancedBom being past all of them; a thread is past the steps named.
Beyond(r, steps) == Running(r) /\ (pass[r] = 2 \/ pc[r] \notin steps)
After(r, steps)  == Running(r) /\ pc[r] \notin steps

\* A value that r relies on is an Order's, and its own Order's when no two
\* requests have overlapped.
Fits(r, x) == x \in Orders /\ (~ overlapped => x = order[r])

\* What the assembly of r has passed on, through the Runtime and the files.
AssemblyGood(r) ==
    /\ pc[r] = "new" => order[r] = None
    /\ pc[r] \in {"new", "init"} => pass[r] = 1
    /\ pc[r] # "new" => order[r] \in Orders
    /\ Beyond(r, ToInit) => Fits(r, rtInit)
    /\ Beyond(r, ToBom) => Fits(r, bomJson) /\ Fits(r, seen[r].id)
    /\ Beyond(r, ToInvoice) => Fits(r, invoiceJson) /\ Fits(r, seen[r].init)
    /\ Beyond(r, ToOrder) => Fits(r, orderJson)
    /\ Beyond(r, ToTree) => Fits(r, home) /\ Fits(r, mine[r].doc)
    /\ Beyond(r, ToEnhance) => Fits(r, rtEnhanced.id) /\ Fits(r, rtEnhanced.init)
    /\ Beyond(r, ToAssign) => Fits(r, rtBom)
    /\ Beyond(r, ToFunction) => Fits(r, mine[r].input)

\* A directory r relies on is a request's, and its own when none overlapped.
Belongs(r, x) == x \in Requests /\ (~ overlapped => x = r)

\* What the execution of r has passed on, through the directories.
ExecutionGood(r) ==
    /\ After(r, ToHomes) => Belongs(r, rtHome) /\ Belongs(r, meshHome)
    /\ After(r, ToReconcile) => Fits(r, mine[r].ran)
    /\ After(r, ToCache) => Belongs(r, mine[r].stage)
    /\ ~ overlapped /\ After(r, ToCache) => staged[r] # {}
    /\ ~ overlapped /\ After(r, ToDispatch) => out[r] # {}
    /\ After(r, ToWait) => Belongs(r, mine[r].dir)
    /\ ~ overlapped /\ After(r, ToCollect) => mine[r].data = {order[r]}
    /\ ~ overlapped => /\ staged[r] \subseteq {order[r]} /\ out[r] \subseteq {order[r]}
                       /\ mine[r].stage \in {r, None}
    /\ pc[r] \in ToMint \cup {"new"} => ~ Minted(r)

Alone == ~ overlapped =>
    \A q, r \in Requests : Running(q) /\ Running(r) => q = r

FlowInv ==
    /\ TypeOK
    /\ \A r \in Requests : AssemblyGood(r) /\ ExecutionGood(r)
    /\ Alone
    /\ BomCoherent

------------------------------------------------------------------------------
\* What has been published so far, and where the thread stands.
PublishedGood(r) ==
    /\ "cas" \in published[r] => "invoice" \in published[r]
    /\ "ldp" \in published[r] => "cas" \in published[r]
    /\ "announced" \in published[r] => {"ldp", "solid"} \subseteq published[r]
    /\ "registry" \in published[r] =>
         "ldp" \in published[r] /\ (solid => "solid" \in published[r])
    /\ pc[r] = "mint" => "invoice" \in published[r]
    /\ pc[r] = "ldp" => "cas" \in published[r]
    /\ pc[r] \in {"orderldp", "orderput", "solid", "announce", "register", "ok"} =>
         "ldp" \in published[r]
    /\ pc[r] \in {"announce", "register", "ok"} => (solid => "solid" \in published[r])
    /\ pc[r] = "ok" => "registry" \in published[r]

\* order_uri is the Order's own, set after its resource was filled.
UriGood(r) ==
    /\ mine[r].orderUri # None =>
         /\ mine[r].orderUri = order[r] /\ mine[r].wrote = "done"
         /\ orderLdp[order[r]] # "none"
         /\ pc[r] \in {"solid", "announce", "register", "ok", "failed"}
    /\ pc[r] = "new" => mine[r].wrote = "no"

\* A torn resource has somebody who truncated it and has not filled it.
TornGood == \A o \in Orders : orderLdp[o] = "torn" =>
    \E q \in Requests : order[q] = o /\ mine[q].wrote = "open"

PublicationInv ==
    /\ \A r \in Requests : PublishedGood(r) /\ UriGood(r)
    /\ TornGood

------------------------------------------------------------------------------
(***************************************************************************)
(* Publication                                                             *)
(***************************************************************************)
LEMMA PublicationInit == Init => PublicationInv
BY DEF Init, PublicationInv, PublishedGood, UriGood, TornGood, NoLocals

Late == {"mint", "ldp", "orderldp", "orderput", "solid", "announce", "register", "ok"}

\* A step that publishes nothing keeps the thread's publications good when it
\* does not move into, or along, the steps of publication.
LEMMA QuietStep ==
    ASSUME FlowInv, PublicationInv, UNCHANGED <<published, orderLdp, solid>>,
           \A q \in Requests :
             /\ \/ pc'[q] = pc[q] \/ pc'[q] = "failed"
                \/ pc[q] \notin Late \cup {"failed"} /\ pc'[q] \notin Late \cup {"new"}
             /\ order'[q] = order[q] \/ pc[q] = "new"
             /\ mine'[q].orderUri = mine[q].orderUri /\ mine'[q].wrote = mine[q].wrote
    PROVE  PublicationInv'
<1>1. ASSUME NEW q \in Requests PROVE PublishedGood(q)'
  BY DEF PublicationInv, PublishedGood, Late
<1>2. ASSUME NEW q \in Requests PROVE UriGood(q)'
  BY DEF PublicationInv, UriGood, Late
<1>3. TornGood'
  BY DEF PublicationInv, UriGood, TornGood
<1> QED BY <1>1, <1>2, <1>3 DEF PublicationInv

\* A step of publication that leaves the Order's resource alone.
LEMMA TellStep ==
    ASSUME FlowInv, PublicationInv, NEW r \in Requests,
           \/ PublishInvoice(r) \/ MintBom(r) \/ PublishLdp(r) \/ PublishSolid(r)
           \/ Announce(r) \/ Register(r)
    PROVE  PublicationInv'
<1> USE DEF Step, runtime, files, work, setting, Publish, PublishInvoice, MintBom,
            PublishLdp, PublishSolid, Announce, Register
<1>0. TypeOK
  BY DEF FlowInv
<1>1. ASSUME NEW q \in Requests PROVE PublishedGood(q)'
  <2>1. CASE PublishInvoice(r) \/ MintBom(r) \/ PublishLdp(r)
    BY <1>0, <2>1 DEF TypeOK, PublicationInv, PublishedGood
  <2>2. CASE PublishSolid(r) \/ Announce(r)
    BY <1>0, <2>2 DEF TypeOK, PublicationInv, PublishedGood
  <2>3. CASE Register(r)
    BY <1>0, <2>3 DEF TypeOK, PublicationInv, PublishedGood
  <2> QED BY <2>1, <2>2, <2>3
<1>2. ASSUME NEW q \in Requests PROVE UriGood(q)'
  BY <1>0 DEF TypeOK, PublicationInv, UriGood
<1>3. TornGood'
  BY DEF PublicationInv, TornGood
<1> QED BY <1>1, <1>2, <1>3 DEF PublicationInv

\* The write of the Order's resource.
LEMMA OrderLdpStep ==
    ASSUME FlowInv, PublicationInv, NEW r \in Requests,
           OpenOrderLdp(r) \/ FillOrderLdp(r) \/ OrderLdpFails(r)
    PROVE  PublicationInv'
<1> USE DEF Step, runtime, files, work, public, setting
<1>0. /\ pc[r] \in {"orderldp", "orderput"} /\ pc' = [pc EXCEPT ![r] = pc'[r]]
      /\ pc'[r] \in {"orderput", "solid"}
      /\ UNCHANGED <<order, published, solid>>
      /\ pc \in [Requests -> PCs] /\ orderLdp \in [Orders -> Contents]
      /\ mine \in [Requests -> Locals]
  BY DEF FlowInv, TypeOK, OpenOrderLdp, FillOrderLdp, OrderLdpFails
<1>1. order[r] \in Orders
  BY <1>0 DEF FlowInv, AssemblyGood
<1>2. ASSUME NEW q \in Requests PROVE PublishedGood(q)'
  BY <1>0 DEF PublicationInv, PublishedGood
<1>3. mine[r].orderUri = None
  BY <1>0 DEF PublicationInv, UriGood
<1>4. ASSUME NEW q \in Requests, q # r PROVE mine'[q] = mine[q] /\ pc'[q] = pc[q]
  BY <1>0, <1>4 DEF OpenOrderLdp, FillOrderLdp, OrderLdpFails
<1>5. CASE OpenOrderLdp(r)
  <2>1. mine'[r].wrote = "open" /\ mine'[r].orderUri = None
    BY <1>0, <1>3, <1>5 DEF OpenOrderLdp, Locals
  <2>2. orderLdp' = [orderLdp EXCEPT ![order[r]] = "torn"]
    BY <1>5 DEF OpenOrderLdp
  <2>3. ASSUME NEW q \in Requests PROVE UriGood(q)'
    BY <1>0, <1>1, <1>4, <2>1, <2>2 DEF PublicationInv, UriGood
  <2>4. TornGood'
    BY <1>0, <1>1, <1>4, <2>1, <2>2 DEF PublicationInv, TornGood
  <2> QED BY <1>2, <2>3, <2>4 DEF PublicationInv
<1>6. CASE FillOrderLdp(r)
  <2>1. mine'[r].wrote = "done" /\ mine'[r].orderUri \in {order[r], None}
        /\ pc'[r] = "solid"
    BY <1>0, <1>6 DEF FillOrderLdp, Locals
  <2>2. orderLdp' = [orderLdp EXCEPT ![order[r]] = "whole"]
    BY <1>6 DEF FillOrderLdp
  <2>3. ASSUME NEW q \in Requests PROVE UriGood(q)'
    BY <1>0, <1>1, <1>4, <2>1, <2>2 DEF PublicationInv, UriGood
  <2>4. TornGood'
    BY <1>0, <1>1, <1>4, <2>1, <2>2 DEF PublicationInv, TornGood
  <2> QED BY <1>2, <2>3, <2>4 DEF PublicationInv
<1>7. CASE OrderLdpFails(r)
  <2>1. mine'[r].wrote = mine[r].wrote /\ mine'[r].orderUri = None
    BY <1>0, <1>7 DEF OrderLdpFails, Locals
  <2>2. orderLdp' = orderLdp
    BY <1>7 DEF OrderLdpFails
  <2>3. ASSUME NEW q \in Requests PROVE UriGood(q)'
    BY <1>0, <1>1, <1>4, <2>1, <2>2 DEF PublicationInv, UriGood
  <2>4. TornGood'
    BY <1>0, <1>1, <1>4, <2>1, <2>2 DEF PublicationInv, TornGood
  <2> QED BY <1>2, <2>3, <2>4 DEF PublicationInv
<1> QED BY <1>5, <1>6, <1>7

LEMMA PublicationStep ==
    ASSUME FlowInv, PublicationInv, [Next]_vars
    PROVE  PublicationInv'
<1> USE DEF FlowInv, Late, Step, request, runtime, files, work, public, setting
<1>1. ASSUME NEW r \in Requests, NEW o \in Orders, RunOrder(r, o)
      PROVE  PublicationInv'
  BY <1>1, QuietStep DEF TypeOK, RunOrder
<1>2. ASSUME NEW r \in Requests, Serve(r)
      PROVE  PublicationInv'
  <2>1. CASE InitBomCar(r) \/ WriteBom(r) \/ WriteInvoice(r) \/ WriteOrder(r)
    BY <2>1, QuietStep DEF TypeOK, InitBomCar, WriteBom, WriteInvoice, WriteOrder
  <2>2. CASE WriteTree(r)
    BY <2>2, QuietStep DEF TypeOK, Locals, WriteTree
  <2>3. CASE AssignEnhanced(r) \/ AssignBom(r) \/ NewExecutor(r) \/ CatStore(r)
    BY <2>3, QuietStep DEF TypeOK, AssignEnhanced, AssignBom, NewExecutor, CatStore
  <2>4. CASE NewFunction(r) \/ OpenStructurePorts(r) \/ WaitForDirectory(r)
    BY <2>4, QuietStep DEF TypeOK, Locals, NewFunction, OpenStructurePorts,
                           WaitForDirectory
  <2>5. CASE Ingress(r) \/ IntegrationHome(r) \/ Dispatch(r) \/ Egress(r)
    BY <2>5, QuietStep DEF TypeOK, Ingress, IntegrationHome, Dispatch, Egress
  <2>6. CASE Stage(r) \/ Collect(r)
    BY <2>6, QuietStep DEF TypeOK, Locals, Stage, Collect
  <2>7. CASE PublishInvoice(r) \/ MintBom(r) \/ PublishLdp(r) \/ PublishSolid(r)
             \/ Announce(r) \/ Register(r)
    BY <2>7, TellStep
  <2>8. CASE OpenOrderLdp(r) \/ FillOrderLdp(r) \/ OrderLdpFails(r)
    BY <2>8, OrderLdpStep
  <2> QED BY <1>2, <2>1, <2>2, <2>3, <2>4, <2>5, <2>6, <2>7, <2>8 DEF Serve
<1>3. ASSUME NEW r \in Requests, Raises(r)
      PROVE  PublicationInv'
  BY <1>3, QuietStep DEF TypeOK, Raises
<1>4. CASE Crash
  BY <1>4, QuietStep DEF TypeOK, Running, Over, Crash
<1>5. CASE UNCHANGED vars
  BY <1>5, QuietStep DEF vars
<1> QED BY <1>1, <1>2, <1>3, <1>4, <1>5 DEF Next, Finished

------------------------------------------------------------------------------
(***************************************************************************)
(* Assembly and execution                                                  *)
(***************************************************************************)
LEMMA FlowInit == Init => FlowInv
<1> SUFFICES ASSUME Init PROVE FlowInv
  OBVIOUS
<1> USE DEF Init
<1>1. TypeOK
  <2>1. {solid, overlapped} \subseteq BOOLEAN
    BY Zenon
  <2>2. Nothing \in Enhanced /\ NoLocals \in Locals
    BY DEF Enhanced, Nothing, Locals, NoLocals
  <2>3. crashes \in 0 .. MaxCrashes
    BY ConstantsAssumption
  <2> QED BY <2>1, <2>2, <2>3 DEF TypeOK, PCs, Contents
<1>2. ASSUME NEW r \in Requests PROVE AssemblyGood(r) /\ ExecutionGood(r)
  BY DEF AssemblyGood, ExecutionGood, Beyond, After, Running, Minted, NoLocals
<1>3. Alone /\ BomCoherent
  BY DEF Alone, Running, BomCoherent, Minted
<1> QED BY <1>1, <1>2, <1>3 DEF FlowInv

\* What a thread finds named when it gets to a directory or a staging area.
LEMMA NamedWhenUsed ==
    ASSUME FlowInv, NEW r \in Requests
    PROVE  /\ pc[r] = "cache" => mine[r].input \in Orders
           /\ pc[r] = "dispatch" => mine[r].stage \in Requests
           /\ pc[r] \in {"dispatch", "wait", "collect"} => rtHome \in Requests
BY DEF FlowInv, AssemblyGood, ExecutionGood, Beyond, After, Running, Over, Fits, Belongs,
       ToInit, ToBom, ToInvoice, ToOrder, ToTree, ToEnhance, ToAssign, ToFunction,
       ToHomes, ToReconcile, ToCache, ToDispatch, ToWait

\* The write of the Order's resource, step by step.
WritesOrderLdp(r) == OpenOrderLdp(r) \/ FillOrderLdp(r) \/ OrderLdpFails(r)

\* It sets nothing but order_uri.
LEMMA OrderUriOnly ==
    ASSUME TypeOK, NEW r \in Requests, WritesOrderLdp(r), NEW q \in Requests
    PROVE  /\ mine'[q].doc = mine[q].doc /\ mine'[q].input = mine[q].input
           /\ mine'[q].ran = mine[q].ran /\ mine'[q].stage = mine[q].stage
           /\ mine'[q].dir = mine[q].dir /\ mine'[q].data = mine[q].data
<1>1. mine[q] \in Locals /\ mine[r] \in Locals /\ DOMAIN mine = Requests
  BY DEF TypeOK
<1>2. CASE OpenOrderLdp(r)
  BY <1>1, <1>2 DEF OpenOrderLdp, Locals
<1>3. CASE FillOrderLdp(r)
  BY <1>1, <1>3 DEF FillOrderLdp, Locals
<1>4. CASE OrderLdpFails(r)
  BY <1>1, <1>4 DEF OrderLdpFails, Locals
<1> QED BY <1>2, <1>3, <1>4 DEF WritesOrderLdp

\* Setting one field of what an Executor holds.
LEMMA LocalsTyped ==
    ASSUME NEW m \in Locals
    PROVE  /\ \A x \in Orders \cup {None} : /\ [m EXCEPT !.doc = x] \in Locals
                                            /\ [m EXCEPT !.input = x] \in Locals
                                            /\ [m EXCEPT !.ran = x] \in Locals
                                            /\ [m EXCEPT !.orderUri = x] \in Locals
           /\ \A n \in Requests \cup {None} : /\ [m EXCEPT !.stage = n] \in Locals
                                            /\ [m EXCEPT !.dir = n] \in Locals
           /\ \A D \in SUBSET Orders : [m EXCEPT !.data = D] \in Locals
           /\ \A w \in {"no", "open", "done"} : [m EXCEPT !.wrote = w] \in Locals
<1> USE DEF Locals
<1>1. ASSUME NEW x \in Orders \cup {None} PROVE [m EXCEPT !.doc = x] \in Locals
  BY SMT
<1>2. ASSUME NEW x \in Orders \cup {None} PROVE [m EXCEPT !.input = x] \in Locals
  BY SMT
<1>3. ASSUME NEW x \in Orders \cup {None} PROVE [m EXCEPT !.ran = x] \in Locals
  BY SMT
<1>4. ASSUME NEW x \in Orders \cup {None} PROVE [m EXCEPT !.orderUri = x] \in Locals
  BY SMT
<1>5. ASSUME NEW n \in Requests \cup {None} PROVE [m EXCEPT !.stage = n] \in Locals
  BY SMT
<1>6. ASSUME NEW n \in Requests \cup {None} PROVE [m EXCEPT !.dir = n] \in Locals
  BY SMT
<1>7. ASSUME NEW D \in SUBSET Orders PROVE [m EXCEPT !.data = D] \in Locals
  BY SMT
<1>8. ASSUME NEW w \in {"no", "open", "done"} PROVE [m EXCEPT !.wrote = w] \in Locals
  BY SMT
<1> QED BY <1>1, <1>2, <1>3, <1>4, <1>5, <1>6, <1>7, <1>8

\* Types: a directory or a staging area is only used once it is named.
LEMMA TypeStep ==
    ASSUME FlowInv, [Next]_vars
    PROVE  TypeOK'
<1> USE DEF Step, request, runtime, files, work, public, setting
<1>0. TypeOK
  BY DEF FlowInv
<1>1. ASSUME NEW r \in Requests, NEW o \in Orders, RunOrder(r, o)
      PROVE  TypeOK'
  <2>1. {solid, overlapped}' \subseteq BOOLEAN
    BY <1>0, <1>1 DEF TypeOK, RunOrder
  <2>2. pc' \in [Requests -> PCs] /\ order' \in [Requests -> Orders \cup {None}]
    BY <1>0, <1>1 DEF TypeOK, RunOrder, PCs
  <2> QED BY <1>0, <1>1, <2>1, <2>2 DEF TypeOK, RunOrder
<1>2. ASSUME NEW r \in Requests, Serve(r)
      PROVE  TypeOK'
  <2>1. CASE InitBomCar(r) \/ WriteOrder(r)
    BY <1>0, <2>1 DEF TypeOK, PCs, InitBomCar, WriteOrder
  <2>2. CASE WriteBom(r) \/ WriteInvoice(r)
    <3>0. bomJson \in Orders \cup {None} /\ bomJson' \in Orders \cup {None}
      BY <1>0, <2>2 DEF TypeOK, WriteBom, WriteInvoice
    <3>1. seen' \in [Requests -> Enhanced]
      BY <1>0, <2>2, <3>0 DEF TypeOK, Enhanced, WriteBom, WriteInvoice
    <3> QED BY <1>0, <2>2, <3>0, <3>1 DEF TypeOK, PCs, WriteBom, WriteInvoice
  <2>3. CASE WriteTree(r)
    <3>1. mine' \in [Requests -> Locals]
      BY <1>0, <2>3, LocalsTyped DEF TypeOK, WriteTree
    <3> QED BY <1>0, <2>3, <3>1 DEF TypeOK, PCs, WriteTree
  <2>4. CASE AssignEnhanced(r) \/ AssignBom(r)
    BY <1>0, <2>4 DEF TypeOK, PCs, Enhanced, AssignEnhanced, AssignBom
  <2>5. CASE NewFunction(r)
    <3>0. rtEnhanced.init \in Orders \cup {None}
      BY <1>0 DEF TypeOK, Enhanced
    <3>1. mine' \in [Requests -> Locals]
      BY <1>0, <2>5, <3>0, LocalsTyped DEF TypeOK, NewFunction
    <3> QED BY <1>0, <2>5, <3>1 DEF TypeOK, PCs, NewFunction
  <2>6. CASE NewExecutor(r) \/ CatStore(r)
    BY <1>0, <2>6 DEF TypeOK, PCs, NewExecutor, CatStore
  <2>7. CASE OpenStructurePorts(r)
    <3>1. mine' \in [Requests -> Locals]
      BY <1>0, <2>7, LocalsTyped DEF TypeOK, OpenStructurePorts
    <3> QED BY <1>0, <2>7, <3>1 DEF TypeOK, PCs, OpenStructurePorts
  <2>8. CASE Ingress(r) \/ IntegrationHome(r)
    BY <1>0, <2>8 DEF TypeOK, PCs, Ingress, IntegrationHome
  <2>9. CASE Stage(r)
    <3>1. PICK n \in Stages(r) :
            /\ staged' = [staged EXCEPT ![n] = @ \cup {mine[r].input}]
            /\ mine' = [mine EXCEPT ![r].stage = n]
      BY <2>9 DEF Stage
    <3>2. n \in Requests
      BY <1>0, <3>1 DEF TypeOK, Locals, Stages, Staging
    <3>3. mine[r].input \in Orders
      BY <2>9, NamedWhenUsed DEF Stage
    <3>4. mine' \in [Requests -> Locals] 
      <4>1. mine[r] \in Locals /\ n \in Requests \cup {None}
        BY <1>0, <3>2 DEF TypeOK
      <4>2. [mine[r] EXCEPT !.stage = n] \in Locals
        BY <4>1 DEF Locals
      <4> QED BY <1>0, <3>1, <4>2 DEF TypeOK
    <3>5. staged' \in [Requests -> SUBSET Orders]
      BY <1>0, <3>1, <3>2, <3>3 DEF TypeOK
    <3> QED BY <1>0, <2>9, <3>4, <3>5 DEF TypeOK, PCs, Stage
  <2>10. CASE Dispatch(r)
    <3>1. mine[r].stage \in Requests /\ rtHome \in Requests
      BY <2>10, NamedWhenUsed DEF Dispatch
    <3> QED BY <1>0, <2>10, <3>1 DEF TypeOK, PCs, Dispatch
  <2>11. CASE WaitForDirectory(r)
    <3>1. mine' \in [Requests -> Locals]
      BY <1>0, <2>11, LocalsTyped DEF TypeOK, WaitForDirectory
    <3> QED BY <1>0, <2>11, <3>1 DEF TypeOK, PCs, WaitForDirectory
  <2>12. CASE Collect(r)
    <3>1. rtHome \in Requests
      BY <2>12, NamedWhenUsed DEF Collect
    <3>2. mine' \in [Requests -> Locals]
      BY <1>0, <2>12, <3>1, LocalsTyped DEF TypeOK, Collect
    <3> QED BY <1>0, <2>12, <3>2 DEF TypeOK, PCs, Over, Collect
  <2>13. CASE Egress(r) \/ PublishInvoice(r) \/ MintBom(r) \/ PublishLdp(r)
    BY <1>0, <2>13 DEF TypeOK, PCs, Places, Publish, Egress, PublishInvoice, MintBom,
                       PublishLdp
  <2>14. CASE WritesOrderLdp(r)
    <3>0. pc[r] \in {"orderldp", "orderput"}
      BY <2>14 DEF WritesOrderLdp, OpenOrderLdp, FillOrderLdp, OrderLdpFails
    <3>1. order[r] \in Orders
      BY <3>0 DEF FlowInv, AssemblyGood
    <3>2. mine' \in [Requests -> Locals]
      <4>1. CASE OpenOrderLdp(r)
        BY <1>0, <4>1, LocalsTyped DEF TypeOK, OpenOrderLdp
      <4>2. CASE FillOrderLdp(r)
        <5>1. PICK uri \in {order[r], None} :
                mine' = [mine EXCEPT ![r].wrote = "done", ![r].orderUri = uri]
          BY <4>2 DEF FillOrderLdp
        <5>2. [[mine[r] EXCEPT !.wrote = "done"] EXCEPT !.orderUri = uri] \in Locals
          BY <1>0, <3>1, LocalsTyped DEF TypeOK
        <5>3. mine' = [mine EXCEPT ![r] = [[mine[r] EXCEPT !.wrote = "done"] EXCEPT !.orderUri = uri]]
          BY <1>0, <5>1 DEF TypeOK, Locals
        <5> QED BY <1>0, <5>2, <5>3 DEF TypeOK
      <4>3. CASE OrderLdpFails(r)
        BY <1>0, <4>3, LocalsTyped DEF TypeOK, OrderLdpFails
      <4> QED BY <2>14, <4>1, <4>2, <4>3 DEF WritesOrderLdp
    <3>3. orderLdp' \in [Orders -> Contents] /\ pc' \in [Requests -> PCs]
      BY <1>0, <2>14, <3>1 DEF TypeOK, PCs, Contents, WritesOrderLdp, OpenOrderLdp,
         FillOrderLdp, OrderLdpFails
    <3> QED BY <1>0, <2>14, <3>2, <3>3 DEF TypeOK, WritesOrderLdp, OpenOrderLdp,
               FillOrderLdp, OrderLdpFails
  <2>15. CASE PublishSolid(r) \/ Announce(r) \/ Register(r)
    BY <1>0, <2>15 DEF TypeOK, PCs, Over, Places, Publish, PublishSolid, Announce, Register
  <2> QED BY <1>2, <2>1, <2>2, <2>3, <2>4, <2>5, <2>6, <2>7, <2>8, <2>9, <2>10,
             <2>11, <2>12, <2>13, <2>14, <2>15 DEF Serve, WritesOrderLdp
<1>3. ASSUME NEW r \in Requests, Raises(r)
      PROVE  TypeOK'
  BY <1>0, <1>3 DEF TypeOK, PCs, Over, Raises
<1>4. CASE Crash
  <2>1. crashes' \in 0 .. MaxCrashes
    BY <1>0, <1>4, ConstantsAssumption DEF TypeOK, Crash
  <2>2. pc' \in [Requests -> PCs] /\ rtEnhanced' \in Enhanced
    BY <1>0, <1>4 DEF TypeOK, PCs, Over, Crash, Enhanced, Nothing
  <2> QED BY <1>0, <1>4, <2>1, <2>2 DEF TypeOK, Crash
<1>5. CASE UNCHANGED vars
  BY <1>0, <1>5 DEF vars, TypeOK
<1> QED BY <1>1, <1>2, <1>3, <1>4, <1>5 DEF Next, Finished

\* No two threads run, unless they have been seen to overlap.
LEMMA AloneStep ==
    ASSUME FlowInv, [Next]_vars
    PROVE  Alone'
<1> USE DEF Step, request, runtime, files, work, public, setting
<1> USE DEF FlowInv, TypeOK, Alone, Running, Over
<1>1. ASSUME NEW r \in Requests, NEW o \in Orders, RunOrder(r, o)
      PROVE  Alone'
  BY <1>1 DEF RunOrder
<1>2. ASSUME NEW r \in Requests, Serve(r)
      PROVE  Alone'
  <2>1. CASE InitBomCar(r) \/ WriteBom(r) \/ WriteInvoice(r) \/ WriteOrder(r)
           \/ WriteTree(r) \/ AssignEnhanced(r) \/ AssignBom(r) \/
           NewFunction(r) \/ NewExecutor(r)
    BY <2>1 DEF InitBomCar, WriteBom, WriteInvoice, WriteOrder, WriteTree,
        AssignEnhanced, AssignBom, NewFunction, NewExecutor
  <2>2. CASE CatStore(r) \/ OpenStructurePorts(r) \/ Ingress(r) \/
           IntegrationHome(r) \/ Stage(r) \/ Dispatch(r)
    BY <2>2 DEF CatStore, OpenStructurePorts, Ingress, IntegrationHome, Stage,
        Dispatch
  <2>3. CASE WaitForDirectory(r) \/ Collect(r) \/ Egress(r) \/
           PublishInvoice(r) \/ MintBom(r) \/ PublishLdp(r) \/
           WritesOrderLdp(r) \/ PublishSolid(r) \/ Announce(r) \/ Register(r)
    BY <2>3 DEF WaitForDirectory, Collect, Egress, PublishInvoice, MintBom,
        PublishLdp, WritesOrderLdp, OpenOrderLdp, FillOrderLdp, OrderLdpFails,
        PublishSolid, Announce, Register
  <2> QED BY <1>2, <2>1, <2>2, <2>3 DEF Serve, WritesOrderLdp
<1>3. ASSUME NEW r \in Requests, Raises(r)
      PROVE  Alone'
  BY <1>3 DEF Raises
<1>4. CASE Crash
  BY <1>4 DEF Crash
<1>5. CASE UNCHANGED vars
  BY <1>5 DEF vars
<1> QED BY <1>1, <1>2, <1>3, <1>4, <1>5 DEF Next, Finished

\* Assembly: what one thread puts where another reads it is an Order's.
LEMMA AssemblyStep ==
    ASSUME FlowInv, [Next]_vars, NEW q \in Requests
    PROVE  AssemblyGood(q)'
<1> USE DEF Step, request, runtime, files, work, public, setting
<1> USE DEF FlowInv, TypeOK, Enhanced, Locals, AssemblyGood, Alone, Beyond,
       Running, Over, Fits, ToInit, ToBom, ToInvoice, ToOrder, ToTree,
       ToEnhance, ToAssign, ToFunction
<1>1. ASSUME NEW r \in Requests, NEW o \in Orders, RunOrder(r, o)
      PROVE  AssemblyGood(q)'
  <2>1. CASE q = r
    BY <1>1, <2>1 DEF RunOrder
  <2>2. CASE q # r
    <3>1. /\ pc'[q] = pc[q] /\ order'[q] = order[q] /\ (~ overlapped' => ~ overlapped)
          /\ UNCHANGED <<pass, seen, mine, runtime, files, work, public>>
      BY <1>1, <2>2, SMTT(30) DEF RunOrder
    <3> QED BY <3>1, SMTT(30)
  <2> QED BY <2>1, <2>2
<1>2. ASSUME NEW r \in Requests, Serve(r)
      PROVE  AssemblyGood(q)'
  <2>1. CASE InitBomCar(r)
    BY <2>1 DEF InitBomCar
  <2>2. CASE WriteBom(r)
    BY <2>2 DEF WriteBom
  <2>3. CASE WriteInvoice(r)
    BY <2>3 DEF WriteInvoice
  <2>4. CASE WriteOrder(r)
    BY <2>4 DEF WriteOrder
  <2>5. CASE WriteTree(r)
    BY <2>5 DEF WriteTree
  <2>6. CASE AssignEnhanced(r)
    BY <2>6 DEF AssignEnhanced
  <2>7. CASE AssignBom(r)
    BY <2>7 DEF AssignBom
  <2>8. CASE NewFunction(r)
    BY <2>8 DEF NewFunction
  <2>9. CASE NewExecutor(r)
    BY <2>9 DEF NewExecutor
  <2>10. CASE CatStore(r)
    BY <2>10 DEF CatStore
  <2>11. CASE OpenStructurePorts(r)
    BY <2>11 DEF OpenStructurePorts
  <2>12. CASE Ingress(r)
    BY <2>12 DEF Ingress
  <2>13. CASE IntegrationHome(r)
    BY <2>13 DEF IntegrationHome
  <2>14. CASE Stage(r)
    BY <2>14 DEF Stage
  <2>15. CASE Dispatch(r)
    BY <2>15 DEF Dispatch
  <2>16. CASE WaitForDirectory(r)
    BY <2>16 DEF WaitForDirectory
  <2>17. CASE Collect(r)
    BY <2>17 DEF Collect
  <2>18. CASE Egress(r)
    BY <2>18 DEF Egress
  <2>19. CASE PublishInvoice(r)
    BY <2>19 DEF PublishInvoice
  <2>20. CASE MintBom(r)
    BY <2>20 DEF MintBom
  <2>21. CASE PublishLdp(r)
    BY <2>21 DEF PublishLdp
  <2>22. CASE WritesOrderLdp(r)
    <3>1. /\ pc[r] \in {"orderldp", "orderput"}
          /\ pc' = [pc EXCEPT ![r] = pc'[r]] /\ pc'[r] \in {"orderput", "solid"}
          /\ UNCHANGED <<order, pass, seen, runtime, files, work, published, setting>>
      BY <2>22 DEF WritesOrderLdp, OpenOrderLdp, FillOrderLdp, OrderLdpFails
    <3>2. /\ mine'[q].doc = mine[q].doc /\ mine'[q].input = mine[q].input
          /\ q # r => pc'[q] = pc[q]
          /\ q = r => pc[q] \in {"orderldp", "orderput"} /\ pc'[q] \in {"orderput", "solid"}
      BY <2>22, <3>1, OrderUriOnly
    <3> QED BY <3>1, <3>2
  <2>23. CASE PublishSolid(r)
    BY <2>23 DEF PublishSolid
  <2>24. CASE Announce(r)
    BY <2>24 DEF Announce
  <2>25. CASE Register(r)
    BY <2>25 DEF Register
  <2> QED BY <1>2, <2>1, <2>2, <2>3, <2>4, <2>5, <2>6, <2>7, <2>8, <2>9, <2>10, <2>11,
          <2>12, <2>13, <2>14, <2>15, <2>16, <2>17, <2>18, <2>19, <2>20, <2>21, <2>22,
          <2>23, <2>24, <2>25 DEF Serve, WritesOrderLdp
<1>3. ASSUME NEW r \in Requests, Raises(r)
      PROVE  AssemblyGood(q)'
  BY <1>3 DEF Raises
<1>4. CASE Crash
  BY <1>4 DEF Crash
<1>5. CASE UNCHANGED vars
  BY <1>5 DEF vars
<1> QED BY <1>1, <1>2, <1>3, <1>4, <1>5 DEF Next, Finished

\* Execution: the directories and the data of the thread.
LEMMA ExecutionStep ==
    ASSUME FlowInv, [Next]_vars, NEW q \in Requests
    PROVE  ExecutionGood(q)'
<1> USE DEF Step, request, runtime, files, work, public, setting
<1> USE DEF FlowInv, TypeOK, Locals, AssemblyGood, ExecutionGood, Alone,
       Beyond, After, Running, Over, Fits, Belongs, Minted, Publish, ToHomes,
       ToReconcile, ToCache, ToDispatch, ToWait, ToCollect, ToMint, ToInit,
       ToBom, ToInvoice, ToOrder, ToTree, ToEnhance, ToAssign, ToFunction
<1>1. ASSUME NEW r \in Requests, NEW o \in Orders, RunOrder(r, o)
      PROVE  ExecutionGood(q)'
  <2>1. CASE q = r
    BY <1>1, <2>1, ConstantsAssumption DEF RunOrder
  <2>2. CASE q # r
    <3>1. /\ pc'[q] = pc[q] /\ order'[q] = order[q] /\ (~ overlapped' => ~ overlapped)
          /\ UNCHANGED <<pass, seen, mine, runtime, files, work, public>>
      BY <1>1, <2>2, SMTT(30) DEF RunOrder
    <3> QED BY <3>1, SMTT(30)
  <2> QED BY <2>1, <2>2
<1>2. ASSUME NEW r \in Requests, Serve(r)
      PROVE  ExecutionGood(q)'
  <2>1. CASE InitBomCar(r)
    BY <2>1 DEF InitBomCar
  <2>2. CASE WriteBom(r)
    BY <2>2 DEF WriteBom
  <2>3. CASE WriteInvoice(r)
    BY <2>3 DEF WriteInvoice
  <2>4. CASE WriteOrder(r)
    BY <2>4 DEF WriteOrder
  <2>5. CASE WriteTree(r)
    BY <2>5 DEF WriteTree
  <2>6. CASE AssignEnhanced(r)
    BY <2>6 DEF AssignEnhanced
  <2>7. CASE AssignBom(r)
    BY <2>7 DEF AssignBom
  <2>8. CASE NewFunction(r)
    BY <2>8 DEF NewFunction
  <2>9. CASE NewExecutor(r)
    BY <2>9 DEF NewExecutor
  <2>10. CASE CatStore(r)
    BY <2>10 DEF CatStore
  <2>11. CASE OpenStructurePorts(r)
    BY <2>11 DEF OpenStructurePorts
  <2>12. CASE Ingress(r)
    BY <2>12 DEF Ingress
  <2>13. CASE IntegrationHome(r)
    BY <2>13 DEF IntegrationHome
  <2>14. CASE Stage(r)
    <3>1. PICK n \in Stages(r) :
            /\ staged' = [staged EXCEPT ![n] = @ \cup {mine[r].input}]
            /\ mine' = [mine EXCEPT ![r].stage = n]
      BY <2>14 DEF Stage
    <3>2. n \in Requests /\ (~ overlapped => n = r)
      <4>1. CASE n = r
        BY <4>1
      <4>2. ASSUME NEW p \in Staging, n = mine[p].stage
            PROVE  n \in Requests /\ (~ overlapped => n = r)
        <5>1. p \in Requests /\ Running(p) /\ mine[p].stage # None
          BY <4>2 DEF Staging
        <5>2. ~ overlapped => p = r
          BY <2>14, <5>1 DEF Stage
        <5> QED BY <4>2, <5>1, <5>2
      <4> QED BY <3>1, <4>1, <4>2 DEF Stages
    <3>3. Fits(r, mine[r].input)
      BY <2>14 DEF Stage
    <3>4. /\ mine'[q].ran = mine[q].ran /\ mine'[q].dir = mine[q].dir
          /\ mine'[q].data = mine[q].data
          /\ q # r => mine'[q] = mine[q]
      BY <3>1
    <3>5. mine'[r].stage = n
      BY <3>1
    <3>6. /\ n # q => staged'[q] = staged[q]
          /\ n = q => staged'[q] = staged[q] \cup {mine[r].input}
      BY <3>1, <3>2
    <3>0. /\ pc[r] = "cache" /\ pc' = [pc EXCEPT ![r] = "dispatch"]
          /\ UNCHANGED <<order, pass, runtime, out, public, setting>>
      BY <2>14 DEF Stage
    <3>7. CASE q = r
      <4>1. ~ overlapped => staged'[r] # {} /\ staged'[r] \subseteq {order[r]}
        BY <3>2, <3>3, <3>6, <3>7
      <4>2. Belongs(r, mine'[r].stage)
        BY <3>2, <3>5
      <4>3. After(r, ToReconcile) => Fits(r, mine[r].ran)
        OBVIOUS
      <4> QED BY <3>0, <3>4, <3>5, <3>7, <4>1, <4>2, <4>3
    <3>8. CASE q # r
      BY <3>0, <3>2, <3>3, <3>4, <3>6, <3>8
    <3> QED BY <3>7, <3>8
  <2>15. CASE Dispatch(r)
    BY <2>15 DEF Dispatch
  <2>16. CASE WaitForDirectory(r)
    BY <2>16 DEF WaitForDirectory
  <2>17. CASE Collect(r)
    BY <2>17 DEF Collect
  <2>18. CASE Egress(r)
    BY <2>18 DEF Egress
  <2>19. CASE PublishInvoice(r)
    BY <2>19 DEF PublishInvoice
  <2>20. CASE MintBom(r)
    BY <2>20 DEF MintBom
  <2>21. CASE PublishLdp(r)
    BY <2>21 DEF PublishLdp
  <2>22. CASE WritesOrderLdp(r)
    <3>1. /\ pc[r] \in {"orderldp", "orderput"}
          /\ pc' = [pc EXCEPT ![r] = pc'[r]] /\ pc'[r] \in {"orderput", "solid"}
          /\ UNCHANGED <<order, pass, seen, runtime, files, work, published, setting>>
      BY <2>22 DEF WritesOrderLdp, OpenOrderLdp, FillOrderLdp, OrderLdpFails
    <3> QED BY <2>22, <3>1, OrderUriOnly
  <2>23. CASE PublishSolid(r)
    BY <2>23 DEF PublishSolid
  <2>24. CASE Announce(r)
    BY <2>24 DEF Announce
  <2>25. CASE Register(r)
    BY <2>25 DEF Register
  <2> QED BY <1>2, <2>1, <2>2, <2>3, <2>4, <2>5, <2>6, <2>7, <2>8, <2>9, <2>10, <2>11,
          <2>12, <2>13, <2>14, <2>15, <2>16, <2>17, <2>18, <2>19, <2>20, <2>21, <2>22,
          <2>23, <2>24, <2>25 DEF Serve, WritesOrderLdp
<1>3. ASSUME NEW r \in Requests, Raises(r)
      PROVE  ExecutionGood(q)'
  BY <1>3 DEF Raises
<1>4. CASE Crash
  BY <1>4 DEF Crash
<1>5. CASE UNCHANGED vars
  BY <1>5 DEF vars
<1> QED BY <1>1, <1>2, <1>3, <1>4, <1>5 DEF Next, Finished

\* What a signed BOM says no longer changes.
LEMMA CoherentStep ==
    ASSUME FlowInv, [Next]_vars
    PROVE  BomCoherent'
<1> USE DEF Step, request, runtime, files, work, public, setting
<1> USE DEF FlowInv, TypeOK, Locals, AssemblyGood, ExecutionGood, Alone,
       Beyond, After, Running, Over, Fits, Minted, Publish, BomCoherent,
       ToMint, ToHomes, ToReconcile, ToCache, ToDispatch, ToWait, ToCollect,
       ToInit, ToBom, ToInvoice, ToOrder, ToTree, ToEnhance, ToAssign,
       ToFunction
<1>1. ASSUME NEW r \in Requests, NEW o \in Orders, RunOrder(r, o)
      PROVE  BomCoherent'
  BY <1>1 DEF RunOrder
<1>2. ASSUME NEW r \in Requests, Serve(r)
      PROVE  BomCoherent'
  <2>1. CASE InitBomCar(r)
    BY <2>1 DEF InitBomCar
  <2>2. CASE WriteBom(r)
    BY <2>2 DEF WriteBom
  <2>3. CASE WriteInvoice(r)
    BY <2>3 DEF WriteInvoice
  <2>4. CASE WriteOrder(r)
    BY <2>4 DEF WriteOrder
  <2>5. CASE WriteTree(r)
    BY <2>5 DEF WriteTree
  <2>6. CASE AssignEnhanced(r)
    BY <2>6 DEF AssignEnhanced
  <2>7. CASE AssignBom(r)
    BY <2>7 DEF AssignBom
  <2>8. CASE NewFunction(r)
    BY <2>8 DEF NewFunction
  <2>9. CASE NewExecutor(r)
    BY <2>9 DEF NewExecutor
  <2>10. CASE CatStore(r)
    BY <2>10 DEF CatStore
  <2>11. CASE OpenStructurePorts(r)
    BY <2>11 DEF OpenStructurePorts
  <2>12. CASE Ingress(r)
    BY <2>12 DEF Ingress
  <2>13. CASE IntegrationHome(r)
    BY <2>13 DEF IntegrationHome
  <2>14. CASE Stage(r)
    BY <2>14 DEF Stage
  <2>15. CASE Dispatch(r)
    BY <2>15 DEF Dispatch
  <2>16. CASE WaitForDirectory(r)
    BY <2>16 DEF WaitForDirectory
  <2>17. CASE Collect(r)
    BY <2>17 DEF Collect
  <2>18. CASE Egress(r)
    BY <2>18 DEF Egress
  <2>19. CASE PublishInvoice(r)
    BY <2>19 DEF PublishInvoice
  <2>20. CASE MintBom(r)
    BY <2>20 DEF MintBom
  <2>21. CASE PublishLdp(r)
    BY <2>21 DEF PublishLdp
  <2>22. CASE WritesOrderLdp(r)
    <3>1. /\ pc[r] \in {"orderldp", "orderput"}
          /\ pc' = [pc EXCEPT ![r] = pc'[r]] /\ pc'[r] \in {"orderput", "solid"}
          /\ UNCHANGED <<order, pass, seen, runtime, files, work, published, setting>>
      BY <2>22 DEF WritesOrderLdp, OpenOrderLdp, FillOrderLdp, OrderLdpFails
    <3> QED BY <2>22, <3>1, OrderUriOnly
  <2>23. CASE PublishSolid(r)
    BY <2>23 DEF PublishSolid
  <2>24. CASE Announce(r)
    BY <2>24 DEF Announce
  <2>25. CASE Register(r)
    BY <2>25 DEF Register
  <2> QED BY <1>2, <2>1, <2>2, <2>3, <2>4, <2>5, <2>6, <2>7, <2>8, <2>9, <2>10, <2>11,
          <2>12, <2>13, <2>14, <2>15, <2>16, <2>17, <2>18, <2>19, <2>20, <2>21, <2>22,
          <2>23, <2>24, <2>25 DEF Serve, WritesOrderLdp
<1>3. ASSUME NEW r \in Requests, Raises(r)
      PROVE  BomCoherent'
  BY <1>3 DEF Raises
<1>4. CASE Crash
  BY <1>4 DEF Crash
<1>5. CASE UNCHANGED vars
  BY <1>5 DEF vars
<1> QED BY <1>1, <1>2, <1>3, <1>4, <1>5 DEF Next, Finished

------------------------------------------------------------------------------
(***************************************************************************)
(* Theorems                                                                *)
(***************************************************************************)
LEMMA FlowInductive == FlowInv /\ [Next]_vars => FlowInv'
BY TypeStep, AloneStep, AssemblyStep, ExecutionStep, CoherentStep DEF FlowInv

LEMMA FlowAlways == Spec => []FlowInv
BY FlowInit, FlowInductive, PTL DEF Spec

\* Every variable stays in its type: no thread downloads to, reads from or
\* stages in a directory that no request has named, and no None gets to where
\* an Order is written, although the attributes are shared and unset after a
\* crash of the Node.
THEOREM OrdersTyped == Spec => []TypeOK
<1>1. FlowInv => TypeOK
  BY DEF FlowInv
<1> QED BY <1>1, FlowAlways, PTL

\* A signed BOM speaks of the Order the client asked for, whatever earlier
\* requests and crashes have left behind, as long as no two requests of
\* run_order have overlapped.
THEOREM SignedBomCoherent == Spec => []BomCoherent
<1>1. FlowInv => BomCoherent
  BY DEF FlowInv
<1> QED BY <1>1, FlowAlways, PTL

\* wait_for_directory polls the directory the result was downloaded to, as long
\* as no two requests have overlapped.
THEOREM WaitsOnOwnResult == Spec => []WaitEnds
<1>1. FlowInv => WaitEnds
  BY DEF FlowInv, ExecutionGood, After, Running, Over, Belongs, WaitEnds,
         ToHomes, ToReconcile, ToCache, ToDispatch, ToWait,
         ToInit, ToBom, ToInvoice, ToOrder, ToTree, ToEnhance, ToAssign, ToFunction
<1> QED BY <1>1, FlowAlways, PTL

\* Whoever is told of a BOM by the registry, an announcement or a response finds
\* it, with any number of concurrent requests, swallowed errors and crashes; the
\* Order's resource may be torn, by another execution of the same Order.
THEOREM ToldMeansFound == Spec => []LocatorsResolve
<1>1. FlowInv /\ PublicationInv => LocatorsResolve
  <2> SUFFICES ASSUME FlowInv, PublicationInv, NEW r \in Requests, mine[r].orderUri # None
               PROVE  Resolves(r)
    BY DEF PublicationInv, PublishedGood, LocatorsResolve
  <2>1. /\ mine[r].orderUri = order[r] /\ mine[r].wrote = "done"
        /\ orderLdp[order[r]] # "none" /\ order[r] \in Orders
    BY DEF PublicationInv, UriGood, FlowInv, AssemblyGood
  <2> QED BY <2>1 DEF PublicationInv, TornGood, Resolves
<1>2. FlowInv /\ PublicationInv /\ [Next]_vars => PublicationInv'
  BY PublicationStep
<1> QED BY <1>1, <1>2, PublicationInit, FlowAlways, PTL DEF Spec
==============================================================================
