-------------------------- MODULE OrderLineageProofs --------------------------
(***************************************************************************)
(* Orders, links, executions and one-shot Jobs for every set of file       *)
(* contents and of callables, and every number of Orders, runs and edits.  *)
(***************************************************************************)
EXTENDS OrderLineage, FiniteSetTheorems, SequenceTheorems, TLAPS

\* A tree that holds nothing but what is hashed of a directory.
CodeOnly(dir, tree) == tree \in Trees /\ DOMAIN tree = AsCodeFiles(dir, tree)

\* An Order with its fields spelt out.
OrderOf(function, structure, data, sbom) ==
    [function |-> function, structure |-> structure, data |-> data, sbom |-> sbom]

FunctionGood(f) ==
    /\ f = [source |-> f.source, leaf |-> f.leaf]
    /\ f.source \in [Packages -> Trees]
    /\ \A p \in Packages : CodeOnly(p, f.source[p])
    /\ f.leaf \in [Slots -> Leaves]
    /\ \A s \in Slots : f.leaf[s].named => f.leaf[s].source = f.source[PackageOf(s)]

StructureGood(structure) ==
    /\ structure \in [StructureDirs -> Trees]
    /\ \A d \in StructureDirs : CodeOnly(d, structure[d])
    /\ "lock" \in DOMAIN structure["root"]

\* What every Order minted is, whatever it was linked from.
OrderGood(o) ==
    /\ o = OrderOf(o.function, o.structure, o.data, o.sbom)
    /\ FunctionGood(o.function) /\ StructureGood(o.structure)
    /\ o.sbom # None => o.sbom = <<o.function, o.structure, o.data>>

\* How a minted Order continues the run it was linked from.
LinkGood(m) ==
    /\ m.when \in Nat /\ m.when <= Len(log)
    /\ m.op # "create" =>
         /\ m.prior \in DOMAIN log
         /\ m.order.data = log[m.prior].out
         /\ m.order.function.source = log[m.prior].order.function.source
         /\ m.op = "process" => m.order.structure = log[m.prior].order.structure
         /\ m.op = "structure" => m.order.function = log[m.prior].order.function
         /\ m.op # "process" => m.order.structure # log[m.prior].order.structure
         /\ m.by # None => \A i \in 1 .. m.when : log[i].out = m.by => i = m.prior

\* What a run on the Node leaves in its log entry.
RunGood(r) ==
    /\ \A s \in Slots : r.order.function.leaf[s].named =>
         (Agrees(r.order.function.source[PackageOf(s)], r.ran[s].package) <=>
            \/ r.before[PackageOf(s)] = None
            \/ Agrees(r.order.function.source[PackageOf(s)], r.before[PackageOf(s)]))
    /\ \A d \in StructureDirs :
         LET named == r.order.structure[d]
             kept  == d # "root" \/ r.locked
         IN  /\ \A f \in DOMAIN named :
                   kept \/ f # "lock" => f \in DOMAIN r.applied[d] /\ r.applied[d][f] = named[f]
             /\ kept => (r.applied[d] = named <=> r.found[d] \subseteq DOMAIN named)

JobGood(j) ==
    \A s \in Slots : j.order.function.leaf[s].named =>
        Agrees(j.order.function.source[PackageOf(s)], j.ran[s].package)

\* A history: a sequence of entries of whatever kind.
History(h) == \E S : h \in Seq(S)

TreesGood ==
    /\ disk \in [Dirs -> Trees] /\ loaded \in [Packages -> Trees \cup {None}]
    /\ cached \subseteq Versions
OrdersGood == \A m \in minted : OrderGood(m.order) /\ LinkGood(m)
RunsGood == \A i \in DOMAIN log : log[i].order \in Minted /\ RunGood(log[i])

LineageInv ==
    /\ TreesGood /\ OrdersGood /\ RunsGood
    /\ History(log) /\ History(jobs)
    /\ \A j \in DOMAIN jobs : JobGood(jobs[j])

------------------------------------------------------------------------------
(***************************************************************************)
(* Trees                                                                   *)
(***************************************************************************)

LEMMA TreeShape ==
    ASSUME NEW t \in Trees
    PROVE  /\ DOMAIN t \subseteq Files
           /\ \A f \in DOMAIN t : t[f] \in Versions
           /\ t = [f \in DOMAIN t |-> t[f]]
BY DEF Trees

LEMMA IsTree ==
    ASSUME NEW D \in SUBSET Files, NEW t \in [D -> Versions]
    PROVE  t \in Trees
BY DEF Trees

LEMMA OverTree ==
    ASSUME NEW t \in Trees, NEW u \in Trees
    PROVE  /\ Over(t, u) \in Trees
           /\ DOMAIN Over(t, u) = DOMAIN t \cup DOMAIN u
           /\ \A f \in DOMAIN t : Over(t, u)[f] = t[f]
           /\ \A f \in DOMAIN u \ DOMAIN t : Over(t, u)[f] = u[f]
<1>1. Over(t, u) \in [DOMAIN t \cup DOMAIN u -> Versions]
  BY TreeShape DEF Over
<1>2. DOMAIN t \cup DOMAIN u \in SUBSET Files
  BY TreeShape
<1>3. Over(t, u) \in Trees
  BY <1>1, <1>2, IsTree
<1> QED BY <1>3 DEF Over

LEMMA CodeTree ==
    ASSUME NEW d \in Dirs, NEW t \in Trees
    PROVE  /\ CodeOnly(d, AsCode(d, t))
           /\ DOMAIN AsCode(d, t) = AsCodeFiles(d, t)
           /\ AsCodeFiles(d, t) \subseteq DOMAIN t
           /\ \A f \in AsCodeFiles(d, t) : AsCode(d, t)[f] = t[f]
<1>1. AsCodeFiles(d, t) \subseteq DOMAIN t
  BY DEF AsCodeFiles
<1>2. AsCode(d, t) \in [AsCodeFiles(d, t) -> Versions]
  BY <1>1, TreeShape DEF AsCode
<1>3. AsCodeFiles(d, t) \in SUBSET Files
  BY <1>1, TreeShape
<1>4. AsCode(d, t) \in Trees
  BY <1>2, <1>3, IsTree
<1>5. DOMAIN AsCode(d, t) = AsCodeFiles(d, t)
  BY DEF AsCode
<1>6. AsCodeFiles(d, AsCode(d, t)) = AsCodeFiles(d, t)
  BY <1>5 DEF AsCodeFiles
<1> QED BY <1>1, <1>4, <1>5, <1>6 DEF CodeOnly, AsCode

\* A tree of code is its own code.
LEMMA CodeIsCode ==
    ASSUME NEW d \in Dirs, NEW t, CodeOnly(d, t)
    PROVE  AsCode(d, t) = t
BY TreeShape DEF CodeOnly, AsCode

\* What materialising a tree of code leaves on disk, read back.
LEMMA MaterialisedCode ==
    ASSUME NEW d \in Dirs, NEW t, CodeOnly(d, t), NEW u \in Trees
    PROVE  /\ Materialise(d, t, u) \in Trees
           /\ DOMAIN AsCode(d, Materialise(d, t, u)) = DOMAIN t \cup DOMAIN AsCode(d, u)
           /\ Agrees(t, AsCode(d, Materialise(d, t, u)))
           /\ AsCode(d, Materialise(d, t, u)) = t <=> DOMAIN AsCode(d, u) \subseteq DOMAIN t
<1>1. t \in Trees /\ Materialise(d, t, u) = Over(t, u)
  BY CodeIsCode DEF CodeOnly, Materialise
<1> DEFINE w == Over(t, u)
           c == AsCode(d, w)
<1>2. w \in Trees /\ DOMAIN w = DOMAIN t \cup DOMAIN u /\ \A f \in DOMAIN t : w[f] = t[f]
  BY <1>1, OverTree
<1>3. CodeOnly(d, c) /\ DOMAIN c = AsCodeFiles(d, w) /\ \A f \in DOMAIN c : c[f] = w[f]
  BY <1>2, CodeTree
<1>4. DOMAIN AsCode(d, u) = AsCodeFiles(d, u)
  BY CodeTree
<1>5. DOMAIN c = DOMAIN t \cup DOMAIN AsCode(d, u)
  BY <1>2, <1>3, <1>4 DEF CodeOnly, AsCodeFiles
<1>6. \A f \in DOMAIN t : f \in DOMAIN c /\ c[f] = t[f]
  BY <1>2, <1>3, <1>5
<1>7. c = [f \in DOMAIN c |-> c[f]] /\ t = [f \in DOMAIN t |-> t[f]]
  BY <1>1, <1>3, TreeShape DEF CodeOnly
<1>8. DOMAIN AsCode(d, u) \subseteq DOMAIN t => c = t
  BY <1>5, <1>6, <1>7
<1> QED BY <1>1, <1>2, <1>5, <1>6, <1>8 DEF Agrees

LEMMA ImageTrees == Image \in [Dirs -> Trees]
<1>1. ASSUME NEW D \in SUBSET {"code", "lock"}
      PROVE  [f \in D |-> CHOOSE v \in Versions : TRUE] \in Trees
  <2>1. [f \in D |-> CHOOSE v \in Versions : TRUE] \in [D -> Versions]
    BY LineageAssumption
  <2>2. D \in SUBSET Files
    BY DEF Files
  <2> QED BY <2>1, <2>2, IsTree
<1>2. ASSUME NEW d \in Dirs PROVE Image[d] \in Trees
  <2>1. {"code"} \cup (IF d = "root" THEN {"lock"} ELSE {}) \in SUBSET {"code", "lock"}
    OBVIOUS
  <2> QED BY <1>1, <2>1 DEF Image
<1> QED BY <1>2 DEF Image

\* Histories only grow.
LEMMA Grows ==
    ASSUME NEW h, History(h), NEW e
    PROVE  /\ History(Append(h, e))
           /\ Len(h) \in Nat /\ DOMAIN h = 1 .. Len(h)
           /\ Len(Append(h, e)) = Len(h) + 1
           /\ DOMAIN Append(h, e) = 1 .. Len(h) + 1
           /\ \A i \in DOMAIN h : Append(h, e)[i] = h[i]
           /\ Append(h, e)[Len(h) + 1] = e
<1>1. PICK S : h \in Seq(S)
  BY DEF History
<1>2. h \in Seq(S \cup {e}) /\ e \in S \cup {e}
  BY <1>1
<1>3. Append(h, e) \in Seq(S \cup {e})
  BY <1>2
<1> QED BY <1>2, <1>3 DEF History

------------------------------------------------------------------------------
(***************************************************************************)
(* Functions, Structures and Orders                                        *)
(***************************************************************************)

LEMMA BindLeaf ==
    ASSUME NEW s \in Slots, NEW c \in Offered \cup {"infrafunction_subproc"}, NEW t \in Trees
    PROVE  /\ Bind(s, c, t) \in Leaves
           /\ Bind(s, c, t).named => Bind(s, c, t).source = t
<1>1. CASE c \in Stock(s)
  <2>1. Bind(s, c, t) = [named |-> TRUE, code |-> c, source |-> t]
    BY <1>1 DEF Bind
  <2> QED BY <2>1 DEF Leaves
<1>2. CASE c \notin Stock(s)
  <2>1. (c \in Stock(s)) = FALSE
    BY <1>2
  <2>2. Bind(s, c, t) = [named |-> FALSE, code |-> c, source |-> None]
    BY <2>1, Zenon DEF Bind
  <2> QED BY <2>2 DEF Leaves
<1> QED BY <1>1, <1>2

LEMMA DiskCode ==
    ASSUME TreesGood
    PROVE  /\ RootComplete => StructureGood(StructureOnDisk)
           /\ SourcesOnDisk \in [Packages -> Trees]
           /\ \A p \in Packages : CodeOnly(p, SourcesOnDisk[p])
<1>1. ASSUME NEW d \in Dirs PROVE CodeOnly(d, AsCode(d, disk[d])) /\ AsCode(d, disk[d]) \in Trees
  BY CodeTree DEF TreesGood, CodeOnly
<1>2. RootComplete => "lock" \in DOMAIN StructureOnDisk["root"]
  <2>1. DOMAIN AsCode("root", disk["root"]) = AsCodeFiles("root", disk["root"])
    BY DEF AsCode
  <2> QED BY <2>1 DEF RootComplete, StructureOnDisk, StructureDirs, AsCodeFiles
<1> QED BY <1>1, <1>2 DEF StructureGood, StructureOnDisk, SourcesOnDisk, Dirs

\* _rebuild_function keeps a Function's leaves bound to its own packages.
LEMMA RebuiltGood ==
    ASSUME NEW f, FunctionGood(f), NEW repl \in Replacements
    PROVE  FunctionGood(RebuildFunction(f, repl)) /\ RebuildFunction(f, repl).source = f.source
<1> DEFINE g == RebuildFunction(f, repl)
<1>1. g = [source |-> f.source, leaf |-> g.leaf] /\ g.source = f.source
  BY DEF RebuildFunction
<1>2. ASSUME NEW s \in Slots
      PROVE  /\ g.leaf[s] \in Leaves
             /\ g.leaf[s].named => g.leaf[s].source = f.source[PackageOf(s)]
  <2>1. PackageOf(s) \in Packages
    BY DEF PackageOf, Packages
  <2>2. f.source[PackageOf(s)] \in Trees
    BY <2>1 DEF FunctionGood
  <2>3. CASE s \in DOMAIN repl
    <3>1. repl[s] \in Offered
      BY <2>3 DEF Replacements, Callables
    <3>2. g.leaf[s] = Bind(s, repl[s], f.source[PackageOf(s)])
      BY <2>3 DEF RebuildFunction
    <3> QED BY <3>1, <3>2, <2>2, BindLeaf
  <2>4. CASE s \notin DOMAIN repl
    BY <2>4 DEF RebuildFunction, FunctionGood
  <2> QED BY <2>3, <2>4
<1>3. g.leaf \in [Slots -> Leaves]
  <2>1. g.leaf = [s \in Slots |-> g.leaf[s]]
    BY DEF RebuildFunction
  <2> QED BY <2>1, <1>2
<1> QED BY <1>1, <1>2, <1>3 DEF FunctionGood

\* _resolve_structure_pairing pairs trees of code.
LEMMA PairingGood ==
    ASSUME TreesGood, OrdersGood, NEW prior, StructureGood(prior),
           NEW fromDisk \in BOOLEAN, NEW over \in Overrides,
           ~ PairingRefused(prior, fromDisk, over)
    PROVE  StructureGood(Pairing(prior, fromDisk, over))
<1>1. ASSUME NEW d \in StructureDirs
      PROVE  CodeOnly(d, Pairing(prior, fromDisk, over)[d])
  <2>1. CodeOnly(d, AsCode(d, disk[d]))
    BY CodeTree DEF TreesGood, Dirs
  <2>2. CASE over = << >>
    BY <2>1, <2>2 DEF Pairing, StructureGood
  <2>3. CASE over # << >>
    <3>1. PICK m \in minted : over = [e \in {"plant"} |-> m.order.structure["plant"]]
      BY <2>3 DEF Overrides, Minted
    <3>2. CodeOnly("plant", m.order.structure["plant"])
      BY DEF OrdersGood, OrderGood, StructureGood, StructureDirs
    <3> QED BY <2>1, <3>1, <3>2 DEF Pairing, StructureGood
  <2> QED BY <2>2, <2>3
<1>2. Pairing(prior, fromDisk, over) = [d \in StructureDirs |-> Pairing(prior, fromDisk, over)[d]]
  BY DEF Pairing
<1>3. "lock" \in DOMAIN Pairing(prior, fromDisk, over)["root"]
  <2>1. "root" \notin DOMAIN over
    BY DEF Overrides
  <2>2. fromDisk => "lock" \in DOMAIN AsCode("root", disk["root"])
    <3>1. DOMAIN AsCode("root", disk["root"]) = AsCodeFiles("root", disk["root"])
      BY DEF AsCode
    <3> QED BY <3>1 DEF PairingRefused, RootComplete, AsCodeFiles
  <2> QED BY <2>1, <2>2 DEF Pairing, StructureGood, StructureDirs
<1> QED BY <1>1, <1>2, <1>3 DEF StructureGood, CodeOnly

\* Orders carry the eBOM documents of what they name, or none.
LEMMA AttachGood ==
    ASSUME NEW f, NEW s, NEW d, FunctionGood(f), StructureGood(s)
    PROVE  /\ OrderGood(Attach(OrderOf(f, s, d, None)))
           /\ Attach(OrderOf(f, s, d, None)).function = f
           /\ Attach(OrderOf(f, s, d, None)).structure = s
           /\ Attach(OrderOf(f, s, d, None)).data = d
<1>1. CASE sbomOn
  <2>1. Attach(OrderOf(f, s, d, None)) = OrderOf(f, s, d, <<f, s, d>>)
    BY <1>1 DEF Attach, OrderOf
  <2> QED BY <2>1 DEF OrderGood, OrderOf
<1>2. CASE ~ sbomOn
  <2>1. Attach(OrderOf(f, s, d, None)) = OrderOf(f, s, d, None)
    BY <1>2 DEF Attach, OrderOf
  <2> QED BY <2>1 DEF OrderGood, OrderOf
<1> QED BY <1>1, <1>2

LEMMA FromPriorGood ==
    ASSUME NEW o, OrderGood(o), NEW f, NEW s, NEW d, FunctionGood(f), StructureGood(s)
    PROVE  /\ OrderGood(FromPrior(o, f, s, d))
           /\ FromPrior(o, f, s, d).function = f
           /\ FromPrior(o, f, s, d).structure = s
           /\ FromPrior(o, f, s, d).data = d
<1>1. Strip(o) = OrderOf(o.function, o.structure, o.data, None)
  BY DEF OrderGood, OrderOf, Strip
<1>2. [Strip(o) EXCEPT !.function = f, !.structure = s, !.data = d] = OrderOf(f, s, d, None)
  <2>1. [Strip(o) EXCEPT !.function = f] = OrderOf(f, o.structure, o.data, None)
    BY <1>1 DEF OrderOf
  <2>2. [OrderOf(f, o.structure, o.data, None) EXCEPT !.structure = s]
           = OrderOf(f, s, o.data, None)
    BY DEF OrderOf
  <2>3. [OrderOf(f, s, o.data, None) EXCEPT !.data = d] = OrderOf(f, s, d, None)
    BY DEF OrderOf
  <2> QED BY <2>1, <2>2, <2>3, Zenon
<1>3. FromPrior(o, f, s, d) = Attach(OrderOf(f, s, d, None))
  BY <1>2, Zenon DEF FromPrior
<1> QED BY <1>3, AttachGood

------------------------------------------------------------------------------
(***************************************************************************)
(* The steps                                                               *)
(***************************************************************************)

LEMMA LineageInit == Init => LineageInv
<1> SUFFICES ASSUME Init PROVE LineageInv
  OBVIOUS
<1>1. disk \in [Dirs -> Trees]
  <2>1. PICK extra \in {{}, {"extra"}} :
          disk = [Image EXCEPT !["plant"] =
                     Over([f \in extra |-> CHOOSE v \in Versions : TRUE], @)]
    BY DEF Init
  <2>2. [f \in extra |-> CHOOSE v \in Versions : TRUE] \in [extra -> Versions]
    BY LineageAssumption
  <2>3. [f \in extra |-> CHOOSE v \in Versions : TRUE] \in Trees
    BY <2>2, IsTree DEF Files
  <2>4. Image["plant"] \in Trees
    BY ImageTrees DEF Dirs, StructureDirs
  <2> QED BY <2>1, <2>3, <2>4, ImageTrees, OverTree
<1>2. loaded \in [Packages -> Trees \cup {None}] /\ cached \subseteq Versions
  BY DEF Init, NoModules
<1>3. History(<< >>) /\ DOMAIN << >> = {}
  <2>1. << >> \in Seq({})
    OBVIOUS
  <2> QED BY <2>1 DEF History
<1> QED BY <1>1, <1>2, <1>3 DEF Init, LineageInv, TreesGood, OrdersGood, RunsGood

\* Orders stay as they were when the runs and the Orders are left alone.
LEMMA LeavesOrders ==
    ASSUME LineageInv, UNCHANGED <<minted, log, jobs>>, TreesGood'
    PROVE  LineageInv'
BY DEF LineageInv, OrdersGood, RunsGood, LinkGood, Minted

LEMMA MintStep ==
    ASSUME LineageInv, NEW o, NEW op, NEW prior, NEW by, OrderGood(o),
           LinkGood([order |-> o, op |-> op, prior |-> prior, by |-> by,
                     when |-> IF by = None THEN 0 ELSE Len(log)]),
           Mint(o, op, prior, by)
    PROVE  LineageInv'
<1> DEFINE new == [order |-> o, op |-> op, prior |-> prior, by |-> by,
                   when |-> IF by = None THEN 0 ELSE Len(log)]
<1>1. minted' = minted \cup {new} /\ UNCHANGED <<disk, loaded, cached, log, jobs>>
  BY DEF Mint, job
<1>2. ASSUME NEW m \in minted' PROVE OrderGood(m.order) /\ LinkGood(m)
  <2>1. CASE m = new
    BY <2>1
  <2>2. CASE m \in minted
    BY <2>2 DEF LineageInv, OrdersGood
  <2> QED BY <1>1, <2>1, <2>2
<1>3. OrdersGood'
  BY <1>1, <1>2 DEF OrdersGood, LinkGood
<1>4. RunsGood'
  BY <1>1 DEF LineageInv, RunsGood, Minted
<1> QED BY <1>1, <1>3, <1>4 DEF LineageInv, TreesGood

LEMMA CreateStep ==
    ASSUME LineageInv, NEW c \in Callables("integrated"), Create(c)
    PROVE  LineageInv'
<1> DEFINE code(s) == IF s = "integrated" THEN c ELSE "infrafunction_subproc"
           f == [source |-> SourcesOnDisk,
                 leaf   |-> [s \in Slots |-> Bind(s, code(s), SourcesOnDisk[PackageOf(s)])]]
           o == Attach(OrderOf(f, StructureOnDisk, InputData, None))
<1>1. Mint(o, "create", 0, None)
  BY DEF Create, OrderOf
<1>2. FunctionGood(f)
  <2>1. SourcesOnDisk \in [Packages -> Trees] /\ \A p \in Packages : CodeOnly(p, SourcesOnDisk[p])
    BY DiskCode DEF LineageInv
  <2>2. ASSUME NEW s \in Slots
        PROVE  /\ f.leaf[s] \in Leaves
               /\ f.leaf[s].named => f.leaf[s].source = SourcesOnDisk[PackageOf(s)]
    <3>1. code(s) \in Offered \cup {"infrafunction_subproc"}
      BY DEF Callables
    <3>2. SourcesOnDisk[PackageOf(s)] \in Trees
      BY <2>1 DEF PackageOf, Packages
    <3>3. f.leaf[s] = Bind(s, code(s), SourcesOnDisk[PackageOf(s)])
      OBVIOUS
    <3> HIDE DEF code
    <3> QED BY <3>1, <3>2, <3>3, BindLeaf
  <2>3. f.leaf \in [Slots -> Leaves]
    <3>1. f.leaf = [s \in Slots |-> f.leaf[s]]
      OBVIOUS
    <3> HIDE DEF f
    <3> QED BY <2>2, <3>1
  <2>4. f = [source |-> SourcesOnDisk, leaf |-> f.leaf] /\ f.source = SourcesOnDisk
    OBVIOUS
  <2> HIDE DEF f
  <2> QED BY <2>1, <2>2, <2>3, <2>4 DEF FunctionGood
<1>3. OrderGood(o)
  BY <1>2, DiskCode, AttachGood DEF LineageInv, Create
<1>4. LinkGood([order |-> o, op |-> "create", prior |-> 0, by |-> None,
                when |-> IF None = None THEN 0 ELSE Len(log)])
  BY Grows DEF LinkGood, LineageInv
<1> HIDE DEF o
<1> QED BY <1>1, <1>3, <1>4, MintStep

\* A data id resolves to a run only when no other run has that data.
LEMMA ResolveSole ==
    ASSUME History(log), NEW data, Resolve(data) # 0
    PROVE  /\ Resolve(data) \in DOMAIN log
           /\ \A j \in DOMAIN log : log[j].out = data => j = Resolve(data)
<1>1. IsFiniteSet(RunsOf(data))
  <2>1. Len(log) \in Nat /\ DOMAIN log = 1 .. Len(log)
    BY Grows
  <2>2. IsFiniteSet(1 .. Len(log))
    <3>1. 1 \in Int /\ Len(log) \in Int
      BY <2>1
    <3> QED BY <3>1, FS_Interval
  <2> QED BY <2>1, <2>2, FS_Subset DEF RunsOf
<1>2. Cardinality(RunsOf(data)) = 1 /\ Resolve(data) = CHOOSE i \in RunsOf(data) : TRUE
  BY DEF Resolve
<1>3. PICK x : RunsOf(data) = {x}
  BY <1>1, <1>2, FS_Singleton
<1>4. Resolve(data) = x
  BY <1>2, <1>3
<1> QED BY <1>3, <1>4 DEF RunsOf

LEMMA LinkStep ==
    ASSUME LineageInv, NEW i \in DOMAIN log, NEW by, LinkTo(i, by),
           by # None => \A j \in DOMAIN log : log[j].out = by => j = i
    PROVE  LineageInv'
<1> DEFINE prior == log[i].order
           data  == log[i].out
           new(order, op) == [order |-> order, op |-> op, prior |-> i, by |-> by,
                              when |-> IF by = None THEN 0 ELSE Len(log)]
<1>1. OrderGood(prior) /\ FunctionGood(prior.function) /\ StructureGood(prior.structure)
  <2>1. PICK m \in minted : m.order = prior
    BY DEF LineageInv, RunsGood, Minted
  <2> QED BY <2>1 DEF LineageInv, OrdersGood, OrderGood
<1>2. FlatBom(i).order = prior /\ FlatBom(i).data = data
  BY DEF FlatBom
<1>3. Len(log) \in Nat /\ DOMAIN log = 1 .. Len(log)
  BY Grows DEF LineageInv
<1>4. by # None => \A j \in 1 .. Len(log) : log[j].out = by => j = i
  BY <1>3
<1>5. ASSUME NEW o, NEW op \in {"process", "structure", "order"}, OrderGood(o),
             o.data = data, o.function.source = prior.function.source,
             op = "process" => o.structure = prior.structure,
             op = "structure" => o.function = prior.function,
             op # "process" => o.structure # prior.structure,
             Mint(o, op, i, by)
      PROVE  LineageInv'
  <2>1. LinkGood(new(o, op))
    BY <1>3, <1>4, <1>5 DEF LinkGood
  <2> QED BY <1>5, <2>1, MintStep
<1>6. ASSUME NEW repl \in Replacements, LinkProcess(i, repl, by) PROVE LineageInv'
  <2> DEFINE f == RebuildFunction(prior.function, repl)
             o == FromPrior(prior, f, prior.structure, data)
  <2>1. FunctionGood(f) /\ f.source = prior.function.source
    BY <1>1, RebuiltGood
  <2>2. Mint(o, "process", i, by)
    BY <1>2, <1>6 DEF LinkProcess
  <2> HIDE DEF f
  <2>3. OrderGood(o) /\ o.function = f /\ o.structure = prior.structure /\ o.data = data
    BY <1>1, <2>1, FromPriorGood
  <2> HIDE DEF o, prior, data
  <2> QED BY <1>5, <2>1, <2>2, <2>3
<1>7. ASSUME NEW fromDisk \in BOOLEAN, NEW over \in Overrides,
             LinkStructure(i, fromDisk, over, by)
      PROVE  LineageInv'
  <2> DEFINE s == Pairing(prior.structure, fromDisk, over)
             o == FromPrior(prior, prior.function, s, data)
  <2>1. StructureGood(s)
    BY <1>1, <1>2, <1>7, PairingGood DEF LineageInv, LinkStructure
  <2>2. Mint(o, "structure", i, by) /\ s # prior.structure
    BY <1>2, <1>7 DEF LinkStructure, PairingRefused
  <2> HIDE DEF s
  <2>3. OrderGood(o) /\ o.function = prior.function /\ o.structure = s /\ o.data = data
    BY <1>1, <2>1, FromPriorGood
  <2> HIDE DEF o, prior, data
  <2> QED BY <1>5, <2>1, <2>2, <2>3
<1>8. ASSUME NEW repl \in Replacements, NEW fromDisk \in BOOLEAN, NEW over \in Overrides,
             LinkOrder(i, repl, fromDisk, over, by)
      PROVE  LineageInv'
  <2> DEFINE f == RebuildFunction(prior.function, repl)
             s == Pairing(prior.structure, fromDisk, over)
             o == FromPrior(prior, f, s, data)
  <2>1. FunctionGood(f) /\ f.source = prior.function.source /\ StructureGood(s)
    BY <1>1, <1>2, <1>8, RebuiltGood, PairingGood DEF LineageInv, LinkOrder
  <2>2. Mint(o, "order", i, by) /\ s # prior.structure
    BY <1>2, <1>8 DEF LinkOrder, PairingRefused
  <2> HIDE DEF f, s
  <2>3. OrderGood(o) /\ o.function = f /\ o.structure = s /\ o.data = data
    BY <1>1, <2>1, FromPriorGood
  <2> HIDE DEF o, prior, data
  <2> QED BY <1>5, <2>1, <2>2, <2>3
<1> QED BY <1>6, <1>7, <1>8 DEF LinkTo

\* What runs in a process whose imports so far are `modules`.
LEMMA RanGood ==
    ASSUME NEW o, OrderGood(o), NEW modules, NEW there \in [Dirs -> Trees],
           NEW s \in Slots, o.function.leaf[s].named
    PROVE  LET r == Ran(o, Imported(o, modules, Materialised(o, there)))
               p == PackageOf(s)
           IN  /\ modules[p] = None => Agrees(o.function.source[p], r[s].package)
               /\ modules[p] # None => r[s].package = modules[p]
<1> DEFINE p == PackageOf(s)
           now == Materialised(o, there)
           got == Imported(o, modules, now)
<1>1. p \in Packages /\ p \in Dirs
  BY DEF PackageOf, Packages, Dirs
<1>2. p \in NamedPackages(o)
  BY DEF NamedPackages
<1>3. Ran(o, got)[s].package = got[p]
  BY DEF Ran
<1>4. now[p] = Materialise(p, o.function.source[p], there[p])
  BY <1>1 DEF Materialised, TreeOf
<1>5. got[p] = IF modules[p] = None THEN AsCode(p, now[p]) ELSE modules[p]
  BY <1>1, <1>2 DEF Imported
<1>6. CodeOnly(p, o.function.source[p]) /\ there[p] \in Trees
  BY <1>1 DEF OrderGood, FunctionGood
<1>7. Agrees(o.function.source[p], AsCode(p, now[p]))
  BY <1>1, <1>4, <1>6, MaterialisedCode
<1> QED BY <1>3, <1>5, <1>7

\* The trees on disk while an Order is carried out.
LEMMA MaterialisedTrees ==
    ASSUME NEW o, OrderGood(o), NEW there \in [Dirs -> Trees], NEW d \in Dirs
    PROVE  /\ CodeOnly(d, TreeOf(o, d)) /\ there[d] \in Trees
           /\ Materialised(o, there)[d] = Materialise(d, TreeOf(o, d), there[d])
           /\ Materialised(o, there) \in [Dirs -> Trees]
<1>1. ASSUME NEW e \in Dirs
      PROVE  CodeOnly(e, TreeOf(o, e)) /\ there[e] \in Trees
  BY DEF OrderGood, FunctionGood, StructureGood, TreeOf, Dirs
<1>2. ASSUME NEW e \in Dirs PROVE Materialise(e, TreeOf(o, e), there[e]) \in Trees
  BY <1>1, MaterialisedCode
<1> QED BY <1>1, <1>2 DEF Materialised

LEMMA UsedTrees ==
    ASSUME NEW there \in [Dirs -> Trees]
    PROVE  /\ Used(there) \in [Dirs -> Trees]
           /\ \A d \in Dirs : AsCode(d, Used(there)[d]) = AsCode(d, there[d])
<1> DEFINE left == [f \in Residue |-> CHOOSE v \in Versions : TRUE]
<1>1. left \in Trees /\ DOMAIN left = Residue
  <2>1. left \in [Residue -> Versions]
    BY LineageAssumption
  <2> QED BY <2>1, IsTree DEF Residue, Files
<1>2. ASSUME NEW d \in Dirs
      PROVE  /\ Used(there)[d] \in Trees
             /\ AsCode(d, Used(there)[d]) = AsCode(d, there[d])
  <2>1. Used(there)[d] = Over(left, there[d]) /\ there[d] \in Trees
    BY DEF Used
  <2> HIDE DEF left
  <2>2. /\ Over(left, there[d]) \in Trees
        /\ DOMAIN Over(left, there[d]) = Residue \cup DOMAIN there[d]
        /\ \A f \in DOMAIN there[d] \ Residue : Over(left, there[d])[f] = there[d][f]
    BY <1>1, <2>1, OverTree
  <2>3. AsCodeFiles(d, Over(left, there[d])) = AsCodeFiles(d, there[d])
    BY <2>2 DEF AsCodeFiles, Residue
  <2>4. \A f \in AsCodeFiles(d, there[d]) : Over(left, there[d])[f] = there[d][f]
    BY <2>2 DEF AsCodeFiles, Residue
  <2> QED BY <2>1, <2>2, <2>3, <2>4 DEF AsCode
<1> QED BY <1>2 DEF Used

\* terraform init leaves every tree alone but the lock file of the root, and that
\* too when its providers are installed.
LEMMA InitialisedTrees ==
    ASSUME NEW there \in [Dirs -> Trees], NEW lock \in Versions
    PROVE  LET after == Initialised(there, lock)
           IN  /\ after \in [Dirs -> Trees]
               /\ \A d \in Dirs : d # "root" => after[d] = there[d]
               /\ there["root"]["lock"] \in cached => after = there
               /\ \A f \in DOMAIN there["root"] \ {"lock"} :
                     f \in DOMAIN after["root"] /\ after["root"][f] = there["root"][f]
<1> DEFINE after == Initialised(there, lock)
           now == [f \in {"lock"} |-> lock]
<1>1. there["root"] \in Trees
  BY DEF Dirs, StructureDirs
<1>2. now \in Trees /\ DOMAIN now = {"lock"}
  <2>1. now \in [{"lock"} -> Versions]
    OBVIOUS
  <2> QED BY <2>1, IsTree DEF Files
<1> HIDE DEF now
<1>3. /\ Over(now, there["root"]) \in Trees
      /\ DOMAIN Over(now, there["root"]) = {"lock"} \cup DOMAIN there["root"]
      /\ \A f \in DOMAIN there["root"] \ {"lock"} : Over(now, there["root"])[f] = there["root"][f]
  BY <1>1, <1>2, OverTree
<1>4. after = there \/ after = [there EXCEPT !["root"] = Over(now, there["root"])]
  BY DEF Initialised, now
<1>5. there["root"]["lock"] \in cached => after = there
  BY DEF Initialised
<1> HIDE DEF after
<1>6. /\ after \in [Dirs -> Trees]
      /\ \A d \in Dirs : d # "root" => after[d] = there[d]
      /\ after["root"] = there["root"] \/ after["root"] = Over(now, there["root"])
  BY <1>3, <1>4 DEF Dirs, StructureDirs
<1>7. \A f \in DOMAIN there["root"] \ {"lock"} :
        f \in DOMAIN after["root"] /\ after["root"][f] = there["root"][f]
  BY <1>3, <1>6
<1> QED BY <1>5, <1>6, <1>7 DEF after

\* Orders and runs when the Node's log has one more entry.
LEMMA LogStep ==
    ASSUME LineageInv, NEW r, r.order \in Minted, RunGood(r), log' = Append(log, r),
           UNCHANGED <<minted, jobs>>, TreesGood'
    PROVE  LineageInv'
<1>1. /\ History(log') /\ Len(log) \in Nat /\ DOMAIN log = 1 .. Len(log)
      /\ Len(log') = Len(log) + 1 /\ DOMAIN log' = 1 .. Len(log) + 1
      /\ \A i \in DOMAIN log : log'[i] = log[i]
      /\ log'[Len(log) + 1] = r
  BY Grows DEF LineageInv
<1>2. OrdersGood'
  <2> SUFFICES ASSUME NEW m \in minted PROVE OrderGood(m.order) /\ LinkGood(m)'
    BY DEF OrdersGood
  <2>1. OrderGood(m.order) /\ LinkGood(m)
    BY DEF LineageInv, OrdersGood
  <2>2. \A i \in 1 .. m.when : i \in DOMAIN log
    BY <1>1, <2>1 DEF LinkGood
  <2>3. m.when \in Nat /\ m.when <= Len(log')
    BY <1>1, <2>1 DEF LinkGood
  <2>4. CASE m.op = "create"
    BY <2>1, <2>3, <2>4 DEF LinkGood
  <2>5. CASE m.op # "create"
    <3>1. m.prior \in DOMAIN log /\ m.prior \in DOMAIN log' /\ log'[m.prior] = log[m.prior]
      BY <1>1, <2>1, <2>5 DEF LinkGood
    <3> QED BY <1>1, <2>1, <2>2, <2>3, <2>5, <3>1 DEF LinkGood
  <2> QED BY <2>4, <2>5
<1>3. RunsGood'
  <2> SUFFICES ASSUME NEW i \in DOMAIN log'
               PROVE  log'[i].order \in Minted /\ RunGood(log'[i])
    BY DEF RunsGood, Minted
  <2>1. CASE i \in DOMAIN log
    BY <1>1, <2>1 DEF LineageInv, RunsGood
  <2>2. CASE i = Len(log) + 1
    BY <1>1, <2>2
  <2> QED BY <1>1, <2>1, <2>2
<1> QED BY <1>1, <1>2, <1>3 DEF LineageInv

LEMMA ExecuteStep ==
    ASSUME LineageInv, NEW o \in Minted, NEW lock \in Versions, Execute(o, lock)
    PROVE  LineageInv'
<1> DEFINE laid == Materialised(o, disk)
           there == Initialised(laid, lock)
           modules == Imported(o, loaded, there)
           found == [d \in StructureDirs |-> DOMAIN AsCode(d, disk[d])]
           applied == [d \in StructureDirs |-> AsCode(d, there[d])]
           locked == o.structure["root"]["lock"] \in cached
           r == [order |-> o, out |-> <<Ran(o, modules), o.data>>,
                 ran |-> Ran(o, modules), before |-> loaded, locked |-> locked,
                 found |-> found, applied |-> applied]
<1>1. OrderGood(o) /\ disk \in [Dirs -> Trees]
  BY DEF LineageInv, OrdersGood, Minted, TreesGood
<1>2. disk' = Used(there) /\ loaded' = modules /\ log' = Append(log, r)
      /\ cached' \subseteq cached \cup {lock} /\ UNCHANGED <<minted, jobs>>
  BY DEF Execute, job
<1>3. laid \in [Dirs -> Trees]
  BY <1>1, MaterialisedTrees DEF Dirs, Packages
<1> HIDE DEF laid
<1>4. /\ there \in [Dirs -> Trees]
      /\ \A d \in Dirs : d # "root" => there[d] = laid[d]
      /\ laid["root"]["lock"] \in cached => there = laid
      /\ \A f \in DOMAIN laid["root"] \ {"lock"} :
            f \in DOMAIN there["root"] /\ there["root"][f] = laid["root"][f]
  BY <1>3, InitialisedTrees
<1>5. TreesGood'
  <2>1. ASSUME NEW p \in Packages PROVE AsCode(p, there[p]) \in Trees
    BY <1>4, CodeTree DEF CodeOnly, Dirs
  <2> HIDE DEF there
  <2>2. modules \in [Packages -> Trees \cup {None}]
    BY <2>1 DEF Imported, LineageInv, TreesGood
  <2>3. cached \subseteq Versions
    BY DEF LineageInv, TreesGood
  <2> QED BY <1>2, <1>4, <2>2, <2>3, UsedTrees DEF TreesGood
<1>6. ASSUME NEW s \in Slots, o.function.leaf[s].named
      PROVE  Agrees(o.function.source[PackageOf(s)], Ran(o, modules)[s].package) <=>
                \/ loaded[PackageOf(s)] = None
                \/ Agrees(o.function.source[PackageOf(s)], loaded[PackageOf(s)])
  <2>1. modules = Imported(o, loaded, laid)
    <3>1. \A p \in Packages : there[p] = laid[p]
      BY <1>4 DEF Packages, Dirs
    <3> HIDE DEF there
    <3> QED BY <3>1 DEF Imported
  <2> QED BY <1>1, <1>6, <2>1, RanGood DEF laid
<1>7. ASSUME NEW d \in StructureDirs
      PROVE  LET named == o.structure[d]
                 kept  == d # "root" \/ locked
             IN  /\ \A f \in DOMAIN named :
                       kept \/ f # "lock" => f \in DOMAIN applied[d] /\ applied[d][f] = named[f]
                 /\ kept => (applied[d] = named <=> found[d] \subseteq DOMAIN named)
  <2> DEFINE named == o.structure[d]
  <2>1. d \in Dirs /\ TreeOf(o, d) = named
    BY DEF Dirs, TreeOf, StructureDirs, Packages
  <2>2. CodeOnly(d, named) /\ disk[d] \in Trees /\ laid[d] = Materialise(d, named, disk[d])
    BY <1>1, <2>1, MaterialisedTrees DEF laid
  <2>3. LET c == AsCode(d, laid[d])
        IN  Agrees(named, c) /\ (c = named <=> DOMAIN AsCode(d, disk[d]) \subseteq DOMAIN named)
    <3> HIDE DEF named
    <3>1. LET c == AsCode(d, Materialise(d, named, disk[d]))
          IN  Agrees(named, c) /\ (c = named <=> DOMAIN AsCode(d, disk[d]) \subseteq DOMAIN named)
      BY <2>1, <2>2, MaterialisedCode, Zenon
    <3> QED BY <2>2, <3>1, Zenon
  <2>4. applied[d] = AsCode(d, there[d]) /\ found[d] = DOMAIN AsCode(d, disk[d])
    OBVIOUS
  <2>5. ASSUME there[d] = laid[d]
        PROVE  /\ \A f \in DOMAIN named : f \in DOMAIN applied[d] /\ applied[d][f] = named[f]
               /\ applied[d] = named <=> found[d] \subseteq DOMAIN named
    <3> HIDE DEF applied, found, there, named
    <3> QED BY <2>3, <2>4, <2>5 DEF Agrees
  <2>6. ASSUME d = "root", locked PROVE there[d] = laid[d]
    <3>1. CASE "lock" \in DOMAIN named
      <4>1. "lock" \in DOMAIN AsCode(d, laid[d]) /\ AsCode(d, laid[d])["lock"] = named["lock"]
        BY <2>3, <3>1 DEF Agrees
      <4>2. AsCode(d, laid[d])["lock"] = laid[d]["lock"]
        BY <4>1, <2>1, <1>3, CodeTree
      <4> QED BY <1>4, <2>6, <4>1, <4>2
    <3>2. "lock" \in DOMAIN named
      BY <1>1, <2>6 DEF OrderGood, StructureGood
    <3> QED BY <3>1, <3>2
  <2>7. ASSUME d = "root"
        PROVE  \A f \in DOMAIN named \ {"lock"} :
                  f \in DOMAIN applied[d] /\ applied[d][f] = named[f]
    <3> TAKE f \in DOMAIN named \ {"lock"}
    <3>1. f \in DOMAIN AsCode(d, laid[d]) /\ AsCode(d, laid[d])[f] = named[f]
      BY <2>3 DEF Agrees
    <3>2. f \in AsCodeFiles(d, laid[d]) /\ f \in DOMAIN laid[d] /\ laid[d][f] = named[f]
      BY <3>1, <2>1, <1>3, CodeTree
    <3>3. f \in DOMAIN there[d] /\ there[d][f] = named[f]
      BY <1>4, <2>7, <3>2
    <3>4. f \in AsCodeFiles(d, there[d])
      BY <2>7, <3>2, <3>3 DEF AsCodeFiles
    <3> HIDE DEF there
    <3>5. f \in DOMAIN AsCode(d, there[d]) /\ AsCode(d, there[d])[f] = named[f]
      BY <3>3, <3>4 DEF AsCode
    <3> QED BY <2>4, <3>5
  <2>8. d # "root" => there[d] = laid[d]
    BY <1>4, <2>1
  <2> HIDE DEF applied, found, there, locked, named
  <2>9. ASSUME d # "root" \/ locked
        PROVE  /\ \A f \in DOMAIN named : f \in DOMAIN applied[d] /\ applied[d][f] = named[f]
               /\ applied[d] = named <=> found[d] \subseteq DOMAIN named
    <3>1. there[d] = laid[d]
      BY <2>6, <2>8, <2>9, Zenon
    <3> QED BY <2>5, <3>1, Zenon
  <2>10. ~ (d # "root" \/ locked) => d = "root"
    BY Zenon
  <2>11. LET kept == d # "root" \/ locked
         IN  /\ \A f \in DOMAIN named :
                   kept \/ f # "lock" => f \in DOMAIN applied[d] /\ applied[d][f] = named[f]
             /\ kept => (applied[d] = named <=> found[d] \subseteq DOMAIN named)
    BY <2>7, <2>9, <2>10, Zenon
  <2> QED BY <2>11, Zenon DEF named
<1>8. RunGood(r) /\ r.order \in Minted
  <2>1. /\ r.order = o /\ r.ran = Ran(o, modules) /\ r.before = loaded
        /\ r.found = found /\ r.applied = applied /\ r.locked = locked
    OBVIOUS
  <2> HIDE DEF r, found, applied, modules, locked
  <2> QED BY <1>6, <1>7, <2>1 DEF RunGood
<1> HIDE DEF r
<1> QED BY <1>2, <1>5, <1>8, LogStep

LEMMA JobRunStep ==
    ASSUME LineageInv, NEW o \in Minted, NEW digest, JobRun(o, digest)
    PROVE  LineageInv'
<1> DEFINE ran == Ran(o, Imported(o, NoModules, Materialised(o, Image)))
           j == [order |-> o, ran |-> ran]
<1>1. OrderGood(o)
  BY DEF LineageInv, OrdersGood, Minted
<1>2. jobs' = Append(jobs, j) /\ UNCHANGED <<disk, minted, log, loaded, cached>>
  BY DEF JobRun
<1>3. JobGood(j)
  <2>1. ASSUME NEW s \in Slots, o.function.leaf[s].named
        PROVE  Agrees(o.function.source[PackageOf(s)], ran[s].package)
    <3>1. NoModules[PackageOf(s)] = None
      BY DEF NoModules, PackageOf, Packages
    <3> QED BY <1>1, <2>1, <3>1, ImageTrees, RanGood
  <2>2. j.order = o /\ j.ran = ran
    OBVIOUS
  <2> HIDE DEF j, ran
  <2> QED BY <2>1, <2>2 DEF JobGood
<1> HIDE DEF j
<1>4. /\ History(jobs') /\ DOMAIN jobs' = 1 .. Len(jobs) + 1
      /\ Len(jobs) \in Nat /\ DOMAIN jobs = 1 .. Len(jobs)
      /\ \A k \in DOMAIN jobs : jobs'[k] = jobs[k]
      /\ jobs'[Len(jobs) + 1] = j
  BY <1>2, Grows DEF LineageInv
<1>5. \A k \in DOMAIN jobs' : k \in DOMAIN jobs \/ k = Len(jobs) + 1
  BY <1>4
<1>6. \A k \in DOMAIN jobs' : JobGood(jobs'[k])
  BY <1>3, <1>4, <1>5 DEF LineageInv
<1> QED BY <1>2, <1>4, <1>6
        DEF LineageInv, TreesGood, OrdersGood, RunsGood, LinkGood, Minted

LEMMA DeveloperStep ==
    ASSUME LineageInv, NEW d \in EditDirs, NEW f \in Files, NEW v \in Versions,
           Edit(d, f, v) \/ Remove(d, f)
    PROVE  LineageInv'
<1>1. d \in Dirs /\ disk[d] \in Trees
  BY LineageAssumption DEF LineageInv, TreesGood
<1>2. CASE Edit(d, f, v)
  <2>1. [g \in {f} |-> v] \in Trees
    <3>1. [g \in {f} |-> v] \in [{f} -> Versions]
      OBVIOUS
    <3> QED BY <3>1, IsTree
  <2>2. Over([g \in {f} |-> v], disk[d]) \in Trees
    BY <1>1, <2>1, OverTree
  <2>3. TreesGood'
    BY <1>1, <1>2, <2>2 DEF Edit, LineageInv, TreesGood
  <2> QED BY <1>2, <2>3, LeavesOrders DEF Edit, job
<1>3. CASE Remove(d, f)
  <2> DEFINE t == [g \in DOMAIN disk[d] \ {f} |-> disk[d][g]]
  <2>1. t \in Trees
    <3>1. t \in [DOMAIN disk[d] \ {f} -> Versions] /\ DOMAIN disk[d] \ {f} \in SUBSET Files
      BY <1>1, TreeShape
    <3> QED BY <3>1, IsTree
  <2>2. disk' = [disk EXCEPT ![d] = t] /\ UNCHANGED <<loaded, cached>>
    BY <1>3 DEF Remove
  <2> HIDE DEF t
  <2>3. TreesGood'
    BY <1>1, <2>1, <2>2 DEF LineageInv, TreesGood
  <2> QED BY <1>3, <2>3, LeavesOrders DEF Remove, job
<1> QED BY <1>2, <1>3

LEMMA LineageStep == LineageInv /\ [Next]_vars => LineageInv'
<1> SUFFICES ASSUME LineageInv, [Next]_vars PROVE LineageInv'
  OBVIOUS
<1>1. ASSUME NEW c \in Callables("integrated"), Create(c) PROVE LineageInv'
  BY <1>1, CreateStep
<1>2. CASE Link
  <2>1. PICK i \in DOMAIN log : LinkTo(i, None) \/ LinkTo(Resolve(log[i].out), log[i].out)
    BY <1>2 DEF Link
  <2>2. CASE LinkTo(i, None)
    BY <2>2, LinkStep
  <2>3. CASE LinkTo(Resolve(log[i].out), log[i].out)
    <3>1. Resolve(log[i].out) # 0
      BY <2>3 DEF LinkTo
    <3>2. /\ Resolve(log[i].out) \in DOMAIN log
          /\ \A j \in DOMAIN log : log[j].out = log[i].out => j = Resolve(log[i].out)
      BY <3>1, ResolveSole DEF LineageInv
    <3> QED BY <2>3, <3>2, LinkStep
  <2> QED BY <2>1, <2>2, <2>3
<1>3. ASSUME NEW o \in Minted, NEW lock \in Versions, Execute(o, lock) PROVE LineageInv'
  BY <1>3, ExecuteStep
<1>4. CASE Restart
  <2>1. TreesGood'
    BY <1>4 DEF Restart, LineageInv, TreesGood
  <2> QED BY <1>4, <2>1, LeavesOrders DEF Restart, job
<1>5. ASSUME NEW d \in EditDirs, NEW f \in Files, NEW v \in Versions, Edit(d, f, v)
      PROVE  LineageInv'
  BY <1>5, DeveloperStep
<1>6. ASSUME NEW d \in EditDirs, Remove(d, "extra") PROVE LineageInv'
  <2>1. PICK v : v \in Versions
    BY LineageAssumption
  <2> QED BY <1>6, <2>1, DeveloperStep DEF Files
<1>7. ASSUME NEW o \in Minted, NEW digest, JobRun(o, digest) PROVE LineageInv'
  BY <1>7, JobRunStep
<1>8. CASE Switch \/ OpenFile \/ FillFile \/ JobStops \/ UNCHANGED vars
  <2>1. UNCHANGED <<disk, minted, log, loaded, cached, jobs>>
    BY <1>8 DEF Switch, OpenFile, FillFile, JobStops, vars, job
  <2>2. TreesGood'
    BY <2>1 DEF LineageInv, TreesGood
  <2> QED BY <2>1, <2>2, LeavesOrders
<1>9. ASSUME NEW d \in EditDirs, NEW v \in Versions,
             NEW f \in {"code", IF d = "root" THEN "lock" ELSE "extra"}, Edit(d, f, v)
      PROVE  LineageInv'
  <2>1. f \in Files
    BY DEF Files
  <2> QED BY <1>5, <1>9, <2>1
<1> QED BY <1>1, <1>2, <1>3, <1>4, <1>6, <1>7, <1>8, <1>9 DEF Next

LEMMA LineageHolds == Spec => []LineageInv
BY LineageInit, LineageStep, PTL DEF Spec

------------------------------------------------------------------------------
(***************************************************************************)
(* The result directory                                                    *)
(***************************************************************************)

Documents == {"invoice.json", "bom.json", "result.json"}

Blobs == {"invoice", "bom", "data"}

\* Blob, in the Jobs js.
BlobIn(js, j, b) ==
    [what |-> b, is |-> IF b = "data" THEN <<js[j].ran, js[j].order.data>> ELSE j]

\* Every blob that the BOM of Job j cites is in the result directory, and torn
\* only if a later Job cites it.
Shared(js, j, b) == \E i \in DOMAIN js : i > j /\ BlobIn(js, i, b) = BlobIn(js, j, b)
Backed(cas, js, j) ==
    \A b \in Blobs : /\ BlobIn(js, j, b) \in DOMAIN cas
                     /\ cas[BlobIn(js, j, b)] = "torn" => Shared(js, j, b)

\* The running Job has copied the blobs and written the documents that come
\* before what it does next, and has its name on no other document than the one
\* it has open.
Whole(cas, js, b) == BlobIn(js, Len(js), b) \in DOMAIN cas /\ cas[BlobIn(js, Len(js), b)] = "whole"
Written(doc, js, d) == doc[d] = [by |-> Len(js), how |-> "whole"]

DocumentGood(cas, doc, js, d) ==
    /\ doc[d].by # 0 => Backed(cas, js, doc[d].by)
    /\ doc[d].by >= doc["result.json"].by
    /\ doc[d].by = doc["result.json"].by /\ d # "result.json" => doc[d].how = "whole"

JobsNumbered(js) == Len(js) \in Nat /\ DOMAIN js = 1 .. Len(js)

ResultInv ==
    /\ JobsNumbered(jobs)
    /\ at \in 0 .. 6 /\ open \in BOOLEAN /\ (at # 0 => Len(jobs) # 0)
    /\ result = [cas |-> result.cas, doc |-> result.doc]
    /\ result.doc \in [Documents -> [by : 0 .. Len(jobs), how : {"torn", "whole"}]]
    /\ \A d \in Documents : DocumentGood(result.cas, result.doc, jobs, d)
    /\ at > 1 => Whole(result.cas, jobs, "invoice")
    /\ at > 2 => Whole(result.cas, jobs, "bom")
    /\ at > 3 => Whole(result.cas, jobs, "data")
    /\ at > 4 => Written(result.doc, jobs, "invoice.json")
    /\ at > 5 => Written(result.doc, jobs, "bom.json")
    /\ at \in 1 .. 3 => \A d \in Documents : result.doc[d].by < Len(jobs)
    /\ at \in 1 .. 5 => result.doc["result.json"].by < Len(jobs)
    /\ at = 6 /\ ~ open => result.doc["result.json"].by < Len(jobs)

LEMMA CitedBlobs ==
    /\ DOMAIN Cited = 1 .. 3
    /\ Cited[1] = "invoice" /\ Cited[2] = "bom" /\ Cited[3] = "data"
    /\ {Cited[k] : k \in DOMAIN Cited} = {"invoice", "bom", "data"}
<1>1. /\ DOMAIN Cited = 1 .. 3
      /\ Cited[1] = "invoice" /\ Cited[2] = "bom" /\ Cited[3] = "data"
  BY DEF Cited
<1>2. \A k \in 1 .. 3 : k \in {1, 2, 3}
  OBVIOUS
<1>3. \A k \in {1, 2, 3} : k \in 1 .. 3
  OBVIOUS
<1> QED BY <1>1, <1>2, <1>3

LEMMA StepsInOrder ==
    /\ Len(JobSteps) = 6
    /\ JobSteps[1] = "invoice" /\ JobSteps[2] = "bom" /\ JobSteps[3] = "data"
    /\ JobSteps[4] = "invoice.json" /\ JobSteps[5] = "bom.json"
    /\ JobSteps[6] = "result.json"
<1> DEFINE Names == {"invoice", "bom", "data"} \cup Documents
<1>1. Cited \in Seq(Names) /\ JobDocuments \in Seq(Names)
  BY DEF Cited, JobDocuments, Documents
<1>2. Len(Cited) = 3 /\ Len(JobDocuments) = 3
  BY DEF Cited, JobDocuments
<1> HIDE DEF Names
<1>3. /\ Len(JobSteps) = Len(Cited) + Len(JobDocuments)
      /\ \A k \in 1 .. Len(Cited) + Len(JobDocuments) :
            JobSteps[k] = IF k <= Len(Cited) THEN Cited[k] ELSE JobDocuments[k - Len(Cited)]
  BY <1>1, ConcatProperties DEF JobSteps
<1>4. /\ Len(JobSteps) = 6
      /\ \A k \in 1 .. 6 : JobSteps[k] = IF k <= 3 THEN Cited[k] ELSE JobDocuments[k - 3]
  BY <1>2, <1>3
<1>5. /\ JobSteps[1] = Cited[1] /\ JobSteps[2] = Cited[2] /\ JobSteps[3] = Cited[3]
      /\ JobSteps[4] = JobDocuments[1] /\ JobSteps[5] = JobDocuments[2]
      /\ JobSteps[6] = JobDocuments[3]
  BY <1>4
<1> QED BY <1>4, <1>5 DEF Cited, JobDocuments

LEMMA DocumentNames == {JobDocuments[k] : k \in DOMAIN JobDocuments} = Documents
<1>1. /\ DOMAIN JobDocuments = 1 .. 3 /\ JobDocuments[1] = "invoice.json"
      /\ JobDocuments[2] = "bom.json" /\ JobDocuments[3] = "result.json"
  BY DEF JobDocuments
<1>2. \A k \in 1 .. 3 : k \in {1, 2, 3}
  OBVIOUS
<1>3. \A k \in {1, 2, 3} : k \in 1 .. 3
  OBVIOUS
<1> QED BY <1>1, <1>2, <1>3 DEF Documents

LEMMA ResultInit == Init => ResultInv
<1> SUFFICES ASSUME Init PROVE ResultInv
  OBVIOUS
<1>1. result = [cas |-> << >>, doc |-> [d \in Documents |-> [by |-> 0, how |-> "whole"]]]
  BY DocumentNames DEF Init
<1>2. at = 0 /\ open = FALSE /\ Len(jobs) = 0 /\ JobsNumbered(jobs)
  BY DEF Init, Idle, JobsNumbered
<1>3. result.doc \in [Documents -> [by : 0 .. Len(jobs), how : {"torn", "whole"}]]
  BY <1>1, <1>2
<1>4. \A d \in Documents : DocumentGood(result.cas, result.doc, jobs, d)
  BY <1>1 DEF DocumentGood, Documents
<1>5. result = [cas |-> result.cas, doc |-> result.doc]
  BY <1>1
<1>6. /\ at \in 0 .. 6 /\ ~ (at # 0) /\ ~ (at \in 1 .. 5)
      /\ ~ (at \in 1 .. 3) /\ ~ (at = 6)
      /\ ~ (at > 1) /\ ~ (at > 2) /\ ~ (at > 3) /\ ~ (at > 4) /\ ~ (at > 5)
  BY <1>2
<1>7. open \in BOOLEAN
  BY <1>2
<1> QED BY <1>2, <1>3, <1>4, <1>5, <1>6, <1>7, Zenon DEF ResultInv

\* A later Job changes neither the blobs of an earlier one nor who shares them.
LEMMA NewJob ==
    ASSUME LineageInv, ResultInv, NEW o, NEW digest, JobRun(o, digest)
    PROVE  ResultInv'
<1>1. PICK e : jobs' = Append(jobs, e)
  BY DEF JobRun
<1>2. /\ Len(jobs') = Len(jobs) + 1 /\ JobsNumbered(jobs')
      /\ Len(jobs) \in Nat /\ DOMAIN jobs = 1 .. Len(jobs) /\ DOMAIN jobs' = 1 .. Len(jobs')
      /\ \A k \in DOMAIN jobs : jobs'[k] = jobs[k]
  BY <1>1, Grows DEF LineageInv, JobsNumbered
<1>3. at' = 1 /\ UNCHANGED <<open, result>>
  BY DEF JobRun
<1>4. ASSUME NEW k \in DOMAIN jobs, Backed(result.cas, jobs, k)
      PROVE  Backed(result.cas, jobs', k)
  <2>1. \A i \in DOMAIN jobs, b \in Blobs : BlobIn(jobs', i, b) = BlobIn(jobs, i, b)
    BY <1>2 DEF BlobIn
  <2>2. DOMAIN jobs \subseteq DOMAIN jobs'
    BY <1>2
  <2> QED BY <1>4, <2>1, <2>2 DEF Backed, Shared
<1>5. ASSUME NEW d \in Documents
      PROVE  /\ result.doc[d].by < Len(jobs')
             /\ DocumentGood(result.cas, result.doc, jobs', d)
  <2>1. result.doc[d].by \in 0 .. Len(jobs) /\ DocumentGood(result.cas, result.doc, jobs, d)
    BY DEF ResultInv
  <2>2. result.doc[d].by # 0 => result.doc[d].by \in DOMAIN jobs
    BY <1>2, <2>1
  <2> QED BY <1>2, <1>4, <2>1, <2>2 DEF DocumentGood
<1>6. result.doc \in [Documents -> [by : 0 .. Len(jobs'), how : {"torn", "whole"}]]
  <2>1. 0 .. Len(jobs) \subseteq 0 .. Len(jobs')
    BY <1>2
  <2> QED BY <2>1 DEF ResultInv
<1>7. "result.json" \in Documents /\ Len(jobs') # 0
  BY <1>2 DEF Documents
<1>8. open \in BOOLEAN /\ result = [cas |-> result.cas, doc |-> result.doc]
  BY DEF ResultInv
<1> QED BY <1>2, <1>3, <1>5, <1>6, <1>7, <1>8 DEF ResultInv

\* A blob is truncated or written.
LEMMA BlobStep ==
    ASSUME ResultInv, at \in 1 .. 3, NEW how \in {"torn", "whole"},
           result' = Holding(JobSteps[at], how), UNCHANGED jobs,
           at' = (IF how = "whole" THEN at + 1 ELSE at), open' \in BOOLEAN
    PROVE  ResultInv'
<1> DEFINE n == Len(jobs)
           w == JobSteps[at]
           B == BlobIn(jobs, n, w)
           cas == result.cas
           new == result'.cas
<1>1. w \in Blobs /\ w \notin DOMAIN result.doc
  BY StepsInOrder DEF ResultInv, Blobs, Documents
<1>2. /\ result'.doc = result.doc /\ new = Over([b \in {B} |-> how], cas)
      /\ result' = [cas |-> result'.cas, doc |-> result'.doc]
  <2>1. result' = [result EXCEPT !.cas = Over([b \in {B} |-> how], result.cas)]
    BY <1>1 DEF Holding, Blob, BlobIn
  <2> HIDE DEF B
  <2> QED BY <2>1 DEF ResultInv
<1>3. /\ DOMAIN new = {B} \cup DOMAIN cas /\ new[B] = how
      /\ \A b \in DOMAIN cas : b # B => new[b] = cas[b]
  BY <1>2 DEF Over
<1>4. n \in Nat /\ n # 0 /\ DOMAIN jobs = 1 .. n /\ n \in DOMAIN jobs
  BY DEF ResultInv, JobsNumbered
<1>5. \A j, b : BlobIn(jobs, j, b) = B => b = w
  <2>1. \A j, b : BlobIn(jobs, j, b).what = b
    BY DEF BlobIn
  <2> QED BY <2>1
<1> HIDE DEF B, cas, new
<1>6. ASSUME NEW j \in DOMAIN jobs, j < n, Backed(cas, jobs, j)
      PROVE  Backed(new, jobs, j)
  <2> SUFFICES ASSUME NEW b \in Blobs
               PROVE  /\ BlobIn(jobs, j, b) \in DOMAIN new
                      /\ new[BlobIn(jobs, j, b)] = "torn" => Shared(jobs, j, b)
    BY DEF Backed
  <2>1. /\ BlobIn(jobs, j, b) \in DOMAIN cas
        /\ cas[BlobIn(jobs, j, b)] = "torn" => Shared(jobs, j, b)
    BY <1>6, Zenon DEF Backed
  <2>2. CASE BlobIn(jobs, j, b) = B
    <3>1. Shared(jobs, j, b)
      BY <1>4, <1>5, <1>6, <2>2 DEF Shared, B
    <3> QED BY <1>3, <2>1, <3>1
  <2>3. CASE BlobIn(jobs, j, b) # B
    BY <1>3, <2>1, <2>3
  <2> QED BY <2>2, <2>3
<1>7. ASSUME NEW d \in Documents
      PROVE  DocumentGood(new, result.doc, jobs, d) /\ result.doc[d].by < n
  <2>1. /\ DocumentGood(cas, result.doc, jobs, d)
        /\ result.doc[d].by < n /\ result.doc[d].by \in 0 .. n
    BY DEF ResultInv, cas
  <2>2. result.doc[d].by # 0 => result.doc[d].by \in DOMAIN jobs
    BY <1>4, <2>1
  <2> QED BY <1>6, <2>1, <2>2 DEF DocumentGood
<1>8. \A b \in Blobs : b # w => (Whole(cas, jobs, b) => Whole(new, jobs, b))
  BY <1>3, <1>5 DEF Whole
<1>9. how = "whole" => Whole(new, jobs, w)
  BY <1>3 DEF Whole, B
<1>10. /\ at' > 1 => Whole(new, jobs, "invoice")
       /\ at' > 2 => Whole(new, jobs, "bom")
       /\ at' > 3 => Whole(new, jobs, "data")
  <2>1. /\ at = 1 => w = "invoice"
        /\ at = 2 => w = "bom"
        /\ at = 3 => w = "data"
    BY StepsInOrder
  <2>2. /\ at > 1 => Whole(cas, jobs, "invoice")
        /\ at > 2 => Whole(cas, jobs, "bom")
    BY DEF ResultInv, cas
  <2>3. {"invoice", "bom", "data"} = Blobs
    BY DEF Blobs
  <2> HIDE DEF w
  <2>4. at \in {1, 2, 3} /\ (at' = at \/ (at' = at + 1 /\ how = "whole"))
    OBVIOUS
  <2>5. CASE at = 1
    <3>1. w = "invoice"
      BY <2>5, StepsInOrder DEF w
    <3>2. ~ (at' > 2) /\ ~ (at' > 3) /\ (at' > 1 => how = "whole")
      BY <2>4, <2>5
    <3> QED BY <1>9, <3>1, <3>2, Zenon
  <2>6. CASE at = 2
    <3>1. w = "bom"
      BY <2>6, StepsInOrder DEF w
    <3> QED BY <1>8, <1>9, <2>2, <2>3, <2>4, <2>6, <3>1
  <2>7. CASE at = 3
    <3>1. w = "data"
      BY <2>7, StepsInOrder DEF w
    <3> QED BY <1>8, <1>9, <2>2, <2>3, <2>4, <2>7, <3>1
  <2> QED BY <2>4, <2>5, <2>6, <2>7
<1>11. at' \in 1 .. 4
  OBVIOUS
<1>12. "result.json" \in Documents /\ jobs' = jobs
  BY DEF Documents
<1>13. result.doc \in [Documents -> [by : 0 .. n, how : {"torn", "whole"}]] /\ JobsNumbered(jobs)
  BY DEF ResultInv
<1> HIDE DEF w
<1> QED BY <1>2, <1>4, <1>7, <1>10, <1>11, <1>12, <1>13 DEF ResultInv, new

\* A document is truncated or written.
LEMMA DocumentStep ==
    ASSUME ResultInv, at \in 4 .. 6, NEW how \in {"torn", "whole"},
           open' \in BOOLEAN, how = "torn" => open',
           result' = Holding(JobSteps[at], how), UNCHANGED jobs,
           at' = (IF how = "whole" THEN IF at = 6 THEN 0 ELSE at + 1 ELSE at)
    PROVE  ResultInv'
<1> DEFINE n == Len(jobs)
           w == JobSteps[at]
           D == [by |-> n, how |-> how]
           doc == result.doc
           new == result'.doc
<1>1. /\ w \in Documents /\ DOMAIN doc = Documents
      /\ at = 4 => w = "invoice.json"
      /\ at = 5 => w = "bom.json"
      /\ at = 6 => w = "result.json"
  BY StepsInOrder DEF ResultInv, Documents
<1>2. /\ new = [doc EXCEPT ![w] = D] /\ result'.cas = result.cas
      /\ result' = [cas |-> result'.cas, doc |-> result'.doc]
  <2>1. result' = [result EXCEPT !.doc[w] = D]
    BY <1>1 DEF Holding
  <2> HIDE DEF w, D
  <2> QED BY <2>1 DEF ResultInv
<1>3. n \in Nat /\ n # 0 /\ JobsNumbered(jobs)
  BY DEF ResultInv, JobsNumbered
<1>4. doc \in [Documents -> [by : 0 .. n, how : {"torn", "whole"}]]
  BY DEF ResultInv
<1>5. D \in [by : 0 .. n, how : {"torn", "whole"}] /\ D.by = n /\ D.how = how
  BY <1>3
<1> HIDE DEF w, D, doc, new
<1>6. /\ new \in [Documents -> [by : 0 .. n, how : {"torn", "whole"}]]
      /\ new[w] = D /\ \A d \in Documents : d # w => new[d] = doc[d]
  BY <1>1, <1>2, <1>4, <1>5
<1>7. Backed(result.cas, jobs, n)
  BY DEF ResultInv, Whole, Backed, Blobs
<1>8. /\ at > 4 => doc["invoice.json"].by = n /\ doc["invoice.json"].how = "whole"
      /\ at > 5 => doc["bom.json"].by = n /\ doc["bom.json"].how = "whole"
      /\ at < 6 => doc["result.json"].by < n
  BY DEF ResultInv, Written, doc
<1>9. Documents = {"invoice.json", "bom.json", "result.json"}
  BY DEF Documents
<1>10. ASSUME NEW d \in Documents PROVE DocumentGood(result.cas, new, jobs, d)
  <2>1. DocumentGood(result.cas, doc, jobs, d)
    BY DEF ResultInv, doc
  <2>2. new[d].by # 0 => Backed(result.cas, jobs, new[d].by)
    BY <1>5, <1>6, <1>7, <2>1 DEF DocumentGood
  <2>3. /\ new[d].by >= new["result.json"].by
        /\ new[d].by = new["result.json"].by /\ d # "result.json" => new[d].how = "whole"
    <3>1. CASE at = 6
      <4>1. w = "result.json" /\ doc["invoice.json"].by = n /\ doc["bom.json"].by = n
            /\ doc["invoice.json"].how = "whole" /\ doc["bom.json"].how = "whole"
        BY <1>1, <1>8, <3>1
      <4> QED BY <1>3, <1>5, <1>6, <1>9, <4>1
    <3>2. CASE at # 6
      <4>1. w # "result.json" /\ doc["result.json"].by < n /\ "result.json" \in Documents
        BY <1>1, <1>8, <1>9, <3>2
      <4>2. new["result.json"] = doc["result.json"]
        BY <1>6, <4>1
      <4>3. doc["result.json"].by \in 0 .. n
        BY <1>4, <4>1
      <4>4. CASE d = w
        BY <1>3, <1>5, <1>6, <4>1, <4>2, <4>3, <4>4
      <4>5. CASE d # w
        BY <1>6, <2>1, <4>2, <4>5 DEF DocumentGood
      <4> QED BY <4>4, <4>5
    <3> QED BY <3>1, <3>2
  <2> QED BY <2>2, <2>3 DEF DocumentGood
<1>11. /\ Whole(result.cas, jobs, "invoice") /\ Whole(result.cas, jobs, "bom")
       /\ Whole(result.cas, jobs, "data")
  BY DEF ResultInv
<1>12. /\ at' > 4 => Written(new, jobs, "invoice.json")
       /\ at' > 5 => Written(new, jobs, "bom.json")
  <2>1. how = "whole" => D = [by |-> n, how |-> "whole"]
    BY DEF D
  <2>2. /\ at > 4 => Written(doc, jobs, "invoice.json")
        /\ at > 5 => Written(doc, jobs, "bom.json")
    BY DEF ResultInv, doc
  <2>3. at' > 4 => at > 4 \/ (at = 4 /\ how = "whole")
    OBVIOUS
  <2>4. at' > 5 => at = 6 \/ (at = 5 /\ how = "whole")
    OBVIOUS
  <2>5. at > 4 => w # "invoice.json"
    BY <1>1
  <2>6. at = 6 => w # "bom.json"
    BY <1>1
  <2>7. at' > 4 => Written(new, jobs, "invoice.json")
    BY <1>1, <1>6, <1>9, <2>1, <2>2, <2>3, <2>5 DEF Written
  <2>8. at' > 5 => Written(new, jobs, "bom.json")
    BY <1>1, <1>6, <1>9, <2>1, <2>2, <2>4, <2>6 DEF Written
  <2> QED BY <2>7, <2>8
<1>13. /\ at' \in {0, 4, 5, 6} /\ open' \in BOOLEAN
       /\ at' \in 1 .. 5 => at < 6
       /\ at' = 6 /\ ~ open' => at < 6
  OBVIOUS
<1>14. at < 6 => new["result.json"].by < n
  BY <1>1, <1>6, <1>8, <1>9
<1>15. at' \in 0 .. 6 /\ ~ (at' \in 1 .. 3) /\ jobs' = jobs
  BY <1>13
<1> QED BY <1>2, <1>3, <1>6, <1>10, <1>11, <1>12, <1>13, <1>14, <1>15 DEF ResultInv, new

LEMMA ResultStep == LineageInv /\ ResultInv /\ [Next]_vars => ResultInv'
<1> SUFFICES ASSUME LineageInv, ResultInv, [Next]_vars PROVE ResultInv'
  OBVIOUS
<1>1. CASE UNCHANGED job
  BY <1>1 DEF job, ResultInv
<1>2. ASSUME NEW o, NEW digest, JobRun(o, digest) PROVE ResultInv'
  BY <1>2, NewJob
<1>3. CASE JobStops
  <2>1. at' = 0 /\ open' = FALSE /\ UNCHANGED <<jobs, result>>
    BY <1>3 DEF JobStops, Idle
  <2>2. /\ at' \in 0 .. 6 /\ ~ (at' # 0) /\ ~ (at' \in 1 .. 5)
        /\ ~ (at' \in 1 .. 3) /\ ~ (at' = 6) /\ ~ (at' > 1) /\ ~ (at' > 2)
        /\ ~ (at' > 3) /\ ~ (at' > 4) /\ ~ (at' > 5)
    BY <2>1
  <2>3. open' \in BOOLEAN
    BY <2>1
  <2> QED BY <2>1, <2>2, <2>3 DEF ResultInv
<1>4. CASE OpenFile
  <2>1. /\ at \in 1 .. 6 /\ ~ open /\ open' = TRUE /\ at' = at
        /\ result' = Holding(JobSteps[at], "torn") /\ UNCHANGED jobs
    BY <1>4 DEF OpenFile, Idle, ResultInv
  <2>2. /\ open' \in BOOLEAN /\ at' = (IF "torn" = "whole" THEN at + 1 ELSE at)
        /\ at' = (IF "torn" = "whole" THEN IF at = 6 THEN 0 ELSE at + 1 ELSE at)
    BY <2>1
  <2>3. CASE at \in 1 .. 3
    BY <2>1, <2>2, <2>3, BlobStep
  <2>4. CASE at \in 4 .. 6
    BY <2>1, <2>2, <2>4, DocumentStep
  <2> QED BY <2>1, <2>3, <2>4
<1>5. CASE FillFile
  <2>1. /\ at \in 1 .. 6 /\ open /\ open' = FALSE
        /\ at' = (IF at = 6 THEN 0 ELSE at + 1)
        /\ result' = Holding(JobSteps[at], "whole") /\ UNCHANGED jobs
    BY <1>5, StepsInOrder DEF FillFile, Idle, ResultInv
  <2>2. open' \in BOOLEAN
    BY <2>1
  <2>3. CASE at \in 1 .. 3
    <3>1. at' = (IF "whole" = "whole" THEN at + 1 ELSE at)
      BY <2>1, <2>3
    <3> QED BY <2>1, <2>2, <2>3, <3>1, BlobStep
  <2>4. CASE at \in 4 .. 6
    <3>1. at' = (IF "whole" = "whole" THEN IF at = 6 THEN 0 ELSE at + 1 ELSE at)
      BY <2>1
    <3> QED BY <2>1, <2>2, <2>4, <3>1, DocumentStep
  <2> QED BY <2>1, <2>3, <2>4
<1>6. ASSUME NEW c, Create(c)
      PROVE  ResultInv'
  BY <1>1, <1>6 DEF Create, Mint
<1>7. CASE Link
  BY <1>1, <1>7 DEF Link, LinkTo, LinkProcess, LinkStructure, LinkOrder, Mint
<1>8. ASSUME NEW o, NEW lock, Execute(o, lock)
      PROVE  ResultInv'
  BY <1>1, <1>8 DEF Execute
<1>9. CASE Restart \/ Switch
  BY <1>1, <1>9 DEF Restart, Switch
<1>10. ASSUME NEW d, NEW f, NEW v, Edit(d, f, v)
       PROVE  ResultInv'
  BY <1>1, <1>10 DEF Edit
<1>11. ASSUME NEW d, NEW f, Remove(d, f)
       PROVE  ResultInv'
  BY <1>1, <1>11 DEF Remove
<1>12. CASE UNCHANGED vars
  BY <1>1, <1>12 DEF vars
<1> QED
  BY <1>2, <1>3, <1>4, <1>5, <1>6, <1>7, <1>8, <1>9, <1>10, <1>11, <1>12 DEF Next

LEMMA ResultHolds == Spec => []ResultInv
BY LineageHolds, ResultInit, ResultStep, PTL DEF Spec

------------------------------------------------------------------------------
(***************************************************************************)
(* What holds of every behaviour                                           *)
(***************************************************************************)

\* Every part of the state keeps its type: the trees on disk and in
\* sys.modules, the Orders minted and run, and the place of the running Job in
\* write_job_result.
THEOREM LineageTyped == Spec => []TypeOK
<1>1. LineageInv /\ ResultInv => TypeOK
  <2> SUFFICES ASSUME LineageInv, ResultInv PROVE TypeOK
    OBVIOUS
  <2>1. \A o \in Minted : /\ o.structure \in [StructureDirs -> Trees]
                          /\ o.function.leaf \in [Slots -> Leaves]
    BY DEF LineageInv, OrdersGood, Minted, OrderGood, FunctionGood, StructureGood
  <2>2. at \in 0 .. Len(JobSteps)
    BY StepsInOrder DEF ResultInv
  <2>3. \A d \in DOMAIN result.doc :
            result.doc[d] \in [by : 0 .. Len(jobs), how : {"torn", "whole"}]
    BY DEF ResultInv
  <2>4. open \in BOOLEAN
    BY DEF ResultInv
  <2> QED BY <2>1, <2>2, <2>3, <2>4 DEF TypeOK, LineageInv, TreesGood, RunsGood
<1> QED BY <1>1, LineageHolds, ResultHolds, PTL

\* However many links and executions lie between, an Order that linkProcess,
\* linkStructure or linkOrder minted continues the run it was asked about, and
\* one linked by data id the only run that had that data.
THEOREM LinksConnected == Spec => []ChainConnected
<1>1. LineageInv => ChainConnected
  BY DEF LineageInv, OrdersGood, LinkGood, ChainConnected
<1> QED BY <1>1, LineageHolds, PTL

\* Every Order of every chain of links names the packages its own named binds
\* are bound to, and carries eBOM documents of its own content or none
\* (_rebuild_function, strip_ebom_stems, attach_ebom_stems).
THEOREM MintedOrdersCoherent == Spec => []OrdersCoherent
<1>1. LineageInv => OrdersCoherent
  BY DEF LineageInv, OrdersGood, OrderGood, FunctionGood, Minted, OrdersCoherent, LeavesResolve
<1> QED BY <1>1, LineageHolds, PTL

\* A named bind runs the package its Order names exactly when the Node process
\* had not imported a package that differs from it, and always in a Job
\* (resolve_subproc).
THEOREM NamedPackageRuns == Spec => []NamedCodeRuns
<1>1. LineageInv => NamedCodeRuns
  BY DEF LineageInv, RunsGood, RunGood, JobGood, NamedCodeRuns
<1> QED BY <1>1, LineageHolds, PTL

\* The Structure applied agrees with the one the Order names, and is that one
\* exactly when no other file was there (getEnhancedBom).
THEOREM StructureAppliedIsNamed == Spec => []AppliedIsNamed
<1>1. LineageInv => AppliedIsNamed
  BY DEF LineageInv, RunsGood, RunGood, AppliedIsNamed
<1> QED BY <1>1, LineageHolds, PTL

\* Wherever a Job is killed and however many share the directory, every blob that
\* a document there leads to was copied, and is torn only where a later Job had it
\* to copy again; the documents beside a result.json are its own and whole, or
\* those of a later Job (write_job_result).
THEOREM ResultsBacked == Spec => []ResultIsBacked
<1>1. ResultInv => ResultIsBacked
  <2> SUFFICES ASSUME ResultInv PROVE ResultIsBacked
    OBVIOUS
  <2>1. DOMAIN result.doc = Documents
    BY DEF ResultInv
  <2>2. {Cited[k] : k \in DOMAIN Cited} = Blobs
    BY CitedBlobs DEF Blobs
  <2>3. \A j, b : Blob(j, b) = BlobIn(jobs, j, b)
    BY DEF Blob, BlobIn
  <2>4. ASSUME NEW d \in Documents
        PROVE  LET j == result.doc[d].by
                   done == result.doc["result.json"].by
               IN  /\ j # 0 => \A b \in Blobs :
                         /\ Blob(j, b) \in DOMAIN result.cas
                         /\ result.cas[Blob(j, b)] = "torn" =>
                              \E i \in DOMAIN jobs : i > j /\ Blob(i, b) = Blob(j, b)
                   /\ j >= done
                   /\ j = done /\ d # "result.json" => result.doc[d].how = "whole"
    <3> DEFINE j == result.doc[d].by
               done == result.doc["result.json"].by
    <3>1. DocumentGood(result.cas, result.doc, jobs, d)
      BY DEF ResultInv
    <3>2. /\ j # 0 => Backed(result.cas, jobs, j)
          /\ j >= done
          /\ j = done /\ d # "result.json" => result.doc[d].how = "whole"
      BY <3>1 DEF DocumentGood
    <3> HIDE DEF j, done
    <3>3. ASSUME Backed(result.cas, jobs, j), NEW b \in Blobs
          PROVE  /\ Blob(j, b) \in DOMAIN result.cas
                 /\ result.cas[Blob(j, b)] = "torn" =>
                      \E i \in DOMAIN jobs : i > j /\ Blob(i, b) = Blob(j, b)
      BY <2>3, <3>3, Zenon DEF Backed, Shared
    <3>4. /\ j # 0 => \A b \in Blobs :
                /\ Blob(j, b) \in DOMAIN result.cas
                /\ result.cas[Blob(j, b)] = "torn" =>
                     \E i \in DOMAIN jobs : i > j /\ Blob(i, b) = Blob(j, b)
          /\ j >= done
          /\ j = done /\ d # "result.json" => result.doc[d].how = "whole"
      BY <3>2, <3>3
    <3> QED BY <3>4 DEF j, done
  <2> QED BY <2>1, <2>2, <2>4 DEF ResultIsBacked
<1> QED BY <1>1, ResultHolds, PTL

\* Executing an Order whose trees are those on disk leaves the trees that
\* create_order_request would name: what the apply and the imports leave behind
\* is not hashed, and the lock file changes only while its providers are not
\* installed (packaging.py, initialize).
THEOREM ExecutionsKeepTrees == Spec => ExecuteKeepsTrees
<1> DEFINE Kept(o, d) ==
               StructureOnDisk'[d] # o.structure[d] =>
                 /\ d = "root" /\ o.structure[d]["lock"] \notin cached
                 /\ \A f \in DOMAIN o.structure[d] \ {"lock"} :
                       StructureOnDisk'[d][f] = o.structure[d][f]
           A == \A o \in Minted :
                  (log' # log /\ log'[Len(log')].order = o
                     /\ o.structure = StructureOnDisk /\ o.function.source = SourcesOnDisk)
                  => /\ SourcesOnDisk' = o.function.source
                     /\ \A d \in StructureDirs : Kept(o, d)
<1>1. LineageInv /\ [Next]_vars => [A]_vars
  <2> SUFFICES ASSUME LineageInv, Next, NEW o \in Minted, log' # log,
                      log'[Len(log')].order = o, o.structure = StructureOnDisk,
                      o.function.source = SourcesOnDisk
               PROVE  /\ SourcesOnDisk' = o.function.source
                      /\ \A d \in StructureDirs : Kept(o, d)
    OBVIOUS
  <2>1. PICK q \in Minted, lock \in Versions : Execute(q, lock)
    BY DEF Next, Create, Link, LinkTo, LinkProcess, LinkStructure, LinkOrder, Mint,
           Restart, Edit, Switch, Remove, JobRun, OpenFile, FillFile, JobStops
  <2>2. q = o
    <3>1. PICK r : log' = Append(log, r) /\ r.order = q
      BY <2>1 DEF Execute
    <3> QED BY <3>1, Grows DEF LineageInv
  <2> DEFINE laid == Materialised(o, disk)
             there == Initialised(laid, lock)
  <2>3. disk' = Used(there)
    BY <2>1, <2>2 DEF Execute
  <2>4. OrderGood(o) /\ disk \in [Dirs -> Trees]
    BY DEF LineageInv, OrdersGood, Minted, TreesGood
  <2>5. laid \in [Dirs -> Trees]
    BY <2>4, MaterialisedTrees DEF Dirs, Packages
  <2>6. ASSUME NEW d \in Dirs PROVE AsCode(d, laid[d]) = TreeOf(o, d)
    <3>1. TreeOf(o, d) = AsCode(d, disk[d])
      BY DEF TreeOf, StructureOnDisk, SourcesOnDisk, Dirs
    <3>2. /\ CodeOnly(d, TreeOf(o, d)) /\ disk[d] \in Trees
          /\ laid[d] = Materialise(d, TreeOf(o, d), disk[d])
      BY <2>4, MaterialisedTrees
    <3> HIDE DEF laid
    <3>3. DOMAIN AsCode(d, disk[d]) \subseteq DOMAIN TreeOf(o, d)
      BY <3>1
    <3>4. AsCode(d, Materialise(d, TreeOf(o, d), disk[d])) = TreeOf(o, d)
             <=> DOMAIN AsCode(d, disk[d]) \subseteq DOMAIN TreeOf(o, d)
      BY <3>2, MaterialisedCode, Zenon
    <3> QED BY <3>2, <3>3, <3>4, Zenon
  <2> HIDE DEF laid
  <2>7. /\ there \in [Dirs -> Trees]
        /\ \A d \in Dirs : d # "root" => there[d] = laid[d]
        /\ laid["root"]["lock"] \in cached => there = laid
        /\ \A f \in DOMAIN laid["root"] \ {"lock"} :
              f \in DOMAIN there["root"] /\ there["root"][f] = laid["root"][f]
    BY <2>5, InitialisedTrees
  <2> HIDE DEF there
  <2>8. \A d \in Dirs : AsCode(d, disk'[d]) = AsCode(d, there[d])
    BY <2>3, <2>7, UsedTrees
  <2>9. \A d \in StructureDirs : /\ d \in Dirs /\ TreeOf(o, d) = o.structure[d]
                                 /\ StructureOnDisk'[d] = AsCode(d, there[d])
    BY <2>8 DEF Dirs, StructureDirs, Packages, TreeOf, StructureOnDisk
  <2>10. \A p \in Packages : p \in Dirs /\ p # "root" /\ TreeOf(o, p) = o.function.source[p]
    BY DEF Dirs, TreeOf, Packages
  <2>11. SourcesOnDisk' = o.function.source
    <3>1. o.function.source = [p \in Packages |-> o.function.source[p]]
      BY <2>4 DEF OrderGood, FunctionGood
    <3>2. \A p \in Packages : AsCode(p, disk'[p]) = o.function.source[p]
      BY <2>6, <2>7, <2>8, <2>10
    <3> QED BY <3>1, <3>2 DEF SourcesOnDisk
  <2>12. ASSUME NEW d \in StructureDirs PROVE Kept(o, d)
    <3>1. AsCode(d, laid[d]) = o.structure[d]
      BY <2>6, <2>9
    <3>2. CASE there[d] = laid[d]
      BY <2>9, <3>1, <3>2
    <3>3. CASE there[d] # laid[d]
      <4>1. d = "root" /\ laid[d]["lock"] \notin cached
        BY <2>7, <2>9, <3>3
      <4>2. "lock" \in DOMAIN o.structure["root"]
        BY <2>4 DEF OrderGood, StructureGood
      <4>3. /\ laid[d] \in Trees /\ there[d] \in Trees /\ d \in Dirs
        BY <2>5, <2>7, <2>9
      <4>4. \A f \in DOMAIN o.structure[d] : f \in AsCodeFiles(d, laid[d])
                                             /\ f \in DOMAIN laid[d]
                                             /\ laid[d][f] = o.structure[d][f]
        BY <3>1, <4>3, CodeTree
      <4>5. ASSUME NEW f \in DOMAIN o.structure[d] \ {"lock"}
            PROVE  StructureOnDisk'[d][f] = o.structure[d][f]
        <5>1. f \in DOMAIN there[d] /\ there[d][f] = o.structure[d][f]
          BY <2>7, <4>1, <4>4
        <5>2. f \in AsCodeFiles(d, there[d])
          BY <4>1, <4>4, <5>1 DEF AsCodeFiles
        <5> QED BY <2>9, <4>3, <5>1, <5>2, CodeTree
      <4> QED BY <4>1, <4>2, <4>4, <4>5
    <3> QED BY <3>2, <3>3
  <2> QED BY <2>11, <2>12
<1> QED BY <1>1, LineageHolds, PTL DEF Spec, ExecuteKeepsTrees
==============================================================================
