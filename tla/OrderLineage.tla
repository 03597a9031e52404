----------------------------- MODULE OrderLineage -----------------------------
(***************************************************************************)
(* How Orders come to be and what executing them leaves behind:            *)
(* create_order_request from the trees on disk, linkProcess, linkStructure *)
(* and linkOrder from an executed BOM (network/order.py), the              *)
(* materialisation of an Order's trees over the same disk and the binding  *)
(* of its callables (network/content_mesh.py, packaging.py,                *)
(* named_binds.py), and the one-shot Job that executes one Order elsewhere *)
(* and leaves a result directory (executor/once.py, executor/result.py).   *)
(*                                                                         *)
(* The client and the Node share CATS_HOME, as in the repository's demo.   *)
(* A content id is the content itself: equal ids are equal values.  The    *)
(* integrated slot stands for the four Process slots, which are bound and  *)
(* carried alike.  Executions are serial here: OrderExecution interleaves  *)
(* them.                                                                   *)
(***************************************************************************)
EXTENDS Naturals, Sequences, FiniteSets

CONSTANTS Versions,     \* contents a file may have
          EditDirs,     \* the directories the developer edits
          InputData,    \* the data directory an Order is created from
          Offered,      \* the callables the developer has at hand
          MaxSteps,     \* bound on Orders, executions, Jobs and edits together
          None

StructureDirs == {"root", "plant", "infrastructure"}
Packages      == {"process", "infrafunction"}
Dirs          == StructureDirs \cup Packages

ASSUME LineageAssumption ==
    /\ EditDirs \subseteq Dirs /\ Versions # {}
    /\ MaxSteps \in Nat

VARIABLES
    disk,       \* [Dirs -> trees]: data/input of CATS_HOME
    minted,     \* the Orders minted, each with the call that minted it
    log,        \* the Node's executed Orders, oldest first, all registered
    loaded,     \* [Packages -> tree or None]: sys.modules of the Node process
    cached,     \* SUBSET Versions: the lock files whose providers are installed
    sbomOn,     \* CATS_SBOM of the client
    edits,      \* what the developer has changed so far
    jobs,       \* the one-shot Jobs started so far, oldest first
    at,         \* the file that the running Job writes next
    open,       \* BOOLEAN: it has been truncated and not yet written
    result      \* CAT_RESULT_DIR, which the Jobs share

job  == <<jobs, at, open, result>>
vars == <<disk, minted, log, loaded, cached, sbomOn, edits, job>>

\* Orders, executions, Jobs and edits share one bound.
MayGoOn == Cardinality(minted) + Len(log) + Len(jobs) + edits < MaxSteps

------------------------------------------------------------------------------
(***************************************************************************)
(* Trees                                                                   *)
(***************************************************************************)

\* A tree maps the paths it has to their contents.  "code" stands for the
\* files every version has, "lock" for the root's .terraform.lock.hcl, "extra" for
\* a file that some versions have, and "residue" for terraform state, applied
\* markers and bytecode caches.
Files == {"code", "lock", "extra", "residue"}
Trees == UNION {[D -> Versions] : D \in SUBSET Files}

\* is_structure_apply_residue and the bytecode filter of stage_function_package.
Residue == {"residue"}

\* What is hashed of a directory: stage_structure_root copies an allowlist, the
\* others leave out residue.
AsCodeFiles(dir, tree) ==
    IF dir = "root" THEN DOMAIN tree \cap {"code", "lock"} ELSE DOMAIN tree \ Residue
AsCodeAll(dir, tree) == tree
AsCode(dir, tree) == [f \in AsCodeFiles(dir, tree) |-> tree[f]]

\* materialize_tree: writes the files of tree, deletes none of those there.
Over(tree, there) ==
    [f \in DOMAIN tree \cup DOMAIN there |->
        IF f \in DOMAIN tree THEN tree[f] ELSE there[f]]

\* materialize_structure_root_files copies the allowlisted files.
Materialise(dir, tree, there) == Over(AsCode(dir, tree), there)

Agrees(tree, found) == \A f \in DOMAIN tree : f \in DOMAIN found /\ found[f] = tree[f]

------------------------------------------------------------------------------
(***************************************************************************)
(* Functions, Structures and Orders                                        *)
(***************************************************************************)

Slots == {"integrated", "infrafunction"}
PackageOf(slot) == IF slot = "integrated" THEN "process" ELSE "infrafunction"

\* is_stock_function_callable; the developer's own callables are not stock.
Stock(slot) == IF slot = "integrated" THEN {"process_0", "process_1"}
                                      ELSE {"infrafunction_subproc"}
Own(slot)   == IF slot = "integrated" THEN {"my_process"} ELSE {"my_infrafunction"}
Callables(slot) == Offered \cap (Stock(slot) \cup Own(slot))

\* bind_subproc: a named bind into a source package, or a pickle.
Bind(slot, callable, source) ==
    [named |-> callable \in Stock(slot), code |-> callable,
     source |-> IF callable \in Stock(slot) THEN source ELSE None]

\* structure_pairing; a root without its allowlisted files is refused.
StructureOnDisk == [d \in StructureDirs |-> AsCode(d, disk[d])]
RootComplete    == {"code", "lock"} \subseteq DOMAIN disk["root"]
SourcesOnDisk   == [p \in Packages |-> AsCode(p, disk[p])]

\* strip_ebom_stems
Strip(order) == [order EXCEPT !.sbom = None]

\* attach_ebom_stems: the documents describe the Order they are put on.
Attach(order) ==
    IF sbomOn THEN [order EXCEPT !.sbom = <<order.function, order.structure, order.data>>]
              ELSE order

\* _rebuild_function: the slots replaced are bound to the packages the prior
\* Function names, the others and the packages are carried.
RebuildOnDisk(prior, repl) ==
    [source |-> prior.source,
     leaf   |-> [s \in Slots |-> IF s \in DOMAIN repl
                                 THEN Bind(s, repl[s], SourcesOnDisk[PackageOf(s)])
                                 ELSE prior.leaf[s]]]
RebuildFunction(prior, repl) ==
    [source |-> prior.source,
     leaf   |-> [s \in Slots |-> IF s \in DOMAIN repl
                                 THEN Bind(s, repl[s], prior.source[PackageOf(s)])
                                 ELSE prior.leaf[s]]]

\* _order_request_from_prior: the prior Order's shell with the new references.
FromPrior(prior, function, structure, data) ==
    Attach([Strip(prior) EXCEPT !.function = function,
                                !.structure = structure, !.data = data])

\* _response_from_registry, given a data id: the run a link is about, 0 when
\* the call raises, for a data id must name a single BOM.  Given a BOM locator,
\* which wins over a data id, or a response, the run is the one it names.
RunsOf(data) == {i \in DOMAIN log : log[i].out = data}
ResolveFirst(data) ==
    IF RunsOf(data) = {} THEN 0
    ELSE CHOOSE i \in RunsOf(data) : \A j \in RunsOf(data) : i <= j
Resolve(data) ==
    IF Cardinality(RunsOf(data)) = 1 THEN CHOOSE i \in RunsOf(data) : TRUE ELSE 0

Minted == {m.order : m \in minted}

\* flatten_bom: the Order and the output data that the BOM of a run leads to.
FlatBom(i) == [order |-> log[i].order, data |-> log[i].out]

------------------------------------------------------------------------------
(***************************************************************************)
(* Minting Orders                                                          *)
(***************************************************************************)

Mint(order, op, prior, by) ==
    /\ MayGoOn
    /\ minted' = minted \cup {[order |-> order, op |-> op, prior |-> prior,
                               by |-> by, when |-> IF by = None THEN 0 ELSE Len(log)]}
    /\ UNCHANGED <<disk, log, loaded, cached, sbomOn, edits, job>>

\* create_order_request
Create(callable) ==
    LET function == [source |-> SourcesOnDisk,
                     leaf   |-> [s \in Slots |->
                         Bind(s, IF s = "integrated" THEN callable
                                 ELSE "infrafunction_subproc",
                              SourcesOnDisk[PackageOf(s)])]]
    IN  /\ RootComplete
        /\ Mint(Attach([function |-> function, structure |-> StructureOnDisk,
                        data |-> InputData, sbom |-> None]), "create", 0, None)

\* linkProcess: with nothing to replace it mints the prior Function again.
LinkProcess(i, repl, by) ==
    LET prior == FlatBom(i).order
    IN  Mint(FromPrior(prior, RebuildFunction(prior.function, repl),
                       prior.structure, FlatBom(i).data), "process", i, by)

\* _resolve_structure_pairing: the trees on disk or the prior ones, with the
\* directories overridden by id; an unchanged pairing is refused.
Pairing(prior, fromDisk, override) ==
    [d \in StructureDirs |->
        IF d \in DOMAIN override THEN override[d]
        ELSE IF fromDisk THEN AsCode(d, disk[d]) ELSE prior[d]]
PairingRefused(prior, fromDisk, override) ==
    \/ ~ fromDisk /\ override = << >>
    \/ fromDisk /\ ~ RootComplete
    \/ Pairing(prior, fromDisk, override) = prior

LinkStructure(i, fromDisk, override, by) ==
    LET prior == FlatBom(i).order
    IN  /\ ~ PairingRefused(prior.structure, fromDisk, override)
        /\ Mint(FromPrior(prior, prior.function,
                          Pairing(prior.structure, fromDisk, override),
                          FlatBom(i).data), "structure", i, by)

\* linkOrder with both sides; with one side it is one of the two above, and
\* with none it raises.
LinkOrder(i, repl, fromDisk, override, by) ==
    LET prior == FlatBom(i).order
    IN  /\ repl # << >>
        /\ ~ PairingRefused(prior.structure, fromDisk, override)
        /\ Mint(FromPrior(prior, RebuildFunction(prior.function, repl),
                          Pairing(prior.structure, fromDisk, override),
                          FlatBom(i).data), "order", i, by)

Replacements == {r \in UNION {[S -> Offered] : S \in SUBSET Slots} :
                    \A s \in DOMAIN r : r[s] \in Callables(s)}

\* A nested id override: the plant of some Order minted earlier.
Overrides == {<< >>} \cup {[d \in {"plant"} |-> o.structure["plant"]] : o \in Minted}

LinkTo(i, by) ==
    /\ i # 0
    /\ \/ \E repl \in Replacements : LinkProcess(i, repl, by)
       \/ \E fromDisk \in BOOLEAN, over \in Overrides : LinkStructure(i, fromDisk, over, by)
       \/ \E repl \in Replacements, fromDisk \in BOOLEAN, over \in Overrides :
             LinkOrder(i, repl, fromDisk, over, by)

Link == \E i \in DOMAIN log : LinkTo(i, None) \/ LinkTo(Resolve(log[i].out), log[i].out)

------------------------------------------------------------------------------
(***************************************************************************)
(* Executing an Order on the Node                                          *)
(***************************************************************************)

TreeOfPlant(order, dir) == IF dir \in Packages THEN order.function.source[dir]
                           ELSE order.structure["plant"]
TreeOf(order, dir) == IF dir \in Packages THEN order.function.source[dir]
                                          ELSE order.structure[dir]

\* getEnhancedBom: the Order's trees go over the ones on disk.
Materialised(order, there) ==
    [d \in Dirs |-> Materialise(d, TreeOf(order, d), there[d])]

\* terraform init, run unless the providers of the lock file are installed, may
\* rewrite the lock file.
Initialised(there, lock) ==
    IF there["root"]["lock"] \in cached THEN there
    ELSE [there EXCEPT !["root"] = Over([f \in {"lock"} |-> lock], @)]

\* The terraform apply and the imports leave their residue.
Used(there) ==
    [d \in Dirs |-> Over([f \in Residue |-> CHOOSE v \in Versions : TRUE], there[d])]

NamedPackages(order) ==
    {PackageOf(s) : s \in {s \in Slots : order.function.leaf[s].named}}

\* resolve_subproc: importlib imports a package once in a process, from
\* wherever CATS_HOME has it then.
ImportedTooSoon(order, modules, there) ==
    [p \in Packages |-> IF p \in NamedPackages(order) /\ modules[p] = None
                        THEN AsCode(p, disk[p]) ELSE modules[p]]
Imported(order, modules, there) ==
    [p \in Packages |-> IF p \in NamedPackages(order) /\ modules[p] = None
                        THEN AsCode(p, there[p]) ELSE modules[p]]

\* It refuses a leaf that names another package than its Function does.
LeavesResolve(order) ==
    \A s \in Slots : order.function.leaf[s].named =>
        order.function.leaf[s].source = order.function.source[PackageOf(s)]

\* What each slot runs: a package's callable, or the unpickled one.
Ran(order, modules) ==
    [s \in Slots |-> [code |-> order.function.leaf[s].code,
                      package |-> IF order.function.leaf[s].named
                                  THEN modules[PackageOf(s)] ELSE None]]

\* The output depends on what ran and on the input.  lock is what an init, if
\* there is one, leaves.
Execute(order, lock) ==
    LET there   == Initialised(Materialised(order, disk), lock)
        modules == Imported(order, loaded, there)
    IN  /\ MayGoOn
        /\ LeavesResolve(order)
        /\ disk' = Used(there)
        /\ loaded' = modules
        /\ cached' = IF order.structure["root"]["lock"] \in cached THEN cached
                     ELSE cached \cup {lock}
        /\ log' = Append(log,
               [order |-> order, out |-> <<Ran(order, modules), order.data>>,
                ran |-> Ran(order, modules), before |-> loaded,
                locked |-> order.structure["root"]["lock"] \in cached,
                found |-> [d \in StructureDirs |-> DOMAIN AsCode(d, disk[d])],
                applied |-> [d \in StructureDirs |-> AsCode(d, there[d])]])
        /\ UNCHANGED <<minted, sbomOn, edits, job>>

\* The Node process ends and starts again.
Restart ==
    /\ loaded # [p \in Packages |-> None]
    /\ loaded' = [p \in Packages |-> None]
    /\ UNCHANGED <<disk, minted, log, cached, sbomOn, edits, job>>

\* The developer writes a file of a tree, or removes one.
Edit(dir, file, version) ==
    /\ MayGoOn
    /\ disk' = [disk EXCEPT ![dir] = Over([f \in {file} |-> version], @)]
    /\ disk' # disk
    /\ edits' = edits + 1
    /\ UNCHANGED <<minted, log, loaded, cached, sbomOn, job>>

Remove(dir, file) ==
    /\ MayGoOn
    /\ file \in DOMAIN disk[dir]
    /\ disk' = [disk EXCEPT ![dir] = [f \in DOMAIN @ \ {file} |-> @[f]]]
    /\ edits' = edits + 1
    /\ UNCHANGED <<minted, log, loaded, cached, sbomOn, job>>

\* The client is started again with CATS_SBOM switched.
Switch ==
    /\ MayGoOn
    /\ sbomOn' = ~ sbomOn
    /\ edits' = edits + 1
    /\ UNCHANGED <<disk, minted, log, loaded, cached, job>>

------------------------------------------------------------------------------
(***************************************************************************)
(* The one-shot Job                                                        *)
(***************************************************************************)

\* The trees of the Executor image.
Image == [d \in Dirs |-> [f \in {"code"} \cup (IF d = "root" THEN {"lock"} ELSE {})
                            |-> CHOOSE v \in Versions : TRUE]]

NoModules == [p \in Packages |-> None]

\* The blobs a Job's BOM and Invoice cite, in the order they are copied: "data"
\* stands for those that another Job may cite too, the Order and its data.
Cited == <<"invoice", "bom", "data">>
JobDocuments == <<"invoice.json", "bom.json", "result.json">>
JobStepsDocumentsFirst == JobDocuments \o Cited
JobSteps == Cited \o JobDocuments
Idle == 0

\* run_order with the Structure handed over, in a process and a CATS_HOME of
\* its own; module_digest, when given, must be the Order's Structure.
JobRun(order, digest) ==
    LET there   == Materialised(order, Image)
        modules == Imported(order, NoModules, there)
    IN  /\ at = Idle /\ MayGoOn
        /\ digest \in {None, order.structure}
        /\ LeavesResolve(order)
        /\ jobs' = Append(jobs, [order |-> order, ran |-> Ran(order, modules)])
        /\ at' = 1
        /\ UNCHANGED <<disk, minted, log, loaded, cached, sbomOn, edits, open, result>>

\* A blob's name in cas/ is its content id.
Blob(j, what) ==
    [what |-> what,
     is   |-> IF what = "data" THEN <<jobs[j].ran, jobs[j].order.data>> ELSE j]

\* The result directory when the last Job has truncated a file, or written it.
Holding(what, how) ==
    IF what \in DOMAIN result.doc
      THEN [result EXCEPT !.doc[what] = [by |-> Len(jobs), how |-> how]]
      ELSE [result EXCEPT !.cas = Over([b \in {Blob(Len(jobs), what)} |-> how], @)]

\* write_job_result: each cited blob is copied, then the three documents are
\* written, all of them over what an earlier Job left under the same name.
OpenFile ==
    /\ at # Idle /\ ~ open /\ open' = TRUE
    /\ result' = Holding(JobSteps[at], "torn")
    /\ UNCHANGED <<disk, minted, log, loaded, cached, sbomOn, edits, jobs, at>>

FillFile ==
    /\ at # Idle /\ open /\ open' = FALSE
    /\ result' = Holding(JobSteps[at], "whole")
    /\ at' = IF at = Len(JobSteps) THEN Idle ELSE at + 1
    /\ UNCHANGED <<disk, minted, log, loaded, cached, sbomOn, edits, jobs>>

\* The Job is killed, or a cited blob is missing and the copy raises.
JobStops ==
    /\ at # Idle /\ at' = Idle /\ open' = FALSE
    /\ UNCHANGED <<disk, minted, log, loaded, cached, sbomOn, edits, jobs, result>>

------------------------------------------------------------------------------
\* A file that some versions of the plant have may be there from the start.  The
\* client starts with CATS_SBOM on: what is left of it matters once it is off.
Init ==
    /\ \E extra \in {{}, {"extra"}} :
         disk = [Image EXCEPT !["plant"] =
                     Over([f \in extra |-> CHOOSE v \in Versions : TRUE], @)]
    /\ minted = {} /\ log = << >> /\ loaded = NoModules /\ cached = {}
    /\ sbomOn = TRUE /\ edits = 0
    /\ jobs = << >> /\ at = Idle /\ open = FALSE
    /\ result = [cas |-> << >>, doc |-> [d \in {JobDocuments[k] : k \in DOMAIN JobDocuments}
                                          |-> [by |-> 0, how |-> "whole"]]]

Next ==
    \/ \E c \in Callables("integrated") : Create(c)
    \/ Link
    \/ \E o \in Minted, lock \in Versions : Execute(o, lock)
    \/ Restart
    \/ \E d \in EditDirs, v \in Versions :
          \E f \in {"code", IF d = "root" THEN "lock" ELSE "extra"} : Edit(d, f, v)
    \/ Switch
    \/ \E d \in EditDirs : Remove(d, "extra")
    \/ \E o \in Minted, digest \in {None} \cup {m.structure : m \in Minted} : JobRun(o, digest)
    \/ OpenFile \/ FillFile
    \/ JobStops

Spec == Init /\ [][Next]_vars

------------------------------------------------------------------------------
(***************************************************************************)
(* Properties                                                              *)
(***************************************************************************)

Leaves == [named : BOOLEAN, code : Offered \cup {"infrafunction_subproc"},
           source : Trees \cup {None}]

\* Every part of the state has its type: trees, the packages imported, the
\* Orders that ran and where the Job stands in JobSteps.
TypeOK ==
    /\ disk \in [Dirs -> Trees]
    /\ loaded \in [Packages -> Trees \cup {None}]
    /\ \A o \in Minted : /\ o.structure \in [StructureDirs -> Trees]
                         /\ o.function.leaf \in [Slots -> Leaves]
    /\ \A i \in DOMAIN log : log[i].order \in Minted
    /\ cached \subseteq Versions
    /\ at \in 0 .. Len(JobSteps) /\ open \in BOOLEAN
    /\ \A d \in DOMAIN result.doc : result.doc[d] \in [by : 0 .. Len(jobs), how : {"torn", "whole"}]

\* linkProcess, linkStructure and linkOrder continue the run they were asked
\* about: the new Order's input is that run's output, what the call does not
\* change is carried although the trees on disk have moved on, and a link by
\* data id was made only while one registered BOM had that data
\* (resolve_unique_bom).
ChainConnected ==
    \A m \in minted : m.op # "create" =>
        LET run == log[m.prior]
        IN  /\ m.order.data = run.out
            /\ m.order.function.source = run.order.function.source
            /\ m.op = "process" => m.order.structure = run.order.structure
            /\ m.op = "structure" => m.order.function = run.order.function
            /\ m.op # "process" => m.order.structure # run.order.structure
            /\ m.by # None => \A i \in 1 .. m.when : log[i].out = m.by => i = m.prior

\* However long the chain of links, and whatever is on disk, an Order speaks of
\* itself: its named binds name the packages of its own Function, so that
\* resolve_subproc never refuses one of these Orders over another package id, and
\* its eBOM documents describe its own Function, Structure and data, never those of
\* the Order it was linked from, with CATS_SBOM on at one step and off at the next.
OrdersCoherent ==
    \A o \in Minted :
        /\ LeavesResolve(o)
        /\ o.sbom # None => o.sbom = <<o.function, o.structure, o.data>>

\* A named bind runs the package the Order names, although the developer has
\* edited the package since or another Order was materialised over it, unless
\* the Node process had already imported a package that differs; a one-shot
\* Job, whose process is new, always does (resolve_subproc, getEnhancedBom).
NamedCodeRuns ==
    LET RunsOwn(r, s) == Agrees(r.order.function.source[PackageOf(s)], r.ran[s].package)
        Named(r, s)   == r.order.function.leaf[s].named
    IN  /\ \A i \in DOMAIN log, s \in Slots :
              LET was == log[i].before[PackageOf(s)]
              IN  Named(log[i], s) =>
                    (RunsOwn(log[i], s) <=>
                        was = None \/ Agrees(log[i].order.function.source[PackageOf(s)], was))
        /\ \A j \in DOMAIN jobs, s \in Slots : Named(jobs[j], s) => RunsOwn(jobs[j], s)

\* The Structure applied is the one the Order names, file by file, exactly when
\* Structure home held no file that the Order does not name: nothing is deleted
\* when an Order is materialised (getEnhancedBom).  What an init makes of the
\* lock file is the exception.
AppliedIsNamed ==
    \A i \in DOMAIN log, d \in StructureDirs :
        LET named   == log[i].order.structure[d]
            applied == log[i].applied[d]
            kept    == d # "root" \/ log[i].locked
        IN  /\ \A f \in DOMAIN named :
                  kept \/ f # "lock" => f \in DOMAIN applied /\ applied[f] = named[f]
            /\ kept => (applied = named <=> log[i].found[d] \subseteq DOMAIN named)

\* Executing an Order whose trees are the ones on disk changes nothing that a
\* create_order_request after it would name: apply residue and bytecode are not
\* hashed (packaging.py), and the lock file, which is, stays as it is once its
\* providers are installed (initialize).
ExecuteKeepsTrees ==
    [][\A o \in Minted :
          (log' # log /\ log'[Len(log')].order = o
             /\ o.structure = StructureOnDisk /\ o.function.source = SourcesOnDisk)
          => /\ SourcesOnDisk' = o.function.source
             /\ \A d \in StructureDirs :
                   StructureOnDisk'[d] # o.structure[d] =>
                     /\ d = "root" /\ o.structure[d]["lock"] \notin cached
                     /\ \A f \in DOMAIN o.structure[d] \ {"lock"} :
                           StructureOnDisk'[d][f] = o.structure[d][f]]_vars

\* The result directory, reused from Job to Job and with Jobs killed anywhere, in
\* the middle of a file too.  Whatever document names a Job, every blob that its
\* BOM cites is there, and is torn only where a later Job cites the same blob and
\* has truncated it to copy it again.  Beside a result.json are documents of that
\* Job, and those are whole, or of a later one (write_job_result).
ResultIsBacked ==
    LET done    == result.doc["result.json"].by
        blobs   == {Cited[k] : k \in DOMAIN Cited}
        Torn(b) == result.cas[b] = "torn"
    IN  \A d \in DOMAIN result.doc :
          LET j == result.doc[d].by
          IN  /\ j # 0 => \A b \in blobs :
                    /\ Blob(j, b) \in DOMAIN result.cas
                    /\ Torn(Blob(j, b)) => \E i \in DOMAIN jobs : i > j /\ Blob(i, b) = Blob(j, b)
              /\ j >= done
              /\ j = done /\ d # "result.json" => result.doc[d].how = "whole"
==============================================================================
