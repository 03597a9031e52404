# A TLA+ model of the CATs Node

CATs (Content-Addressed Transformers) executes *Orders*. An Order names, by content id, a
Function, a Structure (the Terraform tree of a Plant and its InfraStructure) and an Invoice with
the input data. A Node takes the Order over HTTP, materialises and applies the Structure, runs the
Function on the Plant, stores the results by content id, and publishes a signed Bill of Materials
(BOM) that later Orders are linked to. Everything is kept in files under `CATS_HOME`, in the
attributes of one `Runtime` object, in a Terraform state and on a Docker host. Nothing is locked,
the Flask server runs a thread per request, and any step may raise or be cut off. The model is
about what survives that.

The paths below are relative to the repository; `data/input/...` is the code that an Order brings
with it.

## Inventory

| Part | State it keeps | Operations | What is hard | What makes it correct |
|---|---|---|---|---|
| BOM registry, `cats/network/registry/store.py` | `boms/<id>.json`, `by-data/<id>.json`, `by-order/<id>.json` | `put`, `get`, `lookup_*`, `resolve_unique_bom` | read-modify-write of the lists without a lock; `write_text` truncates first; readers in between | index entries lead to records; "not found" is true; the sole BOM is the sole one |
| Order intake, `cats/node/app.py` | none of its own | `resolve_order_id`, `run_order` | two reads of the registry with writes in between; mapping of exceptions to status codes | the answer fits the request |
| Content-addressed store, `cats/network/cas/` and `address_store/` | `ldp/cas/<digest>`, locator documents | `put`, `put_tree`, `LocatorIndex.put`, `cat_bytes`, `get`, `materialize_tree` | blobs are created before they are filled; trees are many files; peers may answer with anything | a manifest after its entries; what a put returned is readable; a materialised tree is right |
| ContentMesh, `cats/network/content_mesh.py` | directory attributes | `put_*`, `initBOMcar`, `getEnhancedBom`, `get`, `cat`, `catSubmit` | writes documents to fixed paths and reads them back | the documents read are those of the Order |
| Structure reconcile, `cats/executor/structure/` | `.applied-structure.id`, Structure home, Terraform state and its lock | `reconcile`, `initialize`, `destroy`, `apply` | failure or crash between destroy, apply and marker; residue of earlier Structures; a terraform that outlives the Node; an init that is skipped | the Plant that runs is the Order's |
| Healers, `data/input/structure/plant/plant_utils.py`, `.../infrastructure/obj_store_utils.py` | none of their own | `cleanup_orphan_kind_cluster`, `cleanup_stale_kind_cluster_state`, `cleanup_stale_obj_store_state`, `heal_stale_terraform_state_lock` | host and Terraform state disagree in every way an interruption can leave | every drift is healed, nothing healthy is destroyed |
| Ray head heal, `cats/executor/structure/ray_heal.py` | the live RayCluster | `heal_live_ray_head` | a late pod, a retry of a roll already done, two requests that roll each other's heads | a job starts on a healed head; a healthy head is left alone; rolls end |
| Runtime, Factory, Assembler, `cats/runtime/`, `cats/factory/`, `cats/assembler/` | `init_bom_json_id`, `enhanced_bom`, `bom_json_id`, `INTEGRATION_HOME` | `initBOMcar`, `accept`, `assemble`, `execute` | one object for all threads | the BOM speaks of one Order; what is announced and registered is published |
| Executor, Processor, InfraFunction, `cats/executor/`, `data/input/function/infrafunction/actuator.py` | job and staging directories | `catStore`, `open_structure_ports`, `Ingress`, `Integration`, `Egress`, `execute` | staging directories named by the second; an unlimited wait for a directory | the wait ends |
| Durable entity store, `obj_store_utils.py` | `er/` objects and `current` pointers | `write_er_objects`, `promote_er_pointer`, `gc_er_prefixes` | garbage collection against a promotion | a pointer resolves |
| Order creation and linking, `cats/network/order.py`, `packaging.py`, `named_binds.py` | the trees of `CATS_HOME`, `sys.modules` of the Node | `create_order_request`, `linkProcess`, `linkStructure`, `linkOrder` | chains of Orders while the trees on disk are edited and overwritten; a package is imported once | the next Order continues the run it was asked about; what runs is what the Order names |
| One-shot execution, `cats/executor/once.py`, `result.py` | the result directory | one run in a process of its own | a death between two files or inside one; a directory, and blobs, used before | `result.json` names what is there |
| Node lifecycle, `cats/node/cli.py`, `data/input/structure/infrastructure/content_store_utils.py` | pids, the port, Kubo's `repo.lock` | `start`, `stop`, `status`, `ensure` | pids looked up and used later, when they may be another program's; other programs on the port; daemons that hang | programs without the marker are not signalled; what is reported is the case; one daemon owns the repository |
| Feedback envelope, lineage and equivalence, `cats/network/feedback/`, `cats/network/registry/` (other than the store), `cats/network/cas/manifest_equiv.py`, `notebooks/cats_demo.py` | none; the audits read the registry, the locators, the CAS and HTTP | `build_execution_bom`, `build_record`, the `assert_*` audits | errors swallowed while a BOM or record is built; HTTP that serves something else; indexes that move between two reads | no false alarm, nothing missed |
| LDP, Solid, LDN, `cats/network/ldp/` | LDP containers | `put`, `publish`, `announce_bom`, access control | a remote that fails half-way | a locator that is given resolves |
| Partitioned I/O, `data/input/structure/plant/` | partitions in the object store | layout, read, write, compute | boundaries of partitions | partitions cover the rows once |
| Documents, identity, legacy, `cats/network/bom/`, `identity/`, `legacy/`, `clients/` | key files | formatting, signing, projections | nothing a model checker reaches | |

How they interact: `execute_init_cat` (a thread per request) resolves the Order id through the
registry, loads the Order through the ContentMesh, and calls `Runtime.initFactory`: the Factory
operates the Assembler, which makes the bootstrap BOM, has `getEnhancedBom` materialise the
documents and the Structure, and builds Structure, Function and Executor. `Runtime.execute` then
has the Executor reconcile the Structure, heal the Ray head and run the Process, wraps and signs
the BOM, and writes it to the CAS, the local LDP container, optionally Solid and LDN, the locator
index and the registry, in this order. A client audits what it got and links the next Order to it.

## Modules

| Module | Models | Extends / uses |
|---|---|---|
| `AppendOnlyIndex` | abstract: lists that grow at the front, without repetition | |
| `BomRegistry` | the registry's files, `put` in its file-system steps, intake, crashes | instance of `AppendOnlyIndex` |
| `IndexParity` | `assert_registry_index_parity`, read by read, while executions register locators and BOMs | `BomRegistry` |
| `BomRegistryProofs` | theorems about `BomRegistry` and `IndexParity` | `IndexParity` |
| `ContentAddressed` | abstract: a growing set of contents, a directory after its entries | |
| `CasStore` | blobs, locator documents, `put_bytes`, `put_tree`, verified reads, `get` of a tree, crashes | instance of `ContentAddressed` |
| `CasStoreProofs` | theorems about `CasStore` | `CasStore` |
| `StructureReconcile` | materialisation, `reconcile`, healers, Terraform and the host, faults, retries | |
| `RayHeal` | `heal_live_ray_head` of several requests, KubeRay and the kubelet, faults, retries | |
| `OrderExecution` | a request thread from intake to answer, the shared Runtime and files, publication, errors, crashes | |
| `DurableER` | `write-er`, `promote-er` and `gc-er` against the object store, errors and deaths of commands | |
| `NodeHost` | the operator's `start`, `stop`, `status` and `ensure` on one host, Kubo, faults | |
| `OrderLineage` | creation, linking and execution of Orders over one `CATS_HOME`; the one-shot Job | |
| `HandoffAudit` | what executions leave for their consumers, and every audit over it, faults | |
| `OrderExecutionProofs`, `DurableERProofs`, `NodeHostProofs`, `OrderLineageProofs`, `HandoffAuditProofs` | theorems about the module of that name | that module |
| `PlantProofs` | theorems about what an Order runs on: the Structure and the Ray head | `StructureReconcile`, `RayHeal` |
| `MC...` | the values TLC uses | the module of that name |

Names of the form `Mutant of X` in the comments mark wrong variants of the definition X: each
property is known to fail when one of them is put in the place of X.

### BomRegistry
`record` and `index` are the files. A file is absent, torn (`json.loads` raises) or whole; an index
file also has the list it parses to and its length, because a short list written over a longer one
leaves trailing bytes. Each action is one step between two accesses of a file: `OpenRecord` and
`WriteRecord` are the two halves of the `write_text` of the record, `ReadIndex`, `OpenIndex` and
`WriteIndex` those of `_append_index`, taken first for `by-data/` and then for `by-order/`.
`AlreadyListed` is its early return and `PutRaises` its `JSONDecodeError`. `ResolveUniqueBom` and
`LookupOrder` are the two reads of an intake by data id, `ResolveBomUri` the one of an intake by
BOM. `returned` and `known` are history.

### IndexParity
The files are those of `BomRegistry` and the locator lists. A registration first rewrites the locator
list of its data (`ReadLocators`, `OpenLocators`, `WriteLocators`: `LocatorIndex.put` writes the file
also when it changes nothing), then puts the BOM by the steps of `BomRegistry`. The check makes the
five reads of the disk (`GetRecord`, `LookupBom`, `ResolveUnique`, `LookupByOrder`, `LookupUris`) and
the four GETs (`GetBom`, `GetByData`, `GetByOrder`, `GetByContent`) as nine steps; locators are
compared as sets. The Node that answers has the same home, or a copy that was made earlier
(`CopyHome`). `NodeDies` may cut a registration anywhere, and a check too. `touched`, `known` and
`asOf` are history: whether a file of the BOM was written since the check began, what was registered
before it, and what by-order listed when by-data was asked. A check that was `touched` may fail
although both homes agree, which is what the code does.

### CasStore
`put_tree` puts the files in any order, then the manifest, then the manifest's locator;
`put_bytes` one blob and its locator. `CheckBlob` is the `is_file` test; `SameBytes` and
`Collision` the two outcomes of the comparison; `OpenBlob` and `WriteBlob` the halves of
`write_bytes`. A read (`CatBytes`) takes the local file, else the locators, whose peers answer with
anything, and verifies the digest; `CatHashlink` tries hints first. `GetTree`, `ReadManifest`,
`WriteEntry` and `GetReturns` are `AddressStore.get` and `materialize_tree`.

### StructureReconcile
One request at a time. `home` says whose file is at each path of the Structure home; `tf`, `conf`
and `lock` are Terraform's, `kind`, `store` and `docker` the host's. The resources stand for the
compose store, the kind cluster and the Ray release, with the dependency order of `main.tf`.
The files of an earlier Structure that the next one does not have stay in the home, as in the code:
`PlantMatchesOrder` asks for the Order's own files and says nothing of that residue, which is
`AppliedIsNamed` of `OrderLineage`. The marker may name a Structure whose redeployment failed
half-way; that the next apply still brings up the Order's Plant is what `PlantMatchesOrder` shows.
`Uses` says which modules and providers a file asks for and `LockOf` what the lock file of a
Structure lists. `Initialize` skips `terraform init` under the conditions of `providers_cached` and
`modules_installed`, which look at the lock file and at the modules of the *last* init; when the
files call a module that was not installed then, destroy and apply fail, now and in every retry
(`Stuck`). A Node that dies may leave its terraform running (`Orphaned`, `OrphanEnds`): it holds the
lock, which the healer then leaves alone, and whose `terraform state rm` fails (`HealRefused`).
Terraform, kind and Docker are external: an apply or destroy may stop half-way with any prefix done
and at most one resource done that the state does not list, each `terraform state list` of a healer
may fail and then reads as an empty state, and the daemon may be down.

### RayHeal
`template` is the memory of the head in the RayCluster, `seenSpec` what KubeRay last saw of it,
`pod` the head. A heal is `Look` (skip a head that is Ready with 4G), `Patch`, `DeleteHead` (by
label: whatever head there is), `Deleted`, `WaitNewHead`, `WaitDashboard` and `CheckMemory`; the
failing `kubectl` calls are `KubectlFails`, a `kubectl get` that fails and is taken for no pod is
`LookFails`. The time limits are `TimesOut`, which is not a bounded fault: a slow cluster is slow for
every retry. KubeRay creates a head when there is none, and the kubelet takes its time to
remove one, during which it is still Ready. `HeadFails` and `Redeploy` are what else happens to a
head. `calm` and `skippers` are history: whom nothing disturbed, and who saw this head healthy.

### OrderExecution
A value is named after the Order it stems from, so `orderJson = oA` means that `order.json` holds
Order `oA`. Each action of `Serve` is what a thread does between two accesses to something shared.
`Raises` may take the place of any step. A crash starts a new Runtime over the old files. Requests
may overlap or not; `overlapped` is history and records that they have. Solid is configured or
not from the start. The LDP resource of an Order is rewritten by each of its executions
(`OpenOrderLdp` truncates it, `FillOrderLdp` fills it, `OrderLdpFails` is the swallowed error), so
that a second execution can tear what an earlier record names: `LocatorsResolve` says that nothing
else can.

### DurableER
`objects` and `pointer` are the bucket; each step is one request to it. `gc_er_prefixes` is `GcEr`
(the names are listed), `ReadPointer` for each, `Refuse`, `Target` or `Sweep`, then `DeletePointer`
for each pointer that force clears and, prefix by prefix, `ListPrefix` and `DeleteObject`. What has
vanished since it was listed makes the command raise (`Stops`, which may also happen anywhere).
`SwallowedErrors` names the listings whose `OSError` the code turns into an empty answer. `sound`
and `quiet` are history: `PointerIntact` is about pointers promoted over a whole entity while nobody
collects and not lost to a listing of `er/current` that failed, because `promote_er_pointer` checks
nothing and a promotion during a collection can name what is being deleted. Directory markers,
which hold no data, are left out.

### NodeHost
`Commands` are processes that operators start; `Main` parses the command line. `start` and `stop`
share `_stop_node_process`: `StillListening`, `ListenPids` (lsof), `Inspect` (ps), then for the
listener and its parent `CheckTarget` (ps again) and `KillTarget`, then `KillDone` and `WaitPort`. A
process is `Marked` when its command line has one of the markers anywhere, which is so of a
`lookalike` that is no Node. The id of a process that died may go to an unrelated program (`Reuse`);
`late` is history and records that this happened to an id between the second ps and the kill. Then
`StopReports`, or `StartLooks`, `StartOwner` and `Bind`. `ensure` is `ContentStore.ensure`:
`FirstLook`, then the heal of the repository (`IpfsShutdown`, `LockAndDaemonPids`, `TerminatePids`,
`LockHolders`, `UnlinkLock`, with a look at the API between them), then up to `Starts` daemons
(`Popen`, `ApiReady`, `ApiTimeout`), each followed by a heal. Daemons take the lock or exit
(`DaemonLocks`), open the API (`DaemonServes`) and may hang (`DaemonHangs`). lsof, ps and pgrep that
fail name nobody. The 0.2 s connect limit of `_flask_listening`, which could take a slow listener
for none, is not modelled.

### OrderLineage
A content id is the content. A tree maps the files it has to versions; `Over` is
`materialize_tree`, which deletes nothing, and `AsCode` is what is hashed of a directory (an
allowlist for the root, everything but residue for the others). `Create`, `LinkProcess`,
`LinkStructure` and `LinkOrder` mint Orders, from a run named by its BOM or resolved by data id;
`Execute` puts the Order's trees over those on disk, runs `terraform init` unless the providers of
the lock file are installed (`Initialised`: the lock file, which is hashed with the root, may change
then), imports the packages that its named binds need unless the process has them already, runs,
and leaves residue. `Edit`, `Remove` and `Switch` are
the developer's, `Restart` ends the Node process. A Job (`JobRun`, `OpenFile`, `FillFile`,
`JobStops`) executes an Order in a new process over the image's trees and fills a result directory
file by file, truncating each first. A blob is named by its content, so that two Jobs of one Order
write the same data blob. The
four Process slots are one slot, as they are bound and carried alike; executions are serial here.

### HandoffAudit
A document is a kind and an owner, which is its content id. `Slots` and `Target` say what each kind
refers to; `StageLineage` and `Used` are what `build_execution_bom` puts into a BOM and `Cited` what
`build_record` puts into the registry. A reverse index is the list of its puts, given by their times
(`Entries`). `Execute` registers a run with one of the hitches that the
code swallows. `Http`, `MeshId` and `MeshUri` read; `wrong`, `lost`, `adrift`, `gaps` and `mirror`
are what can be wrong with the answer: another document, a lost blob, lost locators, a lost index
entry, another Node. The audits are operators with the names of their functions; `SessionPasses`
takes them in the order of `cats_demo.py`, `LinkAudited` compares two runs. The parity check is in
`IndexParity`. Signatures are taken to be valid.

## Runs

| Run | What it checks | Result |
|---|---|---|
| `registry_concurrent` | two writers, a reader, a crash: `IndexSound`, `NoDuplicates`, `NotFoundIsTrue`, `AnswerMatchesRequest` | holds |
| `index_parity` | one writer, three BOMs, two base URLs, a crash, an older copy of the home: `ParityExact`, `ParityIsSnapshot` | holds |
| `cas_serial` | one writer, two crashes, two directories that share a file: `ReturnedIsReadable`, refinement of `ContentAddressed` | holds |
| `cas_concurrent` | two writers, a reader, a crash: `EntriesExist`, `LocatorSound`, `MaterializedComplete` | holds |
| `structure_recovery` | three Structures that differ in files, modules and providers, two faults of any kind: `PlantMatchesOrder`, `HealthyPlantKept`, `HealersSuffice`, `RequestsComplete` | holds |
| `ray_heal` | two requests, three faults, any number of time limits: `JobOnHealedHead`, `HealthyHeadKept`, `HealsComplete` | holds |
| `orders` | two requests, overlapping or not, with and without Solid, errors everywhere, a crash: `BomCoherent` and `WaitEnds` as long as nothing overlapped, `LocatorsResolve` always | holds |
| `orders_mixed` | `OrderDocIsInvoiceOrder` with two overlapping requests | violated: the Executor of one Order reads the `order.json` of the other |
| `durable_collection` | two operators, five commands, two ids, names and files; commands stop anywhere, every listing may fail: `PointerIntact`, `ClearsOnlyTarget`, `CollectionComplete` | holds |
| `node_host` | two commands, an old Node and its wrapper, a foreign program and a lookalike, reused ids, four daemons, a fault: `OthersSurvive`, `PortAsReported`, `SoleOwner`, `CommandsEnd` | holds |
| `order_lineage` | five Orders, executions, Jobs killed anywhere and edits together: `ChainConnected`, `OrdersCoherent`, `NamedCodeRuns`, `AppliedIsNamed`, `ExecuteKeepsTrees`, `ResultIsBacked` | holds |
| `handoff_audit` | three executions, a hitch in one, a fault in what is served: `NoFalseAlarm`, `AuditsAreSound` | holds |

Every module states a type invariant, `IndexParity` that of `BomRegistry`. Those of the registry,
the CAS and `StructureReconcile` are checked in `registry_concurrent`, `cas_concurrent` and
`structure_recovery`; those of the other modules are part of the inductive invariants. All of them
are proved.

`orders_mixed` states a sentence of the repository, which `PROJECT.json` quotes under `findings`. It
needs two Orders at the same time, which a single client reaches by giving up after `catSubmit`'s
1800 seconds and submitting again.

### Bounds
Two writers suffice for the lost update, the torn read and the short-over-long write; a third writer
repeats them. Two BOMs of one data id make the ambiguous case. A crash more than one changes nothing
once a file is torn, except for recovery from a torn file, for which `cas_serial` takes two. Two
faults in `structure_recovery` allow one that leaves the drift and one more, on the host between
requests or in the healing itself. Of its Structures one has a file that the second does not have,
and the third calls another module and needs another provider, so that an init is needed, skipped
rightly and skipped wrongly. Three faults in `ray_heal` allow a failing call, a failing look and the
loss of the head in between; two requests are one that rolls and one that finds the roll under way.
Two requests and two Orders in `orders` show every mixture of two Orders; a third repeats one of
them. Five commands in `durable_collection` are a write, its promotion and three more: two
collections that overlap and a promotion between them.

`node_host` has two commands, which is every race of two; the code starts a daemon three times in
one ensure, the model two (`Starts`), which has a first, a last and a retry between them; the port
and Kubo share nothing, so that one of the two starts empty; four daemons are two for each ensure.
`order_lineage` has one bound, `MaxSteps`, for Orders, executions, Jobs and edits together, since
their product is too large. Five steps are create, execute, link, execute, link, the shortest chain
of two links; an edit before, between or after the two halves of a single link; two executions of
the same Order and a link by their ambiguous data id; and two Orders, an edit between them and two
Jobs, or three Jobs of the same Order or of two. An edit, in the plant or in the Process package, of
a file that every version has or one that only some have, or of `CATS_SBOM`, makes disk, Order,
imported package and eBOM documents differ; the plant starts with and without the second kind of
file. The offered callables are a stock one and one of the developer's. `index_parity` asks about
one BOM, with one that shares its data and one that shares its Order; with two writers the state
space is too large, so that overlapping puts are in the theorem only. `handoff_audit` has three
executions: a first, one linked to it, and one of the same Order with the same data; one hitch and
one fault at every place where there can be one.

The bounds are the constants `MaxCrashes`, `MaxFaults`, `MaxHeadFaults`, `MaxHitches`,
`MaxCommands`, `MaxSteps` and `Starts`; nothing else is cut off.
Requests and Orders in `orders`, and clients, ids, names and files in `durable_collection`, are
interchangeable, and TLC uses that symmetry; no temporal property with fairness is checked there.

### Fairness
`StructureReconcile`: a request in progress goes on (the thread is not descheduled for ever), a
client whose request failed submits it again, somebody starts Docker when the error message says so,
and a terraform that outlived its Node comes to an end. `RayHeal`: the same of requests and clients,
and KubeRay and the kubelet do their work; that they do it within 180 s from some moment on is
`InTime`, a hypothesis of `HealsComplete` and not of the specification.
`NodeHost`: a command that can go on does, and a daemon that was started gets to the lock; no
process has to die in time and no daemon has to open its API. Faults are bounded and never fair.

The other modules have no fairness: nobody has to submit, link or collect anything. In
`OrderExecution` two steps wait without a limit: `RayPlantPort.wait` for Ray to end the job, and
`wait_for_directory`; that its directory is there is an invariant, `WaitEnds`, of requests that do
not overlap. With overlapping ones a thread can really wait for ever for a directory that only
another, failed thread would have made, which is why the two configurations do not check for
deadlock. Neither do those of `DurableER`, `NodeHost`, `OrderLineage` and `HandoffAudit`, whose
operators, developers and clients stop when they have used up their commands.

## Proofs

Each theorem is about every value of the constants that its module's assumptions allow: any number
of threads, ids, contents, faults and crashes. `PROJECT.json` lists the theorems with the properties
they state. Every inductive invariant was checked with TLC on the instance of its run before it was
proved. A proof module has the invariant first, then the lemmas about the operators, then a lemma for
each group of actions, and the theorems last.

| Module | Proved | From |
|---|---|---|
| `BomRegistryProofs` | `TypeOK`, `IndexSound`, `NoDuplicates`, `NotFoundIsTrue`, `AnswerMatchesRequest` | `RegistryInv` |
| | one writer: `UniqueIsSole`; one writer, no crash: `ImplementsAppendOnly` | `SoloInv`, `Sole` |
| | `IndexParity`: `ParityExact` | `CheckInv` |
| `CasStoreProofs` | `TypeOK`, `EntriesExist`, `LocatorSound`, `MaterializedComplete` | `CasInv` |
| | one writer: `ReturnedIsReadable`, `ImplementsContentAddressed` | `SoloInv` |
| `PlantProofs` | `StructureReconcile`: `TypeOK`, `PlantMatchesOrder`, `HealthyPlantKept`, `HealersSuffice` | `StructureInv` |
| | `RayHeal`: `HealTypeOK`, `JobOnHealedHead`, `HealthyHeadKept` | `HealInv` |
| `OrderExecutionProofs` | `TypeOK`, `BomCoherent`, `WaitEnds` | `FlowInv` |
| | `LocatorsResolve` | `PublicationInv` |
| `DurableERProofs` | `TypeOK`, `PointerIntact`, `CollectionComplete`, `ClearsOnlyTarget` | `DurableInv` |
| `NodeHostProofs` | `TypeOK`, `OthersSurvive`, `PortAsReported` | `HostInv` |
| | `SoleOwner` | `RepoInv` |
| `OrderLineageProofs` | `TypeOK`, `ChainConnected`, `OrdersCoherent`, `NamedCodeRuns`, `AppliedIsNamed`, `ExecuteKeepsTrees` | `LineageInv` |
| | `ResultIsBacked` | `ResultInv` |
| `HandoffAuditProofs` | `TypeOK`, `NoFalseAlarm`, `AuditsAreSound` | `AuditTypes` |

**`BomRegistryProofs`.** None of the properties is inductive alone: a writer holds a list it has
read and will write later. `RegistryInv` adds that such a list is sound and lacks the writer's BOM
(`WriterInv`), that the files of a returned BOM exist, torn at worst and never absent or
empty-and-whole (`ReturnedInv`, `IndexInv`), and what a reader may rely on between its reads
(`ReaderInv`). The lemma `GoodKept` says that what holds of the other threads survives any step that
makes no file vanish. With at most one writer (`OneWriter`), `SoloInv` adds that the file a put is
about to rewrite is as the put read it, and that a BOM whose put returned is listed unless its file
is torn (`Kept`). That survives crashes, so that `UniqueIsSole` needs no bound on them; the
refinement of `AppendOnlyIndex` does, because a crash between the truncation and the write empties a
list for good. Each put step maps to a stutter, but `WriteIndex`, which maps to `Prepend`. Of the
parity check, `CheckInv` says what each place in it has found (`Found`) in the four files of the BOM,
here and where the Node answers, as long as none of them was written since: a read that raises has
seen that they do not match (`ReadRaises`), and a step that is not the check's changes none of them or
is noted (`TouchStep`). It needs nothing of the registry's own invariants, so that it holds with any
number of overlapping writers and whatever they leave.

**`CasStoreProofs`.** `CasInv` adds what a writer has already stored when it gets to the manifest
and to the locator. With one writer, `SoloInv` says that what the writer has behind it is whole and
not just present.

**`PlantProofs`.** `PlantMatchesOrder` speaks of the end of a request, so `StructureInv` says what
each step before leaves for the next: the Order's files are in the home (`ServedGood`); past the
healers, in a request that no fault has disturbed, the Terraform state can be refreshed and nothing
outside it is in the way of what is to be created (`HealedGood`); past `initialize` the modules and
providers of the files are there unless the init was skipped wrongly (`InitGood`); and a request
that found everything in place goes straight to an apply without work (`KeptGood`). Of the Ray head,
`CalmGood` says what an undisturbed heal knows of the pod at each step (it waits for the very pod it
deleted to go, and the head it then finds stays as found); `SkipperGood` that who has seen the head
healthy is on no path to its deletion. The two modules share no variable; `RayHeal` calls its
specification `HealSpec`, so that one module can speak of both.

**`OrderExecutionProofs`.** Threads meet in the attributes of one Runtime, in files and in
directories. `FlowInv` follows a request along its steps: everything it has passed holds a value of
*some* Order or request, and its own one as long as no two requests have overlapped (`Fits`,
`Belongs`). The first half is what keeps `TypeOK` true for interleaved threads, the second gives
`BomCoherent` and `WaitEnds`. `getEnhancedBom` is called twice and the second call goes through the
same steps with everything set already (`Beyond`). `PublicationInv` says which places hold the BOM
at each step, that an `order_uri` is given only after the Order's resource was filled (`UriGood`), and
who tore a resource that is torn (`TornGood`); it needs nothing of `FlowInv` and holds with any
overlap.

**`DurableERProofs`.** A collection reads the pointers one by one, decides, and deletes object by
object while pointers are promoted and written beside it. `Spares` relates each collection to each
pointer that counts: until it decides, the collection has yet to read the pointer or knows what it
names; afterwards it is about to clear the pointer, or has nothing under what it names on its list.
`Thorough` is the converse for a collection that runs alone: every object is still on its list or
may stay.

**`NodeHostProofs`.** `HostInv` ties the port to the command that says it serves, and says that a
command aims at a process that had the marker when ps showed it, and still has unless its id was
reused since (`SignalGood`). `RepoInv` is about `repo.lock`: one daemon at
most holds the file that is there, and by the time an ensure looks at the lock, every daemon that
was starting has been seen off, so that none locks a file that is about to be unlinked.

**`OrderLineageProofs`.** Orders are made from Orders, in chains of any length, so `LineageInv` says
of every Order what a link needs of its prior one (`OrderGood`): trees hold nothing but what is
hashed, leaves are bound to the Order's own packages, the eBOM documents are its own or none. The log
only grows, which keeps `LinkGood` of earlier Orders true, and each log entry is right when it is
written (`RunGood`), by a lemma on what materialising a tree over another and reading it back gives
(`MaterialisedCode`). `ResultInv` places the running Job among its writes: what it has behind it is
whole, no document names it before its blobs, and a blob of an earlier Job that is torn is one the
running Job, or a later one that was killed, cites too.

**`HandoffAuditProofs`.** The first two properties say something of every state in its type, so
the work is in the graph of documents. `Nodes(r)` are the eleven documents of an execution that
refer to others; `NodeSlots` says that their slots lead to each other or to documents without slots,
and `ChainLinked` and `ChainHas` that the four levels of `Chain` are exactly what they refer to.
Soundness follows the session: the BOM is bound to its Invoice (`BomSound`), from there each document
is compared with the mesh before its slots are read (`SessionSound`), and the mesh gives the
document of the id or nothing, so that what agrees with it is right (`FetchSound`). No step counts
faults: the theorem has any number of them at once, the run has one. For the absence of false alarms,
`Clean` is a Node without faults; there HTTP gives what each slot refers to (`CleanSlot`), the record
has nothing against a slot of its own execution whatever could not be read for it (`SlotRecorded`),
and each audit passes.

The assumptions on the constants are those that the modules name: ids of different kinds differ,
functions have their domains, bounds are naturals, `None` is no id, URI, run or log, and there is
some file content and some daemon.
TLC evaluates them in the runs. What "no overlap", "undisturbed" or "sound" excuses is part of the
properties themselves and recorded in history variables that the actions set; only `OneWriter` and
`MaxCrashes = 0` are hypotheses of theorems, and `cas_serial` and `index_parity` have one writer.

Only model-checked:

- `RequestsComplete`, `HealsComplete` and `CommandsEnd`: liveness under fairness is out of the
  prover's reach;
- `ParityIsSnapshot`, which is about one writer at a time;
- `OrderDocIsInvoiceOrder`, which does not hold.

`UniqueIsSole` and `ImplementsAppendOnly` of `BomRegistry` are only proved: a run adds nothing to a
proof for every instance. `index_parity` checks the first for the `resolve_unique_bom` of the check.

## What the code does not promise

Met while modelling, and built into the statements above:

- Two overlapping registry puts can lose an entry (`_append_index`, `store.py:311`): `UniqueIsSole`
  is about puts that do not overlap.
- A crash between creation and content of a CAS blob makes every later put of those bytes raise a
  digest collision until somebody deletes the file (`cas/store.py:50`).
- A listing of `er/current` that fails reads as no pointers, and a collection then deletes what they
  name (`obj_store_utils.py:591`).
- A BOM built while the input Invoice could not be read lacks the derivation of its first stage for
  good, and the audit of the stage lineage raises over it.
- A Node process that has imported a package runs that version for every later Order that names
  another one; a one-shot Job does not.
- Files that an earlier Structure left in the Structure home take part in the next apply.
- `write_job_result` copies the blobs that BOM and Invoice cite by name, not the entries of a
  directory among them.
- A link through the registry takes `bom_ldp_uri` whenever the record has one, also when that copy
  is the one that is missing (`order.py:144`).
- `initialize` skips `terraform init` when the providers of the lock file are cached and the modules of
  the last init are there: a Structure with a new or moved module fails, and so does each retry
  (`infrastructure.py:215`), where the docstring of `modules_installed` (`_tf.py:195`) says that
  `initialize` must run init again; `HealersSuffice` and `RequestsComplete` name that case.
- The first `terraform init` over a lock file may rewrite it, and with it the id of the root tree that
  the next `create_order_request` hashes.
- A second execution of an Order truncates the Order's LDP resource before it fills it
  (`resource_store.py:68`): if it dies in between, the records of the first one name a torn resource.
- A Job that shares a blob with an earlier one truncates it: if it is killed there, the earlier
  `result.json`, which is still in the directory, names a BOM with a torn blob (`result.py:52`).
- A program with `node.py` in its command line is taken for a Node (`cli.py:21`) and killed, where the
  docstring (`cli.py:65`) has "other programs on the port [...] left alone"; and a process id that
  changes hands between ps and kill cannot be told.
- A Ray head that always needs longer than 180 s is rolled again by every retry (`ray_heal.py:195`).
- A parity check during which its BOM's files are written may fail although the disk and the Node
  agree before and after.
- A Ray head with more than 4G counts as not healed, and is rolled down to 4G.
- Two operators who heal Kubo at once can each leave the other's daemon with a lock on a file that
  has no name any more; `SoleOwner` excludes that case.

## Not modelled, and the plan

Not modelled, or in part:

- Partitioned I/O on Ray: adapters of Ray Data; what a partition holds is data.
- BOM documents and SysML (`cats/network/bom/`): which documents an Order carries is in
  `OrderLineage`; what is in them is formatting.
- Identity (key files, DID encoding, signatures), the IPFS client and the legacy CID paths, which the
  code refuses, and the run report, which is a log.
- LDP, Solid and LDN: the places where a BOM is put and the routes that serve it are modelled, the
  HTTP exchange with a pod and its access control are not.
- Intake by `order_uri`, a reverse lookup of locators.
- `catSubmit`: the client's HTTP request; its time limit is why requests overlap.
- The other notebooks, which show the same helpers and documents as `cats_demo.py`.

What could come next: in `OrderLineage` the client and the Node with a `CATS_HOME` each, and in
`HandoffAudit` chains of links audited as a whole, of which `LinkAudited` is one link.
