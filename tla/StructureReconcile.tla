-------------------------- MODULE StructureReconcile --------------------------
(***************************************************************************)
(* How the Node brings the Structure of an Order to life: the tree is      *)
(* materialised over the Structure home (content_mesh.py getEnhancedBom),  *)
(* Structure.reconcile compares the applied-structure marker with the id   *)
(* of the Order and runs Terraform (executor/structure/__init__.py,        *)
(* infrastructure.py, _tf.py), and the healers that come with the Order    *)
(* (plant_utils.py, obj_store_utils.py) drop the drift that Terraform      *)
(* could not refresh.                                                      *)
(*                                                                         *)
(* Terraform, Docker and kind are external: what they do is taken from how *)
(* the code calls them and from the failures its comments describe.  One   *)
(* request at a time; a client whose request failed submits it again.      *)
(***************************************************************************)
EXTENDS Naturals, FiniteSets

CONSTANTS Structures,  \* structure content ids
          Slots,       \* Terraform files a Structure may have
          FilesOf,     \* [Structures -> SUBSET Slots]
          Modules,     \* Terraform modules that a file may call
          Providers,   \* Terraform providers that a file may need
          Uses,        \* [Structures -> [Slots -> modules and providers]]
          LockOf,      \* [Structures -> SUBSET Providers]: its .terraform.lock.hcl
          MaxFaults,   \* bound on faults
          None, Partial

ASSUME ConstantsAssumption ==
    /\ FilesOf \in [Structures -> SUBSET Slots]
    /\ Uses \in [Structures -> [Slots -> SUBSET (Modules \cup Providers)]]
    /\ LockOf \in [Structures -> SUBSET Providers]
    /\ None \notin Structures /\ Partial \notin Structures \cup {None}
    /\ MaxFaults \in Nat

VARIABLES
    marker,    \* .applied-structure.id, or None
    home,      \* [Slots -> Structures or None]: whose file is in Structure home
    tf,        \* SUBSET Resources: the resources terraform.tfstate lists
    conf,      \* the home that the Terraform state was last brought to
    kind,      \* the kind cluster on the host: "gone", "up" or "stopped"
    store,     \* BOOLEAN: the MinIO container runs
    mods,      \* the modules that modules.json lists, {} without that file
    cached,    \* the providers in .terraform-data
    hcl,       \* the providers that .terraform.lock.hcl of the home lists
    lock,      \* BOOLEAN: there is a .terraform.tfstate.lock.info
    orphan,    \* the terraform that a Node which died has left running
    docker,    \* BOOLEAN: the Docker daemon answers
    req,       \* the request being served
    faults

vars == <<marker, home, tf, conf, kind, store, mods, cached, hcl, lock, orphan,
          docker, req, faults>>
data == <<mods, cached, hcl>>
host == <<tf, conf, kind, store, lock, orphan, docker>>

\* In the order Terraform creates them: the store feeds the cluster's module,
\* and the Ray release lives in the cluster.
Resources == {"store", "kind", "ray"}
InOrder(T) == /\ "ray" \in T => "kind" \in T
              /\ "kind" \in T => "store" \in T

NoFiles  == [x \in Slots |-> None]
Covers(h, s) == \A x \in FilesOf[s] : h[x] = s
Broken   == [x \in Slots |-> Partial]

PCs == {"idle", "marker", "init", "destroy?", "heal-", "destroy", "apply?", "heal+",
        "apply", "record", "done", "failed"}

\* asked: the Order's structure id.  redo: redeploy() rather than deploy().
\* The rest is history: the state the request started from, the faults since,
\* whether the cluster was created anew and what apply left.
Requests == [pc : PCs, asked : Structures \cup {None}, redo : BOOLEAN,
             healthy : BOOLEAN, disturbed : BOOLEAN, recreated : BOOLEAN,
             result : BOOLEAN]

Init ==
    /\ marker = None /\ home = NoFiles
    /\ tf = {} /\ conf = NoFiles
    /\ kind = "gone" /\ store = FALSE
    /\ mods = {} /\ cached = {} /\ hcl = {}
    /\ lock = FALSE /\ orphan = "none" /\ docker = TRUE
    /\ req = [pc |-> "idle", asked |-> None, redo |-> FALSE, healthy |-> FALSE,
              disturbed |-> FALSE, recreated |-> FALSE, result |-> FALSE]
    /\ faults = 0

------------------------------------------------------------------------------
(***************************************************************************)
(* A request, from materialisation to the marker                           *)
(***************************************************************************)
Goto(pc) == req' = [req EXCEPT !.pc = pc]

\* Mutant of Overlay: only the Order's own files are accounted for.
OverlayOwnOnly(s) == [x \in FilesOf[s] |-> s]

\* materialize_structure_root_files and get() of plant/ and infrastructure/:
\* the Order's files are written over the home, nothing is deleted.
Overlay(s) == [x \in Slots |-> IF x \in FilesOf[s] THEN s ELSE home[x]]

\* What the files of a home call and need.
Needs(h) == UNION {Uses[h[x]][x] : x \in {y \in Slots : h[y] # None}}

\* providers_cached and modules_installed: the providers of the lock file are
\* there, and so are the directories of the modules of the last init; nothing is
\* ever deleted from the home, so they always are.
Skips(l) == mods # {} /\ l # {} /\ l \subseteq cached

\* terraform finds every module and provider that the files ask for.
Loads(h, l) == Needs(h) \subseteq mods \cup (l \cap cached)

\* The init that would install what is missing is skipped, now and in every retry.
Stuck(h, l) == Skips(l) /\ ~ Loads(h, l)

\* Nothing to do for s: its files are applied already and everything is up.
Healthy(s) == /\ tf = Resources /\ conf = Overlay(s) /\ marker = s
              /\ ~ Stuck(Overlay(s), LockOf[s])
              /\ kind = "up" /\ store /\ ~ lock /\ orphan = "none" /\ docker

Materialize(s) ==
    /\ home' = Overlay(s) /\ hcl' = LockOf[s]
    /\ req' = [pc |-> "marker", asked |-> s, redo |-> FALSE, healthy |-> Healthy(s),
               disturbed |-> FALSE, recreated |-> FALSE, result |-> FALSE]
    /\ UNCHANGED <<marker, mods, cached, host, faults>>

\* A client whose request failed may also leave it at that.
Submit(s) == req.pc \in {"idle", "done", "failed"} /\ Materialize(s)
Retry     == req.pc = "failed" /\ Materialize(req.asked)

\* Structure.reconcile: redeploy unless the marker is the id of the Order.
ReadMarker ==
    /\ req.pc = "marker"
    /\ req' = [req EXCEPT !.redo = marker # req.asked, !.pc = "init"]
    /\ UNCHANGED <<marker, home, data, host, faults>>

\* initialize(): nothing when providers and modules are cached, or terraform
\* init, which lists the modules called now and maintains the lock file.
Initialize ==
    /\ req.pc = "init"
    /\ mods' = IF Skips(hcl) THEN mods ELSE Needs(home) \cap Modules
    /\ hcl' = IF Skips(hcl) THEN hcl ELSE Needs(home) \cap Providers
    /\ cached' = cached \cup hcl'
    /\ Goto(IF req.redo THEN "destroy?" ELSE "apply?")
    /\ UNCHANGED <<marker, home, host, faults>>

\* require_docker_daemon, at the start of destroy() and of apply().
RequireDocker ==
    /\ req.pc \in {"destroy?", "apply?"}
    /\ Goto(CASE ~ docker            -> "failed"
              [] req.pc = "destroy?" -> "heal-"
              [] OTHER               -> "heal+")
    /\ UNCHANGED <<marker, home, data, host, faults>>

\* _kind_cluster_usable and _docker_container_running: nothing is listed, and
\* nothing runs, when the daemon does not answer.
Usable(k) == docker /\ k = "up"
Listed(k) == docker /\ k # "gone"
StoreRuns == docker /\ store

\* Mutants of OrphanCleaned: no orphan is deleted; the state is not looked at.
OrphanKept(k, seen)  == k
OrphanBlind(k, seen) == IF Usable(k) THEN "gone" ELSE k

\* cleanup_orphan_kind_cluster: a usable cluster that is not in the state list.
OrphanCleaned(k, seen) == IF Usable(k) /\ "kind" \notin seen THEN "gone" ELSE k

\* cleanup_stale_kind_cluster_state: a listed but stopped cluster is deleted ...
StoppedCleaned(k) == IF Listed(k) /\ ~ Usable(k) THEN "gone" ELSE k

\* Mutant of PlantStateCleaned: the cluster's dependents stay in the state.
PlantStateNodeOnly(k, seen) == IF Usable(k) THEN tf ELSE tf \ (seen \cap {"kind"})

\* ... and the cluster and what depends on it leave the state when unusable.
PlantStateCleaned(k, seen) == IF Usable(k) THEN tf ELSE tf \ (seen \cap {"kind", "ray"})

\* Mutant of StoreStateCleaned: the store's drift is not healed.
StoreStateKept(T, seen) == T

\* cleanup_stale_obj_store_state: the container is gone.
StoreStateCleaned(T, seen) == IF "store" \in seen /\ ~ StoreRuns THEN T \ {"store"} ELSE T

\* _terraform_state_resources: the state list is empty when the command fails (a
\* fault), which a healer cannot tell from an empty state.
StateLists == {tf, {}}

\* heal_stale_terraform_state_lock: the lock goes unless a process has it open.
LockHealed(l) == l /\ orphan # "none"

\* _cleanup_stale_structure_state: each of the three healers lists the state.
\* terraform state rm needs the lock.
Heal ==
    /\ req.pc \in {"heal-", "heal+"}
    /\ \E first, stale, obj \in StateLists :
         /\ LET k == OrphanCleaned(kind, first)
                T == StoreStateCleaned(PlantStateCleaned(k, stale), obj)
            IN  /\ orphan # "none" => T = tf
                /\ kind' = StoppedCleaned(k)
                /\ tf' = T
                /\ conf' = IF T = tf THEN conf ELSE Broken
         /\ faults' = faults + Cardinality({i \in 1 .. 3 : <<first, stale, obj>>[i] # tf})
         /\ faults' <= MaxFaults
         /\ req' = [req EXCEPT !.pc = IF @ = "heal-" THEN "destroy" ELSE "apply",
                               !.disturbed = @ \/ faults' # faults]
    /\ lock' = LockHealed(lock)
    /\ UNCHANGED <<marker, home, data, store, orphan, docker>>

\* A terraform that is still running has the lock: the healer raises.
HealRefused ==
    /\ req.pc \in {"heal-", "heal+"} /\ orphan # "none"
    /\ LET k == OrphanCleaned(kind, tf)
       IN  /\ StoreStateCleaned(PlantStateCleaned(k, tf), tf) # tf
           /\ kind' = StoppedCleaned(k)
    /\ Goto("failed")
    /\ UNCHANGED <<marker, home, data, tf, conf, store, lock, orphan, docker, faults>>

\* terraform can take the lock and refresh every resource of its state.
Refreshes == /\ docker /\ ~ lock /\ orphan = "none"
             /\ tf \cap {"kind", "ray"} # {} => kind = "up"
\* kind refuses to create a cluster whose name is taken.
Creates   == "kind" \in tf \/ kind = "gone"

Destroys == req.pc = "destroy" /\ Loads(home, hcl) /\ Refreshes
Applies  == req.pc = "apply" /\ Loads(home, hcl) /\ Refreshes /\ Creates

TerraformDestroy ==
    /\ Destroys
    /\ kind' = IF "kind" \in tf THEN "gone" ELSE kind
    /\ store' = IF "store" \in tf THEN FALSE ELSE store
    /\ tf' = {} /\ conf' = NoFiles
    /\ Goto("apply?")
    /\ UNCHANGED <<marker, home, data, lock, orphan, docker, faults>>

\* A store that is in the state is not recreated, even when its container is gone.
TerraformApply ==
    /\ Applies
    /\ kind' = "up"
    /\ store' = IF "store" \in tf THEN store ELSE TRUE
    /\ tf' = Resources /\ conf' = home
    /\ req' = [req EXCEPT !.pc = "record", !.recreated = "kind" \notin tf,
                          !.result = store' /\ Covers(home, req.asked)]
    /\ UNCHANGED <<marker, home, data, lock, orphan, docker, faults>>

\* executeCMD raises on a non-zero exit status.
TerraformRaises ==
    /\ req.pc \in {"destroy", "apply"} /\ ~ Destroys /\ ~ Applies
    /\ Goto("failed")
    /\ UNCHANGED <<marker, home, data, host, faults>>

\* write_applied_structure_id, then the snapshot that goes into the BOM.
WriteMarker ==
    /\ req.pc = "record"
    /\ marker' = req.asked
    /\ Goto("done")
    /\ UNCHANGED <<home, data, host, faults>>

------------------------------------------------------------------------------
(***************************************************************************)
(* Faults                                                                  *)
(***************************************************************************)
Fault == faults < MaxFaults /\ faults' = faults + 1

Disturb(pc) == req' = [req EXCEPT !.disturbed = TRUE, !.pc = pc]

\* terraform apply or destroy stops half-way (a provider error, or Ctrl-C,
\* which may leave its lock): some resources are done, and the last one may
\* have been made, or removed, without the state saying so.
PartMade(made, told) ==
    /\ tf \subseteq told /\ told \subseteq made
    /\ InOrder(made \ tf) \/ tf # {}
    /\ Cardinality(made \ told) <= 1
    /\ tf' = told
    /\ store' = IF "store" \in made \ tf THEN TRUE ELSE store

PartGone(kept, told) ==
    /\ kept \subseteq told /\ told \subseteq tf
    /\ "kind" \in tf \ kept => "ray" \notin kept
    /\ Cardinality(told \ kept) <= 1
    /\ tf' = told
    /\ kind' = IF "kind" \in tf \ kept THEN "gone" ELSE kind
    /\ store' = IF "store" \in tf \ kept THEN FALSE ELSE store
    /\ conf' = IF told = tf THEN conf ELSE Broken

InterruptedApply ==
    /\ Fault /\ Applies
    /\ \E made, told \in SUBSET Resources :
         /\ PartMade(made, told)
         /\ kind' = IF "kind" \in made THEN "up" ELSE kind
    /\ conf' = IF conf = home /\ tf = Resources THEN conf ELSE Broken
    /\ lock' \in BOOLEAN
    /\ Disturb("failed")
    /\ UNCHANGED <<marker, home, data, orphan, docker>>

InterruptedDestroy ==
    /\ Fault /\ Destroys
    /\ \E kept, told \in SUBSET Resources : PartGone(kept, told)
    /\ lock' \in BOOLEAN
    /\ Disturb("failed")
    /\ UNCHANGED <<marker, home, data, orphan, docker>>

\* The Node dies and the terraform that it had started goes on ...
Orphaned ==
    /\ Fault /\ (Applies \/ Destroys)
    /\ orphan' = req.pc /\ lock' = TRUE
    /\ Disturb("failed")
    /\ UNCHANGED <<marker, home, data, tf, conf, kind, store, docker>>

\* ... until it ends: it may have got through, and a healer may have deleted the
\* cluster it was making.
OrphanEnds ==
    /\ \/ /\ orphan = "apply"
          /\ \E made, told \in SUBSET Resources :
               /\ PartMade(made, told)
               /\ kind' \in {kind} \cup (IF "kind" \in made \ tf THEN {"up"} ELSE {})
          /\ conf' = Broken
       \/ /\ orphan = "destroy"
          /\ \E kept, told \in SUBSET Resources : PartGone(kept, told)
    /\ orphan' = "none" /\ lock' = FALSE
    /\ Disturb(req.pc)
    /\ UNCHANGED <<marker, home, data, docker, faults>>

\* terraform init fails: it installs modules, then providers.
InterruptedInit ==
    /\ Fault /\ req.pc = "init" /\ ~ Skips(hcl)
    /\ mods' \in {mods, Needs(home) \cap Modules}
    /\ \E got \in SUBSET (Needs(home) \cap Providers) : cached' = cached \cup got
    /\ Disturb("failed")
    /\ UNCHANGED <<marker, home, hcl, host>>

\* kind delete or terraform state rm fails: what came before it is done.
InterruptedHeal ==
    /\ Fault /\ req.pc \in {"heal-", "heal+"}
    /\ LET k == OrphanCleaned(kind, tf)
       IN  /\ kind' \in {k, StoppedCleaned(k)}
           /\ tf' \in {tf, PlantStateCleaned(k, tf)}
           /\ tf' # tf => kind' = StoppedCleaned(k) /\ orphan = "none"
           /\ conf' = IF tf' = tf THEN conf ELSE Broken
    /\ lock' = LockHealed(lock)
    /\ Disturb("failed")
    /\ UNCHANGED <<marker, home, data, store, orphan, docker>>

\* The Node process dies in the middle of a request; the marker may have been
\* truncated and not yet written, and an empty one reads as None.
Crash ==
    /\ Fault /\ req.pc \notin {"idle", "done", "failed"}
    /\ Disturb("failed")
    /\ marker' \in {marker} \cup (IF req.pc = "record" THEN {None} ELSE {})
    /\ UNCHANGED <<home, data, host>>

\* Docker Desktop is reset, or kills the control plane; the daemon stops.
HostLoses ==
    /\ Fault
    /\ \/ kind # "gone" /\ kind' = "gone" /\ UNCHANGED <<store, docker>>
       \/ kind = "up" /\ kind' = "stopped" /\ UNCHANGED <<store, docker>>
       \/ store /\ store' = FALSE /\ UNCHANGED <<kind, docker>>
       \/ docker /\ docker' = FALSE /\ UNCHANGED <<kind, store>>
    /\ Disturb(req.pc)
    /\ UNCHANGED <<marker, home, data, tf, conf, lock, orphan>>

\* The operator starts Docker, as the error message asks; what ran before the
\* daemon stopped may have stopped with it.
DockerStarts ==
    /\ ~ docker /\ docker' = TRUE
    /\ kind' \in {kind} \cup (IF kind = "up" THEN {"stopped"} ELSE {})
    /\ store' \in {store, FALSE}
    /\ Disturb(req.pc)
    /\ UNCHANGED <<marker, home, data, tf, conf, lock, orphan, faults>>

------------------------------------------------------------------------------
Reconcile ==
    \/ ReadMarker \/ Initialize \/ RequireDocker \/ Heal \/ HealRefused
    \/ TerraformDestroy \/ TerraformApply \/ TerraformRaises \/ WriteMarker

Next ==
    \/ \E s \in Structures : Submit(s)
    \/ Retry
    \/ Reconcile
    \/ InterruptedInit \/ InterruptedApply \/ InterruptedDestroy \/ InterruptedHeal
    \/ Crash \/ Orphaned \/ HostLoses
    \/ OrphanEnds \/ DockerStarts

\* A request in progress goes on, a client retries, somebody starts Docker and
\* no terraform runs for ever.
Fairness == /\ WF_vars(Reconcile) /\ WF_vars(Retry)
            /\ WF_vars(DockerStarts) /\ WF_vars(OrphanEnds)

Spec == Init /\ [][Next]_vars /\ Fairness

------------------------------------------------------------------------------
(***************************************************************************)
(* Properties                                                              *)
(***************************************************************************)

\* Every variable stays in its type.
TypeOK ==
    /\ marker \in Structures \cup {None}
    /\ home \in [Slots -> Structures \cup {None}]
    /\ tf \subseteq Resources
    /\ conf \in [Slots -> Structures \cup {None}] \cup {Broken}
    /\ kind \in {"gone", "up", "stopped"}
    /\ mods \subseteq Modules /\ cached \subseteq Providers /\ hcl \subseteq Providers
    /\ store \in BOOLEAN /\ lock \in BOOLEAN /\ docker \in BOOLEAN
    /\ orphan \in {"none", "apply", "destroy"}
    /\ req \in Requests
    /\ faults \in 0 .. MaxFaults

\* When reconcile returns, the whole Plant of the Order asked for is up, store
\* included, whatever drift, interruption or crash the requests before it have
\* left: only a loss on the host during this very request excuses it.  All the
\* Order's Terraform files are in effect; files of an earlier Structure that
\* this one does not have stay in the home and may be in effect too.
PlantMatchesOrder == req.pc \in {"record", "done"} => req.result \/ req.disturbed

\* A healthy Plant is not rebuilt: a request for the Structure that is already
\* applied, with nothing broken before or during it, neither fails nor
\* recreates the cluster.
HealthyPlantKept ==
    req.healthy /\ ~ req.disturbed => ~ req.recreated /\ req.pc # "failed"

\* The healers cover every drift: a request that starts after the last fault
\* does not fail, whatever the faults have left, but for three reasons that it
\* cannot mend: Docker is down, a terraform of a Node that died has the state
\* lock, or initialize() skips the init that the files in the home call for.
HealersSuffice ==
    [][ req.pc # "failed" /\ req'.pc = "failed"
          => req'.disturbed \/ ~ docker \/ orphan # "none" \/ Stuck(home, hcl) ]_vars

\* Every request is eventually served, if its client retries, somebody starts
\* Docker and faults end, or the skipped init stands in its way: no drift sends
\* every retry into the same failure.
RequestsComplete == (req.pc # "idle") ~> (req.pc = "done" \/ Stuck(home, hcl))
==============================================================================
