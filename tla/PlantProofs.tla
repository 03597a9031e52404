----------------------------- MODULE PlantProofs ------------------------------
(***************************************************************************)
(* How a request brings up its Plant, for every set of Structures with any *)
(* Terraform files, every set of requests and every number of faults:      *)
(* Structure.reconcile first (StructureReconcile), then the heal of the    *)
(* Ray head (RayHeal), which has its own state.                            *)
(***************************************************************************)
EXTENDS StructureReconcile, RayHeal, FiniteSetTheorems, TLAPS

\* The Order being served, and its files in the Structure home.
ServedGood ==
    req.pc # "idle" => req.asked \in Structures /\ Covers(home, req.asked)

\* initialize() has left what the files call for, or skips its init.
InitGood ==
    req.pc \in {"destroy?", "heal-", "destroy", "apply?", "heal+", "apply"}
        => Loads(home, hcl) \/ Skips(hcl)

\* What the healers have seen to once a request that no fault disturbed gets to
\* Terraform: no store in the state without its container, nothing in the
\* state that cannot be refreshed unless a terraform runs, and no cluster
\* outside it that is in the way.
HealedGood == ~ req.disturbed =>
    /\ req.pc = "apply" => ("store" \in tf => store)
    /\ req.pc \in {"destroy", "apply"} /\ docker /\ orphan = "none" => Refreshes
    /\ req.pc = "apply" /\ docker => Creates
    /\ req.pc \in {"record", "done"} => req.result

\* A request that found everything in place, and was not disturbed, goes
\* straight to an apply that has nothing to do.
KeptGood == req.healthy /\ ~ req.disturbed =>
    /\ ~ req.recreated
    /\ req.pc \in {"marker", "init", "apply?", "heal+", "apply", "record", "done"}
    /\ req.pc \notin {"record", "done"} =>
         /\ tf = Resources /\ marker = req.asked /\ kind = "up"
         /\ store /\ ~ lock /\ docker /\ orphan = "none"
         /\ ~ Stuck(home, hcl)
         /\ req.pc # "marker" => ~ req.redo

StructureInv == TypeOK /\ ServedGood /\ InitGood /\ HealedGood /\ KeptGood

------------------------------------------------------------------------------
LEMMA StructureInit == Init => StructureInv
<1> SUFFICES ASSUME Init PROVE StructureInv
  OBVIOUS
<1>1. req \in Requests
  BY DEF Init, Requests, PCs
<1>2. faults \in 0 .. MaxFaults
  BY ConstantsAssumption DEF Init
<1>3. TypeOK
  BY <1>1, <1>2 DEF Init, TypeOK, NoFiles
<1> QED BY <1>3 DEF Init, StructureInv, ServedGood, InitGood, HealedGood, KeptGood

LEMMA FaultTyped ==
    ASSUME TypeOK, Fault
    PROVE  faults' \in 0 .. MaxFaults
BY ConstantsAssumption DEF TypeOK, Fault

\* How many healers did not see the state is zero only if each of them did.
LEMMA FailedListings ==
    ASSUME NEW first, NEW stale, NEW obj, NEW N,
           N = Cardinality({i \in 1 .. 3 : <<first, stale, obj>>[i] # tf})
    PROVE  N \in Nat /\ (N = 0 => first = tf /\ stale = tf /\ obj = tf)
<1> DEFINE S == {i \in 1 .. 3 : <<first, stale, obj>>[i] # tf}
<1>0. S \subseteq 1 .. 3
  OBVIOUS
<1>1. IsFiniteSet(1 .. 3)
  <2>1. 1 \in Int /\ 3 \in Int
    OBVIOUS
  <2> QED BY <2>1, FS_Interval
<1>2. IsFiniteSet(S)
  BY <1>0, <1>1, FS_Subset
<1>3. Cardinality(S) \in Nat /\ (Cardinality(S) = 0 <=> S = {})
  BY <1>2, FS_CardinalityType, FS_EmptySet
<1>4. S = {} => 1 \notin S /\ 2 \notin S /\ 3 \notin S
  OBVIOUS
<1>5. S = {} => first = tf /\ stale = tf /\ obj = tf
  BY <1>4
<1> QED BY <1>3, <1>5

\* A heal leaves the request undisturbed only if each healer saw the state.
LEMMA HealSees ==
    ASSUME TypeOK, Heal
    PROVE  /\ faults' \in 0 .. MaxFaults
           /\ tf' \subseteq Resources /\ kind' \in {"gone", "up", "stopped"}
           /\ conf' \in {conf, Broken}
           /\ req' = [req EXCEPT !.pc = req'.pc, !.disturbed = req'.disturbed]
           /\ req'.pc = (IF req.pc = "heal-" THEN "destroy" ELSE "apply")
           /\ req'.disturbed \in BOOLEAN
           /\ ~ req'.disturbed =>
                LET k == OrphanCleaned(kind, tf)
                IN  /\ ~ req.disturbed
                    /\ kind' = StoppedCleaned(k)
                    /\ tf' = StoreStateCleaned(PlantStateCleaned(k, tf), tf)
<1>1. PICK first \in StateLists, stale \in StateLists, obj \in StateLists :
        /\ LET k == OrphanCleaned(kind, first)
               T == StoreStateCleaned(PlantStateCleaned(k, stale), obj)
           IN  /\ kind' = StoppedCleaned(k)
               /\ tf' = T
               /\ conf' = IF T = tf THEN conf ELSE Broken
        /\ faults' = faults + Cardinality({i \in 1 .. 3 : <<first, stale, obj>>[i] # tf})
        /\ faults' <= MaxFaults
        /\ req' = [req EXCEPT !.pc = IF @ = "heal-" THEN "destroy" ELSE "apply",
                              !.disturbed = @ \/ faults' # faults]
  BY DEF Heal
<1> DEFINE N == Cardinality({i \in 1 .. 3 : <<first, stale, obj>>[i] # tf})
<1>2. /\ faults' = faults + N /\ N \in Nat
      /\ N = 0 => first = tf /\ stale = tf /\ obj = tf
  BY <1>1, FailedListings
<1> HIDE DEF N
<1>3. faults' \in 0 .. MaxFaults /\ (faults' = faults => N = 0)
  <2>1. faults \in Nat /\ MaxFaults \in Nat /\ faults' <= MaxFaults
    BY <1>1, ConstantsAssumption DEF TypeOK
  <2> QED BY <1>2, <2>1
<1>4. tf' \subseteq Resources /\ kind' \in {"gone", "up", "stopped"}
  BY <1>1 DEF TypeOK, StateLists, OrphanCleaned, StoppedCleaned, StoreStateCleaned,
              PlantStateCleaned
<1>5. /\ req'.disturbed = (req.disturbed \/ faults' # faults)
      /\ req'.pc = (IF req.pc = "heal-" THEN "destroy" ELSE "apply")
      /\ req' = [req EXCEPT !.pc = req'.pc, !.disturbed = req'.disturbed]
      /\ req'.disturbed \in BOOLEAN
  BY <1>1 DEF TypeOK, Requests
<1> QED BY <1>1, <1>2, <1>3, <1>4, <1>5

------------------------------------------------------------------------------
\* A request that has just been materialised.
LEMMA MaterializeStep ==
    ASSUME TypeOK, NEW s \in Structures, Materialize(s)
    PROVE  StructureInv'
<1>1. req'.asked = s /\ req'.pc = "marker" /\ ~ req'.recreated /\ ~ req'.disturbed
      /\ req'.healthy = Healthy(s)
  BY DEF Materialize
<1>2. home' \in [Slots -> Structures \cup {None}] /\ Covers(home, s)'
  BY ConstantsAssumption DEF Materialize, Overlay, Covers, TypeOK
<1>3. req' \in Requests
  <2>1. Healthy(s) \in BOOLEAN
    BY DEF Healthy
  <2> QED BY <2>1 DEF Materialize, Requests, PCs
<1>4. TypeOK'
  BY <1>2, <1>3, ConstantsAssumption DEF TypeOK, Materialize, host
<1>5. ServedGood' /\ InitGood' /\ HealedGood'
  BY <1>1, <1>2 DEF ServedGood, InitGood, HealedGood, Covers
<1>6. KeptGood'
  <2>1. ~ Stuck(Overlay(s), LockOf[s]) => ~ Stuck(home, hcl)'
    BY DEF Materialize, Stuck, Skips, Loads, Needs
  <2> QED BY <1>1, <2>1 DEF KeptGood, Healthy, Materialize, host
<1> QED BY <1>4, <1>5, <1>6 DEF StructureInv

\* A step that keeps the home and the Order asked for keeps ServedGood.
LEMMA ServedKept ==
    ASSUME ServedGood, UNCHANGED home, req'.asked = req.asked,
           req'.pc # "idle" => req.pc # "idle"
    PROVE  ServedGood'
BY DEF ServedGood, Covers

\* A step that leaves the home and .terraform-data alone finds there what it
\* found before.
LEMMA InitKept ==
    ASSUME UNCHANGED <<home, data>>
    PROVE  /\ Loads(home, hcl)' <=> Loads(home, hcl)
           /\ Skips(hcl)' <=> Skips(hcl)
           /\ Stuck(home, hcl)' <=> Stuck(home, hcl)
BY DEF data, Loads, Skips, Stuck, Needs

\* After initialize() everything is there, or it was skipped.
LEMMA InitLeaves ==
    ASSUME TypeOK, Initialize
    PROVE  /\ (Loads(home, hcl) \/ Skips(hcl))'
           /\ ~ Stuck(home, hcl) => ~ Stuck(home, hcl)'
           /\ mods' \subseteq Modules /\ hcl' \subseteq Providers /\ cached' \subseteq Providers
<1>1. CASE Skips(hcl)
  <2>1. mods' = mods /\ hcl' = hcl /\ cached' = cached /\ home' = home
    BY <1>1 DEF Initialize, Skips
  <2> QED BY <1>1, <2>1, InitKept DEF data, TypeOK
<1>2. CASE ~ Skips(hcl)
  <2>1. Needs(home) \subseteq Modules \cup Providers
    BY ConstantsAssumption DEF Needs, TypeOK
  <2>2. /\ mods' = Needs(home) \cap Modules /\ hcl' = Needs(home) \cap Providers
        /\ cached' = cached \cup hcl' /\ home' = home
    BY <1>2 DEF Initialize
  <2>3. Needs(home)' = Needs(home)
    BY <2>2 DEF Needs
  <2>4. Loads(home, hcl)'
    BY <2>1, <2>2, <2>3 DEF Loads
  <2> QED BY <2>2, <2>4 DEF Stuck, TypeOK
<1> QED BY <1>1, <1>2

\* Reconciling up to Terraform.
LEMMA PrepareStep ==
    ASSUME StructureInv, ReadMarker \/ Initialize \/ RequireDocker
    PROVE  StructureInv'
<1> USE DEF host, Goto
<1>0. TypeOK /\ ServedGood /\ InitGood /\ HealedGood /\ KeptGood
  BY DEF StructureInv
<1>1. TypeOK'
  <2>1. req' \in Requests
    BY <1>0 DEF TypeOK, Requests, PCs, ReadMarker, Initialize, RequireDocker
  <2>2. mods' \subseteq Modules /\ cached' \subseteq Providers /\ hcl' \subseteq Providers
    BY <1>0, InitLeaves DEF TypeOK, ReadMarker, RequireDocker, data
  <2> QED BY <1>0, <2>1, <2>2 DEF TypeOK, ReadMarker, Initialize, RequireDocker
<1>2. ServedGood'
  BY <1>0, ServedKept DEF TypeOK, Requests, ReadMarker, Initialize, RequireDocker
<1>3. HealedGood'
  BY <1>0 DEF TypeOK, Requests, HealedGood, ReadMarker, Initialize, RequireDocker
<1>4. InitGood'
  <2>1. CASE ReadMarker
    BY <1>0, <2>1 DEF TypeOK, Requests, InitGood, ReadMarker
  <2>2. CASE Initialize
    BY <1>0, <2>2, InitLeaves DEF InitGood
  <2>3. CASE RequireDocker
    BY <1>0, <2>3, InitKept DEF TypeOK, Requests, InitGood, RequireDocker
  <2> QED BY <2>1, <2>2, <2>3
<1>5. KeptGood'
  <2>1. CASE ReadMarker
    BY <1>0, <2>1, InitKept DEF TypeOK, Requests, KeptGood, ReadMarker
  <2>2. CASE Initialize
    BY <1>0, <2>2, InitLeaves DEF TypeOK, Requests, KeptGood, Initialize
  <2>3. CASE RequireDocker
    BY <1>0, <2>3, InitKept DEF TypeOK, Requests, KeptGood, RequireDocker
  <2> QED BY <2>1, <2>2, <2>3
<1> QED BY <1>1, <1>2, <1>3, <1>4, <1>5 DEF StructureInv

\* The healers leave Terraform a state that it can refresh and complete.
LEMMA DriftStep ==
    ASSUME StructureInv, Heal
    PROVE  StructureInv'
<1>0. TypeOK /\ ServedGood /\ InitGood /\ HealedGood /\ KeptGood
  BY DEF StructureInv
<1>1. TypeOK'
  <2>1. req' \in Requests
    BY <1>0, HealSees DEF TypeOK, Requests, PCs
  <2>2. conf' \in [Slots -> Structures \cup {None}] \cup {Broken}
    BY <1>0, HealSees DEF TypeOK
  <2> QED BY <1>0, <2>1, <2>2, HealSees DEF TypeOK, Heal, LockHealed, data
<1>2. /\ req'.asked = req.asked /\ req'.healthy = req.healthy /\ req'.redo = req.redo
      /\ req'.recreated = req.recreated
  BY <1>0, HealSees DEF TypeOK, Requests
<1>3. ServedGood' /\ InitGood'
  BY <1>0, <1>2, ServedKept, InitKept DEF Heal, InitGood
<1>4. HealedGood'
  <2>1. SUFFICES ASSUME ~ req'.disturbed
                 PROVE  /\ ("store" \in tf => store)' /\ req'.pc \in {"destroy", "apply"}
                        /\ docker' /\ orphan' = "none" => Refreshes'
                        /\ docker' => Creates'
    BY <1>0, HealSees DEF HealedGood
  <2>2. PICK k : k = OrphanCleaned(kind, tf)
    OBVIOUS
  <2>3. /\ kind' = StoppedCleaned(k)
        /\ tf' = StoreStateCleaned(PlantStateCleaned(k, tf), tf)
    BY <1>0, <2>1, <2>2, HealSees
  <2>4. ("store" \in tf => store)'
    BY <1>0, <2>3 DEF StoreStateCleaned, PlantStateCleaned, StoreRuns, Heal, TypeOK
  <2>5. ASSUME docker PROVE (tf' \cap {"kind", "ray"} # {} => kind' = "up") /\ Creates'
    BY <1>0, <2>2, <2>3, <2>5 DEF StoreStateCleaned, PlantStateCleaned, StoppedCleaned,
       OrphanCleaned, Usable, Listed, Creates, TypeOK
  <2> QED BY <1>0, <2>4, <2>5, HealSees DEF Heal, Refreshes, LockHealed
<1>5. KeptGood'
  <2>1. SUFFICES ASSUME req'.healthy, ~ req'.disturbed
                 PROVE  /\ ~ req'.recreated /\ req'.pc = "apply" /\ ~ req'.redo
                        /\ tf' = Resources /\ marker' = req'.asked /\ kind' = "up"
                        /\ store' /\ ~ lock' /\ docker' /\ orphan' = "none"
                        /\ ~ Stuck(home, hcl)'
    BY DEF KeptGood
  <2>2. /\ req.pc = "heal+" /\ tf = Resources /\ kind = "up" /\ docker /\ store
        /\ ~ lock /\ orphan = "none" /\ ~ Stuck(home, hcl)
        /\ marker = req.asked /\ ~ req.recreated /\ ~ req.redo
    BY <1>0, <1>2, <2>1, HealSees DEF KeptGood, Heal
  <2>3. kind' = "up" /\ tf' = Resources
    BY <1>0, <2>1, <2>2, HealSees DEF StoreStateCleaned, PlantStateCleaned, StoppedCleaned,
       OrphanCleaned, Usable, Listed, StoreRuns, Resources
  <2>4. ~ Stuck(home, hcl)'
    BY <2>2, InitKept DEF Heal
  <2> QED BY <1>0, <1>2, <2>2, <2>3, <2>4, HealSees DEF Heal, LockHealed
<1> QED BY <1>1, <1>3, <1>4, <1>5 DEF StructureInv

\* A healer that the state lock keeps out fails the request.
LEMMA RefusedStep ==
    ASSUME StructureInv, HealRefused
    PROVE  StructureInv'
<1>0. TypeOK /\ ServedGood /\ InitGood /\ HealedGood /\ KeptGood
  BY DEF StructureInv
<1>1. req' \in Requests /\ req' = [req EXCEPT !.pc = "failed"]
  BY <1>0 DEF TypeOK, Requests, PCs, HealRefused, Goto
<1>2. TypeOK'
  <2>1. kind' \in {"gone", "up", "stopped"}
    BY <1>0 DEF TypeOK, HealRefused, OrphanCleaned, StoppedCleaned
  <2> QED BY <1>0, <1>1, <2>1 DEF TypeOK, HealRefused, data
<1>3. ~ (req.healthy /\ ~ req.disturbed)
  BY <1>0 DEF KeptGood, HealRefused
<1> QED BY <1>0, <1>1, <1>2, <1>3, ServedKept DEF StructureInv, TypeOK, Requests,
           HealRefused, InitGood, HealedGood, KeptGood

LEMMA TerraformStep ==
    ASSUME StructureInv, TerraformDestroy \/ TerraformApply \/ TerraformRaises
    PROVE  StructureInv'
<1> USE DEF host, data, Goto
<1>0. TypeOK /\ ServedGood /\ InitGood /\ HealedGood /\ KeptGood
  BY DEF StructureInv
<1>1. CASE TerraformDestroy
  <2>1. req' \in Requests /\ req' = [req EXCEPT !.pc = "apply?"] /\ req.pc = "destroy"
    BY <1>0, <1>1 DEF TypeOK, Requests, PCs, TerraformDestroy, Destroys
  <2>2. TypeOK'
    BY <1>0, <1>1, <2>1 DEF TypeOK, TerraformDestroy, NoFiles
  <2>3. ServedGood' /\ InitGood' /\ HealedGood' /\ KeptGood'
    BY <1>0, <1>1, <2>1, ServedKept, InitKept DEF TypeOK, Requests, InitGood, HealedGood,
       KeptGood, TerraformDestroy
  <2> QED BY <2>2, <2>3 DEF StructureInv
<1>2. CASE TerraformApply
  <2>1. /\ req' \in Requests /\ req'.asked = req.asked /\ req'.disturbed = req.disturbed
        /\ req'.healthy = req.healthy /\ req'.recreated = ("kind" \notin tf)
        /\ req'.pc = "record" /\ req'.result = (store' /\ Covers(home, req.asked))
        /\ req.pc = "apply"
    BY <1>0, <1>2 DEF TypeOK, Requests, PCs, TerraformApply, Applies, Covers
  <2>2. TypeOK'
    BY <1>0, <1>2, <2>1 DEF TypeOK, TerraformApply
  <2>3. ServedGood' /\ InitGood'
    BY <1>0, <1>2, <2>1, ServedKept DEF TerraformApply, InitGood
  <2>4. HealedGood'
    BY <1>0, <1>2, <2>1 DEF HealedGood, ServedGood, TerraformApply
  <2>5. KeptGood'
    BY <1>0, <1>2, <2>1 DEF KeptGood, TerraformApply, Resources
  <2> QED BY <2>2, <2>3, <2>4, <2>5 DEF StructureInv
<1>3. CASE TerraformRaises
  <2>1. req' \in Requests /\ req' = [req EXCEPT !.pc = "failed"]
    BY <1>0, <1>3 DEF TypeOK, Requests, PCs, TerraformRaises
  <2>2. TypeOK'
    BY <1>0, <1>3, <2>1 DEF TypeOK, TerraformRaises
  <2>3. ServedGood' /\ InitGood' /\ HealedGood'
    BY <1>0, <1>3, <2>1, ServedKept DEF TypeOK, Requests, InitGood, HealedGood,
       TerraformRaises
  <2>4. ~ (req.healthy /\ ~ req.disturbed)
    BY <1>0, <1>3 DEF KeptGood, HealedGood, InitGood, Stuck, TerraformRaises, Destroys,
       Applies
  <2>5. KeptGood'
    BY <1>0, <2>1, <2>4 DEF TypeOK, Requests, KeptGood
  <2> QED BY <2>2, <2>3, <2>5 DEF StructureInv
<1> QED BY <1>1, <1>2, <1>3

LEMMA MarkerStep ==
    ASSUME StructureInv, WriteMarker
    PROVE  StructureInv'
<1>0. TypeOK /\ ServedGood /\ InitGood /\ HealedGood /\ KeptGood
  BY DEF StructureInv
<1>1. req' \in Requests /\ req' = [req EXCEPT !.pc = "done"]
  BY <1>0 DEF TypeOK, Requests, PCs, WriteMarker, Goto
<1>2. TypeOK'
  BY <1>0, <1>1 DEF TypeOK, ServedGood, WriteMarker, host, data
<1>3. ServedGood' /\ InitGood' /\ HealedGood' /\ KeptGood'
  BY <1>0, <1>1, ServedKept DEF TypeOK, Requests, InitGood, HealedGood, KeptGood,
     WriteMarker, host
<1> QED BY <1>2, <1>3 DEF StructureInv

\* A fault disturbs the request: it owes nothing more, and its Order stays.
LEMMA FaultStep ==
    ASSUME StructureInv, NEW p \in PCs, Disturb(p), p = req.pc \/ (p = "failed" /\ req.pc # "idle"),
           UNCHANGED home, TypeOK', p = "failed" \/ UNCHANGED data
    PROVE  StructureInv'
<1>1. req'.disturbed /\ req'.asked = req.asked /\ req'.pc = p
  BY DEF StructureInv, TypeOK, Requests, Disturb
<1>2. InitGood'
  <2>1. CASE p = "failed"
    BY <1>1, <2>1 DEF InitGood
  <2>2. CASE p # "failed"
    BY <1>1, <2>2, InitKept DEF InitGood, StructureInv
  <2> QED BY <2>1, <2>2
<1> QED BY <1>1, <1>2, ServedKept DEF StructureInv, HealedGood, KeptGood

LEMMA FaultsStep ==
    ASSUME StructureInv,
           \/ InterruptedInit \/ InterruptedApply \/ InterruptedDestroy \/ InterruptedHeal
           \/ Crash \/ Orphaned \/ HostLoses \/ OrphanEnds \/ DockerStarts
    PROVE  StructureInv'
<1> USE DEF data
<1>0. TypeOK
  BY DEF StructureInv
<1>1. ASSUME NEW p \in PCs, Disturb(p) PROVE req' \in Requests
  BY <1>0, <1>1 DEF TypeOK, Requests, Disturb
<1>a. req.pc \in PCs
  BY <1>0 DEF TypeOK, Requests
<1>b. ASSUME NEW made \in SUBSET Resources, NEW told, PartMade(made, told)
      PROVE  tf' \subseteq Resources /\ store' \in BOOLEAN
  BY <1>0, <1>b DEF TypeOK, PartMade
<1>c. ASSUME NEW kept, NEW told \in SUBSET Resources, PartGone(kept, told)
      PROVE  /\ tf' \subseteq Resources /\ kind' \in {"gone", "up", "stopped"}
             /\ store' \in BOOLEAN /\ conf' \in {conf, Broken}
  BY <1>0, <1>c DEF TypeOK, PartGone
<1>2. CASE InterruptedApply
  <2>1. /\ tf' \subseteq Resources /\ kind' \in {"gone", "up", "stopped"}
        /\ store' \in BOOLEAN
    BY <1>0, <1>2, <1>b DEF TypeOK, InterruptedApply
  <2>2. TypeOK'
    BY <1>0, <1>1, <1>2, <2>1, FaultTyped DEF TypeOK, InterruptedApply, PCs
  <2> QED BY <1>2, <2>2, FaultStep DEF InterruptedApply, Applies, PCs
<1>3. CASE InterruptedDestroy
  <2>1. /\ tf' \subseteq Resources /\ kind' \in {"gone", "up", "stopped"}
        /\ store' \in BOOLEAN /\ conf' \in {conf, Broken}
    BY <1>3, <1>c DEF InterruptedDestroy
  <2>2. TypeOK'
    BY <1>0, <1>1, <1>3, <2>1, FaultTyped DEF TypeOK, InterruptedDestroy, PCs
  <2> QED BY <1>3, <2>2, FaultStep DEF InterruptedDestroy, Destroys, PCs
<1>4. CASE InterruptedHeal
  <2>1. /\ tf' \subseteq Resources /\ kind' \in {"gone", "up", "stopped"}
        /\ conf' \in {conf, Broken} /\ lock' \in BOOLEAN
    BY <1>0, <1>4 DEF TypeOK, InterruptedHeal, OrphanCleaned, StoppedCleaned,
       PlantStateCleaned, LockHealed
  <2>2. TypeOK'
    BY <1>0, <1>1, <1>4, <2>1, FaultTyped DEF TypeOK, InterruptedHeal, PCs
  <2> QED BY <1>4, <2>2, FaultStep DEF InterruptedHeal, PCs
<1>8. CASE InterruptedInit
  <2>1. mods' \subseteq Modules /\ cached' \subseteq Providers
    BY <1>0, <1>8 DEF TypeOK, InterruptedInit
  <2>2. TypeOK'
    BY <1>0, <1>1, <1>8, <2>1, FaultTyped DEF TypeOK, InterruptedInit, host, PCs
  <2> QED BY <1>8, <2>2, FaultStep DEF InterruptedInit, PCs
<1>9. CASE Orphaned
  <2>1. orphan' \in {"apply", "destroy"}
    BY <1>9 DEF Orphaned, Applies, Destroys
  <2>2. TypeOK'
    BY <1>0, <1>1, <1>9, <2>1, FaultTyped DEF TypeOK, Orphaned, PCs
  <2> QED BY <1>9, <2>2, FaultStep DEF Orphaned, Applies, Destroys, PCs
<1>10. CASE OrphanEnds
  <2>1. /\ tf' \subseteq Resources /\ kind' \in {"gone", "up", "stopped"}
        /\ store' \in BOOLEAN /\ conf' \in {conf, Broken}
    BY <1>0, <1>10, <1>b, <1>c DEF TypeOK, OrphanEnds
  <2>2. TypeOK'
    BY <1>0, <1>1, <1>10, <1>a, <2>1 DEF TypeOK, OrphanEnds
  <2> QED BY <1>10, <1>a, <2>2, FaultStep DEF OrphanEnds
<1>5. CASE Crash
  <2>1. TypeOK'
    BY <1>0, <1>1, <1>5, FaultTyped DEF TypeOK, Crash, host, PCs
  <2> QED BY <1>5, <2>1, FaultStep DEF Crash, PCs
<1>6. CASE HostLoses
  <2>0. req.pc \in PCs
    BY <1>0 DEF TypeOK, Requests
  <2>1. TypeOK'
    BY <1>0, <1>1, <1>6, <2>0, FaultTyped DEF TypeOK, HostLoses
  <2> QED BY <1>6, <2>0, <2>1, FaultStep DEF HostLoses
<1>7. CASE DockerStarts
  <2>0. req.pc \in PCs
    BY <1>0 DEF TypeOK, Requests
  <2>1. TypeOK'
    BY <1>0, <1>1, <1>7, <2>0 DEF TypeOK, DockerStarts
  <2> QED BY <1>7, <2>0, <2>1, FaultStep DEF DockerStarts
<1> QED BY <1>2, <1>3, <1>4, <1>5, <1>6, <1>7, <1>8, <1>9, <1>10

LEMMA StructureInductive == StructureInv /\ [Next]_vars => StructureInv'
<1> SUFFICES ASSUME StructureInv, [Next]_vars PROVE StructureInv'
  OBVIOUS
<1>1. ASSUME NEW s \in Structures, Submit(s) PROVE StructureInv'
  BY <1>1, MaterializeStep DEF Submit, StructureInv
<1>2. CASE Retry
  BY <1>2, MaterializeStep DEF Retry, StructureInv, ServedGood
<1>3. CASE Reconcile
  BY <1>3, PrepareStep, DriftStep, RefusedStep, TerraformStep, MarkerStep DEF Reconcile
<1>4. CASE UNCHANGED vars
  BY <1>4, InitKept DEF vars, data, StructureInv, TypeOK, ServedGood, Covers, InitGood,
     HealedGood, Refreshes, Creates, KeptGood
<1> QED BY <1>1, <1>2, <1>3, <1>4, FaultsStep DEF Next

LEMMA StructureAlways == Spec => []StructureInv
BY StructureInit, StructureInductive, PTL DEF Spec

------------------------------------------------------------------------------
\* Every variable stays in its type; in particular a failed listing of the
\* state, an interruption or a crash never leaves the request without an Order.
THEOREM StructureTyped == Spec => []TypeOK
<1>1. StructureInv => TypeOK
  BY DEF StructureInv
<1> QED BY <1>1, StructureAlways, PTL

\* reconcile returns with the whole Plant of the Order up, whatever was there
\* before, unless the host lost something during this very request.
THEOREM ReturnsWithPlant == Spec => []PlantMatchesOrder
<1>1. StructureInv => PlantMatchesOrder
  BY DEF StructureInv, HealedGood, PlantMatchesOrder
<1> QED BY <1>1, StructureAlways, PTL

\* A Plant that is already right is neither rebuilt nor reported as failed.
THEOREM PlantNotRebuilt == Spec => []HealthyPlantKept
<1>1. StructureInv => HealthyPlantKept
  BY DEF StructureInv, KeptGood, HealthyPlantKept
<1> QED BY <1>1, StructureAlways, PTL

\* The healers cover every drift: an undisturbed request fails only because
\* Docker is down, a terraform of a Node that died is still running, or the
\* init that its files call for is skipped.
THEOREM HealersCoverDrift == Spec => HealersSuffice
<1>1. ASSUME StructureInv, [Next]_vars, req.pc # "failed", req'.pc = "failed",
             ~ req'.disturbed, docker, orphan = "none", ~ Stuck(home, hcl)
      PROVE  FALSE
  <2>0. TypeOK /\ InitGood /\ HealedGood
    BY <1>1 DEF StructureInv
  <2>1. ASSUME NEW p, Disturb(p) PROVE FALSE
    BY <1>1, <2>0, <2>1 DEF TypeOK, Requests, Disturb
  <2>2. ASSUME NEW s, Materialize(s) PROVE FALSE
    BY <1>1, <2>2 DEF Materialize
  <2>3. ~ (ReadMarker \/ Initialize \/ RequireDocker)
    BY <1>1, <2>0 DEF TypeOK, Requests, Goto, ReadMarker, Initialize, RequireDocker
  <2>4. ~ Heal /\ ~ HealRefused
    BY <1>1, <2>0, HealSees DEF HealRefused
  <2>5. ~ (TerraformDestroy \/ TerraformApply \/ WriteMarker)
    BY <1>1, <2>0 DEF TypeOK, Requests, Goto, TerraformDestroy, TerraformApply, WriteMarker
  <2>6. ~ TerraformRaises
    BY <1>1, <2>0 DEF TypeOK, Requests, Goto, TerraformRaises, HealedGood, InitGood, Stuck,
       Destroys, Applies
  <2>7. ~ UNCHANGED vars
    BY <1>1 DEF vars
  <2>8. ~ (InterruptedInit \/ InterruptedApply \/ InterruptedDestroy \/ InterruptedHeal
           \/ Crash \/ Orphaned \/ HostLoses \/ OrphanEnds \/ DockerStarts)
    BY <2>1 DEF InterruptedInit, InterruptedApply, InterruptedDestroy, InterruptedHeal,
       Crash, Orphaned, HostLoses, OrphanEnds, DockerStarts
  <2> QED BY <1>1, <2>2, <2>3, <2>4, <2>5, <2>6, <2>7, <2>8
          DEF Next, Submit, Retry, Reconcile
<1>2. StructureInv /\ [Next]_vars =>
        [req.pc # "failed" /\ req'.pc = "failed"
           => req'.disturbed \/ ~ docker \/ orphan # "none" \/ Stuck(home, hcl)]_vars
  BY <1>1
<1> QED BY <1>2, StructureAlways, PTL DEF Spec, HealersSuffice

------------------------------------------------------------------------------
(***************************************************************************)
(* The heal of the Ray head                                                *)
(***************************************************************************)
\* What a heal that nothing got in the way of knows of the head, step by step:
\* until it deletes the head nobody else does, afterwards it waits for that
\* very pod to go, and the head it then finds stays as it was found.
CalmGood(h) == h \in calm =>
    /\ pc[h] \in {"look", "patch", "delete", "head"} => ~ pod.going
    /\ pc[h] = "deleting" => (pod.going => h \in awaiting)
    /\ pc[h] \in {"dashboard", "check"} =>
         pod # NoPod /\ pod.ready /\ ~ pod.going /\ pod.memory = found[h]
    /\ pc[h] = "job" => HealthyHead(pod)

\* Who has seen this head healthy is not about to delete it.
SkipperGood(h) ==
    h \in skippers /\ HealthyHead(pod) => pc[h] \notin {"patch", "delete"}

HealInv == HealTypeOK /\ \A h \in Healers : CalmGood(h) /\ SkipperGood(h)

------------------------------------------------------------------------------
LEMMA PodFacts ==
    ASSUME pod \in Pod \cup {NoPod}
    PROVE  /\ pod # NoPod => pod.memory \in Memories
           /\ pod = NoPod => ~ pod.ready /\ ~ pod.going
BY DEF Pod, NoPod

LEMMA HeadFaultTyped ==
    ASSUME HealTypeOK, HeadFault
    PROVE  headFaults' \in 0 .. MaxHeadFaults
BY HealAssumption DEF HealTypeOK, HeadFault

LEMMA HeadInit == HealInit => HealInv
<1> SUFFICES ASSUME HealInit PROVE HealInv
  OBVIOUS
<1>1. pod \in Pod
  BY DEF HealInit, Pod
<1>2. headFaults \in 0 .. MaxHeadFaults
  BY HealAssumption DEF HealInit
<1>3. HealTypeOK
  BY <1>1, <1>2 DEF HealInit, HealTypeOK, HealPCs
<1> QED BY <1>3 DEF HealInit, HealInv, CalmGood, SkipperGood

LEMMA HealTypes ==
    ASSUME HealTypeOK, [HealNext]_healVars
    PROVE  HealTypeOK'
<1> USE DEF HealTypeOK, Step, kube
<1>1. ASSUME NEW h \in Healers, SubmitHeal(h) \/ Look(h)
      PROVE  HealTypeOK'
  BY <1>1 DEF SubmitHeal, Look, HealPCs
<1>2. ASSUME NEW h \in Healers, LookFails(h) \/ KubectlFails(h) \/ TimesOut(h)
      PROVE  HealTypeOK'
  BY <1>2, HeadFaultTyped DEF LookFails, KubectlFails, TimesOut, HealPCs
<1>3. ASSUME NEW h \in Healers, Patch(h) \/ Deleted(h) \/ WaitDashboard(h)
                                \/ CheckMemory(h) \/ JobEnds(h)
      PROVE  HealTypeOK'
  BY <1>3 DEF Patch, Deleted, WaitDashboard, CheckMemory, JobEnds,
              HealPCs, Memories, SetHeadMemory, HEAD_MEMORY
<1>4. ASSUME NEW h \in Healers, DeleteHead(h)
      PROVE  HealTypeOK'
  <2>1. CASE pod = NoPod
    <3>1. pod' = NoPod
      BY <1>4, <2>1 DEF DeleteHead, NoPod
    <3> QED BY <1>4, <3>1 DEF DeleteHead, HealPCs
  <2>2. CASE pod # NoPod
    <3>1. pod' \in Pod
      BY <1>4, <2>2 DEF DeleteHead, Pod
    <3> QED BY <1>4, <3>1 DEF DeleteHead, HealPCs
  <2> QED BY <2>1, <2>2
<1>5. ASSUME NEW h \in Healers, WaitNewHead(h)
      PROVE  HealTypeOK'
  BY <1>5, PodFacts DEF WaitNewHead, HealPCs
<1>6. CASE ObserveSpec \/ HeadGone
  BY <1>6 DEF ObserveSpec, HeadGone, Vanish
<1>7. CASE CreateHead
  <2>1. pod' \in Pod
    BY <1>7 DEF CreateHead, Pod
  <2> QED BY <1>7, <2>1 DEF CreateHead
<1>8. CASE HeadReady
  <2>1. pod' \in Pod
    BY <1>8 DEF HeadReady, Pod
  <2> QED BY <1>8, <2>1 DEF HeadReady
<1>9. CASE HeadFails
  <2>1. pod' \in Pod \cup {NoPod}
    BY <1>9 DEF HeadFails, Vanish, Pod
  <2> QED BY <1>9, <2>1, HeadFaultTyped DEF HeadFails, Vanish
<1>10. CASE Redeploy
  BY <1>10, HeadFaultTyped DEF Redeploy, Vanish, Memories
<1>11. CASE UNCHANGED healVars
  BY <1>11 DEF healVars
<1> QED BY <1>1, <1>2, <1>3, <1>4, <1>5, <1>6, <1>7, <1>8, <1>9, <1>10,
           <1>11 DEF HealNext, HealStep

LEMMA HeadStep ==
    ASSUME HealInv, [HealNext]_healVars, NEW g \in Healers
    PROVE  CalmGood(g)' /\ SkipperGood(g)'
<1> USE DEF HealTypeOK, Step, kube, HeadFault, CalmGood, SkipperGood,
            HealthyHead, PodReady, MemoryIsHealed
<1>0. HealTypeOK /\ CalmGood(g) /\ SkipperGood(g)
  BY DEF HealInv
<1>1. ASSUME NEW h \in Healers, SubmitHeal(h) \/ Look(h) \/ LookFails(h)
                                \/ KubectlFails(h) \/ TimesOut(h)
      PROVE  CalmGood(g)' /\ SkipperGood(g)'
  BY <1>0, <1>1, PodFacts DEF SubmitHeal, Look, LookFails, KubectlFails, TimesOut
<1>2. ASSUME NEW h \in Healers, Patch(h) \/ Deleted(h) \/ WaitDashboard(h)
                                \/ CheckMemory(h) \/ JobEnds(h)
      PROVE  CalmGood(g)' /\ SkipperGood(g)'
  BY <1>0, <1>2 DEF Patch, Deleted, WaitDashboard, CheckMemory, JobEnds
<1>3. ASSUME NEW h \in Healers, DeleteHead(h)
      PROVE  CalmGood(g)' /\ SkipperGood(g)'
  <2>1. /\ pod'.going = (pod # NoPod) /\ pod'.ready = pod.ready
        /\ pod'.memory = pod.memory
    BY <1>0, <1>3 DEF DeleteHead, Pod, NoPod
  <2> QED BY <1>0, <1>3, <2>1, PodFacts DEF DeleteHead
<1>4. ASSUME NEW h \in Healers, WaitNewHead(h)
      PROVE  CalmGood(g)' /\ SkipperGood(g)'
  BY <1>0, <1>4 DEF WaitNewHead
<1>5. CASE ObserveSpec \/ HeadFails \/ Redeploy
  BY <1>0, <1>5 DEF ObserveSpec, HeadFails, Redeploy, Vanish,
                    Pod, NoPod
<1>6. CASE CreateHead
  BY <1>0, <1>6 DEF CreateHead, NoPod
<1>7. CASE HeadReady
  BY <1>0, <1>7, PodFacts DEF HeadReady, Pod
<1>8. CASE HeadGone
  BY <1>0, <1>8 DEF HeadGone, Vanish, NoPod
<1>9. CASE UNCHANGED healVars
  BY <1>0, <1>9 DEF healVars
<1> QED BY <1>1, <1>2, <1>3, <1>4, <1>5, <1>6, <1>7, <1>8, <1>9 DEF HealNext, HealStep

LEMMA HealAlways == HealSpec => []HealInv
<1>1. HealInv /\ [HealNext]_healVars => HealInv'
  BY HealTypes, HeadStep DEF HealInv
<1> QED BY <1>1, HeadInit, PTL DEF HealSpec

------------------------------------------------------------------------------
\* The cluster and what the heals remember of it stay in their types.
THEOREM HealTyped == HealSpec => []HealTypeOK
<1>1. HealInv => HealTypeOK
  BY DEF HealInv
<1> QED BY <1>1, HealAlways, PTL

\* heal_live_ray_head returns to a head that is Ready with the memory asked
\* for, when no fault and no other heal got in its way.
THEOREM JobsOnHealedHeads == HealSpec => []JobOnHealedHead
<1>1. HealInv => JobOnHealedHead
  BY DEF HealInv, CalmGood, JobOnHealedHead
<1> QED BY <1>1, HealAlways, PTL

\* No heal deletes a healthy head that it has seen healthy.
THEOREM HealthyHeadsKept == HealSpec => HealthyHeadKept
<1>1. HealInv => \A h \in Healers :
                     DeleteHead(h) /\ HealthyHead(pod) => h \notin skippers
  BY DEF HealInv, SkipperGood, DeleteHead, Step
<1> QED BY <1>1, HealAlways, PTL DEF HealthyHeadKept
==============================================================================
