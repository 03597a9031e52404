------------------------------- MODULE RayHeal --------------------------------
(***************************************************************************)
(* heal_live_ray_head (cats/executor/structure/ray_heal.py), which every   *)
(* request runs after reconcile and before its Ray job: the RayCluster is  *)
(* patched to 4G, the head pod deleted, and the heal waits for KubeRay to  *)
(* bring a new one up.  Two requests heal the same head.                   *)
(*                                                                         *)
(* The API server, KubeRay and the kubelet are external.  KubeRay makes a  *)
(* head when there is none, from the RayCluster as it last saw it.  A pod  *)
(* that is being deleted stays, and stays Ready, until the kubelet has     *)
(* stopped it.  Time limits run out at any moment and any number of times; *)
(* a failure of kubectl is a fault.  A Plant without a kube context and a  *)
(* host without kubectl are left alone by the code and not modelled.       *)
(***************************************************************************)
EXTENDS Naturals

CONSTANTS Healers,        \* requests
          MaxHeadFaults   \* bound on faults

ASSUME HealAssumption == MaxHeadFaults \in Nat

VARIABLES
    pc,        \* [Healers -> PCs]
    old,       \* SUBSET Healers: whose old_uid is the uid of the pod there is
    awaiting,  \* SUBSET Healers: whose kubectl delete waits for this pod to go
    found,     \* [Healers -> Memories]: the memory of new_pod, "none" before it
    template,  \* memory of the head container in the RayCluster
    seenSpec,  \* the same, as KubeRay last saw it
    pod,       \* the head pod
    skippers,  \* history: who has looked at this pod while it was healthy
    calm,      \* history: heals that no fault and no other heal got in the way of
    headFaults

healVars == <<pc, old, awaiting, found, template, seenSpec, pod, skippers, calm, headFaults>>

Memories == {"3G", "4G", "8G"}
Pod      == [memory : Memories, ready : BOOLEAN, going : BOOLEAN]
NoPod    == [memory |-> "none", ready |-> FALSE, going |-> FALSE]
HealPCs  == {"idle", "look", "patch", "delete", "deleting", "head", "dashboard",
             "check", "job", "failed"}

HEAD_MEMORY == "4G"

\* _set_head_memory: whatever the head container asked for before.
SetHeadMemory(memory) == HEAD_MEMORY

\* _memory_is_healed: four gigabytes, however spelt; more is not recognised.
MemoryIsHealed(m) == m = "4G"

\* _pod_ready looks at phase and condition, not at the deletion timestamp.
PodReady(p) == p.ready

HealthyHead(p) == MemoryIsHealed(p.memory) /\ PodReady(p) /\ ~ p.going

HealInit ==
    /\ pc = [h \in Healers |-> "idle"]
    /\ old = {} /\ awaiting = {} /\ found = [h \in Healers |-> "none"]
    /\ template \in Memories /\ seenSpec = template
    /\ pod = [memory |-> template, ready |-> TRUE, going |-> FALSE]
    /\ skippers = {} /\ calm = {} /\ headFaults = 0

Step(h, from, to) == pc[h] = from /\ pc' = [pc EXCEPT ![h] = to]
HeadFault         == headFaults < MaxHeadFaults /\ headFaults' = headFaults + 1

kube == <<template, seenSpec, pod>>

------------------------------------------------------------------------------
(***************************************************************************)
(* The heal                                                                *)
(***************************************************************************)

\* open_structure_ports calls it once reconcile has returned; a client whose
\* request failed submits it again.
SubmitHeal(h) ==
    /\ pc[h] \in {"idle", "failed"}
    /\ pc' = [pc EXCEPT ![h] = "look"]
    /\ old' = old \ {h} /\ found' = [found EXCEPT ![h] = "none"]
    /\ calm' = IF pod.going THEN calm \ {h} ELSE calm \cup {h}
    /\ UNCHANGED <<awaiting, kube, skippers, headFaults>>

\* Mutant of Look: every heal rolls.
LookAlwaysRolls(h) ==
    /\ Step(h, "look", "patch")
    /\ old' = IF pod = NoPod THEN old ELSE old \cup {h}
    /\ skippers' = IF HealthyHead(pod) THEN skippers \cup {h} ELSE skippers
    /\ UNCHANGED <<awaiting, found, kube, calm, headFaults>>

\* The head is skipped when it is Ready with enough memory.
Look(h) ==
    /\ pc[h] = "look"
    /\ pc' = [pc EXCEPT ![h] = IF MemoryIsHealed(pod.memory) /\ PodReady(pod)
                                 THEN "job" ELSE "patch"]
    /\ old' = IF pod = NoPod THEN old ELSE old \cup {h}
    /\ skippers' = IF HealthyHead(pod) THEN skippers \cup {h} ELSE skippers
    /\ UNCHANGED <<awaiting, found, kube, calm, headFaults>>

\* A kubectl that fails is no pod to _head_pod: the heal goes on to roll.
LookFails(h) ==
    /\ HeadFault
    /\ Step(h, "look", "patch")
    /\ skippers' = skippers \ {h}
    /\ calm' = calm \ {h}
    /\ UNCHANGED <<old, awaiting, found, kube>>

\* Mutant of Patch: the head is rolled and the RayCluster left as it is.
PatchNothing(h) ==
    /\ Step(h, "patch", "delete")
    /\ UNCHANGED <<old, awaiting, found, kube, skippers, calm, headFaults>>

\* kubectl apply of the patched RayCluster.
Patch(h) ==
    /\ Step(h, "patch", "delete")
    /\ template' = SetHeadMemory(template)
    /\ UNCHANGED <<old, awaiting, found, seenSpec, pod, skippers, calm, headFaults>>

\* kubectl delete pod --wait: whatever head there is now, not the one looked at.
DeleteHead(h) ==
    /\ Step(h, "delete", "deleting")
    /\ awaiting' = IF pod = NoPod THEN awaiting ELSE awaiting \cup {h}
    /\ pod' = [pod EXCEPT !.going = pod # NoPod]
    /\ calm' = IF pod = NoPod \/ pod.going THEN calm ELSE calm \cap {h}
    /\ UNCHANGED <<old, found, template, seenSpec, skippers, headFaults>>

Deleted(h) ==
    /\ h \notin awaiting
    /\ Step(h, "deleting", "head")
    /\ UNCHANGED <<old, awaiting, found, kube, skippers, calm, headFaults>>

\* _wait_new_head
WaitNewHead(h) ==
    /\ pod # NoPod /\ h \notin old /\ PodReady(pod)
    /\ Step(h, "head", "dashboard")
    /\ found' = [found EXCEPT ![h] = pod.memory]
    /\ UNCHANGED <<old, awaiting, kube, skippers, calm, headFaults>>

\* _wait_dashboard: a head that is Ready answers.
WaitDashboard(h) ==
    /\ PodReady(pod)
    /\ Step(h, "dashboard", "check")
    /\ UNCHANGED <<old, awaiting, found, kube, skippers, calm, headFaults>>

\* Mutant of CheckMemory: the memory of the new head is not looked at.
CheckNothing(h) ==
    /\ Step(h, "check", "job")
    /\ UNCHANGED <<old, awaiting, found, kube, skippers, calm, headFaults>>

CheckMemory(h) ==
    /\ pc[h] = "check"
    /\ pc' = [pc EXCEPT ![h] = IF MemoryIsHealed(found[h]) THEN "job" ELSE "failed"]
    /\ UNCHANGED <<old, awaiting, found, kube, skippers, calm, headFaults>>

\* kubectl get, apply or delete fails; the request fails.
KubectlFails(h) ==
    /\ pc[h] \in {"look", "patch", "delete", "deleting"}
    /\ HeadFault
    /\ pc' = [pc EXCEPT ![h] = "failed"]
    /\ awaiting' = awaiting \ {h}
    /\ UNCHANGED <<old, found, kube, skippers, calm>>

\* The time limits: 120 s for the deletion, 180 s for the head and for the
\* dashboard.  A head that needs longer is late for every retry.
TimesOut(h) ==
    /\ pc[h] \in {"deleting", "head", "dashboard"}
    /\ pc' = [pc EXCEPT ![h] = "failed"]
    /\ awaiting' = awaiting \ {h}
    /\ UNCHANGED <<old, found, kube, skippers, calm, headFaults>>

\* The Ray job, and with it the request, is over.
JobEnds(h) ==
    /\ Step(h, "job", "idle")
    /\ UNCHANGED <<old, awaiting, found, kube, skippers, calm, headFaults>>

------------------------------------------------------------------------------
(***************************************************************************)
(* KubeRay, the kubelet and faults                                         *)
(***************************************************************************)
ObserveSpec ==
    /\ seenSpec # template /\ seenSpec' = template
    /\ UNCHANGED <<pc, old, awaiting, found, template, pod, skippers, calm, headFaults>>

CreateHead ==
    /\ pod = NoPod
    /\ pod' = [memory |-> seenSpec, ready |-> FALSE, going |-> FALSE]
    /\ UNCHANGED <<pc, old, awaiting, found, template, seenSpec, skippers, calm, headFaults>>

HeadReady ==
    /\ pod # NoPod /\ ~ pod.ready /\ ~ pod.going
    /\ pod' = [pod EXCEPT !.ready = TRUE]
    /\ skippers' = {}
    /\ UNCHANGED <<pc, old, awaiting, found, template, seenSpec, calm, headFaults>>

\* The pod is gone: no later one has its uid.
Vanish == pod' = NoPod /\ old' = {} /\ awaiting' = {} /\ skippers' = {}

HeadGone ==
    /\ pod.going /\ Vanish
    /\ UNCHANGED <<pc, found, template, seenSpec, calm, headFaults>>

\* The head's process is killed for its memory, or its pod is lost.
HeadFails ==
    /\ pod # NoPod /\ HeadFault
    /\ Vanish \/ (pod' = [pod EXCEPT !.ready = FALSE] /\ UNCHANGED <<old, awaiting, skippers>>)
    /\ calm' = {}
    /\ UNCHANGED <<pc, found, template, seenSpec>>

\* A redeployment of the Structure brings the Order's own memory back.
Redeploy ==
    /\ HeadFault
    /\ template' = "3G" /\ seenSpec' = "3G" /\ Vanish
    /\ calm' = {}
    /\ UNCHANGED <<pc, found>>

HealStep(h) == \/ Look(h) \/ Patch(h) \/ DeleteHead(h) \/ Deleted(h) \/ WaitNewHead(h)
               \/ WaitDashboard(h) \/ CheckMemory(h) \/ JobEnds(h)

HealNext == \/ \E h \in Healers : \/ SubmitHeal(h) \/ HealStep(h) \/ LookFails(h)
                                  \/ KubectlFails(h) \/ TimesOut(h)
            \/ ObserveSpec \/ CreateHead \/ HeadReady \/ HeadGone
            \/ HeadFails \/ Redeploy

\* A request in progress goes on, a client submits a failed request again, and
\* the cluster does its work.  Faults are not fair, and come to an end.
HealFairness ==
    /\ \A h \in Healers : /\ WF_healVars(HealStep(h))
                          /\ WF_healVars(pc[h] = "failed" /\ SubmitHeal(h))
    /\ WF_healVars(ObserveSpec) /\ WF_healVars(CreateHead)
    /\ WF_healVars(HeadReady) /\ WF_healVars(HeadGone)

HealSpec == HealInit /\ [][HealNext]_healVars /\ HealFairness

------------------------------------------------------------------------------
\* Types of the cluster and of what a heal remembers.
HealTypeOK ==
    /\ pc \in [Healers -> HealPCs]
    /\ old \subseteq Healers /\ awaiting \subseteq Healers
    /\ found \in [Healers -> Memories \cup {"none"}]
    /\ template \in Memories /\ seenSpec \in Memories
    /\ pod \in Pod \cup {NoPod}
    /\ skippers \subseteq Healers /\ calm \subseteq Healers
    /\ headFaults \in 0 .. MaxHeadFaults

\* When heal_live_ray_head returns, the job starts on a head that is Ready
\* with the memory asked for, provided that no fault and no other heal came in
\* between: waiting for a Ready pod is not enough, because KubeRay may have
\* made it from the RayCluster before the patch.
JobOnHealedHead ==
    \A h \in Healers : pc[h] = "job" /\ h \in calm => HealthyHead(pod)

\* A head is deleted only by a heal that has not seen it healthy: a healthy
\* head, and the jobs of the other requests on it, survive every heal that
\* starts after it became Ready and whose look at it does not fail.
HealthyHeadKept ==
    [][\A h \in Healers : DeleteHead(h) /\ HealthyHead(pod) => h \notin skippers]_healVars

\* From some moment on the cluster is fast enough for every time limit.
InTime == <>[][\A h \in Healers : ~ TimesOut(h)]_healVars

\* Every request gets to its job once the cluster is fast enough, however many
\* heads were late before: no patch and no deletion that an earlier time limit
\* or another heal has left half-way, and no heals that delete each other's
\* heads, keep it from its job for ever.  Heads that always need longer than
\* 180 s do: each retry finds its head not Ready and rolls it again.
HealsComplete ==
    InTime => \A h \in Healers : pc[h] = "look" ~> pc[h] = "job"
==============================================================================
