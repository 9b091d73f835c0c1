--------------------------- MODULE ClientRoleBinding ---------------------------
(***************************************************************************)
(* The client RoleBinding of one namespace (injection_rbac.go). The        *)
(* reconciler reads the labelled pods and the RoleBinding through two      *)
(* watch caches, each behind the API by its own lag, and creates the       *)
(* binding when a pod needs it and deletes it when none does. A pass runs  *)
(* for the events of either watch, but for updates of pods.                *)
(***************************************************************************)
EXTENDS Integers, Sequences, FiniteSets

CONSTANTS
    Pods,           \* pods of the namespace
    UIDs,           \* bound: UIDs of RoleBindings
    MaxLag,         \* bound: how many versions a cache is behind
    Interferences,  \* the kinds of interference an instance considers
    MaxChanges      \* bound: how often they happen

NoUID == 0      \* of no RoleBinding

ASSUME PodsAssumption == Pods # {} /\ NoUID \notin UIDs

ASSUME BoundsAssumption == MaxLag \in Nat /\ MaxChanges \in Nat

VARIABLES
    pods, binding,          \* the labelled pods and the RoleBinding, in the API
    podCache, podPending,   \* the cached pods, and the versions the watch has yet to deliver
    bindCache, bindPending, \* the same of the RoleBinding
    queued,                 \* the namespace is in the work queue
    pc, existing,           \* the pass's place, and the UID it read for its delete
    dropped,                \* history: a relabelled pod was delivered that no pass has read yet
    changes

api    == <<pods, binding>>
caches == <<podCache, podPending, bindCache, bindPending>>
pass   == <<pc, existing>>
vars   == <<api, caches, queued, pass, dropped, changes>>

--------------------------------------------------------------------------------
(* State *)

\* A pod is absent when it does not exist or is not labelled for injection; "component" when it
\* bears the label of the operator's own components as well.
PodSets == [Pods -> {"absent", "client", "component"}]

\* managed: labelled managed-by the operator. applied: the operator's field manager has an entry.
\* exact: the subjects are the desired ones.
RoleBindings ==
    [live: BOOLEAN, uid: UIDs \union {NoUID}, managed: BOOLEAN, applied: BOOLEAN, roleRef: {"client", "other"}, exact: BOOLEAN]

NoBinding ==
    [live |-> FALSE, uid |-> NoUID, managed |-> FALSE, applied |-> FALSE, roleRef |-> "client", exact |-> FALSE]

\* The type invariant; a delete names the UID of a RoleBinding that was read.
TypeOK ==
    /\ pods \in PodSets /\ binding \in RoleBindings
    /\ podCache \in PodSets /\ podPending \in Seq(PodSets) /\ Len(podPending) <= MaxLag
    /\ bindCache \in RoleBindings /\ bindPending \in Seq(RoleBindings) /\ Len(bindPending) <= MaxLag
    /\ queued \in BOOLEAN /\ dropped \in BOOLEAN /\ pc \in {"idle", "apply", "delete"}
    /\ existing \in IF pc = "delete" THEN UIDs ELSE {NoUID}
    /\ changes \in 0 .. MaxChanges

Init ==
    /\ pods = [p \in Pods |-> "absent"] /\ binding = NoBinding
    /\ podCache = pods /\ podPending = <<>>
    /\ bindCache = binding /\ bindPending = <<>>
    /\ queued = FALSE /\ dropped = FALSE /\ pc = "idle" /\ existing = NoUID
    /\ changes = 0

\* A write of the pods or of the RoleBinding: its watch has one more version to deliver.
WritePods(p, labels) ==
    /\ pods' = [pods EXCEPT ![p] = labels]
    /\ Len(podPending) < MaxLag /\ podPending' = Append(podPending, pods')

WriteBinding(obj) ==
    /\ binding' = obj
    /\ IF obj = binding THEN UNCHANGED bindPending
       ELSE Len(bindPending) < MaxLag /\ bindPending' = Append(bindPending, obj)

\* The RoleBinding and the versions of it that the operator may still read.
Versions == {binding, bindCache} \union {bindPending[i] : i \in DOMAIN bindPending}

\* UIDs that nothing refers to: the API never uses one twice.
FreeUIDs == {u \in UIDs : u # existing /\ \A v \in Versions : v.uid # u}

\* A RoleBinding is created.
WriteNew(obj) == FreeUIDs # {} /\ WriteBinding([obj EXCEPT !.uid = CHOOSE u \in FreeUIDs : TRUE])

--------------------------------------------------------------------------------
(* The environment *)

Interfere(kind) == kind \in Interferences /\ changes < MaxChanges /\ changes' = changes + 1

\* A pod comes or goes, or gets or loses the label for injection.
EditPod(p) ==
    /\ Interfere("pod")
    /\ IF pods[p] = "absent" THEN \E labels \in {"client", "component"} : WritePods(p, labels)
       ELSE WritePods(p, "absent")
    /\ UNCHANGED <<binding, podCache, bindCache, bindPending, queued, pass, dropped>>

\* A pod that is labelled for injection gets or loses the component label.
RelabelPod(p) ==
    /\ Interfere("relabel") /\ pods[p] # "absent"
    /\ WritePods(p, IF pods[p] = "client" THEN "component" ELSE "client")
    /\ UNCHANGED <<binding, podCache, bindCache, bindPending, queued, pass, dropped>>

\* A user creates, deletes, edits or takes over the RoleBinding.
EditBinding ==
    /\ Interfere("user")
    /\ \/ /\ ~binding.live
          /\ \E ref \in {"client", "other"} :
                WriteNew([NoBinding EXCEPT !.live = TRUE, !.roleRef = ref])
       \/ binding.live /\ WriteBinding(NoBinding)
       \/ binding.live /\ binding.exact /\ WriteBinding([binding EXCEPT !.exact = FALSE])
       \/ binding.live /\ binding.managed /\ WriteBinding([binding EXCEPT !.managed = FALSE])
    /\ UNCHANGED <<pods, podCache, podPending, bindCache, queued, pass, dropped>>

--------------------------------------------------------------------------------
(* Watches and work queue *)

\* Mutant: only a new pod counts.
podEventCreatesOnly(old, new) == \E p \in Pods : old[p] = "absent" /\ new[p] # "absent"

\* A create or a delete; the predicate drops updates.
podEvent(old, new) == \E p \in Pods : (old[p] = "absent") # (new[p] = "absent")

SyncPods ==
    /\ podPending # <<>>
    /\ podCache' = Head(podPending) /\ podPending' = Tail(podPending)
    /\ queued' = (queued \/ podEvent(podCache, podCache'))
    /\ dropped' = (dropped \/ \E p \in Pods : podCache[p] # podCache'[p] /\ "absent" \notin {podCache[p], podCache'[p]})
    /\ UNCHANGED <<api, bindCache, bindPending, pass, changes>>

SyncBinding ==
    /\ bindPending # <<>>
    /\ bindCache' = Head(bindPending) /\ bindPending' = Tail(bindPending)
    /\ queued' = TRUE
    /\ UNCHANGED <<api, podCache, podPending, pass, dropped, changes>>

\* Mutant: nothing is queued for what a restarted operator finds.
RestartQuiet ==
    /\ Interfere("restart")
    /\ podCache' = pods /\ podPending' = <<>> /\ bindCache' = binding /\ bindPending' = <<>>
    /\ queued' = FALSE
    /\ pc' = "idle" /\ existing' = NoUID /\ dropped' = FALSE
    /\ UNCHANGED api

\* The caches are filled anew; what they hold comes as create events.
Restart ==
    /\ Interfere("restart")
    /\ podCache' = pods /\ podPending' = <<>> /\ bindCache' = binding /\ bindPending' = <<>>
    /\ queued' = (binding.live \/ \E p \in Pods : pods[p] # "absent")
    /\ pc' = "idle" /\ existing' = NoUID /\ dropped' = FALSE
    /\ UNCHANGED api

--------------------------------------------------------------------------------
(* Reconcile *)

needsClientRoleBinding(ps) == \E p \in Pods : ps[p] = "client"

ours(obj) == obj.live /\ obj.managed

\* Mutant: what no pod needs is deleted, whoever made it and whether or not it exists.
clientRoleBindingActionAlways(needed, obj) ==
    CASE needed /\ (~obj.live \/ ours(obj)) -> "apply"
      [] needed /\ obj.live /\ ~ours(obj)   -> "refuse"
      [] OTHER                              -> "delete"

\* The operator does the other two by doing nothing: refuse logs, once.
clientRoleBindingAction(needed, obj) ==
    CASE needed /\ (~obj.live \/ ours(obj)) -> "apply"
      [] needed /\ obj.live /\ ~ours(obj)   -> "refuse"
      [] ~needed /\ ours(obj)               -> "delete"
      [] OTHER                              -> "none"

Reconcile ==
    /\ pc = "idle" /\ queued /\ queued' = FALSE /\ dropped' = FALSE
    /\ LET action == clientRoleBindingAction(needsClientRoleBinding(podCache), bindCache)
       IN  /\ pc' = IF action \in {"apply", "delete"} THEN action ELSE "idle"
           /\ existing' = IF action = "delete" THEN bindCache.uid ELSE NoUID
    /\ UNCHANGED <<api, caches, changes>>

EndPass == pc' = "idle" /\ existing' = NoUID

desiredClientRoleBinding ==
    [live |-> TRUE, uid |-> NoUID, managed |-> TRUE, applied |-> TRUE, roleRef |-> "client", exact |-> TRUE]

\* A forced apply: it creates the object or converges the one that is there, whoever made it. A
\* roleRef cannot be changed: the apply fails and the request is retried.
applyForced ==
    /\ pc = "apply" /\ EndPass
    /\ IF binding.live /\ binding.roleRef = "other" THEN queued' = TRUE /\ UNCHANGED <<binding, bindPending>>
       ELSE /\ IF binding.live THEN WriteBinding([desiredClientRoleBinding EXCEPT !.uid = binding.uid])
               ELSE WriteNew(desiredClientRoleBinding)
            /\ UNCHANGED queued
    /\ UNCHANGED <<pods, podCache, podPending, bindCache, dropped, changes>>

\* Mutant: the delete is not pinned to the UID read.
DeleteUnpinned ==
    /\ pc = "delete" /\ EndPass
    /\ WriteBinding(NoBinding)
    /\ UNCHANGED <<pods, podCache, podPending, bindCache, queued, dropped, changes>>

\* Pinned to the UID read. Not found is no error; another UID is a conflict, and is retried.
Delete ==
    /\ pc = "delete" /\ EndPass
    /\ IF binding.live /\ binding.uid = existing THEN WriteBinding(NoBinding) /\ UNCHANGED queued
       ELSE queued' = (queued \/ binding.live) /\ UNCHANGED <<binding, bindPending>>
    /\ UNCHANGED <<pods, podCache, podPending, bindCache, dropped, changes>>

\* A request fails, and the pass is retried.
PassFails ==
    /\ Interfere("failure") /\ pc # "idle"
    /\ EndPass /\ queued' = TRUE
    /\ UNCHANGED <<api, caches, dropped>>

--------------------------------------------------------------------------------
(* Specification *)

Operator == SyncPods \/ SyncBinding \/ Reconcile \/ applyForced \/ Delete

Next ==
    \/ Operator \/ PassFails \/ Restart \/ EditBinding
    \/ \E p \in Pods : EditPod(p) \/ RelabelPod(p)

Spec == Init /\ [][Next]_vars

\* The watches deliver and the one worker takes from the queue.
FairSpec == Spec /\ WF_vars(SyncPods) /\ WF_vars(SyncBinding) /\ WF_vars(Reconcile \/ applyForced \/ Delete)

--------------------------------------------------------------------------------
(* Properties *)

Quiescent == ~queued /\ pc = "idle" /\ podPending = <<>> /\ bindPending = <<>>

\* The binding exists, as the operator wants it unless it is someone else's, while a pod needs
\* it; none of the operator's is left when none does.
Bound ==
    IF needsClientRoleBinding(pods) THEN binding.live /\ (binding.managed => binding.exact)
    ELSE ~ours(binding)

\* When the operator has nothing left to do, the binding is what the labelled pods call for,
\* whatever lag the two caches had and whoever edited the binding, unless a pod was relabelled
\* since the last pass (Reconcile, SetupWithManager).
QuiescentBound == Quiescent /\ ~dropped => Bound

\* What the comment on SetupWithManager says: a pod update never changes whether the namespace
\* needs the binding, so that none need be looked at.
UpdatesIrrelevant == Quiescent => Bound

\* The operator deletes only a RoleBinding that it has itself applied: one that a user put in its
\* place since it was read survives (the delete pinned to a UID).
OnlyAppliedDeleted == [][pc = "delete" /\ binding.live /\ ~binding'.live => binding.applied \/ changes' # changes]_vars

\* Once nothing interferes any more, the binding comes to be what the labelled pods call for,
\* unless a pod is relabelled after the last pass (Reconcile, SetupWithManager).
Settles == <>[](~dropped => Bound)

\* What docs/injection.md says: the operator only touches a RoleBinding labelled managed-by it.
OnlyManagedTouched ==
    [][binding.live /\ binding' # binding /\ changes' = changes => binding.managed]_vars
================================================================================
