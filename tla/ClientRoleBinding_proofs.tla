------------------------ MODULE ClientRoleBinding_proofs ------------------------
(***************************************************************************)
(* Proofs about ClientRoleBinding, for any pods, lag of the two caches and *)
(* number of interferences: type correctness, what the operator may        *)
(* delete, and what is left when nothing is to be done.                    *)
(***************************************************************************)
EXTENDS ClientRoleBinding, TLAPS

--------------------------------------------------------------------------------
(* Versions. Of two with one UID, the older was applied by the operator only  *)
(* if the newer was; and a managed one was.                                    *)

VersionOK(v) ==
    /\ v \in RoleBindings
    /\ v.live => v.uid \in UIDs /\ (v.managed => v.applied)
    /\ v.live /\ binding.live /\ v.uid = binding.uid /\ v.applied => binding.applied

DeleteOK == pc = "delete" /\ binding.live /\ binding.uid = existing => binding.applied

PendingType == bindPending \in Seq(RoleBindings) /\ Len(bindPending) <= MaxLag

VersionInv == TypeOK /\ (\A v \in Versions : VersionOK(v)) /\ DeleteOK

LEMMA NoBindingType == NoBinding \in RoleBindings /\ ~NoBinding.live
  BY DEF NoBinding, RoleBindings

LEMMA WriteVersions ==
    ASSUME TypeOK, NEW obj \in RoleBindings, WriteBinding(obj), UNCHANGED bindCache
    PROVE  binding' = obj /\ PendingType' /\ Versions' \subseteq Versions \union {obj}
  <1>1. CASE obj = binding
    BY <1>1 DEF WriteBinding, TypeOK, PendingType, Versions
  <1>2. CASE obj # binding
    <2>1. bindPending \in Seq(RoleBindings) /\ bindPending' = Append(bindPending, obj) /\ binding' = obj /\ Len(bindPending) < MaxLag
      BY <1>2 DEF WriteBinding, TypeOK
    <2>2. PendingType'
      BY <2>1, BoundsAssumption DEF PendingType
    <2>3. \A i \in DOMAIN bindPending' : bindPending'[i] = obj \/ (i \in DOMAIN bindPending /\ bindPending'[i] = bindPending[i])
      BY <2>1
    <2> QED
      BY <2>1, <2>2, <2>3 DEF Versions
  <1> QED
    BY <1>1, <1>2

\* The RoleBinding is deleted, or changed under its UID without losing the operator's entry.
LEMMA RewriteSafe ==
    ASSUME VersionInv, NEW obj \in RoleBindings, WriteBinding(obj), UNCHANGED bindCache,
           obj.live =>
              /\ binding.live /\ obj.uid = binding.uid
              /\ binding.applied => obj.applied
              /\ obj.managed => obj.applied,
           pc' = "delete" => pc = "delete" /\ existing' = existing
    PROVE  PendingType' /\ binding' = obj /\ (\A v \in Versions' : VersionOK(v)') /\ DeleteOK'
  <1>1. binding' = obj /\ PendingType' /\ Versions' \subseteq Versions \union {obj}
    BY WriteVersions DEF VersionInv
  <1>2. binding \in Versions
    BY DEF Versions
  <1>3. VersionOK(obj)'
    BY <1>1, <1>2 DEF VersionInv, VersionOK
  <1>4. \A v \in Versions : VersionOK(v)'
    BY <1>1, <1>2 DEF VersionInv, VersionOK
  <1>5. DeleteOK'
    BY <1>1 DEF VersionInv, DeleteOK
  <1> QED
    BY <1>1, <1>3, <1>4, <1>5

LEMMA CreateSafe ==
    ASSUME VersionInv, NEW obj \in RoleBindings, WriteNew(obj), UNCHANGED bindCache,
           obj.managed => obj.applied,
           pc' = "delete" => pc = "delete" /\ existing' = existing
    PROVE  PendingType' /\ binding' \in RoleBindings /\ (\A v \in Versions' : VersionOK(v)') /\ DeleteOK'
  <1>1. PICK u \in FreeUIDs : WriteBinding([obj EXCEPT !.uid = u])
    BY DEF WriteNew
  <1>2. u \in UIDs /\ u # existing /\ \A v \in Versions : v.uid # u
    BY DEF FreeUIDs
  <1>3. PICK new : /\ WriteBinding(new) /\ new \in RoleBindings
                   /\ new.uid = u /\ new.applied = obj.applied /\ new.managed = obj.managed
    BY <1>1, <1>2 DEF RoleBindings
  <1>4. binding' = new /\ PendingType' /\ Versions' \subseteq Versions \union {new}
    BY <1>3, WriteVersions DEF VersionInv
  <1>5. VersionOK(new)'
    BY <1>2, <1>3, <1>4 DEF VersionOK
  <1>6. \A v \in Versions : VersionOK(v)'
    BY <1>2, <1>3, <1>4 DEF VersionInv, VersionOK
  <1>7. DeleteOK'
    BY <1>2, <1>3, <1>4 DEF DeleteOK
  <1> QED
    BY <1>3, <1>4, <1>5, <1>6, <1>7

LEMMA FewerSafe ==
    ASSUME VersionInv, UNCHANGED binding, Versions' \subseteq Versions,
           pc' = "delete" => pc = "delete" /\ existing' = existing
    PROVE  (\A v \in Versions' : VersionOK(v)') /\ DeleteOK'
  BY DEF VersionInv, VersionOK, DeleteOK

LEMMA InterfereType == ASSUME TypeOK, NEW kind, Interfere(kind) PROVE changes' \in 0 .. MaxChanges
  BY BoundsAssumption DEF TypeOK, Interfere

LEMMA WritePodsType ==
    ASSUME TypeOK, NEW p \in Pods, NEW labels \in {"absent", "client", "component"}, WritePods(p, labels)
    PROVE  pods' \in PodSets /\ podPending' \in Seq(PodSets) /\ Len(podPending') <= MaxLag /\ podPending' # <<>>
           /\ podPending'[Len(podPending')] = pods'
  <1>1. pods' \in PodSets
    BY DEF WritePods, TypeOK, PodSets
  <1>2. podPending \in Seq(PodSets) /\ podPending' = Append(podPending, pods') /\ Len(podPending) < MaxLag
    BY DEF WritePods, TypeOK
  <1> QED
    BY <1>1, <1>2, BoundsAssumption

LEMMA EditPodSafe ==
    ASSUME VersionInv, NEW p \in Pods, EditPod(p) \/ RelabelPod(p) PROVE VersionInv'
  <1>1. PICK labels \in {"absent", "client", "component"} : WritePods(p, labels)
    BY DEF EditPod, RelabelPod
  <1>2. pods' \in PodSets /\ podPending' \in Seq(PodSets) /\ Len(podPending') <= MaxLag
    BY <1>1, WritePodsType DEF VersionInv
  <1>3. changes' \in 0 .. MaxChanges
    BY InterfereType DEF EditPod, RelabelPod, VersionInv
  <1>4. UNCHANGED <<binding, podCache, bindCache, bindPending, queued, pc, existing, dropped>>
    BY DEF EditPod, RelabelPod, pass
  <1>5. TypeOK'
    BY <1>2, <1>3, <1>4 DEF VersionInv, TypeOK
  <1>6. Versions' \subseteq Versions
    BY <1>4 DEF Versions
  <1> QED
    BY <1>4, <1>5, <1>6, FewerSafe DEF VersionInv

LEMMA EditBindingSafe ==
    ASSUME VersionInv, EditBinding PROVE VersionInv' /\ bindPending' # <<>>
  <1>1. UNCHANGED <<pods, podCache, podPending, bindCache, queued, pc, existing, dropped>> /\ changes' \in 0 .. MaxChanges
    BY InterfereType DEF EditBinding, pass, VersionInv
  <1>2. binding \in RoleBindings
    BY DEF VersionInv, TypeOK
  <1>3. PendingType' /\ binding' \in RoleBindings /\ (\A v \in Versions' : VersionOK(v)') /\ DeleteOK' /\ binding' # binding
    <2>1. ASSUME NEW ref \in {"client", "other"}, ~binding.live, WriteNew([NoBinding EXCEPT !.live = TRUE, !.roleRef = ref])
          PROVE  /\ PendingType' /\ binding' \in RoleBindings /\ (\A v \in Versions' : VersionOK(v)') /\ DeleteOK'
                 /\ binding' # binding
      <3> DEFINE new == [NoBinding EXCEPT !.live = TRUE, !.roleRef = ref]
      <3>1. new \in RoleBindings /\ ~new.managed /\ \A u : [new EXCEPT !.uid = u].live
        BY DEF NoBinding, RoleBindings
      <3>2. WriteNew(new)
        BY <2>1
      <3> HIDE DEF new
      <3>3. binding'.live
        BY <3>1, <3>2 DEF WriteNew, WriteBinding
      <3> QED
        BY <1>1, <2>1, <3>1, <3>2, <3>3, CreateSafe
    <2>2. ASSUME binding.live, WriteBinding(NoBinding)
          PROVE  /\ PendingType' /\ binding' \in RoleBindings /\ (\A v \in Versions' : VersionOK(v)') /\ DeleteOK'
                 /\ binding' # binding
      BY <1>1, <2>2, NoBindingType, RewriteSafe
    <2>3. ASSUME NEW new \in RoleBindings, WriteBinding(new), binding.live, new # binding,
                 new.live, new.uid = binding.uid, new.applied = binding.applied, new.managed => binding.managed
          PROVE  /\ PendingType' /\ binding' \in RoleBindings /\ (\A v \in Versions' : VersionOK(v)') /\ DeleteOK'
                 /\ binding' # binding
      <3>1. new.managed => new.applied
        BY <2>3 DEF VersionInv, VersionOK, Versions
      <3> QED
        BY <1>1, <2>3, <3>1, RewriteSafe
    <2>4. ASSUME binding.live, binding.exact, WriteBinding([binding EXCEPT !.exact = FALSE])
          PROVE  \E new \in RoleBindings : /\ WriteBinding(new) /\ new # binding /\ new.live /\ new.uid = binding.uid
                                           /\ new.applied = binding.applied /\ new.managed = binding.managed
      <3> DEFINE new == [binding EXCEPT !.exact = FALSE]
      <3>1. new \in RoleBindings /\ new # binding /\ new.live /\ new.uid = binding.uid /\ new.applied = binding.applied /\ new.managed = binding.managed
        BY <1>2, <2>4 DEF RoleBindings
      <3> HIDE DEF new
      <3> QED
        BY <2>4, <3>1 DEF new
    <2>5. ASSUME binding.live, binding.managed, WriteBinding([binding EXCEPT !.managed = FALSE])
          PROVE  \E new \in RoleBindings : /\ WriteBinding(new) /\ new # binding /\ new.live /\ new.uid = binding.uid
                                           /\ new.applied = binding.applied /\ ~new.managed
      <3> DEFINE new == [binding EXCEPT !.managed = FALSE]
      <3>1. new \in RoleBindings /\ new # binding /\ new.live /\ new.uid = binding.uid /\ new.applied = binding.applied /\ ~new.managed
        BY <1>2, <2>5 DEF RoleBindings
      <3> HIDE DEF new
      <3> QED
        BY <2>5, <3>1 DEF new
    <2> QED
      BY <2>1, <2>2, <2>3, <2>4, <2>5 DEF EditBinding
  <1>4. TypeOK'
    BY <1>1, <1>3 DEF VersionInv, TypeOK, PendingType
  <1>5. bindPending' # <<>>
    <2>1. \E obj : obj # binding /\ WriteBinding(obj)
      BY <1>3 DEF EditBinding, WriteNew, WriteBinding
    <2>2. PICK obj : bindPending' = Append(bindPending, obj)
      BY <2>1 DEF WriteBinding
    <2> QED
      BY <2>2 DEF VersionInv, TypeOK
  <1> QED
    BY <1>3, <1>4, <1>5 DEF VersionInv

LEMMA SyncSafe == ASSUME VersionInv, SyncPods \/ SyncBinding \/ Restart \/ PassFails PROVE VersionInv'
  <1>1. CASE SyncPods
    <2>1. podPending \in Seq(PodSets) /\ podPending # <<>> /\ podCache' = Head(podPending) /\ podPending' = Tail(podPending)
      BY <1>1 DEF SyncPods, VersionInv, TypeOK
    <2>2. podCache' \in PodSets /\ podPending' \in Seq(PodSets) /\ Len(podPending') <= MaxLag
      BY <2>1, BoundsAssumption DEF VersionInv, TypeOK
    <2>3. UNCHANGED <<pods, binding, bindCache, bindPending, pc, existing, changes>>
      BY <1>1 DEF SyncPods, api, pass
    <2>4. queued' \in BOOLEAN /\ dropped' \in BOOLEAN
      BY <1>1 DEF SyncPods, podEvent, VersionInv, TypeOK
    <2>5. TypeOK'
      BY <2>2, <2>3, <2>4 DEF VersionInv, TypeOK
    <2>6. Versions' \subseteq Versions
      BY <2>3 DEF Versions
    <2> QED
      BY <2>3, <2>5, <2>6, FewerSafe DEF VersionInv
  <1>2. CASE SyncBinding
    <2>1. /\ bindPending \in Seq(RoleBindings) /\ bindPending # <<>>
          /\ bindCache' = Head(bindPending) /\ bindPending' = Tail(bindPending)
      BY <1>2 DEF SyncBinding, VersionInv, TypeOK
    <2>2. bindCache' \in RoleBindings /\ PendingType'
      BY <2>1, BoundsAssumption DEF VersionInv, TypeOK, PendingType
    <2>3. UNCHANGED <<pods, binding, podCache, podPending, pc, existing, dropped, changes>> /\ queued' \in BOOLEAN
      BY <1>2 DEF SyncBinding, api, pass
    <2>4. TypeOK'
      BY <2>2, <2>3 DEF VersionInv, TypeOK, PendingType
    <2>5. /\ 1 \in DOMAIN bindPending /\ bindCache' = bindPending[1]
          /\ \A i \in DOMAIN bindPending' : i + 1 \in DOMAIN bindPending /\ bindPending'[i] = bindPending[i + 1]
      BY <2>1
    <2>6. Versions' \subseteq Versions
      <3>1. \A i \in DOMAIN bindPending' : bindPending'[i] \in Versions
        BY <2>5 DEF Versions
      <3>2. bindCache' \in Versions /\ binding' \in Versions
        BY <2>3, <2>5 DEF Versions
      <3> QED
        BY <3>1, <3>2 DEF Versions
    <2> QED
      BY <2>3, <2>4, <2>6, FewerSafe DEF VersionInv
  <1>3. CASE Restart
    <2>1. podPending' = <<>> /\ bindPending' = <<>> /\ podCache' = pods /\ bindCache' = binding
          /\ UNCHANGED <<pods, binding>> /\ pc' = "idle" /\ existing' = NoUID
      BY <1>3 DEF Restart, api
    <2>2. podPending' \in Seq(PodSets) /\ Len(podPending') <= MaxLag /\ PendingType' /\ DOMAIN bindPending' = {}
      BY <2>1, BoundsAssumption DEF PendingType
    <2>3. queued' \in BOOLEAN /\ dropped' \in BOOLEAN /\ changes' \in 0 .. MaxChanges
      <3>1. queued' \in BOOLEAN /\ dropped' \in BOOLEAN
        BY <1>3 DEF Restart, VersionInv, TypeOK, RoleBindings
      <3> QED
        BY <1>3, <3>1, InterfereType DEF Restart, VersionInv
    <2>4. TypeOK'
      BY <2>1, <2>2, <2>3 DEF VersionInv, TypeOK, PendingType
    <2>5. Versions' \subseteq Versions
      BY <2>1, <2>2 DEF Versions
    <2> QED
      BY <2>1, <2>4, <2>5, FewerSafe DEF VersionInv
  <1>4. CASE PassFails
    <2>1. UNCHANGED <<pods, binding, podCache, podPending, bindCache, bindPending, dropped>> /\ pc' = "idle" /\ existing' = NoUID /\ queued'
      BY <1>4 DEF PassFails, EndPass, api, caches
    <2>2. TypeOK'
      BY <1>4, <2>1, InterfereType DEF PassFails, VersionInv, TypeOK
    <2>3. Versions' \subseteq Versions
      BY <2>1 DEF Versions
    <2> QED
      BY <2>1, <2>2, <2>3, FewerSafe DEF VersionInv
  <1> QED
    BY <1>1, <1>2, <1>3, <1>4

\* A delete is of a RoleBinding that was read, and that had the operator's label.
LEMMA ReconcileSafe ==
    ASSUME VersionInv, Reconcile
    PROVE  /\ VersionInv'
           /\ pc' = "delete" => ours(bindCache) /\ existing' = bindCache.uid /\ ~needsClientRoleBinding(podCache)
           /\ pc' = "apply" => needsClientRoleBinding(podCache)
           /\ pc' = "idle" => IF needsClientRoleBinding(podCache) THEN bindCache.live /\ ~ours(bindCache) ELSE ~ours(bindCache)
  <1> DEFINE needed == needsClientRoleBinding(podCache)
             action == clientRoleBindingAction(needed, bindCache)
  <1>1. /\ UNCHANGED <<pods, binding, podCache, podPending, bindCache, bindPending, changes>> /\ ~queued' /\ ~dropped'
        /\ queued' \in BOOLEAN /\ dropped' \in BOOLEAN
        /\ pc' = (IF action \in {"apply", "delete"} THEN action ELSE "idle")
        /\ existing' = (IF action = "delete" THEN bindCache.uid ELSE NoUID)
    BY DEF Reconcile, api, caches
  <1>2. needed \in BOOLEAN /\ bindCache.live \in BOOLEAN /\ ours(bindCache) \in BOOLEAN /\ (ours(bindCache) => bindCache.live)
    BY DEF needsClientRoleBinding, ours, VersionInv, TypeOK, RoleBindings
  <1>3. /\ action = "delete" => ~needed /\ ours(bindCache)
        /\ action = "apply" => needed
        /\ action \notin {"apply", "delete"} => IF needed THEN bindCache.live /\ ~ours(bindCache) ELSE ~ours(bindCache)
        /\ action \in {"apply", "delete", "refuse", "none"}
    BY <1>2 DEF clientRoleBindingAction
  <1> HIDE DEF needed, action
  <1>4. VersionOK(bindCache) /\ Versions' = Versions
    BY <1>1 DEF VersionInv, Versions
  <1>5. pc' = "delete" => existing' = bindCache.uid /\ ours(bindCache)
    BY <1>1, <1>3
  <1>6. TypeOK'
    <2>1. pc' \in {"idle", "apply", "delete"} /\ existing' \in IF pc' = "delete" THEN UIDs ELSE {NoUID}
      BY <1>1, <1>3, <1>4 DEF VersionOK, ours
    <2> QED
      BY <1>1, <2>1 DEF VersionInv, TypeOK
  <1>7. DeleteOK'
    BY <1>1, <1>4, <1>5 DEF DeleteOK, VersionOK, ours
  <1>8. \A v \in Versions' : VersionOK(v)'
    BY <1>1, <1>4 DEF VersionInv, VersionOK
  <1> QED
    BY <1>1, <1>3, <1>6, <1>7, <1>8 DEF VersionInv, needed

LEMMA WriteLast ==
    ASSUME TypeOK, NEW obj, WriteBinding(obj), obj # binding
    PROVE  bindPending' # <<>> /\ bindPending'[Len(bindPending')] = binding'
  <1>1. bindPending \in Seq(RoleBindings) /\ bindPending' = Append(bindPending, obj) /\ binding' = obj
    BY DEF WriteBinding, TypeOK
  <1> QED
    BY <1>1

\* An apply leaves the RoleBinding as desired, or is retried.
LEMMA ApplySafe ==
    ASSUME VersionInv, applyForced
    PROVE  /\ VersionInv'
           /\ \/ queued' /\ UNCHANGED <<binding, bindPending>>
              \/ UNCHANGED <<queued, binding, bindPending>> /\ binding.live /\ binding.exact
              \/ UNCHANGED queued /\ bindPending' # <<>> /\ bindPending'[Len(bindPending')] = binding'
  <1>1. UNCHANGED <<pods, podCache, podPending, bindCache, dropped, changes>> /\ pc' = "idle" /\ existing' = NoUID
    BY DEF applyForced, EndPass
  <1>2. binding \in RoleBindings /\ queued \in BOOLEAN
    BY DEF VersionInv, TypeOK
  <1>3. CASE binding.live /\ binding.roleRef = "other"
    <2>1. queued' /\ queued' \in BOOLEAN /\ UNCHANGED <<binding, bindPending>>
      BY <1>3 DEF applyForced
    <2>2. TypeOK' /\ Versions' \subseteq Versions
      BY <1>1, <2>1 DEF VersionInv, TypeOK, Versions
    <2> QED
      BY <1>1, <2>1, <2>2, FewerSafe DEF VersionInv
  <1>4. CASE binding.live /\ binding.roleRef # "other"
    <2> DEFINE new == [desiredClientRoleBinding EXCEPT !.uid = binding.uid]
    <2>1. new \in RoleBindings /\ new.uid = binding.uid /\ new.applied /\ new.live /\ new.exact
      BY <1>2 DEF desiredClientRoleBinding, RoleBindings
    <2>2. WriteBinding(new) /\ UNCHANGED queued
      BY <1>4 DEF applyForced
    <2> HIDE DEF new
    <2>3. PendingType' /\ binding' = new /\ (\A v \in Versions' : VersionOK(v)') /\ DeleteOK'
      BY <1>1, <1>4, <2>1, <2>2, RewriteSafe
    <2>4. TypeOK'
      BY <1>1, <2>1, <2>2, <2>3 DEF VersionInv, TypeOK, PendingType
    <2>5. new = binding => UNCHANGED <<binding, bindPending>> /\ binding.live /\ binding.exact
      BY <2>1, <2>2 DEF WriteBinding
    <2> QED
      BY <2>2, <2>3, <2>4, <2>5, WriteLast DEF VersionInv
  <1>5. CASE ~binding.live
    <2>1. desiredClientRoleBinding \in RoleBindings /\ desiredClientRoleBinding.applied
          /\ \A u : [desiredClientRoleBinding EXCEPT !.uid = u].live
      BY DEF desiredClientRoleBinding, RoleBindings
    <2>2. WriteNew(desiredClientRoleBinding) /\ UNCHANGED queued
      BY <1>5 DEF applyForced
    <2>3. PendingType' /\ binding' \in RoleBindings /\ (\A v \in Versions' : VersionOK(v)') /\ DeleteOK'
      BY <1>1, <2>1, <2>2, CreateSafe
    <2>4. TypeOK'
      BY <1>1, <2>2, <2>3 DEF VersionInv, TypeOK, PendingType
    <2>5. \E new : new # binding /\ WriteBinding(new)
      BY <1>5, <2>1, <2>2 DEF WriteNew
    <2> QED
      BY <2>2, <2>3, <2>4, <2>5, WriteLast DEF VersionInv
  <1> QED
    BY <1>3, <1>4, <1>5

LEMMA DeleteSafe ==
    ASSUME VersionInv, Delete
    PROVE  /\ VersionInv'
           /\ \/ UNCHANGED <<binding, bindPending>> /\ queued' = (queued \/ binding.live) /\ ~(binding.live /\ binding.uid = existing)
              \/ UNCHANGED queued /\ bindPending' # <<>> /\ bindPending'[Len(bindPending')] = binding'
  <1>1. UNCHANGED <<pods, podCache, podPending, bindCache, dropped, changes>> /\ pc' = "idle" /\ existing' = NoUID
    BY DEF Delete, EndPass
  <1>2. CASE binding.live /\ binding.uid = existing
    <2>1. WriteBinding(NoBinding) /\ UNCHANGED queued
      BY <1>2 DEF Delete
    <2>2. PendingType' /\ binding' = NoBinding /\ (\A v \in Versions' : VersionOK(v)') /\ DeleteOK'
      BY <1>1, <2>1, NoBindingType, RewriteSafe
    <2>3. TypeOK'
      BY <1>1, <2>1, <2>2, NoBindingType DEF VersionInv, TypeOK, PendingType
    <2> QED
      BY <1>2, <2>1, <2>2, <2>3, NoBindingType, WriteLast DEF VersionInv
  <1>3. CASE ~(binding.live /\ binding.uid = existing)
    <2>1. UNCHANGED <<binding, bindPending>> /\ queued' = (queued \/ binding.live)
      BY <1>3 DEF Delete
    <2>2. queued' \in BOOLEAN
      BY <2>1 DEF VersionInv, TypeOK, RoleBindings
    <2>3. TypeOK' /\ Versions' \subseteq Versions
      BY <1>1, <2>1, <2>2 DEF VersionInv, TypeOK, Versions
    <2> QED
      BY <1>1, <1>3, <2>1, <2>3, FewerSafe DEF VersionInv
  <1> QED
    BY <1>2, <1>3

LEMMA InitVersions == Init => VersionInv
  <1> SUFFICES ASSUME Init PROVE VersionInv
    OBVIOUS
  <1>1. podPending \in Seq(PodSets) /\ Len(podPending) <= MaxLag /\ PendingType /\ DOMAIN bindPending = {}
    BY BoundsAssumption DEF Init, PendingType
  <1>2. pods \in PodSets /\ podCache \in PodSets
    BY DEF Init, PodSets
  <1>3. TypeOK
    <2>1. binding \in RoleBindings /\ bindCache \in RoleBindings
      BY NoBindingType DEF Init
    <2>2. changes \in 0 .. MaxChanges
      BY BoundsAssumption DEF Init
    <2> QED
      BY <1>1, <1>2, <2>1, <2>2 DEF Init, TypeOK, PendingType
  <1>4. \A v \in Versions : VersionOK(v)
    BY <1>1, NoBindingType DEF Init, Versions, VersionOK
  <1> QED
    BY <1>3, <1>4 DEF Init, VersionInv, DeleteOK

LEMMA StepVersions == VersionInv /\ [Next]_vars => VersionInv'
  <1> SUFFICES ASSUME VersionInv, [Next]_vars PROVE VersionInv'
    OBVIOUS
  <1>1. CASE UNCHANGED vars
    BY <1>1 DEF vars, api, caches, pass, VersionInv, TypeOK, Versions, VersionOK, DeleteOK
  <1> QED
    BY <1>1, EditPodSafe, EditBindingSafe, SyncSafe, ReconcileSafe, ApplySafe, DeleteSafe DEF Next, Operator

\* Every state has the types of the model: a delete always names the UID of a RoleBinding that
\* existed (Reconcile).
THEOREM TypeCorrect == Spec => []TypeOK
  <1>1. VersionInv => TypeOK
    BY DEF VersionInv
  <1> QED
    BY <1>1, InitVersions, StepVersions, PTL DEF Spec

\* However stale the cache, the operator deletes only a RoleBinding that it has applied (the delete
\* pinned to a UID, clientRoleBindingAction).
THEOREM DeletesApplied == Spec => OnlyAppliedDeleted
  <1>1. VersionInv /\ [Next]_vars =>
            [pc = "delete" /\ binding.live /\ ~binding'.live => binding.applied \/ changes' # changes]_vars
    <2> SUFFICES ASSUME VersionInv, Next, pc = "delete", binding.live, ~binding'.live, changes' = changes
                 PROVE  binding.applied
      OBVIOUS
    <2>1. ~PassFails /\ ~Restart /\ ~EditBinding /\ \A p \in Pods : ~EditPod(p) /\ ~RelabelPod(p)
      BY DEF PassFails, Restart, EditBinding, EditPod, RelabelPod, Interfere, VersionInv, TypeOK
    <2>2. ~SyncPods /\ ~SyncBinding /\ ~Reconcile /\ ~applyForced
      BY DEF SyncPods, SyncBinding, Reconcile, applyForced, api
    <2>3. binding.uid = existing
      BY <2>1, <2>2 DEF Next, Operator, Delete
    <2> QED
      BY <2>3 DEF VersionInv, DeleteOK
  <1> QED
    BY <1>1, InitVersions, StepVersions, PTL DEF Spec, OnlyAppliedDeleted

--------------------------------------------------------------------------------
(* Quiescence. A pass that nothing has overtaken decided from the pods and    *)
(* the RoleBinding that are still cached.                                      *)

BoundFor(ps, obj) ==
    IF needsClientRoleBinding(ps) THEN obj.live /\ (obj.managed => obj.exact) ELSE ~ours(obj)

CachesOK ==
    /\ podPending = <<>> => podCache = pods
    /\ podPending # <<>> => podPending[Len(podPending)] = pods
    /\ bindPending = <<>> => bindCache = binding
    /\ bindPending # <<>> => bindPending[Len(bindPending)] = binding

DecisionOK ==
    ~queued /\ ~dropped =>
        /\ pc = "apply" => needsClientRoleBinding(podCache)
        /\ pc = "delete" => ~needsClientRoleBinding(podCache) /\ ours(bindCache) /\ bindCache.uid = existing
        /\ pc = "idle" /\ bindPending = <<>> => BoundFor(podCache, binding)

SyncInv == CachesOK /\ DecisionOK

\* The watch delivers a version; the last one is still the current.
LEMMA LastKept ==
    ASSUME NEW S, NEW q \in Seq(S), q # <<>>
    PROVE  /\ Tail(q) = <<>> => Head(q) = q[Len(q)]
           /\ Tail(q) # <<>> => Tail(q)[Len(Tail(q))] = q[Len(q)]
  <1>1. Len(q) \in Nat \ {0} /\ Len(Tail(q)) = Len(q) - 1 /\ Head(q) = q[1]
    OBVIOUS
  <1>2. Tail(q) = <<>> => Len(Tail(q)) = 0
    <2>1. Len(<<>>) = 0
      OBVIOUS
    <2> QED
      BY <2>1, Zenon
  <1>3. Tail(q) # <<>> => Tail(q)[Len(Tail(q))] = q[Len(q)]
    OBVIOUS
  <1> QED
    BY <1>1, <1>2, <1>3

LEMMA StepSync == VersionInv /\ VersionInv' /\ SyncInv /\ [Next]_vars => SyncInv'
  <1> SUFFICES ASSUME VersionInv, VersionInv', SyncInv, [Next]_vars PROVE SyncInv'
    OBVIOUS
  <1>1. ASSUME NEW p \in Pods, EditPod(p) \/ RelabelPod(p) PROVE SyncInv'
    <2>1. PICK labels \in {"absent", "client", "component"} : WritePods(p, labels)
      BY <1>1 DEF EditPod, RelabelPod
    <2>2. podPending' # <<>> /\ podPending'[Len(podPending')] = pods'
      BY <2>1, WritePodsType DEF VersionInv
    <2>3. UNCHANGED <<binding, podCache, bindCache, bindPending, queued, pc, existing, dropped>>
      BY <1>1 DEF EditPod, RelabelPod, pass
    <2> QED
      BY <2>2, <2>3 DEF SyncInv, CachesOK, DecisionOK
  <1>2. CASE EditBinding
    <2>1. UNCHANGED <<pods, podCache, podPending, bindCache, queued, pc, existing, dropped>>
      BY <1>2 DEF EditBinding, pass
    <2>2. bindPending' # <<>> /\ bindPending'[Len(bindPending')] = binding'
      <3>1. PICK obj : WriteBinding(obj)
        BY <1>2 DEF EditBinding, WriteNew
      <3>2. CASE obj # binding
        BY <3>1, <3>2, WriteLast DEF VersionInv
      <3>3. CASE obj = binding
        <4>1. UNCHANGED <<binding, bindPending>>
          BY <3>1, <3>3 DEF WriteBinding
        <4> QED
          BY <1>2, <4>1, EditBindingSafe DEF SyncInv, CachesOK
      <3> QED
        BY <3>2, <3>3
    <2> QED
      BY <2>1, <2>2 DEF SyncInv, CachesOK, DecisionOK
  <1>3. CASE SyncPods
    <2>1. podPending \in Seq(PodSets) /\ podPending # <<>> /\ podCache' = Head(podPending) /\ podPending' = Tail(podPending)
      BY <1>3 DEF SyncPods, VersionInv, TypeOK
    <2>2. UNCHANGED <<pods, binding, bindCache, bindPending, pc, existing>>
      BY <1>3 DEF SyncPods, api, pass
    <2>3. CachesOK'
      BY <2>1, <2>2, LastKept DEF SyncInv, CachesOK
    <2>4. ~queued' /\ ~dropped' => ~queued /\ ~dropped /\ \A p \in Pods : podCache'[p] = podCache[p]
      BY <1>3 DEF SyncPods, podEvent, VersionInv, TypeOK
    <2>5. DecisionOK'
      BY <2>2, <2>4 DEF SyncInv, DecisionOK, BoundFor, needsClientRoleBinding
    <2> QED
      BY <2>3, <2>5 DEF SyncInv
  <1>4. CASE SyncBinding
    <2>1. bindPending \in Seq(RoleBindings) /\ bindPending # <<>> /\ bindCache' = Head(bindPending) /\ bindPending' = Tail(bindPending)
      BY <1>4 DEF SyncBinding, VersionInv, TypeOK
    <2>2. UNCHANGED <<pods, binding, podCache, podPending>> /\ queued'
      BY <1>4 DEF SyncBinding, api
    <2> QED
      BY <2>1, <2>2, LastKept DEF SyncInv, CachesOK, DecisionOK
  <1>5. CASE Restart
    <2>1. /\ podPending' = <<>> /\ bindPending' = <<>> /\ podCache' = pods /\ bindCache' = binding /\ UNCHANGED <<pods, binding>>
          /\ pc' = "idle" /\ queued' = (binding.live \/ \E p \in Pods : pods[p] # "absent")
      BY <1>5 DEF Restart, api
    <2>2. ~queued' => BoundFor(pods, binding)
      BY <2>1 DEF BoundFor, needsClientRoleBinding, ours
    <2>3. CachesOK'
      BY <2>1 DEF CachesOK
    <2>4. DecisionOK'
      BY <2>1, <2>2 DEF DecisionOK
    <2> QED
      BY <2>3, <2>4 DEF SyncInv
  <1>6. CASE PassFails
    BY <1>6 DEF PassFails, api, caches, SyncInv, CachesOK, DecisionOK
  <1>7. CASE Reconcile
    <2>1. UNCHANGED <<pods, binding, podCache, podPending, bindCache, bindPending>>
      BY <1>7 DEF Reconcile, api, caches
    <2>2. /\ pc' = "delete" => ours(bindCache) /\ existing' = bindCache.uid /\ ~needsClientRoleBinding(podCache)
          /\ pc' = "apply" => needsClientRoleBinding(podCache)
          /\ pc' = "idle" => IF needsClientRoleBinding(podCache) THEN bindCache.live /\ ~ours(bindCache) ELSE ~ours(bindCache)
      BY <1>7, ReconcileSafe
    <2>3. pc' = "idle" => BoundFor(podCache, bindCache)
      BY <2>2 DEF BoundFor, ours
    <2>4. CachesOK'
      BY <2>1 DEF SyncInv, CachesOK
    <2>5. DecisionOK'
      BY <2>1, <2>2, <2>3 DEF SyncInv, CachesOK, DecisionOK
    <2> QED
      BY <2>4, <2>5 DEF SyncInv
  <1>8. CASE applyForced
    <2>1. UNCHANGED <<pods, podCache, podPending, bindCache, dropped>> /\ pc' = "idle" /\ pc = "apply"
      BY <1>8 DEF applyForced, EndPass
    <2>2. \/ queued' /\ UNCHANGED <<binding, bindPending>>
          \/ UNCHANGED <<queued, binding, bindPending>> /\ binding.live /\ binding.exact
          \/ UNCHANGED queued /\ bindPending' # <<>> /\ bindPending'[Len(bindPending')] = binding'
      BY <1>8, ApplySafe
    <2>3. CachesOK'
      BY <2>1, <2>2 DEF SyncInv, CachesOK
    <2>4. DecisionOK'
      BY <2>1, <2>2 DEF SyncInv, DecisionOK, BoundFor
    <2> QED
      BY <2>3, <2>4 DEF SyncInv
  <1>9. CASE Delete
    <2>1. UNCHANGED <<pods, podCache, podPending, bindCache, dropped>> /\ pc' = "idle" /\ pc = "delete"
      BY <1>9 DEF Delete, EndPass
    <2>2. \/ UNCHANGED <<binding, bindPending>> /\ queued' = (queued \/ binding.live) /\ ~(binding.live /\ binding.uid = existing)
          \/ UNCHANGED queued /\ bindPending' # <<>> /\ bindPending'[Len(bindPending')] = binding'
      BY <1>9, DeleteSafe
    <2>3. CachesOK'
      BY <2>1, <2>2 DEF SyncInv, CachesOK
    <2>4. DecisionOK'
      <3>1. CASE bindPending' # <<>>
        BY <2>1, <3>1 DEF DecisionOK
      <3>2. CASE bindPending' = <<>>
        <4>1. UNCHANGED <<binding, bindPending>> /\ bindCache = binding
          BY <2>2, <3>2 DEF SyncInv, CachesOK
        <4>2. ~queued' /\ ~dropped' => BoundFor(podCache, binding)
          BY <2>1, <2>2, <3>2, <4>1 DEF SyncInv, DecisionOK, BoundFor, ours
        <4> QED
          BY <2>1, <4>1, <4>2 DEF DecisionOK
      <3> QED
        BY <3>1, <3>2
    <2> QED
      BY <2>3, <2>4 DEF SyncInv
  <1>10. CASE UNCHANGED vars
    BY <1>10 DEF vars, api, caches, pass, SyncInv, CachesOK, DecisionOK
  <1> QED
    BY <1>1, <1>2, <1>3, <1>4, <1>5, <1>6, <1>7, <1>8, <1>9, <1>10 DEF Next, Operator

\* With any lag of the two caches and any interference, what a quiet operator leaves is what the
\* labelled pods call for, unless one was relabelled since the last pass (Reconcile,
\* SetupWithManager).
THEOREM QuiescenceBound == Spec => []QuiescentBound
  <1>1. Init => SyncInv
    BY DEF Init, SyncInv, CachesOK, DecisionOK, BoundFor, needsClientRoleBinding, ours, NoBinding
  <1>2. SyncInv => QuiescentBound
    BY DEF SyncInv, CachesOK, DecisionOK, QuiescentBound, Quiescent, Bound, BoundFor
  <1> QED
    BY <1>1, <1>2, StepSync, InitVersions, StepVersions, PTL DEF Spec
================================================================================
