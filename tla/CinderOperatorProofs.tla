------------------------ MODULE CinderOperatorProofs ------------------------
(***************************************************************************)
(* Proofs, for every number of services and every set of Secrets, of type  *)
(* correctness and of the two facts about consumer finalizers that do not  *)
(* depend on when RabbitMQ rotates: the rendered config names only Secrets *)
(* that are protected, and a deleted Cinder leaves no finalizer behind;    *)
(* and that the operator implements the leases of CredentialLease.         *)
(***************************************************************************)
EXTENDS CinderOperator, TLAPS

\* The types of the values that stand for nothing yet.
LEMMA Constants ==
  /\ NoConfig \in Config
  /\ NoInput \in Input
  /\ NoRev \in Rev
  /\ NoService \in ServiceCR
  /\ NoWorkload \in Workload
  /\ ParentIdle \in ParentLocal
  /\ ChildIdle \in ChildLocal
BY DEF NoConfig, NoInput, NoRev, NoService, NoWorkload, ParentIdle, ChildIdle,
       Config, Input, Rev, ServiceCR, Workload, ParentLocal, ChildLocal,
       TName, NName, ACName, Pod

\* The copy of the CR that a reconcile starts from is well typed.
LEMMA FetchedType ==
  ASSUME cr \in CinderCR,
         NEW pc \in {"idle", "patch"} \cup NormalPC \cup DeletePC
  PROVE  Fetched(pc) \in ParentLocal
<1>1. /\ cr.ac \in ACName
      /\ cr.notif \in BOOLEAN
      /\ cr.svcs \in SUBSET Service
      /\ cr.T \in TName
      /\ cr.N \in NName \cup {Nil}
      /\ cr.AC \in ACName
      /\ cr.hash \in Config
  BY DEF CinderCR
<1>2. QED
  BY <1>1, Constants DEF Fetched, ParentLocal

\* CreateOrUpdate of a child CR leaves a child CR ...
LEMMA DeployedType ==
  ASSUME NEW c \in ServiceCR, NEW t \in TName, NEW n \in NName
  PROVE  Deployed(c, t, n) \in ServiceCR
<1>1. Created(t, n) \in ServiceCR
  BY Constants DEF Created, ServiceCR
<1>2. c.gen + 1 \in Nat
  BY DEF ServiceCR
<1>3. [c EXCEPT !.gen = c.gen + 1, !.t = t, !.n = n] \in ServiceCR
  BY <1>2 DEF ServiceCR
<1>4. Updated(c, t, n) \in ServiceCR
  BY <1>3 DEF Updated
<1>5. QED
  BY <1>1, <1>4 DEF Deployed

\* ... as does its deletion ...
LEMMA DeletedType ==
  ASSUME NEW c \in ServiceCR
  PROVE  Deleted(c) \in ServiceCR
<1>1. c.gen + 1 \in Nat
  BY DEF ServiceCR
<1>2. [c EXCEPT !.phase = "deleting", !.gen = @ + 1] \in ServiceCR
  BY <1>1 DEF ServiceCR
<1> QED
  BY <1>2, Constants DEF Deleted

\* ... and the status patch of its controller.
LEMMA PatchedType ==
  ASSUME NEW c \in ServiceCR, NEW l \in ChildLocal
  PROVE  Patched(c, l) \in ServiceCR
BY DEF Patched, ServiceCR, ChildLocal, Input

\* A child reconcile that returns early and will be retried.
LEMMA ReturningType ==
  ASSUME NEW l \in ChildLocal
  PROVE  [l EXCEPT !.pc = "patch", !.requeue = TRUE] \in ChildLocal
BY DEF ChildLocal

----------------------------------------------------------------------------
\* A CR that was just created, with an empty status and empty queues.
LEMMA InitType == Init => TypeOK
BY Constants, ServiceAssumption, BoundAssumption
   DEF Init, TypeOK, CinderCR, TName, NName, ACName, Config, NoConfig


\* Every step of the Cinder controller keeps the types.
LEMMA ControllerType ==
  ASSUME TypeOK, ControllerStep
  PROVE  TypeOK'
<1>1. CASE PFetchGone
  <2>1. pq' \in BOOLEAN
    BY <1>1 DEF PFetchGone, TypeOK
  <2> QED
    BY <1>1, <2>1 DEF PFetchGone, TypeOK
<1>2. CASE PFetchNew
  <2>1. par' \in ParentLocal
    BY <1>2, FetchedType DEF PFetchNew, TypeOK, ParentLocal
  <2>2. pq' \in BOOLEAN
    BY <1>2 DEF PFetchNew, TypeOK
  <2> QED
    BY <1>2, <2>1, <2>2 DEF PFetchNew, TypeOK
<1>3. CASE PFetchLive
  <2>1. par' \in ParentLocal
    BY <1>3, FetchedType DEF PFetchLive, TypeOK, NormalPC
  <2>2. pq' \in BOOLEAN
    BY <1>3 DEF PFetchLive, TypeOK
  <2> QED
    BY <1>3, <2>1, <2>2 DEF PFetchLive, TypeOK
<1>4. CASE PFetchDeleting
  <2>1. par' \in ParentLocal
    BY <1>4, FetchedType
       DEF PFetchDeleting, TypeOK, CinderCR, ACName, DeletePC, ParentLocal
  <2>2. pq' \in BOOLEAN
    BY <1>4 DEF PFetchDeleting, TypeOK
  <2> QED
    BY <1>4, <2>1, <2>2 DEF PFetchDeleting, TypeOK
<1>5. CASE PTransportWait
  <2>1. tu' \in TName \cup {Nil}
    BY <1>5 DEF PTransportWait, TypeOK, TName
  <2>2. par' \in ParentLocal
    BY <1>5 DEF PTransportWait, TypeOK, ParentLocal, NormalPC, DeletePC
  <2>3. pq' \in BOOLEAN
    BY <1>5 DEF PTransportWait, TypeOK
  <2> QED
    BY <1>5, <2>1, <2>2, <2>3 DEF PTransportWait, TypeOK
<1>6. CASE PTransport
  <2>1. par' \in ParentLocal
    BY <1>6 DEF PTransport, TypeOK, ParentLocal, NormalPC, DeletePC, TName
  <2> QED
    BY <1>6, <2>1 DEF PTransport, TypeOK
<1>7. CASE PManageT
  <2>1. tfin' \subseteq TName \cup NName
    BY <1>7 DEF PManageT, TypeOK, Manage, ParentLocal
  <2>2. par' \in ParentLocal
    BY <1>7 DEF PManageT, TypeOK, ParentLocal, NormalPC, DeletePC
  <2>3. pq' \in BOOLEAN
    BY <1>7 DEF PManageT, TypeOK
  <2> QED
    BY <1>7, <2>1, <2>2, <2>3 DEF PManageT, TypeOK
<1>8. CASE PNotifWait
  <2>1. nu' \in NName \cup {Nil}
    BY <1>8 DEF PNotifWait, TypeOK, NName
  <2>2. par' \in ParentLocal
    BY <1>8
       DEF PNotifWait, TypeOK, ParentLocal, NormalPC, DeletePC, NotifName,
           NName
  <2>3. pq' \in BOOLEAN
    BY <1>8 DEF PNotifWait, TypeOK
  <2> QED
    BY <1>8, <2>1, <2>2, <2>3 DEF PNotifWait, TypeOK
<1>9. CASE PNotif
  <2>1. par' \in ParentLocal
    BY <1>9
       DEF PNotif, TypeOK, ParentLocal, NormalPC, DeletePC, NotifName, NName
  <2> QED
    BY <1>9, <2>1 DEF PNotif, TypeOK
<1>10. CASE PManageN
  <2>1. tfin' \subseteq TName \cup NName
    BY <1>10 DEF PManageN, TypeOK, Manage, ParentLocal
  <2>2. par' \in ParentLocal
    BY <1>10 DEF PManageN, TypeOK, ParentLocal, NormalPC, DeletePC
  <2> QED
    BY <1>10, <2>1, <2>2 DEF PManageN, TypeOK
<1>11. CASE PRender
  <2>1. Rendered \in Config
    BY DEF TypeOK, ParentLocal, Rendered, Config
  <2>2. config' \in Config
    BY <1>11, <2>1 DEF PRender
  <2>3. par' \in ParentLocal
    BY <1>11, <2>1 DEF PRender, TypeOK, ParentLocal, NormalPC
  <2>4. pq' \in BOOLEAN
    BY <1>11 DEF PRender, TypeOK
  <2>5. cq' \in [Service -> BOOLEAN]
    BY <1>11 DEF PRender, TypeOK
  <2> QED
    BY <1>11, <2>2, <2>3, <2>4, <2>5 DEF PRender, TypeOK
<1>12. CASE PManageAC
  <2>1. acfin' \subseteq ACSecrets
    BY <1>12 DEF PManageAC, TypeOK, Manage, ParentLocal, ACName
  <2>2. par' \in ParentLocal
    BY <1>12 DEF PManageAC, TypeOK, ParentLocal, NormalPC, DeletePC
  <2> QED
    BY <1>12, <2>1, <2>2 DEF PManageAC, TypeOK
<1>13. ASSUME NEW s \in Service, PDeploy(s) PROVE TypeOK'
  <2>1. par.t \in TName /\ par.n \in NName
    BY DEF TypeOK, ParentLocal
  <2> DEFINE c == Deployed(svc[s], par.t, par.n)
             r == par.ready /\ ServiceReady(c, par.t, par.n)
  <2>2. c \in ServiceCR
    BY <2>1, DeployedType DEF TypeOK
  <2>3. svc' \in [Service -> ServiceCR]
    BY <1>13, <2>2 DEF PDeploy, TypeOK
  <2>4. s + 1 \in Nat /\ r \in BOOLEAN
    BY ServiceAssumption DEF Service
  <2>5. par' = [par EXCEPT !.next = s + 1, !.ready = r]
    BY <1>13 DEF PDeploy
  <2> HIDE DEF r
  <2>6. par' \in ParentLocal
    BY <2>4, <2>5 DEF TypeOK, ParentLocal
  <2>7. pq' \in BOOLEAN
    BY <1>13 DEF PDeploy, TypeOK
  <2>8. cq' \in [Service -> BOOLEAN]
    BY <1>13 DEF PDeploy, TypeOK
  <2> QED
    BY <1>13, <2>3, <2>6, <2>7, <2>8 DEF PDeploy, TypeOK
<1>14. ASSUME NEW s \in Service, PSkip(s) PROVE TypeOK'
  <2>1. par' \in ParentLocal
    BY <1>14 DEF PSkip, TypeOK, ParentLocal, NormalPC, DeletePC, Service
  <2>2. svc' \in [Service -> ServiceCR]
    BY <1>14, DeletedType DEF PSkip, TypeOK
  <2>3. pq' \in BOOLEAN
    BY <1>14 DEF PSkip, TypeOK
  <2>4. cq' \in [Service -> BOOLEAN]
    BY <1>14 DEF PSkip, TypeOK
  <2> QED
    BY <1>14, <2>1, <2>2, <2>3, <2>4 DEF PSkip, TypeOK
<1>15. CASE PCleanup
  <2>1. svc' \in [Service -> ServiceCR]
    BY <1>15, DeletedType DEF PCleanup, TypeOK
  <2>2. par' \in ParentLocal
    BY <1>15 DEF PCleanup, TypeOK, ParentLocal, NormalPC, DeletePC
  <2>3. pq' \in BOOLEAN
    BY <1>15 DEF PCleanup, TypeOK
  <2>4. cq' \in [Service -> BOOLEAN]
    BY <1>15 DEF PCleanup, TypeOK
  <2> QED
    BY <1>15, <2>1, <2>2, <2>3, <2>4 DEF PCleanup, TypeOK
<1>16. CASE PFinalT
  <2>1. tfin' \subseteq TName \cup NName
    BY <1>16 DEF PFinalT, TypeOK, Finalize, Remove
  <2>2. par' \in ParentLocal
    BY <1>16 DEF PFinalT, TypeOK, ParentLocal, NormalPC, DeletePC, Tracked
  <2>3. pq' \in BOOLEAN
    BY <1>16 DEF PFinalT, TypeOK
  <2> QED
    BY <1>16, <2>1, <2>2, <2>3 DEF PFinalT, TypeOK
<1>17. CASE PFinalN
  <2>1. tfin' \subseteq TName \cup NName
    BY <1>17 DEF PFinalN, TypeOK, Finalize, Remove
  <2>2. par' \in ParentLocal
    BY <1>17
       DEF PFinalN, TypeOK, ParentLocal, NormalPC, DeletePC, Tracked,
           NotifName, NName
  <2> QED
    BY <1>17, <2>1, <2>2 DEF PFinalN, TypeOK
<1>18. CASE PFinalNDisabled
  <2>1. tfin' \subseteq TName \cup NName
    BY <1>18 DEF PFinalNDisabled, TypeOK, Remove
  <2>2. par' \in ParentLocal
    BY <1>18 DEF PFinalNDisabled, TypeOK, ParentLocal, NormalPC, DeletePC
  <2> QED
    BY <1>18, <2>1, <2>2 DEF PFinalNDisabled, TypeOK
<1>19. CASE PFinalAC
  <2>1. acfin' \subseteq ACSecrets
    BY <1>19 DEF PFinalAC, TypeOK, Finalize, Remove
  <2>2. par' \in ParentLocal
    BY <1>19 DEF PFinalAC, TypeOK, ParentLocal, NormalPC, DeletePC, Tracked
  <2> QED
    BY <1>19, <2>1, <2>2 DEF PFinalAC, TypeOK
<1>20. CASE PPruneT
  <2>1. tfin' \subseteq TName \cup NName
    BY <1>20 DEF PPruneT, TypeOK, Prune
  <2>2. par' \in ParentLocal
    BY <1>20 DEF PPruneT, TypeOK, ParentLocal, NormalPC, DeletePC
  <2>3. pq' \in BOOLEAN
    BY <1>20 DEF PPruneT, TypeOK
  <2> QED
    BY <1>20, <2>1, <2>2, <2>3 DEF PPruneT, TypeOK
<1>21. CASE PPruneAC
  <2>1. acfin' \subseteq ACSecrets
    BY <1>21 DEF PPruneAC, TypeOK, Prune
  <2>2. par' \in ParentLocal
    BY <1>21 DEF PPruneAC, TypeOK, ParentLocal, NormalPC, DeletePC
  <2> QED
    BY <1>21, <2>1, <2>2 DEF PPruneAC, TypeOK
<1>22. ASSUME NEW x \in ACSecrets, PDelAC(x) PROVE TypeOK'
  <2>1. acfin' \subseteq ACSecrets
    BY <1>22 DEF PDelAC, TypeOK, Remove
  <2>2. par' \in ParentLocal
    BY <1>22 DEF PDelAC, TypeOK, ParentLocal, NormalPC, DeletePC
  <2> QED
    BY <1>22, <2>1, <2>2 DEF PDelAC, TypeOK
<1>23. CASE PDelList
  <2>1. {par.T, tu, nu, par.N} \ {Nil, NoSecret}
          \subseteq TransportSecrets \cup NotifSecrets
    BY DEF TypeOK, ParentLocal, TName, NName
  <2>2. par' \in ParentLocal
    BY <1>23, <2>1 DEF PDelList, TypeOK, ParentLocal, DeletePC
  <2> QED
    BY <1>23, <2>2 DEF PDelList, TypeOK
<1>24. ASSUME NEW x \in TransportSecrets \cup NotifSecrets, PDelT(x) PROVE TypeOK'
  <2>1. tfin' \subseteq TName \cup NName
    BY <1>24 DEF PDelT, TypeOK, Remove
  <2>2. par' \in ParentLocal
    BY <1>24 DEF PDelT, TypeOK, ParentLocal, NormalPC, DeletePC
  <2>3. pq' \in BOOLEAN
    BY <1>24 DEF PDelT, TypeOK
  <2> QED
    BY <1>24, <2>1, <2>2, <2>3 DEF PDelT, TypeOK
<1>25. CASE PDelPruneT
  <2>1. tfin' \subseteq TName \cup NName
    BY <1>25 DEF PDelPruneT, TypeOK, Prune
  <2>2. par' \in ParentLocal
    BY <1>25 DEF PDelPruneT, TypeOK, ParentLocal, NormalPC, DeletePC
  <2>3. pq' \in BOOLEAN
    BY <1>25 DEF PDelPruneT, TypeOK
  <2> QED
    BY <1>25, <2>1, <2>2, <2>3 DEF PDelPruneT, TypeOK
<1>26. CASE PDelPruneAC
  <2>1. acfin' \subseteq ACSecrets
    BY <1>26 DEF PDelPruneAC, TypeOK, Prune
  <2>2. par' \in ParentLocal
    BY <1>26 DEF PDelPruneAC, TypeOK, ParentLocal, NormalPC, DeletePC
  <2> QED
    BY <1>26, <2>1, <2>2 DEF PDelPruneAC, TypeOK
<1>27. CASE PPatch
  <2>1. cr' \in CinderCR
    BY <1>27 DEF PPatch, TypeOK, PatchedCR, CinderCR, ParentLocal
  <2>2. par' \in ParentLocal
    BY <1>27, Constants DEF PPatch, TypeOK
  <2>3. pq' \in BOOLEAN
    BY <1>27 DEF PPatch, TypeOK
  <2> QED
    BY <1>27, <2>1, <2>2, <2>3 DEF PPatch, TypeOK
<1>28. CASE PPatchGone
  <2>1. par' \in ParentLocal
    BY <1>28, Constants DEF PPatchGone, TypeOK
  <2>2. pq' \in BOOLEAN
    BY <1>28 DEF PPatchGone, TypeOK
  <2> QED
    BY <1>28, <2>1, <2>2 DEF PPatchGone, TypeOK
<1>29. QED
  BY <1>1, <1>2, <1>3, <1>4, <1>5, <1>6, <1>7, <1>8, <1>9, <1>10, <1>11,
     <1>12, <1>13, <1>14, <1>15, <1>16, <1>17, <1>18, <1>19, <1>20, <1>21,
     <1>22, <1>23, <1>24, <1>25, <1>26, <1>27, <1>28 DEF ControllerStep

\* Every step of a child controller keeps the types.
LEMMA ServiceType ==
  ASSUME TypeOK, NEW s \in Service, ServiceStep(s)
  PROVE  TypeOK'
<1>1. CASE CFetchAbsent(s)
  <2>1. cq' \in [Service -> BOOLEAN]
    BY <1>1 DEF CFetchAbsent, TypeOK
  <2> QED
    BY <1>1, <2>1 DEF CFetchAbsent, TypeOK
<1>2. CASE CFetchNew(s)
  <2>1. chi' \in [Service -> ChildLocal]
    BY <1>2, Constants DEF CFetchNew, TypeOK, ChildLocal, ServiceCR
  <2>2. cq' \in [Service -> BOOLEAN]
    BY <1>2 DEF CFetchNew, TypeOK
  <2> QED
    BY <1>2, <2>1, <2>2 DEF CFetchNew, TypeOK
<1>3. CASE CFetchLive(s)
  <2>1. chi' \in [Service -> ChildLocal]
    BY <1>3, Constants DEF CFetchLive, TypeOK, ChildLocal, ServiceCR
  <2>2. cq' \in [Service -> BOOLEAN]
    BY <1>3 DEF CFetchLive, TypeOK
  <2> QED
    BY <1>3, <2>1, <2>2 DEF CFetchLive, TypeOK
<1>4. CASE CFetchDeleting(s)
  <2>1. svc' \in [Service -> ServiceCR]
    BY <1>4, Constants DEF CFetchDeleting, TypeOK
  <2>2. sts' \in [Service -> Workload]
    <3>1. \A b \in BOOLEAN : [sts[s] EXCEPT !.orphan = b] \in Workload
      BY DEF TypeOK, Workload
    <3>2. (sts[s] # NoWorkload) \in BOOLEAN
      OBVIOUS
    <3>3. sts' = [sts EXCEPT ![s] = [sts[s] EXCEPT !.orphan = (sts[s] # NoWorkload)]]
      BY <1>4, Zenon DEF CFetchDeleting
    <3> QED
      BY <3>1, <3>2, <3>3 DEF TypeOK
  <2>3. cq' \in [Service -> BOOLEAN]
    BY <1>4 DEF CFetchDeleting, TypeOK
  <2>4. pq' \in BOOLEAN
    BY <1>4 DEF CFetchDeleting, TypeOK
  <2> QED
    BY <1>4, <2>1, <2>2, <2>3, <2>4 DEF CFetchDeleting, TypeOK
<1>5. CASE CRender(s)
  <2>1. [chi[s] EXCEPT !.pc = "deploy", !.c = config] \in ChildLocal
    BY DEF TypeOK, ChildLocal
  <2>2. chi' \in [Service -> ChildLocal]
    BY <1>5, <2>1 DEF CRender, TypeOK
  <2>3. sts' \in [Service -> Workload]
    BY <1>5 DEF CRender, TypeOK, Workload
  <2>4. cq' \in [Service -> BOOLEAN]
    BY <1>5 DEF CRender, TypeOK
  <2> QED
    BY <1>5, <2>2, <2>3, <2>4 DEF CRender, TypeOK
<1>6. CASE CRenderConflict(s)
  <2>1. chi' \in [Service -> ChildLocal]
    BY <1>6, ReturningType DEF CRenderConflict, TypeOK
  <2> QED
    BY <1>6, <2>1 DEF CRenderConflict, TypeOK
<1>7. CASE CDeployPatch(s)
  <2>1. InputHash(s) \in Rev
    BY DEF TypeOK, ChildLocal, InputHash, Rev
  <2>2. [sts[s] EXCEPT !.rev = InputHash(s), !.seen = FALSE] \in Workload
    BY <2>1 DEF TypeOK, Workload
  <2>3. sts' \in [Service -> Workload]
    BY <1>7, <2>2 DEF CDeployPatch, TypeOK
  <2>4. chi' \in [Service -> ChildLocal]
    BY <1>7, ReturningType DEF CDeployPatch, TypeOK
  <2>5. cq' \in [Service -> BOOLEAN]
    BY <1>7 DEF CDeployPatch, TypeOK
  <2> QED
    BY <1>7, <2>3, <2>4, <2>5 DEF CDeployPatch, TypeOK
<1>8. CASE CDeployWait(s)
  <2>1. chi' \in [Service -> ChildLocal]
    BY <1>8, ReturningType DEF CDeployWait, TypeOK
  <2> QED
    BY <1>8, <2>1 DEF CDeployWait, TypeOK
<1>9. CASE CDeployCheck(s)
  <2> DEFINE r == IsReadyForInput(s, InputHash(s))
  <2>1. r \in BOOLEAN
    BY DEF IsReadyForInput
  <2>2. [chi[s] EXCEPT !.pc = "patch", !.ready = r] \in ChildLocal
    BY <2>1 DEF TypeOK, ChildLocal
  <2>3. chi' \in [Service -> ChildLocal]
    BY <1>9, <2>2 DEF CDeployCheck, TypeOK
  <2> QED
    BY <1>9, <2>3 DEF CDeployCheck, TypeOK
<1>10. CASE CPatch(s)
  <2>1. svc' \in [Service -> ServiceCR]
    BY <1>10, PatchedType DEF CPatch, TypeOK
  <2>2. chi' \in [Service -> ChildLocal]
    BY <1>10, Constants DEF CPatch, TypeOK
  <2>3. cq' \in [Service -> BOOLEAN]
    BY <1>10 DEF CPatch, TypeOK
  <2>4. pq' \in BOOLEAN
    BY <1>10 DEF CPatch, TypeOK
  <2> QED
    BY <1>10, <2>1, <2>2, <2>3, <2>4 DEF CPatch, TypeOK
<1>11. CASE CPatchGone(s)
  <2>1. chi' \in [Service -> ChildLocal]
    BY <1>11, Constants DEF CPatchGone, TypeOK
  <2>2. cq' \in [Service -> BOOLEAN]
    BY <1>11 DEF CPatchGone, TypeOK
  <2> QED
    BY <1>11, <2>1, <2>2 DEF CPatchGone, TypeOK
<1>12. QED
  BY <1>1, <1>2, <1>3, <1>4, <1>5, <1>6, <1>7, <1>8, <1>9, <1>10, <1>11 DEF
     ServiceStep

\* So does every step of RabbitMQ's provisioning, the StatefulSet controller
\* and the garbage collector ...
LEMMA PlatformType ==
  ASSUME TypeOK, PlatformStep
  PROVE  TypeOK'
<1>1. ASSUME NEW x \in TransportSecrets, ProvisionTransport(x) PROVE TypeOK'
  <2>1. tu' \in TName \cup {Nil}
    BY <1>1 DEF ProvisionTransport, TypeOK, TName
  <2>2. pq' \in BOOLEAN
    BY <1>1 DEF ProvisionTransport, TypeOK, WakeCinder
  <2> QED
    BY <1>1, <2>1, <2>2 DEF ProvisionTransport, TypeOK
<1>2. ASSUME NEW x \in NotifSecrets, ProvisionNotif(x) PROVE TypeOK'
  <2>1. nu' \in NName \cup {Nil}
    BY <1>2 DEF ProvisionNotif, TypeOK, NName
  <2>2. pq' \in BOOLEAN
    BY <1>2 DEF ProvisionNotif, TypeOK, WakeCinder
  <2> QED
    BY <1>2, <2>1, <2>2 DEF ProvisionNotif, TypeOK
<1>3. ASSUME NEW s \in Service, StsSync(s) PROVE TypeOK'
  <2>1. NewPod(s) \in Pod
    BY DEF TypeOK, Workload, Pod, NewPod
  <2> DEFINE ps == IF \E p \in sts[s].pods : p.rev = sts[s].rev
                   THEN sts[s].pods ELSE sts[s].pods \cup {NewPod(s)}
  <2>2. ps \subseteq Pod
    BY <2>1 DEF TypeOK, Workload
  <2>3. sts' = [sts EXCEPT ![s] = [sts[s] EXCEPT !.seen = TRUE, !.pods = ps]]
    BY <1>3 DEF StsSync, TypeOK, Workload
  <2> HIDE DEF ps
  <2>4. sts' \in [Service -> Workload]
    BY <2>2, <2>3 DEF TypeOK, Workload
  <2>5. cq' \in [Service -> BOOLEAN]
    BY <1>3 DEF StsSync, TypeOK, Wake
  <2> QED
    BY <1>3, <2>4, <2>5 DEF StsSync, TypeOK
<1>4. ASSUME NEW s \in Service, StsFinish(s) PROVE TypeOK'
  <2>1. sts' \in [Service -> Workload]
    BY <1>4 DEF StsFinish, TypeOK, Workload
  <2>2. cq' \in [Service -> BOOLEAN]
    BY <1>4 DEF StsFinish, TypeOK, Wake
  <2> QED
    BY <1>4, <2>1, <2>2 DEF StsFinish, TypeOK
<1>5. ASSUME NEW s \in Service, StsCollect(s) PROVE TypeOK'
  <2>1. sts' \in [Service -> Workload]
    BY <1>5, Constants DEF StsCollect, TypeOK
  <2> QED
    BY <1>5, <2>1 DEF StsCollect, TypeOK
<1>6. ASSUME NEW s \in Service, ChildCollect(s) PROVE TypeOK'
  <2>1. svc' \in [Service -> ServiceCR]
    BY <1>6, DeletedType DEF ChildCollect, TypeOK
  <2>2. cq' \in [Service -> BOOLEAN]
    BY <1>6 DEF ChildCollect, TypeOK, Wake
  <2>3. pq' \in BOOLEAN
    BY <1>6 DEF ChildCollect, TypeOK, WakeCinder
  <2> QED
    BY <1>6, <2>1, <2>2, <2>3 DEF ChildCollect, TypeOK
<1>7. QED
  BY <1>1, <1>2, <1>3, <1>4, <1>5, <1>6 DEF PlatformStep

\* ... and every rotation, edit, deletion or Pod restart ...
LEMMA DisturbanceType ==
  ASSUME TypeOK, Disturbance
  PROVE  TypeOK'
<1>1. ASSUME NEW x \in TransportSecrets, RotateTransport(x) PROVE TypeOK'
  <2>1. tu' \in TName \cup {Nil}
    BY <1>1 DEF RotateTransport, TypeOK, TName
  <2>2. pq' \in BOOLEAN
    BY <1>1 DEF RotateTransport, TypeOK, WakeCinder
  <2> QED
    BY <1>1, <2>1, <2>2, BoundAssumption DEF RotateTransport, TypeOK, Change
<1>2. ASSUME NEW x \in NotifSecrets, RotateNotif(x) PROVE TypeOK'
  <2>1. nu' \in NName \cup {Nil}
    BY <1>2 DEF RotateNotif, TypeOK, NName
  <2>2. pq' \in BOOLEAN
    BY <1>2 DEF RotateNotif, TypeOK, WakeCinder
  <2> QED
    BY <1>2, <2>1, <2>2, BoundAssumption DEF RotateNotif, TypeOK, Change
<1>3. ASSUME NEW x \in ACName, SetApplicationCredential(x) PROVE TypeOK'
  <2>1. cr' \in CinderCR
    BY <1>3 DEF SetApplicationCredential, TypeOK, CinderCR
  <2>2. pq' \in BOOLEAN
    BY <1>3 DEF SetApplicationCredential, TypeOK, Edit, WakeCinder
  <2> QED
    BY <1>3, <2>1, <2>2, BoundAssumption
       DEF SetApplicationCredential, TypeOK, Change, Edit
<1>4. CASE ToggleNotifications
  <2>1. cr' \in CinderCR
    BY <1>4 DEF ToggleNotifications, TypeOK, CinderCR
  <2>2. pq' \in BOOLEAN
    BY <1>4 DEF ToggleNotifications, TypeOK, Edit, WakeCinder
  <2> QED
    BY <1>4, <2>1, <2>2, BoundAssumption
       DEF ToggleNotifications, TypeOK, Change, Edit
<1>5. ASSUME NEW s \in Service, ToggleService(s) PROVE TypeOK'
  <2>1. cr' \in CinderCR
    BY <1>5 DEF ToggleService, TypeOK, CinderCR
  <2>2. pq' \in BOOLEAN
    BY <1>5 DEF ToggleService, TypeOK, Edit, WakeCinder
  <2> QED
    BY <1>5, <2>1, <2>2, BoundAssumption
       DEF ToggleService, TypeOK, Change, Edit
<1>6. CASE DeleteCinder
  <2>1. cr' \in CinderCR
    BY <1>6 DEF DeleteCinder, TypeOK, CinderCR
  <2>2. pq' \in BOOLEAN
    BY <1>6 DEF DeleteCinder, TypeOK, WakeCinder
  <2> QED
    BY <1>6, <2>1, <2>2, BoundAssumption DEF DeleteCinder, TypeOK, Change
<1>7. ASSUME NEW s \in Service, PodRestart(s) PROVE TypeOK'
  <2>1. sts' \in [Service -> Workload]
    BY <1>7 DEF PodRestart, TypeOK, Workload, Pod
  <2>2. cq' \in [Service -> BOOLEAN]
    BY <1>7 DEF PodRestart, TypeOK, Wake
  <2> QED
    BY <1>7, <2>1, <2>2 DEF PodRestart, TypeOK
<1>8. QED
  BY <1>1, <1>2, <1>3, <1>4, <1>5, <1>6, <1>7, ServiceAssumption DEF
     Disturbance, Optional

\* ... and every failed call or crash of the operator.
LEMMA FaultType ==
  ASSUME TypeOK, Fault
  PROVE  TypeOK'
<1>1. CASE Crash
  <2>1. par' \in ParentLocal
    BY <1>1, Constants DEF Crash, TypeOK
  <2>2. chi' \in [Service -> ChildLocal]
    BY <1>1, Constants DEF Crash, TypeOK
  <2>3. pq' \in BOOLEAN
    BY <1>1 DEF Crash, TypeOK
  <2>4. cq' \in [Service -> BOOLEAN]
    BY <1>1 DEF Crash, TypeOK
  <2> QED
    BY <1>1, <2>1, <2>2, <2>3, <2>4, BoundAssumption DEF Crash, TypeOK
<1>2. CASE PFail
  <2>1. par' \in ParentLocal
    BY <1>2 DEF PFail, TypeOK, ParentLocal, NormalPC, DeletePC
  <2> QED
    BY <1>2, <2>1, BoundAssumption DEF PFail, TypeOK
<1>3. ASSUME NEW s \in Service, CFail(s) PROVE TypeOK'
  <2>1. chi' \in [Service -> ChildLocal]
    BY <1>3, ReturningType DEF CFail, TypeOK
  <2> QED
    BY <1>3, <2>1, BoundAssumption DEF CFail, TypeOK
<1>4. QED
  BY <1>1, <1>2, <1>3 DEF Fault

\* Hence every step of the system.
LEMMA NextType == TypeOK /\ [Next]_vars => TypeOK'
<1> SUFFICES ASSUME TypeOK, [Next]_vars PROVE TypeOK'
  OBVIOUS
<1>1. CASE UNCHANGED vars
  BY <1>1 DEF TypeOK, vars
<1>2. CASE Next
  BY <1>2, ControllerType, ServiceType, PlatformType, DisturbanceType,
     FaultType DEF Next
<1>3. QED
  BY <1>1, <1>2

\* The state of the CR, of its children, of the Secrets and of the reconciles
\* in progress stays well typed, whatever is rotated, edited, lost or retried.
THEOREM TypeCorrect == Spec => []TypeOK
<1>1. QED
  BY InitType, NextType, PTL DEF Spec

----------------------------------------------------------------------------
\* The invariant speaks of the CR's phase, of the finalizers, of the config
\* and of the Cinder reconcile: whoever leaves these alone keeps it.
LEMMA FinalizerFrame ==
  ASSUME FinalizerInv, cr'.phase = cr.phase,
         UNCHANGED <<tfin, acfin, config, par>>
  PROVE  FinalizerInv'
BY DEF FinalizerInv, PhaseInv, OwnFinalizerInv, HeldInv, ConfigProtected

\* A new CR holds nothing and has no config.
LEMMA InitFinalizer == Init => FinalizerInv
BY DEF Init, FinalizerInv, PhaseInv, OwnFinalizerInv, HeldInv, ConfigProtected,
       AfterManageT, AfterManageN, AfterRender, NormalPC, DeletePC, NoConfig,
       ParentIdle

\* Each step of the Cinder controller keeps the invariant.  The releases need
\* that transport and notifications Secrets are different Secrets.
LEMMA ControllerFinalizer ==
  ASSUME TypeOK, FinalizerInv, ControllerStep
  PROVE  FinalizerInv'
<1> USE DEF FinalizerInv, PhaseInv, OwnFinalizerInv, HeldInv, ConfigProtected,
            AfterManageT, AfterManageN, AfterRender, NormalPC, DeletePC,
            NoConfig, TypeOK, ParentLocal

<1>1. CASE PFetchGone
  BY <1>1 DEF PFetchGone
<1>2. CASE PFetchNew
  BY <1>2 DEF PFetchNew, Fetched, ParentIdle
<1>3. CASE PFetchLive
  BY <1>3 DEF PFetchLive, Fetched, ParentIdle
<1>4. CASE PFetchDeleting
  BY <1>4 DEF PFetchDeleting, Fetched, ParentIdle
<1>5. CASE PTransportWait
  BY <1>5 DEF PTransportWait
<1>6. CASE PTransport
  BY <1>6 DEF PTransport
<1>7. CASE PManageT
  BY <1>7 DEF PManageT, Manage
<1>8. CASE PNotifWait
  BY <1>8 DEF PNotifWait
<1>9. CASE PNotif
  BY <1>9 DEF PNotif
<1>10. CASE PManageN
  BY <1>10 DEF PManageN, Manage
<1>11. CASE PRender
  BY <1>11 DEF PRender, Rendered
<1>12. CASE PManageAC
  BY <1>12 DEF PManageAC, Manage
<1>13. ASSUME NEW s \in Service, PDeploy(s) PROVE FinalizerInv'
  BY <1>13 DEF PDeploy
<1>14. ASSUME NEW s \in Service, PSkip(s) PROVE FinalizerInv'
  BY <1>14 DEF PSkip
<1>15. CASE PCleanup
  BY <1>15 DEF PCleanup
<1>16. CASE PFinalT
  BY <1>16, SecretAssumption
     DEF PFinalT, Finalize, Releases, Remove, TName, NName
<1>17. CASE PFinalN
  BY <1>17, SecretAssumption
     DEF PFinalN, NotifName, Finalize, Releases, Remove, TName, NName
<1>18. CASE PFinalNDisabled
  BY <1>18, SecretAssumption DEF PFinalNDisabled, Remove, TName, NName
<1>19. CASE PFinalAC
  BY <1>19 DEF PFinalAC, Finalize, Releases, Remove
<1>20. CASE PPruneT
  BY <1>20 DEF PPruneT, Prune, KeepT
<1>21. CASE PPruneAC
  BY <1>21 DEF PPruneAC, Prune
<1>22. ASSUME NEW x \in ACSecrets, PDelAC(x) PROVE FinalizerInv'
  BY <1>22 DEF PDelAC, Remove
<1>23. CASE PDelList
  BY <1>23 DEF PDelList
<1>24. ASSUME NEW x \in TransportSecrets \cup NotifSecrets, PDelT(x) PROVE FinalizerInv'
  BY <1>24 DEF PDelT, Remove
<1>25. CASE PDelPruneT
  BY <1>25 DEF PDelPruneT, Prune
<1>26. CASE PDelPruneAC
  BY <1>26 DEF PDelPruneAC, Prune
<1>27. CASE PPatch
  BY <1>27 DEF PPatch, PatchedCR, CinderCR, ParentIdle
<1>28. CASE PPatchGone
  BY <1>28 DEF PPatchGone, ParentIdle
<1>29. QED
  BY <1>1, <1>2, <1>3, <1>4, <1>5, <1>6, <1>7, <1>8, <1>9, <1>10, <1>11,
     <1>12, <1>13, <1>14, <1>15, <1>16, <1>17, <1>18, <1>19, <1>20, <1>21,
     <1>22, <1>23, <1>24, <1>25, <1>26, <1>27, <1>28 DEF ControllerStep

\* A child controller writes none of what the invariant speaks of.
LEMMA ServiceFinalizer ==
  ASSUME FinalizerInv, NEW s \in Service, ServiceStep(s)
  PROVE  FinalizerInv'
BY FinalizerFrame
   DEF ServiceStep, CFetchAbsent, CFetchNew, CFetchLive, CFetchDeleting,
       CRender, CRenderConflict, CDeployPatch, CDeployWait, CDeployCheck,
       CPatch, CPatchGone

\* Neither does the platform.
LEMMA PlatformFinalizer ==
  ASSUME FinalizerInv, PlatformStep
  PROVE  FinalizerInv'
BY FinalizerFrame
   DEF PlatformStep, ProvisionTransport, ProvisionNotif, StsSync, StsFinish,
       StsCollect, ChildCollect

\* A rotation or an edit of the spec does not concern it; the deletion of a
\* new CR finds nothing held.
LEMMA DisturbanceFinalizer ==
  ASSUME TypeOK, FinalizerInv, Disturbance
  PROVE  FinalizerInv'
<1>1. CASE DeleteCinder
  BY <1>1 DEF DeleteCinder, TypeOK, CinderCR, FinalizerInv, PhaseInv,
              OwnFinalizerInv, HeldInv, ConfigProtected, NormalPC, DeletePC
<1>2. ASSUME NEW x \in TransportSecrets, RotateTransport(x) PROVE FinalizerInv'
  BY <1>2, FinalizerFrame DEF RotateTransport
<1>3. ASSUME NEW x \in NotifSecrets, RotateNotif(x) PROVE FinalizerInv'
  BY <1>3, FinalizerFrame DEF RotateNotif
<1>4. ASSUME NEW x \in ACName, SetApplicationCredential(x) PROVE FinalizerInv'
  BY <1>4, FinalizerFrame DEF SetApplicationCredential, TypeOK, CinderCR
<1>5. CASE ToggleNotifications
  BY <1>5, FinalizerFrame DEF ToggleNotifications, TypeOK, CinderCR
<1>6. ASSUME NEW s \in Optional, ToggleService(s) PROVE FinalizerInv'
  BY <1>6, FinalizerFrame DEF ToggleService, TypeOK, CinderCR
<1>7. ASSUME NEW s \in Service, PodRestart(s) PROVE FinalizerInv'
  BY <1>7, FinalizerFrame DEF PodRestart
<1>8. QED
  BY <1>1, <1>2, <1>3, <1>4, <1>5, <1>6, <1>7 DEF Disturbance

\* A crash or an early return forgets what the reconcile had established, and
\* with it every obligation that was tied to its progress.
LEMMA FaultFinalizer ==
  ASSUME TypeOK, FinalizerInv, Fault
  PROVE  FinalizerInv'
<1>1. CASE Crash
  BY <1>1 DEF Crash, FinalizerInv, PhaseInv, OwnFinalizerInv, HeldInv,
              ConfigProtected, AfterManageT, AfterManageN, AfterRender,
              NormalPC, DeletePC, ParentIdle
<1>2. CASE PFail
  BY <1>2 DEF PFail, TypeOK, ParentLocal, FinalizerInv, PhaseInv,
              OwnFinalizerInv, HeldInv, ConfigProtected, AfterManageT,
              AfterManageN, AfterRender, NormalPC, DeletePC
<1>3. ASSUME NEW s \in Service, CFail(s) PROVE FinalizerInv'
  BY <1>3, FinalizerFrame DEF CFail
<1>4. QED
  BY <1>1, <1>2, <1>3 DEF Fault

\* The invariant is inductive.
LEMMA NextFinalizer == TypeOK /\ FinalizerInv /\ [Next]_vars => FinalizerInv'
<1> SUFFICES ASSUME TypeOK, FinalizerInv, [Next]_vars PROVE FinalizerInv'
  OBVIOUS
<1>1. CASE UNCHANGED vars
  BY <1>1, FinalizerFrame DEF vars
<1>2. CASE Next
  BY <1>2, ControllerFinalizer, ServiceFinalizer, PlatformFinalizer,
     DisturbanceFinalizer, FaultFinalizer DEF Next
<1>3. QED
  BY <1>1, <1>2

\* What a reconcile has established at each of its steps survives every
\* interleaving with the other controllers, the platform, the user, failed
\* calls and crashes.
THEOREM FinalizerInvariant == Spec => []FinalizerInv
<1>1. QED
  BY InitType, InitFinalizer, NextType, NextFinalizer, PTL DEF Spec

\* generateServiceConfigs never leaves in <cinder>-config-data a credential
\* without the consumer finalizer, as long as the CR is not being deleted.
THEOREM ConfigAlwaysProtected == Spec => []ConfigProtected
<1>1. FinalizerInv => ConfigProtected
  BY DEF FinalizerInv
<1>2. QED
  BY <1>1, FinalizerInvariant, PTL

\* reconcileDelete lets the CR go only when no Secret carries either of its
\* consumer finalizers any more.
THEOREM NoFinalizerLeaks == Spec => []NoLeakAfterDelete
<1>1. FinalizerInv => NoLeakAfterDelete
  BY DEF FinalizerInv, PhaseInv, NoLeakAfterDelete
<1>2. QED
  BY <1>1, FinalizerInvariant, PTL

----------------------------------------------------------------------------
(***************************************************************************)
(* Refinement: CinderOperator implements CredentialLease.  Only the Cinder *)
(* controller, and the deletion of the CR, do anything it can see.         *)
(***************************************************************************)
LeaseView == <<cr.phase, tfin, Leased>>

\* A new CR leases and uses nothing.
LEMMA InitLease == Init => Lease!Init
BY DEF Init, Lease!Init, Leased, NoConfig

\* What leaves the phase, the finalizers and the config alone is a stutter.
LEMMA LeaseFrame ==
  ASSUME cr'.phase = cr.phase, UNCHANGED <<tfin, config>>
  PROVE  UNCHANGED LeaseView
BY DEF LeaseView, Leased

\* Giving up finalizers is a release, since the config stays protected.
LEMMA ReleaseStep ==
  ASSUME TypeOK, ConfigProtected', cr.phase \in {"live", "deleting"},
         UNCHANGED <<cr, config>>, tfin' \subseteq tfin
  PROVE  Lease!Release
BY DEF Lease!Release, Lease!Alive, Leased, ConfigProtected

\* The reconciles that do something are those of a CR with our finalizer.
LEMMA WorkingPhase ==
  ASSUME TypeOK, FinalizerInv, par.pc \in NormalPC \cup DeletePC
  PROVE  cr.phase \in {"live", "deleting"}
BY DEF TypeOK, CinderCR, FinalizerInv, PhaseInv, NormalPC, DeletePC

\* A Secret is acquired by its name, which is known by then.
LEMMA AcquireStep ==
  ASSUME TypeOK, FinalizerInv, PManageT \/ PManageN
  PROVE  Lease!Acquire
<1>1. cr.phase \in {"live", "deleting"}
  BY WorkingPhase DEF PManageT, PManageN, NormalPC
<1>2. CASE PManageT
  <2>1. par.t \in TransportSecrets
    BY <1>2 DEF PManageT, TypeOK, ParentLocal, FinalizerInv, HeldInv, NormalPC,
                TName
  <2>2. tfin' = tfin \cup {par.t} /\ UNCHANGED <<cr, config>>
    BY <1>2 DEF PManageT, Manage
  <2> QED
    BY <1>1, <2>1, <2>2 DEF Lease!Acquire, Lease!Alive, Leased
<1>3. CASE PManageN
  <2>1. par.n \in NotifSecrets
    BY <1>3 DEF PManageN, TypeOK, ParentLocal, FinalizerInv, HeldInv, NName
  <2>2. tfin' = tfin \cup {par.n} /\ UNCHANGED <<cr, config>>
    BY <1>3 DEF PManageN, Manage
  <2> QED
    BY <1>1, <2>1, <2>2 DEF Lease!Acquire, Lease!Alive, Leased
<1>4. QED
  BY <1>2, <1>3

\* The config is rendered from Secrets that are held by then.
LEMMA UseStep ==
  ASSUME TypeOK, FinalizerInv, PRender
  PROVE  Lease!Use
<1>1. cr.phase \in {"live", "deleting"}
  BY WorkingPhase DEF PRender, NormalPC
<1>2. config'.t = par.t /\ config'.n = par.n /\ UNCHANGED <<cr, tfin>>
  BY DEF PRender, Rendered
<1>3. {par.t, par.n} \ {NoSecret} \subseteq tfin
  BY DEF PRender, FinalizerInv, HeldInv, AfterManageT, AfterManageN, NormalPC
<1>4. QED
  BY <1>1, <1>2, <1>3 DEF Lease!Use, Lease!Alive, Leased

\* The deferred patch adopts the CR, lets it go with no finalizer left, or
\* changes only status fields.
LEMMA PatchStep ==
  ASSUME TypeOK, FinalizerInv, PPatch
  PROVE  Lease!Next \/ UNCHANGED LeaseView
<1>1. cr \in CinderCR /\ par.fin \in {"keep", "add", "remove"}
  BY DEF TypeOK, ParentLocal
<1>2. CASE par.fin = "keep"
  <2>1. cr'.phase = cr.phase /\ UNCHANGED <<tfin, config>>
    BY <1>1, <1>2 DEF PPatch, PatchedCR, CinderCR
  <2> QED
    BY <2>1, LeaseFrame
<1>3. CASE par.fin = "add"
  <2>1. cr.phase = "new" /\ cr'.phase = "live" /\ UNCHANGED <<tfin, config>>
    BY <1>1, <1>3 DEF PPatch, PatchedCR, CinderCR, FinalizerInv,
                      OwnFinalizerInv
  <2> QED
    BY <2>1 DEF Lease!Next, Lease!Adopt, Leased
<1>4. CASE par.fin = "remove"
  <2>1. /\ cr.phase = "deleting" /\ tfin = {}
        /\ cr'.phase = "gone" /\ UNCHANGED <<tfin, config>>
    BY <1>1, <1>4 DEF PPatch, PatchedCR, CinderCR, FinalizerInv,
                      OwnFinalizerInv
  <2> QED
    BY <2>1 DEF Lease!Next, Lease!End, Leased
<1>5. QED
  BY <1>1, <1>2, <1>3, <1>4

\* Every step of the Cinder controller is a step of the lease or a stutter.
LEMMA ControllerLease ==
  ASSUME TypeOK, FinalizerInv, FinalizerInv', ControllerStep
  PROVE  Lease!Next \/ UNCHANGED LeaseView
<1>1. CASE PManageT \/ PManageN
  BY <1>1, AcquireStep DEF Lease!Next
<1>2. CASE PRender
  BY <1>2, UseStep DEF Lease!Next
<1>3. CASE PFinalT \/ PFinalN \/ PFinalNDisabled \/ PPruneT
  <2>1. tfin' \subseteq tfin /\ UNCHANGED <<cr, config>>
    BY <1>3 DEF PFinalT, PFinalN, PFinalNDisabled, PPruneT, Finalize, Remove,
                Prune
  <2>2. cr.phase \in {"live", "deleting"}
    BY <1>3, WorkingPhase DEF PFinalT, PFinalN, PFinalNDisabled, PPruneT,
                              NormalPC
  <2> QED
    BY <2>1, <2>2, ReleaseStep DEF FinalizerInv, Lease!Next
<1>4. ASSUME NEW x \in TransportSecrets \cup NotifSecrets, PDelT(x)
      PROVE  Lease!Next
  <2>1. tfin' \subseteq tfin /\ UNCHANGED <<cr, config>>
    BY <1>4 DEF PDelT, Remove
  <2>2. cr.phase \in {"live", "deleting"}
    BY <1>4, WorkingPhase DEF PDelT, DeletePC
  <2> QED
    BY <2>1, <2>2, ReleaseStep DEF FinalizerInv, Lease!Next
<1>5. CASE PDelPruneT
  <2>1. tfin' \subseteq tfin /\ UNCHANGED <<cr, config>>
    BY <1>5 DEF PDelPruneT, Prune
  <2>2. cr.phase \in {"live", "deleting"}
    BY <1>5, WorkingPhase DEF PDelPruneT, DeletePC
  <2> QED
    BY <2>1, <2>2, ReleaseStep DEF FinalizerInv, Lease!Next
<1>6. CASE PPatch
  BY <1>6, PatchStep
<1>7. CASE PFetchGone \/ PFetchNew \/ PFetchLive \/ PFetchDeleting
             \/ PTransportWait \/ PTransport \/ PNotifWait \/ PNotif
             \/ PManageAC
  BY <1>7, LeaseFrame
     DEF PFetchGone, PFetchNew, PFetchLive, PFetchDeleting, PTransportWait,
         PTransport, PNotifWait, PNotif, PManageAC
<1>8. CASE PCleanup \/ PFinalAC \/ PPruneAC \/ PDelList \/ PDelPruneAC
             \/ PPatchGone
  BY <1>8, LeaseFrame
     DEF PCleanup, PFinalAC, PPruneAC, PDelList, PDelPruneAC, PPatchGone
<1>9. ASSUME NEW s \in Service, PDeploy(s) \/ PSkip(s)
      PROVE  UNCHANGED LeaseView
  BY <1>9, LeaseFrame DEF PDeploy, PSkip
<1>10. ASSUME NEW x \in ACSecrets, PDelAC(x) PROVE UNCHANGED LeaseView
  BY <1>10, LeaseFrame DEF PDelAC
<1>11. QED
  BY <1>1, <1>2, <1>3, <1>4, <1>5, <1>6, <1>7, <1>8, <1>9, <1>10
     DEF ControllerStep

\* Child controllers and the platform do not touch the lease.
LEMMA OthersLease ==
  ASSUME (\E s \in Service : ServiceStep(s)) \/ PlatformStep \/ Fault
  PROVE  UNCHANGED LeaseView
<1>1. ASSUME NEW s \in Service, ServiceStep(s) PROVE UNCHANGED LeaseView
  BY <1>1, LeaseFrame
     DEF ServiceStep, CFetchAbsent, CFetchNew, CFetchLive, CFetchDeleting,
         CRender, CRenderConflict, CDeployPatch, CDeployWait, CDeployCheck,
         CPatch, CPatchGone
<1>2. CASE PlatformStep
  BY <1>2, LeaseFrame
     DEF PlatformStep, ProvisionTransport, ProvisionNotif, StsSync, StsFinish,
         StsCollect, ChildCollect
<1>3. CASE Fault
  BY <1>3, LeaseFrame DEF Fault, Crash, PFail, CFail
<1>4. QED
  BY <1>1, <1>2, <1>3

\* Of the disturbances only the deletion of the CR is visible.
LEMMA DisturbanceLease ==
  ASSUME TypeOK, FinalizerInv, Disturbance
  PROVE  Lease!Next \/ UNCHANGED LeaseView
<1>1. CASE DeleteCinder
  <2>1. /\ cr.phase \in {"new", "live"} /\ UNCHANGED <<tfin, config>>
        /\ cr'.phase = IF cr.phase = "new" THEN "gone" ELSE "deleting"
    BY <1>1 DEF DeleteCinder, TypeOK, CinderCR
  <2>2. cr.phase = "new" => tfin = {}
    BY DEF FinalizerInv, PhaseInv
  <2> QED
    BY <2>1, <2>2 DEF Lease!Next, Lease!Terminate, Lease!End, Leased
<1>2. ASSUME NEW x \in TransportSecrets, RotateTransport(x)
      PROVE  UNCHANGED LeaseView
  BY <1>2, LeaseFrame DEF RotateTransport
<1>3. ASSUME NEW x \in NotifSecrets, RotateNotif(x) PROVE UNCHANGED LeaseView
  BY <1>3, LeaseFrame DEF RotateNotif
<1>4. ASSUME NEW x \in ACName, SetApplicationCredential(x)
      PROVE  UNCHANGED LeaseView
  BY <1>4, LeaseFrame DEF SetApplicationCredential, TypeOK, CinderCR
<1>5. CASE ToggleNotifications
  BY <1>5, LeaseFrame DEF ToggleNotifications, TypeOK, CinderCR
<1>6. ASSUME NEW s \in Optional, ToggleService(s) PROVE UNCHANGED LeaseView
  BY <1>6, LeaseFrame DEF ToggleService, TypeOK, CinderCR
<1>7. ASSUME NEW s \in Service, PodRestart(s) PROVE UNCHANGED LeaseView
  BY <1>7, LeaseFrame DEF PodRestart
<1>8. QED
  BY <1>1, <1>2, <1>3, <1>4, <1>5, <1>6, <1>7 DEF Disturbance

\* Every step of the system maps to a step of the lease or to a stutter.
LEMMA NextLease ==
  TypeOK /\ FinalizerInv /\ [Next]_vars => [Lease!Next]_LeaseView
<1> SUFFICES ASSUME TypeOK, FinalizerInv, [Next]_vars
             PROVE  Lease!Next \/ UNCHANGED LeaseView
  OBVIOUS
<1>1. FinalizerInv'
  BY NextFinalizer
<1>2. CASE UNCHANGED vars
  BY <1>2, LeaseFrame DEF vars
<1>3. CASE Next
  BY <1>1, <1>3, ControllerLease, OthersLease, DisturbanceLease DEF Next
<1>4. QED
  BY <1>2, <1>3

\* The operator, with all its reconciles, retries and crashes, and for any
\* number of services and Secrets, implements the leases of CredentialLease.
THEOREM ImplementsLease == Spec => LeaseImplemented
<1>1. [Lease!Next]_LeaseView => [Lease!Next]_(Lease!lease)
  BY DEF LeaseView, Lease!lease
<1>2. QED
  BY InitType, InitFinalizer, InitLease, NextType, NextFinalizer, NextLease,
     <1>1, PTL DEF Spec, LeaseImplemented, Lease!Spec

=============================================================================
