---------------------- MODULE ServiceRegistrationProofs ---------------------
(***************************************************************************)
(* What the controllers of the services register they take back: proofs of *)
(* the safety of Keystone registration for any number of Topologies, URLs, *)
(* edits, failed calls, outages and crashes.                               *)
(***************************************************************************)
EXTENDS ServiceRegistration, TLAPS

NormalPC == {"inputs", "expose", "ksservice", "ksendpoint", "release",
             "acquire", "deploy"}

DeletePC == {"delendpoint", "delservice", "deltopo"}

\* Each edit is a new generation, and so is the deletion.
GenInv ==
  /\ cr.phase \in {"new", "live"} => cr.gen = edits + 1
  /\ cr.gen <= edits + 2

\* Where a reconcile can be, given the phase and the kind of the CR.
PcInv ==
  /\ rec.pc \in NormalPC => cr.phase \in {"live", "deleting"}
  /\ rec.pc \in DeletePC \/ rec.fin = "remove" => cr.phase = "deleting"
  /\ kind # "api" => rec.pc \notin {"expose", "ksservice", "ksendpoint",
                                    "delendpoint", "delservice"}
  /\ kind = "api" /\ rec.fin = "remove" => rec.pc = "patch"

\* No Keystone CR has our finalizer.
NoFins == \A k \in KsName : ~ks[k].svc.fin /\ ~ks[k].ep.fin

\* The first n services have been given back.
Clean(n) ==
  \A j \in 1..n : /\ ~ks[keystoneServices[j]].svc.fin
                  /\ ~ks[keystoneServices[j]].ep.fin

\* When nothing is held: before the CR is adopted, once it is gone, for the
\* kinds that register nothing, and before our own finalizer is removed.
FreeInv ==
  /\ cr.phase \in {"new", "gone"} \/ kind # "api" \/ rec.fin = "remove" => NoFins
  /\ rec.pc = "deltopo" => NoFins

\* What reconcileDelete has given back so far.
ReleaseInv ==
  /\ rec.pc \in {"delendpoint", "delservice"} => Clean(rec.i - 1)
  /\ rec.pc = "delservice" => ~ks[This].ep.fin

\* reconcileInit comes to a KeystoneEndpoint with the finalizer on its service.
ServiceInv == rec.pc = "ksendpoint" => ks[This].svc.fin

RegistrationInv ==
  /\ TypeOK
  /\ GenInv
  /\ PcInv
  /\ FreeInv
  /\ ReleaseInv
  /\ ServiceInv
  /\ EndpointNeedsService

----------------------------------------------------------------------------
\* The services of keystoneServices are numbered 1 and 2, and a step through
\* the numbers meets every name.
LEMMA ServiceNumbers ==
  /\ Len(keystoneServices) = 2
  /\ \A j \in 1..2 : keystoneServices[j] \in KsName
  /\ \A k \in KsName : \E j \in 1..2 : k = keystoneServices[j]
<1>1. keystoneServices = <<"block-storage", "cinderv3">>
  BY DEF keystoneServices
<1>2. Len(keystoneServices) = 2 /\ DOMAIN keystoneServices = 1..2
  BY <1>1
<1> QED BY <1>2 DEF KsName

\* The invariant holds when the CR is created.
LEMMA InitRegistration == Init => RegistrationInv
<1> SUFFICES ASSUME Init PROVE RegistrationInv
  OBVIOUS
<1> USE RegistrationBounds, NoneAssumption, FirstURLAssumption,
        ServiceNumbers DEF Init
<1>1. TypeOK
  <2>1. /\ kind \in Kinds /\ tls \in BOOLEAN /\ queued \in BOOLEAN
        /\ edits \in 0..MaxEdits /\ faults \in 0..MaxFaults
        /\ crashes \in 0..MaxFaults
    OBVIOUS
  <2>a. 0 \in Gens /\ 1 \in Gens
    BY DEF Gens
  <2>2. cr \in [phase : {"new", "live", "deleting", "gone"}, topo : TopoRef,
                url : URLs, gen : Gens, obs : Gens, last : TopoRef,
                ready : BOOLEAN, svcReady : BOOLEAN, epReady : BOOLEAN]
    BY <2>a DEF TopoRef
  <2>3. rec \in [pc : PC, topo : TopoRef, url : URLs \cup {None},
                 gen : Gens, last : TopoRef, i : 1..Len(keystoneServices),
                 fin : {"keep", "add", "remove"}, ready : BOOLEAN,
                 requeue : BOOLEAN, svcReady : BOOLEAN, epReady : BOOLEAN]
    BY <2>a DEF Idle, PC, TopoRef
  <2>4. ks \in [KsName -> KsEntry]
    BY DEF NoKs, KsCR, KsState, KsEntry
  <2>5. /\ fins \in [Topologies -> SUBSET FinalizerName]
        /\ sts \in [topo : TopoRef, state : {"absent", "rolling", "ready"}]
    BY DEF TopoRef
  <2> QED BY <2>1, <2>2, <2>3, <2>4, <2>5 DEF TypeOK
<1>2. GenInv /\ PcInv
  BY DEF GenInv, PcInv, Idle, NormalPC, DeletePC
<1>3. FreeInv /\ ReleaseInv /\ ServiceInv /\ EndpointNeedsService
  BY DEF FreeInv, ReleaseInv, ServiceInv, EndpointNeedsService, NoFins, NoKs,
         Idle, NormalPC
<1> QED BY <1>1, <1>2, <1>3 DEF RegistrationInv

----------------------------------------------------------------------------
\* Types.  The steps of the reconcile first, in the order of the handler.
CrType ==
  [phase : {"new", "live", "deleting", "gone"}, topo : TopoRef, url : URLs,
   gen : Gens, obs : Gens, last : TopoRef, ready : BOOLEAN,
   svcReady : BOOLEAN, epReady : BOOLEAN]

RecType ==
  [pc : PC, topo : TopoRef, url : URLs \cup {None}, gen : Gens,
   last : TopoRef, i : 1..2, fin : {"keep", "add", "remove"},
   ready : BOOLEAN, requeue : BOOLEAN, svcReady : BOOLEAN, epReady : BOOLEAN]

KsType == [KsName -> KsEntry]

\* A reconcile writes rec, queued, ks, fins, sts or cr, and nothing else; a
\* step that keeps their types keeps TypeOK.
LEMMA TypeParts ==
  ASSUME TypeOK, UNCHANGED <<kind, tls, bounds>>, queued' \in BOOLEAN,
         cr' \in CrType, rec' \in RecType, ks' \in KsType,
         fins' \in [Topologies -> SUBSET FinalizerName],
         sts' \in [topo : TopoRef, state : {"absent", "rolling", "ready"}]
  PROVE  TypeOK'
BY ServiceNumbers DEF TypeOK, CrType, RecType, KsType, bounds

\* TypeOK, part by part.
LEMMA TypeFacts ==
  ASSUME TypeOK
  PROVE  /\ cr \in CrType /\ rec \in RecType /\ ks \in KsType
         /\ fins \in [Topologies -> SUBSET FinalizerName]
         /\ sts \in [topo : TopoRef, state : {"absent", "rolling", "ready"}]
         /\ queued \in BOOLEAN
         /\ This \in KsName
         /\ Idle \in RecType
<1>1. Idle \in RecType
  BY RegistrationBounds DEF Idle, RecType, PC, TopoRef, Gens
<1>2. /\ cr \in CrType /\ rec \in RecType /\ ks \in KsType
      /\ fins \in [Topologies -> SUBSET FinalizerName]
      /\ sts \in [topo : TopoRef, state : {"absent", "rolling", "ready"}]
      /\ queued \in BOOLEAN
  BY ServiceNumbers DEF TypeOK, CrType, RecType, KsType
<1>3. This \in KsName
  BY <1>2, ServiceNumbers DEF This, RecType
<1> QED BY <1>1, <1>2, <1>3

\* The updates of rec, as records and without the state around them.
LEMMA RecUpdates ==
  ASSUME NEW r \in RecType
  PROVE  /\ \A pc \in PC : [r EXCEPT !.pc = pc] \in RecType
         /\ \A pc \in PC, j \in 1..2 : [r EXCEPT !.pc = pc, !.i = j] \in RecType
         /\ \A pc \in PC, t \in TopoRef :
              [r EXCEPT !.pc = pc, !.last = t] \in RecType
         /\ \A pc \in PC, f \in {"keep", "add", "remove"} :
              [r EXCEPT !.pc = pc, !.fin = f] \in RecType
         /\ \A pc \in PC, q \in BOOLEAN :
              [r EXCEPT !.pc = pc, !.requeue = q] \in RecType
         /\ \A b \in BOOLEAN : [r EXCEPT !.ready = b] \in RecType
         /\ \A b \in BOOLEAN : [r EXCEPT !.epReady = b] \in RecType
         /\ \A b, c \in BOOLEAN :
              [r EXCEPT !.svcReady = b, !.epReady = c] \in RecType
         /\ \A pc \in PC, b \in BOOLEAN :
              [r EXCEPT !.pc = pc, !.svcReady = b] \in RecType
         /\ \A f \in {"keep", "add", "remove"} : [r EXCEPT !.fin = f] \in RecType
BY DEF RecType

\* The labels of the two handlers are labels.
LEMMA Labels ==
  /\ NormalPC \subseteq PC /\ DeletePC \subseteq PC
  /\ "idle" \in PC /\ "patch" \in PC
BY DEF NormalPC, DeletePC, PC

\* A handler returns, or goes on to the next service.
LEMMA ReturnType ==
  ASSUME TypeOK
  PROVE  /\ \A b \in BOOLEAN : Return(b) \in RecType
         /\ NextService \in RecType
<1>1. rec \in RecType
  BY TypeFacts
<1>2. \A b \in BOOLEAN : Return(b) \in RecType
  BY <1>1, RecUpdates, Labels DEF Return
<1>3. rec.i < 2 => rec.i + 1 \in 1..2
  BY <1>1 DEF RecType
<1>4. NextService \in RecType
  BY <1>1, <1>3, RecUpdates, Labels, ServiceNumbers DEF NextService, NormalPC
<1> QED BY <1>2, <1>4

\* CreateOrPatch of a Keystone CR: our finalizer is on it, and a service's entry
\* differs from what it was in the endpoint alone.
LEMMA WrittenCR ==
  /\ \A c \in KsCR : Written(c) \in KsCR /\ Written(c).fin = TRUE
  /\ \A e \in KsEntry, u \in URLs \cup {None} :
       /\ Asked(e, u) \in KsEntry
       /\ Asked(e, u).svc = e.svc
       /\ Asked(e, u).ep.fin = TRUE
       /\ Asked(e, u).url = u
<1>1. \A c \in KsCR : Written(c) \in KsCR /\ Written(c).fin = TRUE
  BY DEF Written, KsCR, KsState
<1>2. ASSUME NEW e \in KsEntry, NEW u \in URLs \cup {None}
      PROVE  /\ Asked(e, u) \in KsEntry
             /\ Asked(e, u).svc = e.svc
             /\ Asked(e, u).ep.fin = TRUE
             /\ Asked(e, u).url = u
  <2>1. e.ep \in KsCR
    BY DEF KsEntry
  <2>2. /\ Asked(e, u).svc = e.svc
        /\ Asked(e, u).ep = Written(e.ep)
        /\ Asked(e, u).url = u
    BY DEF Asked, KsEntry
  <2>3. Asked(e, u) \in KsEntry
    BY <1>1, <2>1 DEF Asked, KsEntry
  <2> QED BY <1>1, <2>1, <2>2, <2>3
<1> QED BY <1>1, <1>2

\* The entry of one Keystone service is replaced.
LEMMA KsUpdates ==
  ASSUME ks \in KsType, NEW k \in KsName
  PROVE  /\ \A s \in KsCR : [ks EXCEPT ![k].svc = s] \in KsType
         /\ \A v \in KsEntry : [ks EXCEPT ![k] = v] \in KsType
         /\ \A b \in BOOLEAN : [ks EXCEPT ![k].svc.fin = b] \in KsType
         /\ \A b \in BOOLEAN : [ks EXCEPT ![k].ep.fin = b] \in KsType
         /\ \A x \in KsState : [ks EXCEPT ![k].svc.state = x] \in KsType
         /\ \A x \in KsState, b \in BOOLEAN :
              [ks EXCEPT ![k].ep.state = x, ![k].listed = b] \in KsType
         /\ [ks EXCEPT ![k] = NoKs] \in KsType
<1>1. ks[k] \in KsEntry
  BY DEF KsType
<1>2. \A v \in KsEntry : [ks EXCEPT ![k] = v] \in KsType
  BY DEF KsType
<1>3. \A s \in KsCR : [ks EXCEPT ![k].svc = s] \in KsType
  BY <1>1, <1>2 DEF KsEntry
<1>4. \A e \in KsCR, b \in BOOLEAN :
         /\ [ks[k] EXCEPT !.ep = e] \in KsEntry
         /\ [ks[k] EXCEPT !.svc = e] \in KsEntry
         /\ [ks[k] EXCEPT !.ep = e, !.listed = b] \in KsEntry
  BY <1>1 DEF KsEntry
<1>5. ks[k].svc \in KsCR /\ ks[k].ep \in KsCR
  BY <1>1 DEF KsEntry
<1>6. \A b \in BOOLEAN : /\ [ks[k].svc EXCEPT !.fin = b] \in KsCR
                         /\ [ks[k].ep EXCEPT !.fin = b] \in KsCR
  BY <1>5 DEF KsCR
<1>7. \A x \in KsState : /\ [ks[k].svc EXCEPT !.state = x] \in KsCR
                         /\ [ks[k].ep EXCEPT !.state = x] \in KsCR
  BY <1>5 DEF KsCR
<1>8. NoKs \in KsEntry
  BY DEF NoKs, KsCR, KsState, KsEntry
<1>9. \A b \in BOOLEAN : /\ [ks EXCEPT ![k].svc.fin = b] \in KsType
                         /\ [ks EXCEPT ![k].ep.fin = b] \in KsType
  BY <1>1, <1>2, <1>4, <1>6
<1>10. \A x \in KsState : [ks EXCEPT ![k].svc.state = x] \in KsType
  BY <1>1, <1>2, <1>4, <1>7
<1>11. ASSUME NEW x \in KsState, NEW b \in BOOLEAN
       PROVE  [ks EXCEPT ![k].ep.state = x, ![k].listed = b] \in KsType
  <2>1. [ks EXCEPT ![k].ep.state = x, ![k].listed = b]
          = [ks EXCEPT ![k] = [ks[k] EXCEPT !.ep = [ks[k].ep EXCEPT !.state = x],
                                            !.listed = b]]
    BY <1>1 DEF KsType, KsEntry
  <2> QED BY <1>2, <1>4, <1>7, <2>1
<1> QED BY <1>2, <1>3, <1>8, <1>9, <1>10, <1>11

\* Every step of the reconcile keeps the types.
LEMMA ReconcileType ==
  ASSUME TypeOK, Reconcile
  PROVE  TypeOK'
<1>0. /\ cr \in CrType /\ rec \in RecType /\ ks \in KsType
      /\ fins \in [Topologies -> SUBSET FinalizerName]
      /\ sts \in [topo : TopoRef, state : {"absent", "rolling", "ready"}]
      /\ queued \in BOOLEAN /\ This \in KsName /\ Idle \in RecType
  BY TypeFacts
<1>a. /\ \A pc \in PC : [rec EXCEPT !.pc = pc] \in RecType
      /\ \A pc \in PC, t \in TopoRef : [rec EXCEPT !.pc = pc, !.last = t] \in RecType
      /\ \A pc \in PC, j \in 1..2 : [rec EXCEPT !.pc = pc, !.i = j] \in RecType
  BY <1>0, RecUpdates
<1>b. \A b \in BOOLEAN : Return(b) \in RecType
  BY ReturnType
<1>c. \A b \in BOOLEAN :
        /\ \A c \in BOOLEAN : [Return(b) EXCEPT !.ready = c] \in RecType
        /\ [Return(b) EXCEPT !.fin = "remove"] \in RecType
  BY <1>b, RecUpdates
<1>d. /\ \A s \in KsCR : [ks EXCEPT ![This].svc = s] \in KsType
      /\ \A v \in KsEntry : [ks EXCEPT ![This] = v] \in KsType
      /\ [ks EXCEPT ![This].svc.fin = FALSE] \in KsType
      /\ [ks EXCEPT ![This].ep.fin = FALSE] \in KsType
  BY <1>0, KsUpdates
<1>e. ks[This] \in KsEntry /\ ks[This].svc \in KsCR
  BY <1>0 DEF KsType, KsEntry
<1> USE <1>0, Labels DEF NormalPC, DeletePC
<1>1. CASE Fetch
  <2> DEFINE copy == [Idle EXCEPT !.topo = cr.topo, !.url = cr.url,
                                  !.gen = cr.gen, !.last = cr.last]
  <2>1. copy \in RecType
    BY DEF RecType, CrType
  <2>2. /\ \A pc \in PC : [copy EXCEPT !.pc = pc] \in RecType
        /\ \A pc \in PC, f \in {"keep", "add", "remove"} :
              [copy EXCEPT !.pc = pc, !.fin = f] \in RecType
    BY <2>1, RecUpdates
  <2> HIDE DEF copy
  <2>3. StartDelete(copy) \in RecType
    BY <2>2 DEF StartDelete
  <2>4. rec' \in {Idle, [copy EXCEPT !.pc = "patch", !.fin = "add"],
                  StartDelete(copy), [copy EXCEPT !.pc = "inputs"]}
    BY <1>1 DEF Fetch, copy, CrType
  <2>5. [copy EXCEPT !.pc = "patch", !.fin = "add"] \in RecType
    BY <2>2 DEF PC
  <2>6. [copy EXCEPT !.pc = "inputs"] \in RecType
    BY <2>2 DEF PC
  <2>7. rec' \in RecType
    BY <1>0, <2>3, <2>4, <2>5, <2>6
  <2> QED BY <1>1, <2>7, TypeParts DEF Fetch, cluster
<1>2. CASE Inputs
  <2>1. rec' \in RecType
    BY <1>2, <1>a, <1>b DEF Inputs, Goto
  <2> QED BY <1>2, <2>1, TypeParts DEF Inputs, cluster
<1>3. CASE Expose
  <2>1. rec' \in RecType
    BY <1>3, <1>a DEF Expose, Goto
  <2> QED BY <1>3, <2>1, TypeParts DEF Expose, cluster
<1>4. CASE KsService
  <2>1. \A b \in BOOLEAN :
          [rec EXCEPT !.pc = "ksendpoint", !.svcReady = b] \in RecType
    BY RecUpdates DEF PC
  <2>2. Mirror(ks'[This].svc, rec.svcReady) \in BOOLEAN
    BY DEF Mirror
  <2>3. rec' \in RecType
    BY <1>4, <2>1, <2>2 DEF KsService
  <2>4. ks' \in KsType /\ queued' \in BOOLEAN
    BY <1>4, <1>d, <1>e, WrittenCR DEF KsService
  <2> QED BY <1>4, <2>3, <2>4, TypeParts DEF KsService
<1>5. CASE KsEndpoint
  <2>1. \A b \in BOOLEAN : [NextService EXCEPT !.epReady = b] \in RecType
    BY ReturnType, RecUpdates
  <2>2. Mirror(ks'[This].ep, rec.epReady) \in BOOLEAN
    BY DEF Mirror
  <2>3. rec' \in RecType
    BY <1>5, <2>1, <2>2 DEF KsEndpoint
  <2>4. rec.url \in URLs \cup {None}
    BY DEF RecType
  <2>5. ks' \in KsType /\ queued' \in BOOLEAN
    BY <1>5, <1>d, <1>e, <2>4, WrittenCR DEF KsEndpoint
  <2> QED BY <1>5, <2>3, <2>5, TypeParts DEF KsEndpoint
<1>6. CASE Release
  <2>1. rec' \in RecType
    BY <1>6, <1>a DEF Release, Goto
  <2>2. fins' \in [Topologies -> SUBSET FinalizerName]
    BY <1>6 DEF Release, Released
  <2> QED BY <1>6, <2>1, <2>2, TypeParts DEF Release
<1>7. CASE Acquire
  <2>1. rec.topo \in TopoRef
    BY DEF RecType
  <2>2. rec' \in RecType
    BY <1>7, <1>a, <2>1 DEF Acquire
  <2>3. fins' \in [Topologies -> SUBSET FinalizerName]
    BY <1>7 DEF Acquire, FinalizerName
  <2> QED BY <1>7, <2>2, <2>3, TypeParts DEF Acquire
<1>8. CASE Deploy
  <2>1. sts' \in [topo : TopoRef, state : {"absent", "rolling", "ready"}]
    BY <1>8 DEF Deploy, RecType
  <2>2. rec' \in RecType
    BY <1>8, <1>c DEF Deploy
  <2>3. queued' \in BOOLEAN
    BY <1>8 DEF Deploy
  <2> QED BY <1>8, <2>1, <2>2, <2>3, TypeParts DEF Deploy
<1>9. CASE DelEndpoint
  <2>1. rec' \in RecType
    BY <1>9, <1>a DEF DelEndpoint, Goto
  <2> QED BY <1>9, <1>d, <2>1, TypeParts DEF DelEndpoint
<1>10. CASE DelService
  <2>1. rec.i < 2 => rec.i + 1 \in 1..2
    BY DEF RecType
  <2>2. rec' \in RecType
    BY <1>10, <1>a, <2>1, ServiceNumbers DEF DelService
  <2> QED BY <1>10, <1>d, <2>2, TypeParts DEF DelService
<1>11. CASE DelTopo
  <2>1. rec' \in RecType
    BY <1>11, <1>c DEF DelTopo
  <2>2. fins' \in [Topologies -> SUBSET FinalizerName]
    BY <1>11 DEF DelTopo, Released
  <2> QED BY <1>11, <2>1, <2>2, TypeParts DEF DelTopo
<1>12. CASE Patch
  <2>1. cr' \in CrType
    BY <1>12 DEF Patch, Patched, CrType, RecType
  <2>2. queued' \in BOOLEAN
    BY <1>12 DEF Patch
  <2> QED BY <1>12, <2>1, <2>2, TypeParts DEF Patch
<1> QED
  BY <1>1, <1>2, <1>3, <1>4, <1>5, <1>6, <1>7, <1>8, <1>9, <1>10, <1>11, <1>12
  DEF Reconcile

\* The other steps, which also count edits, faults and crashes.
LEMMA OthersType ==
  ASSUME TypeOK, GenInv,
         \/ CallFails \/ Crash
         \/ \E k \in KsName : KsRegister(k) \/ KsCollect(k)
         \/ Rolled \/ CertAppears \/ Outage \/ Edit \/ Delete
  PROVE  TypeOK'
<1>0. /\ cr \in CrType /\ rec \in RecType /\ ks \in KsType
      /\ fins \in [Topologies -> SUBSET FinalizerName]
      /\ sts \in [topo : TopoRef, state : {"absent", "rolling", "ready"}]
      /\ queued \in BOOLEAN /\ Idle \in RecType
  BY TypeFacts
<1>a. /\ kind \in Kinds /\ tls \in BOOLEAN
      /\ edits \in 0..MaxEdits /\ faults \in 0..MaxFaults
      /\ crashes \in 0..MaxFaults
  BY DEF TypeOK
<1>b. ASSUME kind' = kind, tls' \in BOOLEAN, queued' \in BOOLEAN,
             edits' \in 0..MaxEdits, faults' \in 0..MaxFaults,
             crashes' \in 0..MaxFaults, cr' \in CrType, rec' \in RecType,
             ks' \in KsType, fins' = fins,
             sts' \in [topo : TopoRef, state : {"absent", "rolling", "ready"}]
      PROVE  TypeOK'
  BY <1>0, <1>a, <1>b, ServiceNumbers DEF TypeOK, CrType, RecType, KsType
<1> USE <1>0, <1>a, RegistrationBounds
<1>1. CASE CallFails
  <2>1. PICK error \in BOOLEAN :
          rec' = [Return(TRUE) EXCEPT
                    !.svcReady = @ /\ ~(error /\ At("ksservice")),
                    !.epReady = @ /\ ~(error /\ At("ksendpoint"))]
    BY <1>1 DEF CallFails
  <2>3. Return(TRUE) \in RecType
    BY ReturnType
  <2>4. /\ Return(TRUE).svcReady \in BOOLEAN
        /\ Return(TRUE).epReady \in BOOLEAN
    BY <2>3 DEF RecType
  <2>5. \A b, c \in BOOLEAN :
          [Return(TRUE) EXCEPT !.svcReady = b, !.epReady = c] \in RecType
    BY <2>3, RecUpdates
  <2>6. rec' \in RecType
    BY <2>1, <2>4, <2>5
  <2>7. faults + crashes < MaxFaults /\ faults' = faults + 1
    BY <1>1 DEF CallFails, MayFail
  <2>2. faults' \in 0..MaxFaults
    BY <2>7
  <2> QED BY <1>1, <1>b, <2>2, <2>6 DEF CallFails, cluster
<1>2. CASE Crash
  <2>1. crashes' \in 0..MaxFaults
    BY <1>2 DEF Crash, MayFail
  <2> QED BY <1>2, <1>b, <2>1 DEF Crash, cluster
<1>3. ASSUME NEW k \in KsName, KsRegister(k)
      PROVE  TypeOK'
  <2>1. ks' \in KsType
    BY <1>3, KsUpdates DEF KsRegister, KsState
  <2> QED BY <1>3, <1>b, <2>1 DEF KsRegister, bounds
<1>4. ASSUME NEW k \in KsName, KsCollect(k)
      PROVE  TypeOK'
  <2>1. ks' \in KsType
    BY <1>4, KsUpdates DEF KsCollect
  <2> QED BY <1>4, <1>b, <2>1 DEF KsCollect, bounds
<1>5. CASE Rolled
  <2>1. sts' \in [topo : TopoRef, state : {"absent", "rolling", "ready"}]
    BY <1>5 DEF Rolled
  <2> QED BY <1>5, <1>b, <2>1 DEF Rolled, bounds
<1>6. CASE CertAppears
  BY <1>6, <1>b DEF CertAppears, findObjectsForSrc, bounds
<1>7. CASE Outage
  <2>1. ks' \in KsType
    BY <1>7, KsUpdates DEF Outage, KsState
  <2>2. sts' \in [topo : TopoRef, state : {"absent", "rolling", "ready"}]
    BY <1>7 DEF Outage
  <2>3. faults' \in 0..MaxFaults
    BY <1>7 DEF Outage, MayFail
  <2> QED BY <1>7, <1>b, <2>1, <2>2, <2>3 DEF Outage
<1>8. CASE Edit
  <2>0. edits < MaxEdits /\ edits' = edits + 1 /\ cr.phase \in {"new", "live"}
    BY <1>8 DEF Edit
  <2>1. cr.gen + 1 \in Gens /\ edits' \in 0..MaxEdits
    BY <2>0 DEF GenInv, Gens
  <2>3. PICK t \in TopoRef, u \in URLs :
          cr' = [cr EXCEPT !.topo = t, !.url = u, !.gen = cr.gen + 1]
    BY <1>8 DEF Edit
  <2>2. cr' \in CrType
    BY <2>1, <2>3 DEF CrType
  <2> QED BY <1>8, <1>b, <2>1, <2>2 DEF Edit
<1>9. CASE Delete
  <2>1. cr.gen + 1 \in Gens
    BY <1>9 DEF Delete, GenInv, Gens
  <2>2. cr' \in CrType
    BY <1>9, <2>1 DEF Delete, CrType
  <2> QED BY <1>9, <1>b, <2>2 DEF Delete, bounds
<1> QED
  BY <1>1, <1>2, <1>3, <1>4, <1>5, <1>6, <1>7, <1>8, <1>9

\* Generations are counted by the edits and the deletion.
LEMMA GenStep ==
  ASSUME TypeOK, GenInv, [Next]_vars
  PROVE  GenInv'
<1>0. cr \in CrType /\ edits \in Nat /\ rec \in RecType
  BY TypeFacts, RegistrationBounds DEF TypeOK
<1> USE DEF GenInv
<1>1. CASE Edit
  BY <1>0, <1>1 DEF Edit, CrType, Gens
<1>2. CASE Delete
  BY <1>0, <1>2 DEF Delete, CrType, Gens, bounds
<1>3. CASE Patch
  <2>1. edits' = edits /\ cr'.gen = cr.gen
    BY <1>0, <1>3 DEF Patch, Patched, CrType, bounds
  <2>2. cr'.phase \in {"new", "live"} => cr.phase \in {"new", "live"}
    BY <1>0, <1>3 DEF Patch, Patched, CrType
  <2> QED BY <2>1, <2>2
<1>4. CASE UNCHANGED <<cr, edits>>
  BY <1>4
<1>5. [Next]_vars => Edit \/ Delete \/ Patch \/ UNCHANGED <<cr, edits>>
  BY DEF Next, Reconcile, Fetch, Inputs, Expose, KsService, KsEndpoint, Release,
         Acquire, Deploy, DelEndpoint, DelService, DelTopo, CallFails, Crash,
         KsRegister, KsCollect, Rolled, CertAppears, Outage, cluster, bounds, vars
<1> QED BY <1>1, <1>2, <1>3, <1>4, <1>5

----------------------------------------------------------------------------
(***************************************************************************)
(* The finalizers on the Keystone CRs.                                     *)
(***************************************************************************)
KeystoneInv == PcInv /\ FreeInv /\ ReleaseInv /\ ServiceInv /\ EndpointNeedsService

\* Nothing but the phase, the position of the reconcile and the Keystone CRs
\* matters, and of the Keystone CRs the finalizers.
SameKs ==
  \A k \in KsName :
     /\ ks'[k].svc.fin <=> ks[k].svc.fin
     /\ ks'[k].ep.fin <=> ks[k].ep.fin

\* The reconcile moves on within reconcileNormal, to a step that does not
\* register anything, or returns.
LEMMA Onward ==
  ASSUME TypeOK, KeystoneInv, kind' = kind, cr'.phase = cr.phase, SameKs,
         rec.pc \in NormalPC \cup DeletePC, rec'.fin = rec.fin, rec'.i \in 1..2,
         \/ rec'.pc = "patch"
         \/ rec.pc \in NormalPC /\ rec'.pc \in {"release", "acquire", "deploy"}
         \/ /\ rec.pc \in NormalPC /\ kind = "api"
            /\ rec'.pc \in {"expose", "ksservice"}
  PROVE  KeystoneInv'
<1>1. PcInv'
  BY DEF KeystoneInv, PcInv, NormalPC, DeletePC
<1>2. FreeInv'
  BY DEF KeystoneInv, FreeInv, NoFins, SameKs, NormalPC
<1>3. ReleaseInv' /\ ServiceInv' /\ EndpointNeedsService'
  BY DEF KeystoneInv, ReleaseInv, ServiceInv, EndpointNeedsService, SameKs,
         NormalPC
<1> QED BY <1>1, <1>2, <1>3 DEF KeystoneInv

\* The reconcile is over, or someone else acts.
LEMMA Elsewhere ==
  ASSUME TypeOK, KeystoneInv, kind' = kind, cr'.phase = cr.phase, SameKs,
         \/ rec'.pc = "idle" /\ rec'.fin = "keep"
         \/ rec' = rec
  PROVE  KeystoneInv'
<1>0. rec \in RecType /\ This \in KsName
  BY TypeFacts
<1>1. PcInv'
  BY DEF KeystoneInv, PcInv, NormalPC, DeletePC
<1>2. FreeInv'
  BY DEF KeystoneInv, FreeInv, NoFins, SameKs
<1>3. ServiceInv' /\ EndpointNeedsService'
  <2>1. CASE rec' = rec
    BY <1>0, <2>1 DEF KeystoneInv, ServiceInv, EndpointNeedsService, SameKs, This
  <2>2. CASE rec'.pc = "idle"
    BY <2>2 DEF KeystoneInv, ServiceInv, EndpointNeedsService, SameKs, NormalPC
  <2> QED BY <2>1, <2>2
<1>4. ReleaseInv'
  BY <1>0, ServiceNumbers DEF KeystoneInv, ReleaseInv, Clean, SameKs, This, RecType
<1> QED BY <1>1, <1>2, <1>3, <1>4 DEF KeystoneInv

\* reconcileNormal, reconcileInit, and a call that fails.
LEMMA NormalStep ==
  ASSUME TypeOK, KeystoneInv,
         \/ Inputs \/ Expose \/ KsService \/ KsEndpoint \/ Release \/ Acquire
         \/ Deploy \/ CallFails
  PROVE  KeystoneInv'
<1>0. rec \in RecType /\ ks \in KsType /\ This \in KsName
  BY TypeFacts
<1>a. UNCHANGED ks => SameKs
  BY DEF SameKs
<1>b. \A b \in BOOLEAN : /\ Return(b).pc = "patch"
                         /\ Return(b).fin = rec.fin /\ Return(b).i = rec.i
  BY <1>0 DEF Return, RecType
<1>c. \A pc \in PC : /\ [rec EXCEPT !.pc = pc].pc = pc
                     /\ [rec EXCEPT !.pc = pc].fin = rec.fin
                     /\ [rec EXCEPT !.pc = pc].i = rec.i
  BY <1>0 DEF RecType
<1>d. rec.i \in 1..2
  BY <1>0 DEF RecType
<1> USE DEF At
<1>1. CASE Inputs
  <2>1. /\ rec'.fin = rec.fin /\ rec'.i = rec.i
        /\ \/ rec'.pc = "patch"
           \/ rec'.pc = "release"
           \/ rec'.pc = "expose" /\ kind = "api"
    <3>1. \/ rec' = Return(FALSE)
          \/ rec' = [rec EXCEPT !.pc = "release"]
          \/ rec' = [rec EXCEPT !.pc = "expose"] /\ kind = "api"
      BY <1>1 DEF Inputs, Goto
    <3>2. "release" \in PC /\ "expose" \in PC
      BY DEF PC
    <3> QED BY <3>1, <3>2, <1>b, <1>c
  <2> QED BY <1>1, <1>a, <1>d, <2>1, Onward DEF Inputs, cluster, NormalPC
<1>2. CASE Expose
  <2>1. rec'.fin = rec.fin /\ rec'.i = rec.i /\ rec'.pc = "ksservice"
    BY <1>2, <1>c, Labels DEF Expose, Goto, NormalPC
  <2>2. kind = "api"
    BY <1>2 DEF Expose, KeystoneInv, PcInv
  <2> QED BY <1>2, <1>a, <1>d, <2>1, <2>2, Onward DEF Expose, cluster, NormalPC
<1>3. CASE KsService
  <2>0. /\ kind' = kind /\ cr' = cr /\ rec.pc = "ksservice"
        /\ kind = "api" /\ rec.fin # "remove"
        /\ cr.phase \in {"live", "deleting"}
    BY <1>3 DEF KsService, KeystoneInv, PcInv, NormalPC
  <2>1. rec'.pc = "ksendpoint" /\ rec'.fin = rec.fin /\ rec'.i = rec.i
    BY <1>0, <1>3 DEF KsService, RecType
  <2>2. /\ ks'[This].svc.fin
        /\ \A k \in KsName : /\ k # This => ks'[k] = ks[k]
                             /\ ks'[k].ep = ks[k].ep
    <3>1. ks' = [ks EXCEPT ![This].svc = Written(ks[This].svc)]
      BY <1>3 DEF KsService
    <3>2. ks[This] \in KsEntry /\ ks[This].svc \in KsCR
      BY <1>0 DEF KsType, KsEntry
    <3>3. ks'[This] = [ks[This] EXCEPT !.svc = Written(ks[This].svc)]
      BY <1>0, <3>1 DEF KsType
    <3>4. ks'[This].svc = Written(ks[This].svc) /\ ks'[This].ep = ks[This].ep
      BY <3>2, <3>3 DEF KsEntry
    <3>5. \A k \in KsName : k # This => ks'[k] = ks[k]
      BY <1>0, <3>1 DEF KsType
    <3> QED BY <3>2, <3>4, <3>5, WrittenCR
  <2>3. This' = This
    BY <2>1 DEF This
  <2>4. PcInv' /\ FreeInv'
    BY <2>0, <2>1 DEF KeystoneInv, PcInv, FreeInv, NormalPC, DeletePC
  <2>5. ReleaseInv' /\ ServiceInv' /\ EndpointNeedsService'
    BY <2>0, <2>1, <2>2, <2>3
    DEF KeystoneInv, ReleaseInv, ServiceInv, EndpointNeedsService
  <2> QED BY <2>4, <2>5 DEF KeystoneInv
<1>4. CASE KsEndpoint
  <2>0. /\ kind' = kind /\ cr' = cr /\ rec.pc = "ksendpoint"
        /\ kind = "api" /\ rec.fin # "remove"
        /\ cr.phase \in {"live", "deleting"} /\ ks[This].svc.fin
    BY <1>4 DEF KsEndpoint, KeystoneInv, PcInv, ServiceInv, NormalPC
  <2>1. rec'.fin = rec.fin /\ rec'.pc \in {"ksservice", "release"}
    <3>1. rec' = [NextService EXCEPT !.epReady = Mirror(ks'[This].ep, rec.epReady)]
      BY <1>4 DEF KsEndpoint
    <3>2. /\ NextService \in RecType /\ NextService.fin = rec.fin
          /\ NextService.pc \in {"ksservice", "release"}
      BY <1>0, ReturnType DEF NextService, RecType
    <3> QED BY <3>1, <3>2 DEF RecType
  <2>2. \A k \in KsName : /\ ks'[k].svc = ks[k].svc
                          /\ k # This => ks'[k] = ks[k]
    <3>1. ks' = [ks EXCEPT ![This] = Asked(ks[This], rec.url)]
      BY <1>4 DEF KsEndpoint
    <3>2. ks[This] \in KsEntry /\ rec.url \in URLs \cup {None}
      BY <1>0 DEF KsType, RecType
    <3>3. ks'[This].svc = ks[This].svc
      BY <1>0, <3>1, <3>2, WrittenCR DEF KsType
    <3>4. \A k \in KsName : k # This => ks'[k] = ks[k]
      BY <1>0, <3>1 DEF KsType
    <3> QED BY <3>3, <3>4
  <2>3. PcInv' /\ FreeInv'
    BY <2>0, <2>1 DEF KeystoneInv, PcInv, FreeInv, NormalPC, DeletePC
  <2>4. ReleaseInv' /\ ServiceInv' /\ EndpointNeedsService'
    BY <2>0, <2>1, <2>2
    DEF KeystoneInv, ReleaseInv, ServiceInv, EndpointNeedsService
  <2> QED BY <2>3, <2>4 DEF KeystoneInv
<1>5. CASE Release
  <2>1. rec'.fin = rec.fin /\ rec'.i = rec.i /\ rec'.pc = "acquire"
    BY <1>5, <1>c, Labels DEF Release, Goto, NormalPC
  <2> QED BY <1>5, <1>a, <1>d, <2>1, Onward DEF Release, NormalPC
<1>6. CASE Acquire
  <2>1. rec'.fin = rec.fin /\ rec'.i = rec.i /\ rec'.pc = "deploy"
    BY <1>0, <1>6 DEF Acquire, RecType
  <2> QED BY <1>6, <1>a, <1>d, <2>1, Onward DEF Acquire, NormalPC
<1>7. CASE Deploy
  <2>1. rec'.fin = rec.fin /\ rec'.i = rec.i /\ rec'.pc = "patch"
    BY <1>0, <1>7 DEF Deploy, Return, RecType
  <2> QED BY <1>7, <1>a, <1>d, <2>1, Onward DEF Deploy, NormalPC
<1>8. CASE CallFails
  <2>1. rec'.fin = rec.fin /\ rec'.i = rec.i /\ rec'.pc = "patch"
    BY <1>8, ReturnType, <1>b DEF CallFails, RecType
  <2>2. rec.pc \in NormalPC \cup DeletePC
    BY <1>0, <1>8 DEF CallFails, RecType, PC, NormalPC, DeletePC
  <2> QED BY <1>8, <1>a, <1>d, <2>1, <2>2, Onward DEF CallFails, cluster
<1> QED
  BY <1>1, <1>2, <1>3, <1>4, <1>5, <1>6, <1>7, <1>8

\* reconcileDelete gives back one service after the other.
LEMMA DeleteStep ==
  ASSUME TypeOK, KeystoneInv, DelEndpoint \/ DelService \/ DelTopo
  PROVE  KeystoneInv'
<1>0. rec \in RecType /\ ks \in KsType /\ This \in KsName /\ rec.i \in 1..2
  BY TypeFacts DEF RecType
<1>a. kind' = kind /\ cr' = cr /\ cr.phase = "deleting"
  BY DEF DelEndpoint, DelService, DelTopo, At, KeystoneInv, PcInv, DeletePC
<1> USE DEF At
<1>1. CASE DelEndpoint
  <2>0. rec.pc = "delendpoint" /\ kind = "api" /\ rec.fin # "remove"
    BY <1>1 DEF DelEndpoint, KeystoneInv, PcInv
  <2>1. rec'.pc = "delservice" /\ rec'.fin = rec.fin /\ rec'.i = rec.i
    BY <1>0, <1>1 DEF DelEndpoint, Goto, RecType
  <2>2. /\ ~ks'[This].ep.fin
        /\ \A k \in KsName : /\ ks'[k].svc.fin <=> ks[k].svc.fin
                             /\ ks'[k].ep.fin => ks[k].ep.fin
    <3>1. \A k \in KsName :
            ks'[k] = IF k = This THEN [ks[k] EXCEPT !.ep.fin = FALSE] ELSE ks[k]
      BY <1>0, <1>1 DEF DelEndpoint, KsType
    <3>2. \A k \in KsName :
            /\ ks[k].ep \in KsCR
            /\ ks[k] \in KsEntry
      BY <1>0 DEF KsType, KsEntry
    <3>6. ks'[This].ep = [ks[This].ep EXCEPT !.fin = FALSE]
      BY <1>0, <3>1, <3>2 DEF KsEntry
    <3>7. ks'[This].ep.fin = FALSE
      BY <1>0, <3>2, <3>6 DEF KsCR
    <3>3. ~ks'[This].ep.fin
      BY <3>7
    <3>4. \A k \in KsName : ks'[k].svc = ks[k].svc
      BY <3>1, <3>2 DEF KsEntry
    <3>5. \A k \in KsName : k # This => ks'[k] = ks[k]
      BY <3>1
    <3> QED BY <3>3, <3>4, <3>5
  <2>3. PcInv' /\ FreeInv'
    BY <1>a, <2>0, <2>1 DEF KeystoneInv, PcInv, FreeInv, NormalPC, DeletePC
  <2>4. Clean(rec.i - 1) /\ \A j \in 1..(rec.i - 1) : keystoneServices[j] \in KsName
    BY <1>0, <2>0, ServiceNumbers DEF KeystoneInv, ReleaseInv
  <2>5. ReleaseInv'
    BY <2>1, <2>2, <2>4 DEF ReleaseInv, Clean, This
  <2>6. ServiceInv' /\ EndpointNeedsService'
    BY <1>a, <2>1, <2>2
    DEF KeystoneInv, ServiceInv, EndpointNeedsService, NormalPC
  <2> QED BY <2>3, <2>5, <2>6 DEF KeystoneInv
<1>2. CASE DelService
  <2>0. /\ rec.pc = "delservice" /\ kind = "api" /\ rec.fin # "remove"
        /\ ~ks[This].ep.fin
    BY <1>2 DEF DelService, KeystoneInv, PcInv, ReleaseInv
  <2>1. /\ rec'.fin = rec.fin
        /\ \/ rec'.pc = "delendpoint" /\ rec'.i = rec.i + 1
           \/ rec'.pc = "deltopo" /\ rec.i = 2
    BY <1>0, <1>2, ServiceNumbers DEF DelService, RecType
  <2>2. /\ ~ks'[This].svc.fin
        /\ \A k \in KsName : /\ ks'[k].svc.fin => ks[k].svc.fin
                             /\ k = This \/ (ks'[k].svc.fin <=> ks[k].svc.fin)
                             /\ ks'[k].ep.fin <=> ks[k].ep.fin
    <3>1. \A k \in KsName :
            ks'[k] = IF k = This THEN [ks[k] EXCEPT !.svc.fin = FALSE] ELSE ks[k]
      BY <1>0, <1>2 DEF DelService, KsType
    <3>2. \A k \in KsName :
            /\ ks[k].svc \in KsCR
            /\ ks[k] \in KsEntry
      BY <1>0 DEF KsType, KsEntry
    <3>6. ks'[This].svc = [ks[This].svc EXCEPT !.fin = FALSE]
      BY <1>0, <3>1, <3>2 DEF KsEntry
    <3>7. ks'[This].svc.fin = FALSE
      BY <1>0, <3>2, <3>6 DEF KsCR
    <3>3. ~ks'[This].svc.fin
      BY <3>7
    <3>4. \A k \in KsName : ks'[k].ep = ks[k].ep
      BY <3>1, <3>2 DEF KsEntry
    <3>5. \A k \in KsName : k # This => ks'[k] = ks[k]
      BY <3>1
    <3> QED BY <3>3, <3>4, <3>5
  <2>3. PcInv'
    BY <1>a, <2>0, <2>1 DEF KeystoneInv, PcInv, NormalPC, DeletePC
  <2>4. \A j \in 1..rec.i : /\ ~ks'[keystoneServices[j]].svc.fin
                            /\ ~ks'[keystoneServices[j]].ep.fin
    <3>1. Clean(rec.i - 1) /\ \A j \in 1..rec.i : keystoneServices[j] \in KsName
      BY <1>0, <2>0, ServiceNumbers DEF KeystoneInv, ReleaseInv
    <3>2. ~ks'[This].svc.fin /\ ~ks'[This].ep.fin
      BY <1>0, <2>0, <2>2
    <3>3. \A j \in 1..(rec.i - 1) : /\ ~ks'[keystoneServices[j]].svc.fin
                                    /\ ~ks'[keystoneServices[j]].ep.fin
      BY <1>0, <2>2, <3>1 DEF Clean
    <3> QED BY <1>0, <3>2, <3>3 DEF This
  <2>5. rec'.pc = "deltopo" => NoFins'
    BY <2>1, <2>4, ServiceNumbers DEF NoFins
  <2>6. FreeInv'
    BY <1>a, <2>0, <2>1, <2>5 DEF KeystoneInv, FreeInv
  <2>7. ReleaseInv'
    <3>1. rec'.pc = "delendpoint" => rec'.i - 1 = rec.i
      BY <1>0, <2>1
    <3> QED BY <2>1, <2>4, <3>1 DEF ReleaseInv, Clean
  <2>8. ServiceInv'
    BY <1>a, <2>1 DEF ServiceInv, NormalPC
  <2>9. EndpointNeedsService'
    BY <2>0, <2>2 DEF KeystoneInv, EndpointNeedsService
  <2> QED BY <2>3, <2>6, <2>7, <2>8, <2>9 DEF KeystoneInv
<1>3. CASE DelTopo
  <2>1. rec.pc = "deltopo" /\ UNCHANGED ks /\ NoFins
    BY <1>3 DEF DelTopo, KeystoneInv, FreeInv
  <2>2. rec'.pc = "patch" /\ rec'.fin = "remove"
    BY <1>0, <1>3 DEF DelTopo, Return, RecType
  <2>3. PcInv' /\ FreeInv'
    BY <1>a, <2>1, <2>2 DEF PcInv, FreeInv, NoFins, NormalPC, DeletePC
  <2>4. ReleaseInv' /\ ServiceInv' /\ EndpointNeedsService'
    BY <1>a, <2>1, <2>2
    DEF KeystoneInv, ReleaseInv, ServiceInv, EndpointNeedsService, NormalPC
  <2> QED BY <2>3, <2>4 DEF KeystoneInv
<1> QED BY <1>1, <1>2, <1>3

\* Reconcile starts with a fresh copy of the CR.
LEMMA FetchStep ==
  ASSUME TypeOK, KeystoneInv, Fetch
  PROVE  KeystoneInv'
<1>0. /\ cr \in CrType
      /\ kind' = kind /\ cr' = cr /\ UNCHANGED ks
  BY TypeFacts DEF Fetch, cluster
<1>1. \/ rec'.pc = "idle" /\ rec'.fin = "keep"
      \/ rec'.pc = "patch" /\ rec'.fin = "add"
      \/ /\ cr.phase = "deleting" /\ kind = "api"
         /\ rec'.pc = "delendpoint" /\ rec'.fin = "keep" /\ rec'.i = 1
      \/ /\ cr.phase = "deleting" /\ kind # "api"
         /\ rec'.pc = "deltopo" /\ rec'.fin = "remove"
      \/ cr.phase = "live" /\ rec'.pc = "inputs" /\ rec'.fin = "keep"
  BY <1>0 DEF Fetch, StartDelete, Idle, CrType
<1>2. PcInv'
  BY <1>0, <1>1 DEF PcInv, NormalPC, DeletePC
<1>3. FreeInv'
  BY <1>0, <1>1 DEF KeystoneInv, FreeInv, NoFins
<1>4. ReleaseInv'
  BY <1>1 DEF ReleaseInv, Clean
<1>5. ServiceInv' /\ EndpointNeedsService'
  BY <1>0, <1>1 DEF KeystoneInv, ServiceInv, EndpointNeedsService, NormalPC
<1> QED BY <1>2, <1>3, <1>4, <1>5 DEF KeystoneInv

\* The deferred patch: the CR is adopted, or goes once nothing is held.
LEMMA PatchKeystone ==
  ASSUME TypeOK, KeystoneInv, Patch
  PROVE  KeystoneInv'
<1>0. /\ cr \in CrType /\ rec \in RecType
      /\ kind' = kind /\ UNCHANGED ks
      /\ rec'.pc = "idle" /\ rec'.fin = "keep"
  BY TypeFacts DEF Patch, Idle
<1>1. \/ cr'.phase = cr.phase
      \/ cr'.phase = "gone" /\ rec.fin = "remove"
      \/ cr'.phase = "live" /\ cr.phase = "new"
  BY <1>0 DEF Patch, Patched, CrType
<1>2. PcInv'
  BY <1>0 DEF PcInv, NormalPC, DeletePC
<1>3. FreeInv'
  BY <1>0, <1>1 DEF KeystoneInv, FreeInv, NoFins
<1>4. ReleaseInv' /\ ServiceInv' /\ EndpointNeedsService'
  BY <1>0, <1>1
  DEF KeystoneInv, ReleaseInv, ServiceInv, EndpointNeedsService, NormalPC
<1> QED BY <1>2, <1>3, <1>4 DEF KeystoneInv

\* The rest of the cluster never touches our finalizers, and collects only
\* what is free.
LEMMA ClusterKeystone ==
  ASSUME TypeOK, KeystoneInv,
         \/ Crash \/ \E k \in KsName : KsRegister(k) \/ KsCollect(k)
         \/ Rolled \/ CertAppears \/ Outage \/ Edit \/ Delete
  PROVE  KeystoneInv'
<1>0. cr \in CrType /\ rec \in RecType /\ ks \in KsType
  BY TypeFacts
<1>a. UNCHANGED ks => SameKs
  BY DEF SameKs
<1>b. \A k \in KsName : ks[k] \in KsEntry
  BY <1>0 DEF KsType
<1>1. CASE Crash
  BY <1>1, <1>a, Elsewhere DEF Crash, Idle, cluster
<1>2. ASSUME NEW k \in KsName, KsRegister(k)
      PROVE  KeystoneInv'
  <2>1. /\ \A j \in KsName : j # k => ks'[j] = ks[j]
        /\ ks'[k].svc.fin = ks[k].svc.fin /\ ks'[k].ep.fin = ks[k].ep.fin
    <3>1. ASSUME NEW x \in KsState, ks' = [ks EXCEPT ![k].svc.state = x]
          PROVE  ks'[k].svc.fin = ks[k].svc.fin /\ ks'[k].ep.fin = ks[k].ep.fin
      BY <1>0, <1>b, <3>1 DEF KsType, KsEntry, KsCR
    <3>2. ASSUME ks' = [ks EXCEPT ![k].ep.state = "ready", ![k].listed = TRUE]
          PROVE  ks'[k].svc.fin = ks[k].svc.fin /\ ks'[k].ep.fin = ks[k].ep.fin
      BY <1>0, <1>b, <3>2 DEF KsType, KsEntry, KsCR
    <3>3. \A j \in KsName : j # k => ks'[j] = ks[j]
      BY <1>0, <1>2 DEF KsRegister, KsType
    <3> QED BY <1>2, <3>1, <3>2, <3>3 DEF KsRegister, KsState
  <2>2. SameKs
    BY <2>1 DEF SameKs
  <2> QED BY <1>2, <2>2, Elsewhere DEF KsRegister
<1>3. ASSUME NEW k \in KsName, KsCollect(k)
      PROVE  KeystoneInv'
  <2>0. cr.phase = "gone" /\ cr' = cr /\ rec' = rec /\ kind' = kind /\ NoFins
    BY <1>3 DEF KsCollect, KeystoneInv, FreeInv
  <2>1. ks' = [ks EXCEPT ![k] = NoKs]
    BY <1>3 DEF KsCollect
  <2>2. \A j \in KsName : ks'[j] = ks[j] \/ ks'[j] = NoKs
    BY <1>0, <2>1 DEF KsType
  <2>3. ~NoKs.svc.fin /\ ~NoKs.ep.fin
    BY DEF NoKs
  <2>4. NoFins'
    BY <2>0, <2>2, <2>3 DEF NoFins
  <2>5. rec.pc \notin NormalPC \cup DeletePC /\ rec.fin # "remove"
    BY <2>0 DEF KeystoneInv, PcInv
  <2>6. PcInv' /\ FreeInv' /\ EndpointNeedsService'
    BY <2>0, <2>4
    DEF KeystoneInv, PcInv, FreeInv, NoFins, EndpointNeedsService
  <2>7. ReleaseInv' /\ ServiceInv'
    BY <2>0, <2>5 DEF ReleaseInv, ServiceInv, NormalPC, DeletePC
  <2> QED BY <2>6, <2>7 DEF KeystoneInv
<1>4. CASE Rolled
  BY <1>4, <1>a, Elsewhere DEF Rolled
<1>5. CASE CertAppears
  BY <1>5, <1>a, Elsewhere DEF CertAppears
<1>6. CASE Outage
  <2>1. SameKs
    <3>1. CASE UNCHANGED ks
      BY <3>1, <1>a
    <3>2. ASSUME NEW k \in KsName,
                 ks' = [ks EXCEPT ![k].ep.state = "pending", ![k].listed = FALSE]
          PROVE  SameKs
      <4>1. \A j \in KsName : j # k => ks'[j] = ks[j]
        BY <1>0, <3>2 DEF KsType
      <4>2. ks'[k].svc = ks[k].svc /\ ks'[k].ep.fin = ks[k].ep.fin
        BY <1>0, <1>b, <3>2 DEF KsType, KsEntry, KsCR
      <4> QED BY <4>1, <4>2 DEF SameKs
    <3> QED BY <1>6, <3>1, <3>2 DEF Outage
  <2> QED BY <1>6, <2>1, Elsewhere DEF Outage
<1>7. CASE Edit
  <2>1. cr'.phase = cr.phase
    BY <1>0, <1>7 DEF Edit, CrType
  <2> QED BY <1>7, <1>a, <2>1, Elsewhere DEF Edit
<1>8. CASE Delete
  <2>0. kind' = kind /\ UNCHANGED <<ks, rec>>
    BY <1>8 DEF Delete
  <2>1. \/ cr.phase = "new" /\ cr'.phase = "gone"
        \/ cr.phase = "live" /\ cr'.phase = "deleting"
    BY <1>0, <1>8 DEF Delete, CrType
  <2>2. PcInv'
    BY <2>0, <2>1 DEF KeystoneInv, PcInv, NormalPC, DeletePC
  <2>3. FreeInv'
    BY <2>0, <2>1 DEF KeystoneInv, FreeInv, NoFins
  <2>4. ReleaseInv' /\ EndpointNeedsService'
    BY <2>0 DEF KeystoneInv, ReleaseInv, Clean, EndpointNeedsService, This
  <2>5. ServiceInv'
    BY <2>0, <2>1 DEF KeystoneInv, ServiceInv, This
  <2> QED BY <2>2, <2>3, <2>4, <2>5 DEF KeystoneInv
<1> QED
  BY <1>1, <1>2, <1>3, <1>4, <1>5, <1>6, <1>7, <1>8

----------------------------------------------------------------------------
\* Every step keeps the invariant.
LEMMA RegistrationStep ==
  ASSUME RegistrationInv, [Next]_vars
  PROVE  RegistrationInv'
<1>0. TypeOK /\ GenInv /\ KeystoneInv
  BY DEF RegistrationInv, KeystoneInv
<1>1. TypeOK'
  <2>1. CASE Next
    BY <1>0, <2>1, ReconcileType, OthersType DEF Next
  <2>2. CASE UNCHANGED vars
    BY <1>0, <2>2 DEF vars, TypeOK
  <2> QED BY <2>1, <2>2
<1>2. GenInv'
  BY <1>0, GenStep
<1>3. KeystoneInv'
  <2>1. CASE Next
    BY <1>0, <2>1, NormalStep, DeleteStep, FetchStep, PatchKeystone,
       ClusterKeystone
    DEF Next, Reconcile
  <2>2. CASE UNCHANGED vars
    <3>1. SameKs
      BY <2>2 DEF SameKs, vars
    <3> QED BY <1>0, <2>2, <3>1, Elsewhere DEF vars
  <2> QED BY <2>1, <2>2
<1> QED BY <1>1, <1>2, <1>3 DEF RegistrationInv, KeystoneInv

\* The invariant: types, generations, where a reconcile can be, and what it
\* holds of Keystone at each point of reconcileInit and reconcileDelete.
THEOREM RegistrationInvariant == Spec => []RegistrationInv
<1>1. Init => RegistrationInv
  BY InitRegistration
<1>2. RegistrationInv /\ [Next]_vars => RegistrationInv'
  BY RegistrationStep
<1> QED BY <1>1, <1>2, PTL DEF Spec

\* Type correctness of the model of a service controller.
THEOREM RegistrationTypes == Spec => []TypeOK
<1>1. RegistrationInv => TypeOK
  BY DEF RegistrationInv
<1> QED BY <1>1, RegistrationInvariant, PTL

\* reconcileDelete of CinderAPI gives back every finalizer that reconcileInit
\* put on a KeystoneService or KeystoneEndpoint before the CR can go, whatever
\* fails and whenever the operator crashes.
THEOREM KeystoneReleased == Spec => []NoKeystoneLeak
<1>1. RegistrationInv => NoKeystoneLeak
  BY DEF RegistrationInv, FreeInv, NoFins, NoKeystoneLeak
<1> QED BY <1>1, RegistrationInvariant, PTL

\* A KeystoneEndpoint has our finalizer only while its KeystoneService has:
\* reconcileInit takes the service first and reconcileDelete releases it last.
THEOREM ServiceOutlivesEndpoint == Spec => []EndpointNeedsService
<1>1. RegistrationInv => EndpointNeedsService
  BY DEF RegistrationInv
<1> QED BY <1>1, RegistrationInvariant, PTL

=============================================================================
