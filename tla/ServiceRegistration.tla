------------------------ MODULE ServiceRegistration -------------------------
(***************************************************************************)
(* The life of one service CR as its own controller sees it: what the      *)
(* CinderAPI controller registers in Keystone, the Topology CR every       *)
(* service controller holds with a finalizer, the StatefulSet, the         *)
(* published readiness, and how deletion gives everything back.  The       *)
(* rotation of credentials is the subject of CinderService.                *)
(*                                                                         *)
(* A CR is of one of three kinds, which differ in what they register and   *)
(* in the order of reconcileDelete: "api", "worker" (CinderScheduler and   *)
(* CinderBackup) and "volume".                                             *)
(***************************************************************************)
EXTENDS Naturals, Sequences

CONSTANTS
  Kinds,       \* the kinds of CR that are checked
  Topologies,  \* the Topology CRs
  None,        \* no topologyRef or LastAppliedTopology, or no URL yet
  URLs,        \* what the endpoint overrides and TLS make the API's URL
  FirstURL,    \* the one the CR is created with: URLs differ in name only
  MaxEdits,    \* bound on edits of the spec
  MaxFaults    \* bound on failed calls, outages, operator crashes and lost
               \* status writes together

ASSUME KindAssumption == Kinds \subseteq {"api", "worker", "volume"}
ASSUME NoneAssumption == None \notin Topologies \cup URLs
ASSUME FirstURLAssumption == FirstURL \in URLs
ASSUME RegistrationBounds == MaxEdits \in Nat /\ MaxFaults \in Nat

VARIABLES
  kind,     \* the kind of the CR
  cr,       \* the CR: finalizer, spec and status
  rec,      \* the reconcile in progress
  ks,       \* the KeystoneService and KeystoneEndpoint CRs
  fins,     \* the finalizers this CR's controller has put on each Topology
  sts,      \* the StatefulSet
  tls,      \* the certificate Secret the spec names exists
  queued,   \* a request for the CR waits in the work queue
  edits, faults, crashes

vars == <<kind, cr, rec, ks, fins, sts, tls, queued, edits, faults, crashes>>
bounds == <<edits, faults, crashes>>
cluster == <<kind, cr, ks, fins, sts, tls>>

----------------------------------------------------------------------------
\* The Keystone services of the API, in the order they are registered.
keystoneServices == <<"block-storage", "cinderv3">>

KsName == {keystoneServices[i] : i \in DOMAIN keystoneServices}

TopoRef == Topologies \cup {None}

\* What a service controller can have put on a Topology: a finalizer named
\* after the CR, or one named after the backend of a volume.
FinalizerName == {"instance", "backend"}

\* A Keystone CR: absent, without conditions yet, not Ready, Ready; and whether
\* it carries the finalizer of the CinderAPI controller.
KsState == {"absent", "new", "pending", "ready"}
KsCR == [state : KsState, fin : BOOLEAN]

\* Per Keystone service: the KeystoneService and KeystoneEndpoint CRs, the URL
\* the second one asks for, and whether Keystone's catalogue has it.
KsEntry ==
  [svc : KsCR, ep : KsCR, url : URLs \cup {None}, listed : BOOLEAN]

NoKs == [svc |-> [state |-> "absent", fin |-> FALSE],
         ep  |-> [state |-> "absent", fin |-> FALSE],
         url |-> None, listed |-> FALSE]

Idle == [pc |-> "idle", topo |-> None, url |-> None, gen |-> 0,
         last |-> None, i |-> 1, fin |-> "keep", ready |-> FALSE,
         requeue |-> FALSE, svcReady |-> FALSE, epReady |-> FALSE]

PC == {"idle", "inputs", "expose", "ksservice", "ksendpoint", "release",
       "acquire", "deploy", "delendpoint", "delservice", "deltopo", "patch"}

Gens == 0..(MaxEdits + 2)

TypeOK ==
  /\ kind \in Kinds
  /\ cr \in [phase : {"new", "live", "deleting", "gone"}, topo : TopoRef,
             url : URLs, gen : Gens, obs : Gens, last : TopoRef,
             ready : BOOLEAN, svcReady : BOOLEAN, epReady : BOOLEAN]
  /\ rec \in [pc : PC, topo : TopoRef, url : URLs \cup {None},
              gen : Gens, last : TopoRef, i : 1..Len(keystoneServices),
              fin : {"keep", "add", "remove"}, ready : BOOLEAN,
              requeue : BOOLEAN, svcReady : BOOLEAN, epReady : BOOLEAN]
  /\ ks \in [KsName -> KsEntry]
  /\ fins \in [Topologies -> SUBSET FinalizerName]
  /\ sts \in [topo : TopoRef, state : {"absent", "rolling", "ready"}]
  /\ tls \in BOOLEAN /\ queued \in BOOLEAN
  /\ edits \in 0..MaxEdits /\ faults \in 0..MaxFaults
  /\ crashes \in 0..MaxFaults

Init ==
  /\ kind \in Kinds
  /\ cr \in [phase : {"new"}, topo : TopoRef, url : {FirstURL}, gen : {1},
             obs : {0}, last : {None}, ready : {FALSE},
             svcReady : {FALSE}, epReady : {FALSE}]
  /\ rec = Idle
  /\ ks = [k \in KsName |-> NoKs]
  /\ fins = [t \in Topologies |-> {}]
  /\ sts = [topo |-> None, state |-> "absent"]
  /\ tls \in BOOLEAN
  /\ queued = TRUE
  /\ edits = 0 /\ faults = 0 /\ crashes = 0

----------------------------------------------------------------------------
\* The reconcile.  Every step that calls the API server is a step of its own,
\* and the deferred patch ("patch") publishes what the reconcile has recorded.

At(pc) == rec.pc = pc

Goto(pc) == rec' = [rec EXCEPT !.pc = pc]

\* Return from the handler: with a requeue, or waiting for an event.
Return(requeue) == [rec EXCEPT !.pc = "patch", !.requeue = requeue]

\* Mutant: CinderAPI removes its own finalizer first, as the others do.
StartDeleteEarly(copy) ==
  [copy EXCEPT !.pc = IF kind = "api" THEN "delendpoint" ELSE "deltopo",
               !.fin = "remove"]

\* The first statements of reconcileDelete: every controller but that of
\* CinderAPI begins by removing its own finalizer.
StartDelete(copy) ==
  IF kind = "api" THEN [copy EXCEPT !.pc = "delendpoint"]
  ELSE [copy EXCEPT !.pc = "deltopo", !.fin = "remove"]

\* Reconcile: a CR without finalizer or conditions gets them and is published
\* at once; one that is being deleted goes to reconcileDelete.
Fetch ==
  /\ At("idle") /\ queued
  /\ queued' = FALSE
  /\ LET copy == [Idle EXCEPT !.topo = cr.topo, !.url = cr.url,
                              !.gen = cr.gen, !.last = cr.last]
     IN rec' = CASE cr.phase = "gone" -> Idle
                 [] cr.phase = "new" ->
                      [copy EXCEPT !.pc = "patch", !.fin = "add"]
                 [] cr.phase = "deleting" -> StartDelete(copy)
                 [] cr.phase = "live" -> [copy EXCEPT !.pc = "inputs"]
  /\ UNCHANGED <<cluster, bounds>>

\* reconcileNormal up to reconcileInit: the Secrets, the certificates, the
\* service's config Secret, the network attachments.  Without a certificate
\* Secret the handler returns with neither an error nor a requeue; the other
\* failures are those of CallFails.
Inputs ==
  /\ At("inputs")
  /\ IF tls THEN Goto(IF kind = "api" THEN "expose" ELSE "release")
            ELSE rec' = Return(FALSE)
  /\ UNCHANGED <<cluster, queued, bounds>>

\* reconcileInit, first half: the Kubernetes Services, and the URLs that
\* follow from them (status.APIEndpoints).
Expose ==
  /\ At("expose")
  /\ Goto("ksservice")
  /\ UNCHANGED <<cluster, queued, bounds>>

This == keystoneServices[rec.i]

\* CreateOrPatch of a Keystone CR: it gets our finalizer, and keeps the status
\* it has; a CR that is created has none.
Written(c) ==
  [state |-> IF c.state = "absent" THEN "new" ELSE c.state, fin |-> TRUE]

\* Whether the local condition is True after mirroring that of a Keystone CR: a
\* CR without conditions leaves it as the service before has set it.
Mirror(c, local) == c.state = "ready" \/ (c.state = "new" /\ local)

\* reconcileInit, KeystoneService: written with our finalizer and mirrored into
\* the one condition of both services.  The handler does not wait for Ready.
KsService ==
  /\ At("ksservice")
  /\ ks' = [ks EXCEPT ![This].svc = Written(ks[This].svc)]
  /\ rec' = [rec EXCEPT !.pc = "ksendpoint",
                        !.svcReady = Mirror(ks'[This].svc, rec.svcReady)]
  /\ queued' = (queued \/ ks' # ks)
  /\ UNCHANGED <<kind, cr, fins, sts, tls, bounds>>

\* Mutant: the loop runs once too often.
NextServiceOff ==
  IF rec.i <= Len(keystoneServices)
  THEN [rec EXCEPT !.pc = "ksservice", !.i = rec.i + 1]
  ELSE [rec EXCEPT !.pc = "release"]

\* After one service: the next one, or the Topology.
NextService ==
  IF rec.i < Len(keystoneServices)
  THEN [rec EXCEPT !.pc = "ksservice", !.i = rec.i + 1]
  ELSE [rec EXCEPT !.pc = "release"]

\* CreateOrPatch of the KeystoneEndpoint with these URLs.
Asked(entry, url) ==
  [entry EXCEPT !.ep = Written(entry.ep), !.url = url,
                !.listed = @ /\ entry.url = url]

\* Mutant: a Ready KeystoneEndpoint is not written again.
KsEndpointOnce ==
  /\ At("ksendpoint")
  /\ ks' = IF ks[This].ep.state = "ready" THEN ks
           ELSE [ks EXCEPT ![This] = Asked(@, rec.url)]
  /\ rec' = [NextService EXCEPT !.epReady = Mirror(ks'[This].ep, rec.epReady)]
  /\ queued' = (queued \/ ks' # ks)
  /\ UNCHANGED <<kind, cr, fins, sts, tls, bounds>>

\* reconcileInit, KeystoneEndpoint: written with the URLs just computed, and
\* mirrored.  Its status, also a Ready of the URLs before, is Keystone's.
KsEndpoint ==
  /\ At("ksendpoint")
  /\ ks' = [ks EXCEPT ![This] = Asked(@, rec.url)]
  /\ rec' = [NextService EXCEPT !.epReady = Mirror(ks'[This].ep, rec.epReady)]
  /\ queued' = (queued \/ ks' # ks)
  /\ UNCHANGED <<kind, cr, fins, sts, tls, bounds>>

\* Removing the finalizer of one name from the Topology a reference names.
Released(ref, name) ==
  [t \in Topologies |-> IF t = ref THEN fins[t] \ {name} ELSE fins[t]]

\* Mutant: a reference that was dropped is not released.
ReleaseReplaced ==
  /\ At("release")
  /\ fins' = IF rec.topo \in {rec.last, None} THEN fins
             ELSE Released(rec.last, "instance")
  /\ Goto("acquire")
  /\ UNCHANGED <<kind, cr, ks, sts, tls, queued, bounds>>

\* ensureTopology, first call: the Topology that was applied last and is no
\* longer referenced loses the finalizer.
Release ==
  /\ At("release")
  /\ fins' = IF rec.last = rec.topo THEN fins
             ELSE Released(rec.last, "instance")
  /\ Goto("acquire")
  /\ UNCHANGED <<kind, cr, ks, sts, tls, queued, bounds>>

\* ensureTopology, second call: the referenced Topology gets the finalizer,
\* and the reference becomes status.LastAppliedTopology.
Acquire ==
  /\ At("acquire")
  /\ fins' = [t \in Topologies |->
                IF t = rec.topo THEN fins[t] \cup {"instance"} ELSE fins[t]]
  /\ rec' = [rec EXCEPT !.pc = "deploy", !.last = rec.topo]
  /\ UNCHANGED <<kind, cr, ks, sts, tls, queued, bounds>>

\* reconcileNormal, the rest: the StatefulSet with the Topology's constraints;
\* Ready is marked True when the StatefulSet is ready for what was written.
Deploy ==
  /\ At("deploy")
  /\ LET same == sts.state # "absent" /\ sts.topo = rec.topo
     IN /\ sts' = IF same THEN sts
                  ELSE [topo |-> rec.topo, state |-> "rolling"]
        /\ rec' = [Return(~same) EXCEPT !.ready = sts'.state = "ready"]
        /\ queued' = (queued \/ ~same)
  /\ UNCHANGED <<kind, cr, ks, fins, tls, bounds>>

----------------------------------------------------------------------------
\* reconcileDelete.

\* Mutant: an endpoint that is not Ready is left alone.
DelReadyEndpoint ==
  /\ At("delendpoint")
  /\ ks' = IF ks[This].ep.state = "ready"
           THEN [ks EXCEPT ![This].ep.fin = FALSE] ELSE ks
  /\ queued' = (queued \/ ks' # ks)
  /\ Goto("delservice")
  /\ UNCHANGED <<kind, cr, fins, sts, tls, bounds>>

\* CinderAPI: the finalizer of the KeystoneEndpoint, if the CR is found.
DelEndpoint ==
  /\ At("delendpoint")
  /\ ks' = [ks EXCEPT ![This].ep.fin = FALSE]
  /\ queued' = (queued \/ ks' # ks)
  /\ Goto("delservice")
  /\ UNCHANGED <<kind, cr, fins, sts, tls, bounds>>

\* CinderAPI: the finalizer of the KeystoneService, and the next service.
DelService ==
  /\ At("delservice")
  /\ ks' = [ks EXCEPT ![This].svc.fin = FALSE]
  /\ queued' = (queued \/ ks' # ks)
  /\ rec' = IF rec.i < Len(keystoneServices)
            THEN [rec EXCEPT !.pc = "delendpoint", !.i = rec.i + 1]
            ELSE [rec EXCEPT !.pc = "deltopo"]
  /\ UNCHANGED <<kind, cr, fins, sts, tls, bounds>>

\* The name reconcileDelete uses for the Topology's finalizer.
ReleaseName == IF kind = "volume" THEN "backend" ELSE "instance"

\* EnsureDeletedTopologyRef, after which the API removes its own finalizer.
DelTopo ==
  /\ At("deltopo")
  /\ fins' = Released(rec.last, ReleaseName)
  /\ rec' = [Return(FALSE) EXCEPT !.fin = "remove"]
  /\ UNCHANGED <<kind, cr, ks, sts, tls, queued, bounds>>

\* The deferred PatchInstance: status and finalizer.  A CR that is deleted
\* and has no finalizer any more is gone; any change is an event.
Patched ==
  LET phase == CASE rec.fin = "remove" -> "gone"
                 [] rec.fin = "add" /\ cr.phase = "new" -> "live"
                 [] OTHER -> cr.phase
  IN [cr EXCEPT !.phase = phase, !.obs = rec.gen, !.last = rec.last,
                !.ready = rec.ready, !.svcReady = rec.svcReady,
                !.epReady = rec.epReady]

Patch ==
  /\ At("patch")
  /\ cr' = IF cr.phase = "gone" THEN cr ELSE Patched
  /\ queued' = (queued \/ rec.requeue \/ cr' # cr)
  /\ rec' = Idle
  /\ UNCHANGED <<kind, ks, fins, sts, tls, bounds>>

MayFail == faults + crashes < MaxFaults

\* A call fails, or what it waits for is not there yet: the handler returns
\* with a requeue, and the deferred patch still runs.  An error of Keystone's
\* CreateOrPatch, though not a requeue it asks for, makes the condition False.
CallFails ==
  /\ rec.pc \notin {"idle", "patch"}
  /\ MayFail
  /\ faults' = faults + 1
  /\ \E error \in BOOLEAN :
       rec' = [Return(TRUE) EXCEPT
                 !.svcReady = @ /\ ~(error /\ At("ksservice")),
                 !.epReady = @ /\ ~(error /\ At("ksendpoint"))]
  /\ UNCHANGED <<cluster, queued, edits, crashes>>

\* The operator restarts, or the deferred patch fails: what the reconcile has
\* not written is lost, and the CR is reconciled again.
Crash ==
  /\ rec.pc # "idle"
  /\ MayFail
  /\ crashes' = crashes + 1
  /\ rec' = Idle
  /\ queued' = TRUE
  /\ UNCHANGED <<cluster, edits, faults>>

Reconcile ==
  \/ Fetch \/ Inputs \/ Expose \/ KsService \/ KsEndpoint \/ Release
  \/ Acquire \/ Deploy \/ DelEndpoint \/ DelService \/ DelTopo \/ Patch

----------------------------------------------------------------------------
\* The rest of the cluster.

\* Mutant: the controller does not own the Keystone CRs.
ownsNothing == FALSE

\* SetupWithManager: the KeystoneService and KeystoneEndpoint CRs are owned,
\* and what the Keystone operator writes into them wakes the controller.
OwnsKeystone == TRUE

\* The Keystone operator gives the service's CR conditions, creates the service,
\* and then puts the endpoint asked for into the catalogue.
KsRegister(k) ==
  /\ \/ /\ ks[k].svc.state = "new"
        /\ ks' = [ks EXCEPT ![k].svc.state = "pending"]
     \/ /\ ks[k].svc.state = "pending"
        /\ ks' = [ks EXCEPT ![k].svc.state = "ready"]
     \/ /\ ks[k].svc.state = "ready" /\ ks[k].ep.state # "absent"
        /\ ~ks[k].listed
        /\ ks' = [ks EXCEPT ![k].ep.state = "ready", ![k].listed = TRUE]
  /\ queued' = (queued \/ OwnsKeystone)
  /\ UNCHANGED <<kind, cr, rec, fins, sts, tls, bounds>>

\* The garbage collector removes the CRs of an owner that is gone, once
\* nobody else's finalizer keeps them.
KsCollect(k) ==
  /\ cr.phase = "gone"
  /\ ks[k] # NoKs
  /\ ~ks[k].svc.fin /\ ~ks[k].ep.fin
  /\ ks' = [ks EXCEPT ![k] = NoKs]
  /\ UNCHANGED <<kind, cr, rec, fins, sts, tls, queued, bounds>>

\* The StatefulSet controller finishes a roll-out.
Rolled ==
  /\ sts.state = "rolling"
  /\ sts' = [sts EXCEPT !.state = "ready"]
  /\ queued' = TRUE
  /\ UNCHANGED <<kind, cr, rec, ks, fins, tls, bounds>>

\* Mutant: the Secret's field is not indexed.
findNothing == FALSE

\* SetupWithManager, findObjectsForSrc: the CRs whose spec names the Secret
\* that changed are enqueued.
findObjectsForSrc == cr.phase # "gone"

\* The certificate Secret appears.
CertAppears ==
  /\ ~tls
  /\ tls' = TRUE
  /\ queued' = (queued \/ findObjectsForSrc)
  /\ UNCHANGED <<kind, cr, rec, ks, fins, sts, bounds>>

\* An outage: Keystone loses an endpoint, or a Pod fails.
Outage ==
  /\ MayFail
  /\ faults' = faults + 1
  /\ \/ /\ \E k \in KsName :
             /\ ks[k].ep.state = "ready"
             /\ ks' = [ks EXCEPT ![k].ep.state = "pending", ![k].listed = FALSE]
        /\ UNCHANGED sts
     \/ /\ sts.state = "ready"
        /\ sts' = [sts EXCEPT !.state = "rolling"]
        /\ UNCHANGED ks
  /\ queued' = TRUE
  /\ UNCHANGED <<kind, cr, rec, fins, tls, edits, crashes>>

\* The parent controller, or a user, edits the spec.
Edit ==
  /\ cr.phase \in {"new", "live"}
  /\ edits < MaxEdits
  /\ edits' = edits + 1
  /\ \E t \in TopoRef, u \in URLs :
       /\ <<t, u>> # <<cr.topo, cr.url>>
       /\ kind # "api" => u = cr.url
       /\ cr' = [cr EXCEPT !.topo = t, !.url = u, !.gen = cr.gen + 1]
  /\ queued' = TRUE
  /\ UNCHANGED <<kind, rec, ks, fins, sts, tls, faults, crashes>>

\* The CR is deleted: at once when it has no finalizer.
Delete ==
  /\ cr.phase \in {"new", "live"}
  /\ cr' = [cr EXCEPT !.phase = IF cr.phase = "new" THEN "gone" ELSE "deleting",
                      !.gen = cr.gen + 1]
  /\ queued' = TRUE
  /\ UNCHANGED <<kind, rec, ks, fins, sts, tls, bounds>>

Next ==
  \/ Reconcile \/ CallFails \/ Crash
  \/ \E k \in KsName : KsRegister(k) \/ KsCollect(k)
  \/ Rolled \/ CertAppears \/ Outage \/ Edit \/ Delete

Spec == Init /\ [][Next]_vars

\* Work queue and workers keep running, and so do the controllers of Keystone,
\* of the StatefulSets and of garbage collection; certificates are issued.
Fairness ==
  /\ WF_vars(Reconcile)
  /\ WF_vars(\E k \in KsName : KsRegister(k))
  /\ WF_vars(\E k \in KsName : KsCollect(k))
  /\ WF_vars(Rolled) /\ WF_vars(CertAppears)

FairSpec == Spec /\ Fairness

----------------------------------------------------------------------------
\* Properties.

\* No request waits and no reconcile runs.
AtRest == rec.pc = "idle" /\ ~queued

\* reconcileDelete of CinderAPI gives back what reconcileInit took: when the
\* CR is gone, whatever failed or crashed on the way, no KeystoneService and
\* no KeystoneEndpoint keeps the operator's finalizer, which nobody else
\* would ever remove.
NoKeystoneLeak ==
  cr.phase = "gone" => \A k \in KsName : ~ks[k].svc.fin /\ ~ks[k].ep.fin

\* The endpoint of a service is held only while the service is: reconcileInit
\* writes the KeystoneService first and reconcileDelete releases it last, in
\* every interleaving with failed calls, crashes and deletion half way.
EndpointNeedsService ==
  \A k \in KsName : ks[k].ep.fin => ks[k].svc.fin

\* When nothing is left to do, a Ready service of the current generation is
\* what Ready promises: a StatefulSet rolled out with the Topology of the
\* spec, that Topology protected by the finalizer, and, for the API, every
\* Keystone CR written with our finalizer and asking for the URL of the spec.
\* It does not promise that Keystone has acted on them: IsReady looks at no
\* Keystone condition.
ReadyMeansRegistered ==
  (AtRest /\ cr.phase = "live" /\ cr.ready) =>
     /\ cr.obs = cr.gen
     /\ sts = [topo |-> cr.topo, state |-> "ready"]
     /\ cr.topo # None => "instance" \in fins[cr.topo]
     /\ kind = "api" => \A k \in KsName :
          ks[k].svc.fin /\ ks[k].ep.fin /\ ks[k].url = cr.url

\* The condition a CinderAPI should show: that of the last service whose CR
\* has conditions.
Shown(first, second) == Mirror(second, Mirror(first, FALSE))

\* The Keystone conditions of a Ready CinderAPI at rest are not left over from
\* an earlier state of the CRs: whatever Keystone does between the moment a
\* reconcile mirrors a CR and the moment its patch is written is picked up by
\* another reconcile.
KeystoneConditionsCurrent ==
  (AtRest /\ kind = "api" /\ cr.phase = "live" /\ cr.ready) =>
     LET ks1 == ks[keystoneServices[1]]  ks2 == ks[keystoneServices[2]]
     IN  /\ cr.svcReady <=> Shown(ks1.svc, ks2.svc)
         /\ cr.epReady <=> Shown(ks1.ep, ks2.ep)

\* The Topologies on which this CR's controller has a finalizer.
Held == {t \in Topologies : fins[t] # {}}

\* reconcileDelete removes the finalizer from the Topology CR ("Remove
\* finalizer on the Topology CR"), and ensureTopology from one the spec no
\* longer names: a CR that is gone holds none, and one at rest only that of
\* its spec.  What a crash between the finalizer and the status loses is
\* left out, and so is, for the controllers that remove their own finalizer
\* first, a failed call of the deletion.
NoTopologyLeak ==
  crashes = 0 =>
     /\ (cr.phase = "gone" /\ (kind = "api" \/ faults = 0)) => Held = {}
     /\ (AtRest /\ cr.phase = "live" /\ cr.ready) => Held \subseteq {cr.topo}

\* The service becomes Ready, the API also in Keystone's catalogue at the URL
\* of its spec and in its conditions; or everything it registered is taken back.
\* No request is lost, whatever the handler was waiting for when it returned.
InCatalogue ==
  /\ \A k \in KsName : ks[k].listed /\ ks[k].url = cr.url
  /\ cr.svcReady /\ cr.epReady

Settles ==
  <>[](IF cr.phase = "gone" THEN \A k \in KsName : ks[k] = NoKs
       ELSE /\ cr.phase = "live" /\ cr.ready /\ cr.obs = cr.gen
            /\ kind = "api" => InCatalogue)

=============================================================================
