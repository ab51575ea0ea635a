------------------------- MODULE ServiceReadyProofs -------------------------
(***************************************************************************)
(* What a service CR at rest stands for: proofs that it holds no Topology  *)
(* but that of its spec, and that Ready means what it says, for any number *)
(* of Topologies, URLs, edits, failed calls, outages and crashes.          *)
(***************************************************************************)
EXTENDS ServiceRegistrationProofs

----------------------------------------------------------------------------
\* The Topologies held are the one the status of the CR names or, while a
\* reconcile runs, the one it will publish; none before the CR is adopted,
\* and none once the Topology has been given back.  Without crashes: what a
\* lost status patch forgets is not found again.
TopologyInv ==
  /\ cr.phase = "new" => Held = {}
  /\ cr.phase = "gone" /\ (kind = "api" \/ faults = 0) => Held = {}
  /\ rec.pc = "idle" /\ cr.phase # "gone" => Held \subseteq {cr.last}
  /\ rec.pc # "idle" => Held \subseteq {rec.last}
  /\ rec.pc = "acquire" => Held \subseteq {rec.topo}
  /\ rec.pc = "patch" /\ rec.fin = "remove" /\ (kind = "api" \/ faults = 0) =>
       Held = {}

\* The reconcile in progress: what its copy of the spec and its findings are
\* worth as long as no request is queued.
Fresh == rec.topo = cr.topo /\ rec.url = cr.url /\ rec.gen = cr.gen

\* Both Keystone CRs of service k are written, with our finalizer and for url.
Registered(k, url) == ks[k].svc.fin /\ ks[k].ep.fin /\ ks[k].url = url

\* Whether a condition is True once the CRs of the first n services have been
\* mirrored into it.
SvcAfter(n) ==
  IF n = 0 THEN FALSE
  ELSE IF n = 1 THEN Mirror(ks[keystoneServices[1]].svc, FALSE)
  ELSE Shown(ks[keystoneServices[1]].svc, ks[keystoneServices[2]].svc)

EpAfter(n) ==
  IF n = 0 THEN FALSE
  ELSE IF n = 1 THEN Mirror(ks[keystoneServices[1]].ep, FALSE)
  ELSE Shown(ks[keystoneServices[1]].ep, ks[keystoneServices[2]].ep)

\* What a reconcile of the API has mirrored at each point.
Mirrored ==
  /\ rec.pc \in {"inputs", "expose", "ksservice"} =>
       (rec.svcReady <=> SvcAfter(rec.i - 1)) /\ (rec.epReady <=> EpAfter(rec.i - 1))
  /\ rec.pc = "ksendpoint" =>
       (rec.svcReady <=> SvcAfter(rec.i)) /\ (rec.epReady <=> EpAfter(rec.i - 1))
  /\ rec.pc \in {"release", "acquire", "deploy"} \/ rec.ready =>
       (rec.svcReady <=> SvcAfter(2)) /\ (rec.epReady <=> EpAfter(2))

\* The services registered when a reconcile of the API is at this point.
Passed ==
  IF rec.pc \in {"inputs", "expose", "ksservice", "ksendpoint"}
  THEN {keystoneServices[j] : j \in 1..(rec.i - 1)}
  ELSE IF rec.pc \in {"release", "acquire", "deploy"} \/ rec.ready
  THEN KsName ELSE {}

\* What a CR that says Ready at rest promises.
Promise ==
  /\ cr.last = cr.topo
  /\ cr.obs = cr.gen
  /\ sts = [topo |-> cr.topo, state |-> "ready"]
  /\ cr.topo # None => "instance" \in fins[cr.topo]
  /\ kind = "api" =>
       /\ \A k \in KsName : Registered(k, cr.url)
       /\ cr.svcReady <=> SvcAfter(2)
       /\ cr.epReady <=> EpAfter(2)

\* As long as no request is queued, all that was found out still holds.
SettledInv ==
  /\ rec.pc # "idle" => Fresh
  /\ kind = "api" => \A k \in Passed : Registered(k, rec.url)
  /\ kind = "api" => Mirrored
  /\ rec.ready => sts = [topo |-> rec.topo, state |-> "ready"]
  /\ AtRest /\ cr.phase = "live" /\ cr.ready => Promise

\* A reconcile decides on Ready last, with the Topology of its copy held and
\* recorded; our own finalizer goes with the last patch.
ServiceReadyInv ==
  /\ \A t \in Topologies : fins[t] \subseteq {"instance"}
  /\ rec.ready => rec.pc = "patch" /\ cr.phase \in {"live", "deleting"}
  /\ rec.pc \in {"inputs", "expose"} => rec.i = 1
  /\ rec.fin = "remove" => rec.pc \in {"deltopo", "patch"}
  /\ rec.pc = "deploy" \/ rec.ready =>
       /\ rec.last = rec.topo
       /\ rec.topo # None => "instance" \in fins[rec.topo]
  /\ ~queued => SettledInv
  /\ kind # "volume" /\ crashes = 0 => TopologyInv

----------------------------------------------------------------------------
\* The invariant holds when the CR is created, and without a step.
LEMMA InitServiceReady == Init => ServiceReadyInv
<1> SUFFICES ASSUME Init PROVE ServiceReadyInv
  OBVIOUS
<1>1. rec.pc = "idle" /\ rec.fin = "keep" /\ rec.ready = FALSE /\ queued
  BY DEF Init, Idle
<1>2. cr.phase = "new" /\ \A t \in Topologies : fins[t] = {}
  BY DEF Init
<1>3. Held = {}
  BY <1>2 DEF Held
<1> QED BY <1>1, <1>2, <1>3 DEF ServiceReadyInv, TopologyInv

\* What changes no variable keeps the invariant.
LEMMA StutterServiceReady ==
  ASSUME ServiceReadyInv, UNCHANGED vars
  PROVE  ServiceReadyInv'
<1>1. SettledInv => SettledInv'
  <2>1. Mirrored => Mirrored'
    BY DEF vars, Mirrored, SvcAfter, EpAfter
  <2>2. Promise => Promise'
    BY DEF vars, Promise, Registered, SvcAfter, EpAfter
  <2>3. Passed' = Passed /\ \A k, u : Registered(k, u) <=> Registered(k, u)'
    BY DEF vars, Passed, Registered
  <2>4. rec' = rec /\ cr' = cr /\ kind' = kind /\ sts' = sts /\ queued' = queued
    BY DEF vars
  <2>5. (AtRest' <=> AtRest) /\ (Fresh' <=> Fresh)
    BY <2>4 DEF AtRest, Fresh
  <2> QED BY <2>1, <2>2, <2>3, <2>4, <2>5 DEF SettledInv
<1>2. TopologyInv => TopologyInv'
  BY DEF vars, TopologyInv, Held
<1> QED BY <1>1, <1>2 DEF vars, ServiceReadyInv

\* Removing our finalizer from one Topology.
LEMMA ReleasedHeld ==
  ASSUME TypeOK, \A t \in Topologies : fins[t] \subseteq {"instance"},
         NEW ref, NEW name, fins' = Released(ref, name)
  PROVE  /\ \A t \in Topologies : fins'[t] \subseteq {"instance"}
         /\ Held' \subseteq Held
         /\ name = "instance" => ref \notin Held'
BY DEF Released, Held

\* A step of a handler that neither ends the reconcile nor touches the status
\* to be, the Topologies or the StatefulSet.
LEMMA Moves ==
  ASSUME TypeOK, KeystoneInv, ServiceReadyInv,
         UNCHANGED <<kind, cr, sts, fins, crashes>>,
         faults' = 0 => faults = 0,
         rec'.topo = rec.topo, rec'.url = rec.url, rec'.gen = rec.gen,
         rec'.last = rec.last, rec'.fin = rec.fin, rec'.ready = rec.ready,
         rec.pc \notin {"idle", "patch"},
         rec'.pc \notin {"idle", "acquire", "deploy"},
         rec.fin = "remove" => rec'.pc = "patch" /\ faults' # 0,
         rec'.pc \in {"inputs", "expose"} => rec'.i = 1,
         ~queued' =>
           /\ ~queued
           /\ kind = "api" => \A k \in Passed' : Registered(k, rec.url)'
           /\ kind = "api" => Mirrored'
  PROVE  ServiceReadyInv'
<1>1. rec'.ready = FALSE
  BY TypeFacts DEF ServiceReadyInv, RecType
<1>2. Held' = Held
  BY DEF Held
<1>3. rec.fin = "remove" => kind # "api"
  BY DEF KeystoneInv, PcInv
<1>4. ASSUME ~queued' PROVE SettledInv'
  <2>1. SettledInv
    BY <1>4 DEF ServiceReadyInv
  <2>2. Fresh'
    BY <2>1 DEF SettledInv, Fresh
  <2>3. kind' = "api" => (\A k \in Passed' : Registered(k, rec.url)') /\ Mirrored'
    BY <1>4
  <2>4. ~AtRest'
    BY DEF AtRest
  <2> QED BY <1>1, <1>4, <2>2, <2>3, <2>4 DEF SettledInv
<1>5. ASSUME kind # "volume", crashes = 0 PROVE TopologyInv'
  <2>1. TopologyInv
    BY <1>5 DEF ServiceReadyInv
  <2> QED BY <1>2, <1>3, <2>1 DEF TopologyInv
<1> QED BY <1>1, <1>4, <1>5 DEF ServiceReadyInv

\* Someone else acts, and the controller is told.
LEMMA Noticed ==
  ASSUME TypeOK, KeystoneInv, ServiceReadyInv,
         UNCHANGED <<kind, rec, fins, crashes>>, queued' = TRUE,
         faults' = 0 => faults = 0, cr'.last = cr.last,
         \/ cr'.phase = cr.phase
         \/ cr.phase = "new" /\ cr'.phase = "gone"
         \/ cr.phase = "live" /\ cr'.phase = "deleting"
  PROVE  ServiceReadyInv'
<1>1. Held' = Held
  BY DEF Held
<1>2. kind # "volume" /\ crashes = 0 => TopologyInv'
  BY <1>1 DEF ServiceReadyInv, TopologyInv
<1> QED BY <1>2 DEF ServiceReadyInv


----------------------------------------------------------------------------
\* reconcileNormal up to the Topology, reconcileDelete up to it, and a call
\* that fails.
LEMMA MovesStep ==
  ASSUME TypeOK, KeystoneInv, ServiceReadyInv,
         \/ Inputs \/ Expose \/ KsService \/ KsEndpoint
         \/ DelEndpoint \/ DelService \/ CallFails
  PROVE  ServiceReadyInv'
<1>0. /\ rec \in RecType /\ ks \in KsType /\ This \in KsName /\ rec.i \in 1..2
      /\ faults \in Nat
  BY TypeFacts, RegistrationBounds DEF RecType, TypeOK
<1>a. \A b \in BOOLEAN :
        LET r == Return(b)
        IN  /\ r.pc = "patch" /\ r.topo = rec.topo /\ r.url = rec.url
            /\ r.gen = rec.gen /\ r.last = rec.last /\ r.fin = rec.fin
            /\ r.ready = rec.ready
  BY <1>0 DEF Return, RecType
<1>b. \A pc \in PC :
        LET r == [rec EXCEPT !.pc = pc]
        IN  /\ r.pc = pc /\ r.topo = rec.topo /\ r.url = rec.url
            /\ r.gen = rec.gen /\ r.last = rec.last /\ r.fin = rec.fin
            /\ r.ready = rec.ready /\ r.i = rec.i
            /\ r.svcReady = rec.svcReady /\ r.epReady = rec.epReady
  BY <1>0 DEF RecType
<1>c. rec.fin = "remove" => rec.pc \in {"deltopo", "patch"}
  BY DEF ServiceReadyInv
<1>d. rec.pc # "patch" => ~rec.ready
  BY DEF ServiceReadyInv
<1>e. {"release", "expose", "ksservice", "ksendpoint", "delservice", "delendpoint",
       "deltopo"} \subseteq PC
  BY DEF PC
<1>f. ~queued => SettledInv
  BY DEF ServiceReadyInv
<1> USE DEF At
<1>1. CASE Inputs
  <2>1. /\ UNCHANGED <<kind, cr, ks, fins, sts, queued, faults, crashes>>
        /\ rec.pc = "inputs" /\ rec.i = 1
    BY <1>1 DEF Inputs, cluster, bounds, ServiceReadyInv
  <2>2. \/ rec' = [rec EXCEPT !.pc = "release"] /\ kind # "api"
        \/ rec' = [rec EXCEPT !.pc = "expose"]
        \/ rec' = Return(FALSE)
    BY <1>1 DEF Inputs, Goto
  <2>3. CASE rec' = [rec EXCEPT !.pc = "release"] /\ kind # "api"
    BY <1>b, <1>c, <1>e, <2>1, <2>3, Moves
  <2>4. CASE rec' = [rec EXCEPT !.pc = "expose"]
    <3>1. rec'.pc = "expose" /\ rec'.i = 1
      BY <1>b, <1>e, <2>1, <2>4
    <3>2. Passed' = {}
      BY <3>1 DEF Passed
    <3>3. ~queued' /\ kind = "api" => Mirrored'
      <4>1. rec'.ready = rec.ready /\ rec'.svcReady = rec.svcReady
            /\ rec'.epReady = rec.epReady
        BY <1>b, <1>e, <2>4
      <4>2. ASSUME ~queued', kind = "api" PROVE ~rec.svcReady /\ ~rec.epReady
        BY <1>f, <2>1, <4>2 DEF SettledInv, Mirrored, SvcAfter, EpAfter
      <4> QED BY <1>d, <2>1, <3>1, <4>1, <4>2 DEF Mirrored, SvcAfter, EpAfter
    <3> QED BY <1>b, <1>c, <1>e, <2>1, <2>4, <3>1, <3>2, <3>3, Moves
  <2>5. CASE rec' = Return(FALSE)
    <3>1. Passed' = {} /\ Mirrored'
      BY <1>a, <1>d, <2>1, <2>5 DEF Passed, Mirrored
    <3> QED BY <1>a, <1>c, <2>1, <2>5, <3>1, Moves
  <2> QED BY <2>2, <2>3, <2>4, <2>5
<1>2. CASE Expose
  <2>1. /\ UNCHANGED <<kind, cr, ks, fins, sts, queued, faults, crashes>>
        /\ rec.pc = "expose" /\ rec.i = 1 /\ rec' = [rec EXCEPT !.pc = "ksservice"]
    BY <1>2 DEF Expose, Goto, cluster, bounds, ServiceReadyInv
  <2>2. Passed' = {}
    BY <1>b, <1>e, <2>1 DEF Passed
  <2>3. ~queued' /\ kind = "api" => Mirrored'
    <3>1. /\ rec'.pc = "ksservice" /\ rec'.i = 1 /\ rec'.ready = rec.ready
          /\ rec'.svcReady = rec.svcReady /\ rec'.epReady = rec.epReady
      BY <1>b, <1>e, <2>1
    <3>2. ASSUME ~queued', kind = "api" PROVE ~rec.svcReady /\ ~rec.epReady
      BY <1>f, <2>1, <3>2 DEF SettledInv, Mirrored, SvcAfter, EpAfter
    <3>3. /\ rec'.pc \notin {"ksendpoint", "release", "acquire", "deploy"}
          /\ ~rec'.ready /\ rec'.i - 1 = 0
      BY <1>d, <2>1, <3>1
    <3>4. SvcAfter(rec.i - 1)' = FALSE /\ EpAfter(rec.i - 1)' = FALSE
      BY <3>3 DEF SvcAfter, EpAfter
    <3> QED BY <3>1, <3>2, <3>3, <3>4 DEF Mirrored
  <2> QED BY <1>b, <1>c, <1>e, <2>1, <2>2, <2>3, Moves
<1>3. CASE KsService
  <2>1. UNCHANGED <<kind, cr, fins, sts, faults, crashes>> /\ rec.pc = "ksservice"
    BY <1>3 DEF KsService, bounds
  <2>2. /\ rec'.pc = "ksendpoint" /\ rec'.i = rec.i
        /\ rec'.topo = rec.topo /\ rec'.url = rec.url /\ rec'.gen = rec.gen
        /\ rec'.last = rec.last /\ rec'.fin = rec.fin /\ rec'.ready = rec.ready
        /\ rec'.epReady = rec.epReady
        /\ rec'.svcReady <=> Mirror(ks'[This].svc, rec.svcReady)
    BY <1>0, <1>3 DEF KsService, RecType
  <2>3. ~queued' => ~queued /\ ks' = ks
    BY <1>3 DEF KsService
  <2>4. Passed' = Passed
    BY <2>1, <2>2 DEF Passed
  <2>5. ASSUME ~queued', kind = "api"
        PROVE  (\A k \in Passed' : Registered(k, rec.url)') /\ Mirrored'
    <3>1. \A k \in Passed' : Registered(k, rec.url)'
      BY <1>f, <2>2, <2>3, <2>4, <2>5 DEF SettledInv, Registered
    <3>2. /\ rec.svcReady <=> SvcAfter(rec.i - 1)
          /\ rec.epReady <=> EpAfter(rec.i - 1)
      BY <1>f, <2>1, <2>3, <2>5 DEF SettledInv, Mirrored
    <3>3. Mirror(ks[This].svc, rec.svcReady) <=> SvcAfter(rec.i)
      <4>1. CASE rec.i = 1
        BY <3>2, <4>1 DEF SvcAfter, This, Mirror
      <4>2. CASE rec.i = 2
        BY <3>2, <4>2 DEF SvcAfter, This, Shown, Mirror
      <4> QED BY <1>0, <4>1, <4>2
    <3>4. /\ rec'.svcReady <=> SvcAfter(rec.i)'
          /\ rec'.epReady <=> EpAfter(rec.i - 1)'
      BY <2>2, <2>3, <2>5, <3>2, <3>3 DEF SvcAfter, EpAfter
    <3>5. Mirrored'
      BY <1>d, <2>1, <2>2, <3>4 DEF Mirrored, SvcAfter, EpAfter
    <3> QED BY <3>1, <3>5
  <2> QED BY <1>c, <2>1, <2>2, <2>3, <2>5, Moves
<1>4. CASE KsEndpoint
  <2>1. UNCHANGED <<kind, cr, fins, sts, faults, crashes>> /\ rec.pc = "ksendpoint"
    BY <1>4 DEF KsEndpoint, bounds
  <2>2. /\ rec'.topo = rec.topo /\ rec'.url = rec.url /\ rec'.gen = rec.gen
        /\ rec'.last = rec.last /\ rec'.fin = rec.fin /\ rec'.ready = rec.ready
        /\ rec'.svcReady = rec.svcReady
        /\ rec'.epReady <=> Mirror(ks'[This].ep, rec.epReady)
        /\ \/ rec'.pc = "ksservice" /\ rec.i = 1 /\ rec'.i = 2
           \/ rec'.pc = "release" /\ rec.i = 2
    <3>1. rec' = [NextService EXCEPT !.epReady = Mirror(ks'[This].ep, rec.epReady)]
      BY <1>4 DEF KsEndpoint
    <3>2. LET r == NextService
          IN  /\ r \in RecType
              /\ r.topo = rec.topo /\ r.url = rec.url /\ r.gen = rec.gen
              /\ r.last = rec.last /\ r.fin = rec.fin /\ r.ready = rec.ready
              /\ r.svcReady = rec.svcReady
              /\ \/ r.pc = "ksservice" /\ rec.i = 1 /\ r.i = 2
                 \/ r.pc = "release" /\ rec.i = 2
      BY <1>0, ReturnType, ServiceNumbers DEF NextService, RecType
    <3> QED BY <3>1, <3>2 DEF RecType
  <2>3. ~queued' => ~queued /\ ks' = ks
    BY <1>4 DEF KsEndpoint
  <2>4. ASSUME ~queued', kind = "api"
        PROVE  (\A k \in Passed' : Registered(k, rec.url)') /\ Mirrored'
    <3>1. Registered(This, rec.url)
      <4>1. ks[This] \in KsEntry /\ rec.url \in URLs \cup {None}
        BY <1>0 DEF KsType, RecType
      <4>2. ks[This] = Asked(ks[This], rec.url)
        BY <1>0, <1>4, <2>3, <2>4 DEF KsEndpoint, KsType
      <4>3. ks[This].svc.fin
        BY <2>1 DEF KeystoneInv, ServiceInv
      <4> QED BY <4>1, <4>2, <4>3, WrittenCR DEF Registered
    <3>2. \A j \in 1..(rec.i - 1) : Registered(keystoneServices[j], rec.url)
      BY <1>f, <2>1, <2>3, <2>4 DEF SettledInv, Passed
    <3>3. \A j \in 1..rec.i : Registered(keystoneServices[j], rec.url)
      BY <1>0, <3>1, <3>2 DEF This
    <3>4. ASSUME NEW k \in Passed' PROVE Registered(k, rec.url)'
      <4>1. \E j \in 1..rec.i : k = keystoneServices[j]
        <5>1. CASE rec'.pc = "ksservice"
          BY <1>0, <2>2, <3>4, <5>1 DEF Passed
        <5>2. CASE rec'.pc = "release"
          BY <2>2, <3>4, <5>2, ServiceNumbers DEF Passed
        <5> QED BY <2>2, <5>1, <5>2
      <4>2. Registered(k, rec.url)
        BY <3>3, <4>1
      <4> QED BY <2>2, <2>3, <2>4, <4>2 DEF Registered
    <3>5. /\ rec.svcReady <=> SvcAfter(rec.i)
          /\ rec.epReady <=> EpAfter(rec.i - 1)
      BY <1>f, <2>1, <2>3, <2>4 DEF SettledInv, Mirrored
    <3>6. Mirror(ks[This].ep, rec.epReady) <=> EpAfter(rec.i)
      <4>1. CASE rec.i = 1
        BY <3>5, <4>1 DEF EpAfter, This, Mirror
      <4>2. CASE rec.i = 2
        BY <3>5, <4>2 DEF EpAfter, This, Shown, Mirror
      <4> QED BY <1>0, <4>1, <4>2
    <3>7. (rec'.svcReady <=> SvcAfter(rec.i)) /\ (rec'.epReady <=> EpAfter(rec.i))
      BY <2>2, <2>3, <2>4, <3>5, <3>6
    <3>8. Mirrored'
      <4>1. CASE rec'.pc = "ksservice"
        <5>1. (rec'.svcReady <=> SvcAfter(1)) /\ (rec'.epReady <=> EpAfter(1))
          BY <2>2, <3>7, <4>1
        <5>2. (SvcAfter(1)' <=> SvcAfter(1)) /\ (EpAfter(1)' <=> EpAfter(1))
          BY <2>3, <2>4 DEF SvcAfter, EpAfter
        <5>3. rec'.pc = "ksservice" /\ rec'.i - 1 = 1 /\ ~rec'.ready
          BY <1>d, <2>1, <2>2, <4>1
        <5>4. (SvcAfter(rec.i - 1)' <=> SvcAfter(1)') /\ (EpAfter(rec.i - 1)' <=> EpAfter(1)')
          BY <5>3 DEF SvcAfter, EpAfter
        <5> QED BY <5>1, <5>2, <5>3, <5>4 DEF Mirrored
      <4>2. CASE rec'.pc = "release"
        BY <1>d, <2>1, <2>2, <2>3, <2>4, <3>7, <4>2 DEF Mirrored, SvcAfter, EpAfter
      <4> QED BY <2>2, <4>1, <4>2
    <3> QED BY <3>4, <3>8
  <2> QED BY <1>c, <2>1, <2>2, <2>3, <2>4, Moves
<1>5. CASE DelEndpoint
  <2>1. /\ UNCHANGED <<kind, cr, fins, sts, faults, crashes>>
        /\ rec.pc = "delendpoint" /\ (~queued' => ~queued)
        /\ rec' = [rec EXCEPT !.pc = "delservice"]
    BY <1>5 DEF DelEndpoint, Goto, bounds
  <2>2. Passed' = {} /\ Mirrored'
    BY <1>b, <1>d, <1>e, <2>1 DEF Passed, Mirrored
  <2> QED BY <1>b, <1>c, <1>e, <2>1, <2>2, Moves
<1>6. CASE DelService
  <2>1. /\ UNCHANGED <<kind, cr, fins, sts, faults, crashes>>
        /\ rec.pc = "delservice" /\ (~queued' => ~queued)
    BY <1>6 DEF DelService, bounds
  <2>2. /\ rec'.topo = rec.topo /\ rec'.url = rec.url /\ rec'.gen = rec.gen
        /\ rec'.last = rec.last /\ rec'.fin = rec.fin /\ rec'.ready = rec.ready
        /\ rec'.pc \in {"delendpoint", "deltopo"}
    BY <1>0, <1>6 DEF DelService, RecType
  <2>3. Passed' = {} /\ Mirrored'
    BY <1>d, <2>1, <2>2 DEF Passed, Mirrored
  <2> QED BY <1>c, <2>1, <2>2, <2>3, Moves
<1>7. CASE CallFails
  <2>1. /\ UNCHANGED <<kind, cr, ks, fins, sts, queued, crashes>>
        /\ rec.pc \notin {"idle", "patch"} /\ faults' = faults + 1
    BY <1>7 DEF CallFails, cluster
  <2>2. /\ rec'.pc = "patch" /\ rec'.topo = rec.topo /\ rec'.url = rec.url
        /\ rec'.gen = rec.gen /\ rec'.last = rec.last /\ rec'.fin = rec.fin
        /\ rec'.ready = rec.ready
    <3>1. \E b, c : rec' = [Return(TRUE) EXCEPT !.svcReady = b, !.epReady = c]
      BY <1>7 DEF CallFails
    <3>2. Return(TRUE) \in RecType
      BY ReturnType
    <3> QED BY <1>a, <3>1, <3>2 DEF RecType
  <2>3. Passed' = {} /\ Mirrored'
    BY <1>d, <2>1, <2>2 DEF Passed, Mirrored
  <2>4. faults' # 0
    BY <1>0, <2>1
  <2> QED BY <2>1, <2>2, <2>3, <2>4, Moves
<1> QED BY <1>1, <1>2, <1>3, <1>4, <1>5, <1>6, <1>7


\* Reconcile starts with a fresh copy of the CR.
LEMMA FetchReady ==
  ASSUME TypeOK, KeystoneInv, ServiceReadyInv, Fetch
  PROVE  ServiceReadyInv'
<1> DEFINE copy == [Idle EXCEPT !.topo = cr.topo, !.url = cr.url,
                                !.gen = cr.gen, !.last = cr.last]
<1>0. cr \in CrType /\ Idle \in RecType
  BY TypeFacts
<1>1. /\ UNCHANGED <<kind, cr, ks, fins, sts, faults, crashes>> /\ ~queued'
      /\ rec.pc = "idle"
  BY DEF Fetch, At, cluster, bounds
<1>2. /\ copy \in RecType /\ copy.topo = cr.topo /\ copy.url = cr.url
      /\ copy.gen = cr.gen /\ copy.last = cr.last /\ copy.i = 1
      /\ copy.fin = "keep" /\ copy.ready = FALSE
      /\ copy.svcReady = FALSE /\ copy.epReady = FALSE
  BY <1>0 DEF RecType, CrType, Idle
<1>3. \/ cr.phase = "gone" /\ rec' = Idle
      \/ cr.phase = "new" /\ rec' = [copy EXCEPT !.pc = "patch", !.fin = "add"]
      \/ cr.phase = "deleting" /\ rec' = StartDelete(copy)
      \/ cr.phase = "live" /\ rec' = [copy EXCEPT !.pc = "inputs"]
  BY <1>0 DEF Fetch, CrType
<1> HIDE DEF copy
<1>4. CASE cr.phase = "gone" /\ rec' = Idle
  <2>1. rec'.pc = "idle" /\ rec'.fin = "keep" /\ rec'.ready = FALSE
    BY <1>4 DEF Idle
  <2>2. SettledInv'
    BY <1>1, <1>4, <2>1 DEF SettledInv, AtRest, Passed, Mirrored
  <2>3. kind # "volume" /\ crashes = 0 => TopologyInv'
    BY <1>1, <1>4, <2>1 DEF ServiceReadyInv, TopologyInv, Held
  <2> QED BY <1>1, <2>1, <2>2, <2>3 DEF ServiceReadyInv
<1>5. CASE cr.phase # "gone"
  <2>1. /\ rec'.topo = cr.topo /\ rec'.url = cr.url /\ rec'.gen = cr.gen
        /\ rec'.last = cr.last /\ rec'.i = 1 /\ rec'.ready = FALSE
        /\ rec'.svcReady = FALSE /\ rec'.epReady = FALSE
        /\ \/ rec'.pc = "patch" /\ rec'.fin = "add"
           \/ rec'.pc = "delendpoint" /\ rec'.fin = "keep"
           \/ rec'.pc = "deltopo" /\ rec'.fin = "remove"
           \/ rec'.pc = "inputs" /\ rec'.fin = "keep"
    <3>1. CASE rec' = [copy EXCEPT !.pc = "patch", !.fin = "add"]
      BY <1>2, <3>1 DEF RecType
    <3>2. CASE rec' = StartDelete(copy)
      BY <1>2, <3>2 DEF RecType, StartDelete
    <3>3. CASE rec' = [copy EXCEPT !.pc = "inputs"]
      BY <1>2, <3>3 DEF RecType
    <3> QED BY <1>3, <1>5, <3>1, <3>2, <3>3
  <2>2. SettledInv'
    <3>1. Mirrored'
      <4>1. ~SvcAfter(rec.i - 1)' /\ ~EpAfter(rec.i - 1)'
        <5>1. rec'.i - 1 = 0
          BY <2>1
        <5> QED BY <5>1 DEF SvcAfter, EpAfter
      <4>2. /\ ~rec'.svcReady /\ ~rec'.epReady /\ ~rec'.ready
            /\ rec'.pc \in {"patch", "delendpoint", "deltopo", "inputs"}
        BY <2>1
      <4> QED BY <4>1, <4>2 DEF Mirrored
    <3>2. Passed' = {}
      BY <2>1 DEF Passed
    <3> QED BY <1>1, <2>1, <3>1, <3>2 DEF SettledInv, Fresh, AtRest
  <2>3. kind # "volume" /\ crashes = 0 => TopologyInv'
    BY <1>1, <1>5, <2>1 DEF ServiceReadyInv, TopologyInv, Held
  <2> QED BY <1>1, <2>1, <2>2, <2>3 DEF ServiceReadyInv
<1> QED BY <1>3, <1>4, <1>5

\* ensureTopology and the StatefulSet.
LEMMA TopologyStep ==
  ASSUME TypeOK, KeystoneInv, ServiceReadyInv, Release \/ Acquire \/ Deploy
  PROVE  ServiceReadyInv'
<1>0. /\ rec \in RecType /\ fins \in [Topologies -> SUBSET FinalizerName]
      /\ sts \in [topo : TopoRef, state : {"absent", "rolling", "ready"}]
  BY TypeFacts
<1>1. /\ UNCHANGED <<kind, cr, ks, faults, crashes>>
      /\ rec.pc \in {"release", "acquire", "deploy"}
      /\ ~queued' => ~queued
  <2>1. CASE Release
    BY <2>1 DEF Release, At, bounds
  <2>2. CASE Acquire
    BY <2>2 DEF Acquire, At, bounds
  <2>3. CASE Deploy
    BY <2>3 DEF Deploy, At, bounds
  <2> QED BY <2>1, <2>2, <2>3
<1>2. /\ cr.phase \in {"live", "deleting"} /\ rec.fin # "remove" /\ ~rec.ready
  BY <1>1 DEF KeystoneInv, PcInv, NormalPC, ServiceReadyInv
<1>3. ~queued => SettledInv
  BY DEF ServiceReadyInv
<1>4. CASE Release
  <2>1. /\ UNCHANGED <<sts, queued>> /\ rec.pc = "release"
        /\ rec'.pc = "acquire" /\ rec'.topo = rec.topo /\ rec'.url = rec.url
        /\ rec'.gen = rec.gen /\ rec'.last = rec.last /\ rec'.fin = rec.fin
        /\ rec'.ready = rec.ready /\ rec'.svcReady = rec.svcReady
        /\ rec'.epReady = rec.epReady
    BY <1>0, <1>4 DEF Release, At, Goto, RecType
  <2>2. /\ \A t \in Topologies : fins'[t] \subseteq {"instance"}
        /\ Held' \subseteq Held
        /\ rec.last = rec.topo \/ rec.last \notin Held'
    <3>1. CASE rec.last = rec.topo
      BY <1>4, <3>1 DEF Release, ServiceReadyInv, Held
    <3>2. CASE rec.last # rec.topo
      BY <1>4, <3>2, ReleasedHeld DEF Release, ServiceReadyInv
    <3> QED BY <3>1, <3>2
  <2>3. ASSUME ~queued PROVE SettledInv'
    BY <1>1, <1>2, <1>3, <2>1, <2>3
       DEF SettledInv, Fresh, AtRest, Passed, Registered, Mirrored, SvcAfter,
           EpAfter
  <2>4. ASSUME kind # "volume", crashes = 0 PROVE TopologyInv'
    BY <1>1, <1>2, <2>1, <2>2, <2>4 DEF ServiceReadyInv, TopologyInv
  <2> QED BY <1>1, <1>2, <2>1, <2>2, <2>3, <2>4 DEF ServiceReadyInv
<1>5. CASE Acquire
  <2>1. /\ UNCHANGED <<sts, queued>> /\ rec.pc = "acquire"
        /\ rec'.pc = "deploy" /\ rec'.topo = rec.topo /\ rec'.url = rec.url
        /\ rec'.gen = rec.gen /\ rec'.last = rec.topo /\ rec'.fin = rec.fin
        /\ rec'.ready = rec.ready /\ rec'.svcReady = rec.svcReady
        /\ rec'.epReady = rec.epReady
    BY <1>0, <1>5 DEF Acquire, At, RecType
  <2>2. \A t \in Topologies :
          fins'[t] = IF t = rec.topo THEN fins[t] \cup {"instance"} ELSE fins[t]
    BY <1>5 DEF Acquire
  <2>3. /\ \A t \in Topologies : fins'[t] \subseteq {"instance"}
        /\ Held' \subseteq Held \cup {rec.topo}
        /\ rec.topo # None => "instance" \in fins'[rec.topo]
    <3>1. \A t \in Topologies : fins[t] \subseteq {"instance"}
      BY DEF ServiceReadyInv
    <3>2. rec.topo \in Topologies \cup {None}
      BY <1>0 DEF RecType, TopoRef
    <3> QED BY <1>0, <2>2, <3>1, <3>2 DEF Held
  <2>4. ASSUME ~queued PROVE SettledInv'
    BY <1>1, <1>2, <1>3, <2>1, <2>4
       DEF SettledInv, Fresh, AtRest, Passed, Registered, Mirrored, SvcAfter,
           EpAfter
  <2>5. ASSUME kind # "volume", crashes = 0 PROVE TopologyInv'
    BY <1>1, <1>2, <2>1, <2>3, <2>5 DEF ServiceReadyInv, TopologyInv
  <2> QED BY <1>1, <1>2, <2>1, <2>3, <2>4, <2>5 DEF ServiceReadyInv
<1>6. CASE Deploy
  <2> DEFINE same == sts.state # "absent" /\ sts.topo = rec.topo
  <2>1. /\ fins' = fins /\ rec.pc = "deploy"
        /\ rec'.pc = "patch" /\ rec'.topo = rec.topo /\ rec'.url = rec.url
        /\ rec'.gen = rec.gen /\ rec'.last = rec.last /\ rec'.fin = rec.fin
        /\ rec'.ready <=> sts'.state = "ready"
        /\ rec'.svcReady = rec.svcReady /\ rec'.epReady = rec.epReady
        /\ sts' = IF same THEN sts ELSE [topo |-> rec.topo, state |-> "rolling"]
    BY <1>0, <1>6 DEF Deploy, At, Return, RecType
  <2>2. Held' = Held
    BY <2>1 DEF Held
  <2>3. rec'.ready => sts' = [topo |-> rec.topo, state |-> "ready"]
    BY <1>0, <2>1
  <2>4. ASSUME ~queued PROVE SettledInv'
    <3>1. Fresh' /\ rec'.pc # "idle" /\ rec'.pc # "ksendpoint"
      BY <1>1, <1>3, <2>1, <2>4 DEF SettledInv, Fresh
    <3>2. kind = "api" => \A k \in KsName : Registered(k, rec.url)
      BY <1>1, <1>3, <2>1, <2>4 DEF SettledInv, Passed
    <3>3. Passed' \subseteq KsName
      BY <2>1 DEF Passed
    <3>4. kind = "api" => \A k \in Passed' : Registered(k, rec.url)'
      BY <1>1, <2>1, <3>2, <3>3 DEF Registered
    <3>5. kind = "api" => Mirrored'
      BY <1>1, <1>3, <2>1, <2>4 DEF SettledInv, Mirrored, SvcAfter, EpAfter
    <3> QED BY <1>1, <2>1, <2>3, <3>1, <3>4, <3>5 DEF SettledInv, AtRest
  <2>5. ASSUME kind # "volume", crashes = 0 PROVE TopologyInv'
    BY <1>1, <1>2, <2>1, <2>2, <2>5 DEF ServiceReadyInv, TopologyInv
  <2> QED BY <1>1, <1>2, <2>1, <2>4, <2>5 DEF ServiceReadyInv
<1> QED BY <1>4, <1>5, <1>6

\* reconcileDelete gives the Topology back.
LEMMA DelTopoReady ==
  ASSUME TypeOK, KeystoneInv, ServiceReadyInv, DelTopo
  PROVE  ServiceReadyInv'
<1>0. rec \in RecType
  BY TypeFacts
<1>1. /\ UNCHANGED <<kind, cr, ks, sts, queued, faults, crashes>>
      /\ rec.pc = "deltopo" /\ cr.phase = "deleting" /\ ~rec.ready
      /\ fins' = Released(rec.last, ReleaseName)
  BY DEF DelTopo, At, bounds, KeystoneInv, PcInv, DeletePC, ServiceReadyInv
<1>2. /\ rec'.pc = "patch" /\ rec'.fin = "remove" /\ rec'.topo = rec.topo
      /\ rec'.url = rec.url /\ rec'.gen = rec.gen /\ rec'.last = rec.last
      /\ rec'.ready = rec.ready
  BY <1>0 DEF DelTopo, Return, RecType
<1>3. /\ \A t \in Topologies : fins'[t] \subseteq {"instance"}
      /\ Held' \subseteq Held
      /\ kind # "volume" => rec.last \notin Held'
  BY <1>1, ReleasedHeld DEF ReleaseName, ServiceReadyInv
<1>4. ASSUME ~queued PROVE SettledInv'
  BY <1>1, <1>2, <1>4
     DEF ServiceReadyInv, SettledInv, Fresh, AtRest, Passed, Mirrored
<1>5. ASSUME kind # "volume", crashes = 0 PROVE TopologyInv'
  BY <1>1, <1>2, <1>3, <1>5 DEF ServiceReadyInv, TopologyInv
<1> QED BY <1>1, <1>2, <1>3, <1>4, <1>5 DEF ServiceReadyInv


\* The deferred patch publishes what the reconcile has found out; when that
\* changes nothing, the CR already said so.
LEMMA PatchReady ==
  ASSUME TypeOK, KeystoneInv, ServiceReadyInv, Patch
  PROVE  ServiceReadyInv'
<1>0. cr \in CrType /\ rec \in RecType
  BY TypeFacts
<1>1. /\ UNCHANGED <<kind, ks, fins, sts, faults, crashes>> /\ rec.pc = "patch"
      /\ rec'.pc = "idle" /\ rec'.fin = "keep" /\ rec'.ready = FALSE
      /\ ~queued' => ~queued /\ cr' = cr
  BY DEF Patch, At, bounds, Idle
<1>2. Held' = Held
  BY <1>1 DEF Held
<1>3. cr.phase = "gone" => cr' = cr
  BY DEF Patch
<1>4. cr.phase # "gone" =>
        /\ cr'.obs = rec.gen /\ cr'.last = rec.last /\ cr'.ready = rec.ready
        /\ cr'.svcReady = rec.svcReady /\ cr'.epReady = rec.epReady
        /\ \/ cr'.phase = "gone" /\ rec.fin = "remove"
           \/ cr'.phase = "live" /\ cr.phase = "new"
           \/ cr'.phase = cr.phase /\ rec.fin # "remove"
  BY <1>0 DEF Patch, Patched, CrType
<1>5. ASSUME ~queued' PROVE SettledInv'
  <2>1. SettledInv /\ ~queued /\ cr' = cr
    BY <1>1, <1>5 DEF ServiceReadyInv
  <2>2. ASSUME cr.phase = "live", cr.ready PROVE Promise'
    <3>1. /\ rec.ready /\ cr.last = rec.last /\ cr.obs = rec.gen
      BY <1>4, <2>1, <2>2
    <3>2. Fresh /\ rec.last = rec.topo /\ sts = [topo |-> rec.topo, state |-> "ready"]
      BY <1>1, <2>1, <3>1 DEF SettledInv, ServiceReadyInv
    <3>3. cr.topo # None => "instance" \in fins[cr.topo]
      BY <3>1, <3>2 DEF ServiceReadyInv, Fresh
    <3>4. kind = "api" => \A k \in KsName : Registered(k, cr.url)
      BY <1>1, <2>1, <3>1, <3>2 DEF SettledInv, Passed, Fresh
    <3>6. kind = "api" => (cr.svcReady <=> SvcAfter(2)) /\ (cr.epReady <=> EpAfter(2))
      BY <1>4, <2>1, <2>2, <3>1 DEF SettledInv, Mirrored
    <3>5. Promise
      BY <3>1, <3>2, <3>3, <3>4, <3>6 DEF Promise, Fresh
    <3> QED BY <1>1, <2>1, <3>5 DEF Promise, Registered, SvcAfter, EpAfter
  <2>3. Passed' = {} /\ Mirrored'
    BY <1>1 DEF Passed, Mirrored
  <2> QED BY <1>1, <2>1, <2>2, <2>3 DEF SettledInv, AtRest
<1>6. ASSUME kind # "volume", crashes = 0 PROVE TopologyInv'
  <2>1. TopologyInv
    BY <1>6 DEF ServiceReadyInv
  <2>2. CASE cr.phase = "gone"
    BY <1>1, <1>2, <1>3, <2>1, <2>2 DEF TopologyInv
  <2>3. CASE cr.phase # "gone"
    BY <1>1, <1>2, <1>4, <2>1, <2>3 DEF TopologyInv
  <2> QED BY <2>2, <2>3
<1> QED BY <1>1, <1>5, <1>6 DEF ServiceReadyInv

\* A crash, and the rest of the cluster.
LEMMA ClusterReady ==
  ASSUME TypeOK, KeystoneInv, ServiceReadyInv,
         \/ Crash \/ \E k \in KsName : KsRegister(k) \/ KsCollect(k)
         \/ Rolled \/ CertAppears \/ Outage \/ Edit \/ Delete
  PROVE  ServiceReadyInv'
<1>0. /\ cr \in CrType /\ faults \in Nat /\ crashes \in Nat
  BY TypeFacts, RegistrationBounds DEF TypeOK
<1>1. CASE Crash
  <2>1. /\ fins' = fins /\ queued' = TRUE /\ crashes' # 0
        /\ rec'.pc = "idle" /\ rec'.fin = "keep" /\ rec'.ready = FALSE
    BY <1>0, <1>1 DEF Crash, cluster, Idle
  <2> QED BY <2>1 DEF ServiceReadyInv
<1>2. CASE \E k \in KsName : KsRegister(k)
  BY <1>2, Noticed DEF KsRegister, OwnsKeystone, bounds
<1>3. CASE \E k \in KsName : KsCollect(k)
  <2>1. /\ UNCHANGED <<kind, cr, rec, fins, sts, queued, faults, crashes>>
        /\ cr.phase = "gone"
    BY <1>3 DEF KsCollect, bounds
  <2>2. rec.pc \notin NormalPC \cup DeletePC /\ ~rec.ready
    BY <2>1 DEF KeystoneInv, PcInv, ServiceReadyInv
  <2>3. Passed' = {} /\ Mirrored'
    BY <2>1, <2>2 DEF Passed, Mirrored, NormalPC
  <2>4. ~queued => SettledInv'
    BY <2>1, <2>2, <2>3
       DEF ServiceReadyInv, SettledInv, Fresh, AtRest, NormalPC
  <2>5. kind # "volume" /\ crashes = 0 => TopologyInv'
    BY <2>1 DEF ServiceReadyInv, TopologyInv, Held
  <2> QED BY <2>1, <2>4, <2>5 DEF ServiceReadyInv
<1>4. CASE Rolled
  BY <1>4, Noticed DEF Rolled, bounds
<1>5. CASE CertAppears
  <2>1. UNCHANGED <<kind, cr, rec, ks, fins, sts, faults, crashes>>
    BY <1>5 DEF CertAppears, bounds
  <2>2. ~queued' => ~queued
    BY <1>5 DEF CertAppears
  <2>3. SettledInv => SettledInv' \/ queued'
    BY <2>1, <2>2
       DEF SettledInv, Fresh, Registered, Passed, Promise, AtRest, This, Mirrored,
           SvcAfter, EpAfter
  <2>4. kind # "volume" /\ crashes = 0 => TopologyInv'
    BY <2>1 DEF ServiceReadyInv, TopologyInv, Held
  <2> QED BY <2>1, <2>2, <2>3, <2>4 DEF ServiceReadyInv
<1>6. CASE Outage
  BY <1>0, <1>6, Noticed DEF Outage
<1>7. CASE Edit
  <2>1. cr'.phase = cr.phase /\ cr'.last = cr.last
    BY <1>0, <1>7 DEF Edit, CrType
  <2> QED BY <1>7, <2>1, Noticed DEF Edit
<1>8. CASE Delete
  <2>1. /\ cr'.last = cr.last
        /\ \/ cr.phase = "new" /\ cr'.phase = "gone"
           \/ cr.phase = "live" /\ cr'.phase = "deleting"
    BY <1>0, <1>8 DEF Delete, CrType
  <2> QED BY <1>8, <2>1, Noticed DEF Delete, bounds
<1> QED BY <1>1, <1>2, <1>3, <1>4, <1>5, <1>6, <1>7, <1>8

----------------------------------------------------------------------------
\* With what is proved about registration, the invariant is inductive.
THEOREM ServiceReadyInvariant == Spec => []ServiceReadyInv
<1>1. ASSUME RegistrationInv, ServiceReadyInv, [Next]_vars
      PROVE  ServiceReadyInv'
  <2>1. TypeOK /\ KeystoneInv
    BY <1>1 DEF RegistrationInv, KeystoneInv
  <2>2. CASE Next
    BY <1>1, <2>1, <2>2, MovesStep, FetchReady, TopologyStep, DelTopoReady,
       PatchReady, ClusterReady
    DEF Next, Reconcile
  <2>3. CASE UNCHANGED vars
    BY <1>1, <2>3, StutterServiceReady
  <2> QED BY <1>1, <2>2, <2>3
<1> QED BY <1>1, InitServiceReady, RegistrationInvariant, PTL DEF Spec

\* Ready can be relied on: when nothing is left to do, a Ready service of the
\* current generation runs with the Topology of its spec, holds it, and, for
\* the API, has written both Keystone CRs of both services with its finalizer
\* and for the URL of its spec; edits, failed calls, outages and crashes
\* notwithstanding.  IsReady promises nothing of what Keystone makes of them.
THEOREM ReadyIsRegistered == Spec => []ReadyMeansRegistered
<1>1. ASSUME ServiceReadyInv PROVE ReadyMeansRegistered
  <2> SUFFICES ASSUME AtRest, cr.phase = "live", cr.ready
               PROVE  Promise
    BY DEF ReadyMeansRegistered, Promise, Registered
  <2> QED BY <1>1 DEF ServiceReadyInv, SettledInv, AtRest
<1> QED BY <1>1, ServiceReadyInvariant, PTL

\* What a Ready CinderAPI at rest shows of Keystone is what the Keystone CRs
\* say: a CR that changes after it was mirrored leads to another reconcile.
THEOREM KeystoneMirrored == Spec => []KeystoneConditionsCurrent
<1>1. ASSUME ServiceReadyInv PROVE KeystoneConditionsCurrent
  <2> SUFFICES ASSUME AtRest, kind = "api", cr.phase = "live", cr.ready
               PROVE  /\ cr.svcReady <=> SvcAfter(2)
                      /\ cr.epReady <=> EpAfter(2)
    BY DEF KeystoneConditionsCurrent, SvcAfter, EpAfter
  <2>1. Promise
    BY <1>1 DEF ServiceReadyInv, SettledInv, AtRest
  <2> QED BY <2>1 DEF Promise
<1> QED BY <1>1, ServiceReadyInvariant, PTL

\* CinderAPI, CinderScheduler and CinderBackup give every Topology back, at
\* deletion and when the spec names another one or none, as far as the code
\* promises; the volumes do not (see the run topology_leak).
THEOREM TopologyReleased == Spec => [](kind # "volume" => NoTopologyLeak)
<1>1. ASSUME ServiceReadyInv, kind # "volume" PROVE NoTopologyLeak
  <2> SUFFICES ASSUME crashes = 0
               PROVE  /\ cr.phase = "gone" /\ (kind = "api" \/ faults = 0) => Held = {}
                      /\ AtRest /\ cr.phase = "live" /\ cr.ready => Held \subseteq {cr.topo}
    BY DEF NoTopologyLeak
  <2>1. TopologyInv
    BY <1>1 DEF ServiceReadyInv
  <2>2. ASSUME AtRest, cr.phase = "live", cr.ready PROVE cr.last = cr.topo
    BY <1>1, <2>2 DEF ServiceReadyInv, SettledInv, AtRest, Promise
  <2> QED BY <2>1, <2>2 DEF TopologyInv, AtRest
<1> QED BY <1>1, ServiceReadyInvariant, PTL

=============================================================================
