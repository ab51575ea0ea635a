----------------------------- MODULE PodsProofs -----------------------------
(***************************************************************************)
(* Why no credential is released while a running Pod uses it, as long as   *)
(* RabbitMQ and the user wait for one change to be complete before they    *)
(* make the next (Rotation = "settled").                                   *)
(*                                                                         *)
(* At any time the credentials are on their way from a previous pair of    *)
(* Secrets, which the status tracks, to a target pair, which the           *)
(* TransportURLs name.  The target reaches config, child CR, child config, *)
(* StatefulSet and Pods in this order and is never taken back, so that a   *)
(* child that reports the target as applied has nothing else running.      *)
(***************************************************************************)
EXTENDS CinderOperatorProofs

Policy ==
  /\ Rotation = "settled"
  /\ "service" \in Disturbances => ListBackups = {}

----------------------------------------------------------------------------
\* What the TransportURLs name and the spec asks for, and what is tracked.
Target   == [t |-> tu, n |-> IF cr.notif /\ nu \in NotifSecrets THEN nu
                             ELSE NoSecret]
Previous == [t |-> cr.T, n |-> NotifName(cr.N)]

\* x names the pair g; it names the pair o as far as it was tracked; it names
\* nothing yet.
On(x, g)     == x.t # NoSecret /\ x.t = g.t /\ x.n = g.n
Before(x, o) == x.t # NoSecret /\ x.t = o.t /\ x.n \in {o.n, NoSecret}
Unset(x)     == x.t = NoSecret /\ x.n = NoSecret
Known(x, g, o) == Unset(x) \/ On(x, g) \/ Before(x, o)

Names(x) == {x.t, x.n} \ {NoSecret}

\* A child CR that is not being deleted, and a reconcile of its controller
\* that got further than to register it.
Present(c) == c.phase \in {"new", "live"}
Working(l) == l.pc \in {"render", "deploy"} \/ l.ready

----------------------------------------------------------------------------
(***************************************************************************)
(* One service: its CR c, reconcile l and workload w.                      *)
(***************************************************************************)

\* It has Pods and a config of its own only once its controller has adopted
\* it and nothing is left of a predecessor.
Adopted(c, l, w) ==
  /\ l.ready => l.pc = "patch"
  /\ c.phase \in {"absent", "new"} =>
       (w.orphan \/ w = NoWorkload) /\ ~ Working(l) /\ c.applied = NoInput
  /\ c.phase = "live" /\ w.orphan =>
       c.applied = NoInput /\ l.pc # "deploy" /\ ~ l.ready
  /\ c.phase = "live" /\ l.pc = "deploy" => ~ w.orphan /\ w.own = l.c

\* All it works with is of the target g or of the previous pair o.
UsesKnown(c, l, w, g, o) ==
  /\ Known(c, g, o)
  /\ Known(c.applied, g, o)
  /\ Working(l) => Known(l, g, o)
  /\ ~ w.orphan =>
       /\ Known(w.own, g, o)
       /\ Known(w.rev, g, o)
       /\ \A p \in w.pods : Known(p.rev, g, o) /\ Known(p.use, g, o)

\* The target travels from the config to the Pods and is not taken back.
Chain(c, l, w, conf, g) ==
  /\ On(c, g) => On(conf, g)
  /\ Working(l) /\ On(l, g) => On(c, g)
  /\ ~ w.orphan =>
       /\ On(w.own, g) => On(conf, g)
       /\ l.pc = "deploy" /\ On(l, g) => On(w.own, g)
       /\ On(w.rev, g) =>
            On(c, g) /\ On(w.own, g) /\ (Working(l) => On(l, g))
       /\ \A p \in w.pods :
            /\ On(p.rev, g) => On(w.rev, g) /\ On(p.use, g)
            /\ On(p.use, g) => On(conf, g)
       /\ On(c.applied, g) \/ (l.ready /\ On(l, g)) =>
            On(w.rev, g) /\ \A p \in w.pods : On(p.rev, g)

\* The Secrets of its config and its Pods are among those held, h.
UsesHeld(c, w, h) ==
  c.phase = "live" /\ ~ w.orphan =>
    Names(w.own) \subseteq h /\ \A p \in w.pods : Names(p.use) \subseteq h

ServiceInv(c, l, w, conf, g, o, h) ==
  /\ Adopted(c, l, w)
  /\ conf = NoConfig => c.phase = "absent" /\ ~ Working(l)
  /\ Present(c) => UsesKnown(c, l, w, g, o) /\ Chain(c, l, w, conf, g)
  /\ UsesHeld(c, w, h)

\* Every service in v has rolled out the target.
RolledOutTo(v, conf, g) ==
  /\ On(conf, g)
  /\ \A s \in Service :
       Present(v[s]) => v[s].phase = "live" /\ On(v[s].applied, g)

----------------------------------------------------------------------------
(***************************************************************************)
(* The reconcile p of the Cinder controller, among the services v.         *)
(***************************************************************************)
Single == Service \ (Backups \cup Volumes)

AfterCleanup == {"finalT", "finalN", "finalAC", "pruneT", "pruneAC"}
AfterFinalT  == {"finalN", "finalAC", "pruneT", "pruneAC", "patch"}
AfterFinalN  == {"finalAC", "pruneT", "pruneAC", "patch"}
BeforeNotif  == {"transport", "manageT", "notif"}

\* What it has dealt with so far, and what its verdict stands for.
Verdict(p, v, g) ==
  /\ p.pc \in NormalPC => Single \subseteq p.svcs
  /\ p.pc \in NormalPC \ ({"deploy"} \cup AfterCleanup) => p.next = 1
  /\ p.pc \in AfterCleanup => p.next > NumServices
  /\ p.pc \in {"deploy"} \cup AfterCleanup =>
       \A s \in Service : s < p.next =>
         /\ s \in Backups \ p.svcs => ~ Present(v[s])
         /\ s \in p.svcs /\ p.ready /\ On(p, g) =>
              /\ v[s].phase # "new"
              /\ v[s].phase = "live" => On(v[s].applied, g)
  /\ p.pc \in AfterCleanup => \A s \in Volumes \ p.svcs : ~ Present(v[s])

\* Its copy of the status differs from the status c only by what is true.
Track(p, c, m, x, v, conf, g) ==
  p.pc # "idle" =>
    /\ \/ p.T = c.T
       \/ c.T = NoSecret /\ p.T = m
       \/ p.pc \in AfterFinalT /\ p.T = m /\ RolledOutTo(v, conf, g)
    /\ \/ NotifName(p.N) = NotifName(c.N)
       \/ /\ p.pc \in AfterFinalN
          /\ NotifName(c.N) = NoSecret /\ c.notif /\ p.N = x
          /\ x \in NotifSecrets /\ On(conf, g)
       \/ /\ p.pc \in AfterFinalN
          /\ NotifName(p.N) = g.n /\ RolledOutTo(v, conf, g)
    /\ p.N = Nil => \/ c.N = Nil
                    \/ p.pc \in AfterFinalN /\ ~ c.notif /\ RolledOutTo(v, conf, g)
    /\ x \notin NotifSecrets => NotifName(p.N) = NoSecret
    /\ p.pc \in NormalPC \ {"transport"} => p.T # NoSecret

\* The pair it works with, or will have read from the TransportURLs.
Aim(p, m, x) ==
  [t |-> IF p.pc = "transport" THEN m ELSE p.t,
   n |-> IF p.pc \notin BeforeNotif THEN p.n
         ELSE IF p.notif /\ x \in NotifSecrets THEN x ELSE NoSecret]

\* It works towards the target, or it has begun before the last change and
\* then nothing has seen the target.
Course(p, c, m, x, conf, g, o) ==
  p.pc \in NormalPC =>
    /\ Aim(p, m, x) = g \/ (Aim(p, m, x) = o /\ ~ On(conf, g))
    /\ p.notif /\ x \notin NotifSecrets =>
         Aim(p, m, x) = g /\ c.notif /\ p.pc \in BeforeNotif
    /\ ~ p.notif /\ c.notif => o.t = m /\ o.n = NoSecret
    /\ p.notif # c.notif => m \in TransportSecrets

----------------------------------------------------------------------------
\* The CR is not being deleted, or a reconcile has not noticed it yet.
Alive == \/ cr.phase \in {"new", "live"}
         \/ cr.phase = "deleting" /\ par.pc \in NormalPC

\* Before a config is rendered there is nothing, and the first config has
\* the credentials asked for.
BeginInv ==
  /\ tu \notin TransportSecrets => config = NoConfig /\ cr.T = NoSecret
  /\ nu \notin NotifSecrets => NotifName(cr.N) = NoSecret
  /\ cr.notif /\ nu \notin NotifSecrets /\ config # NoConfig => cr.T = tu
  /\ Single \subseteq cr.svcs

\* Once the status is settled, the config is.
ConfigInv ==
  /\ Known(config, Target, Previous)
  /\ Settled => Unset(config) \/ On(config, Target)

ParentInv ==
  /\ Course(par, cr, tu, nu, config, Target, Previous)
  /\ Verdict(par, svc, Target)
  /\ Track(par, cr, tu, nu, svc, config, Target)

ServicesInv ==
  \A s \in Service :
    ServiceInv(svc[s], chi[s], sts[s], config, Target, Previous, tfin)

PodsInv == Alive => BeginInv /\ ConfigInv /\ ParentInv /\ ServicesInv

----------------------------------------------------------------------------
(***************************************************************************)
(* What the steps of a child controller and of its StatefulSet do to the   *)
(* invariant of their service.                                             *)
(***************************************************************************)

\* A reconcile that is over, lost, or returns without a verdict changes
\* nothing.
LEMMA Resting ==
  ASSUME NEW c, NEW l, NEW k, NEW w, NEW conf, NEW g, NEW o, NEW h,
         ServiceInv(c, l, w, conf, g, o, h), ~ Working(k)
  PROVE  ServiceInv(c, k, w, conf, g, o, h)
BY DEF ServiceInv, Adopted, UsesKnown, Chain, UsesHeld, Working

\* A reconcile starts from the child CR.
LEMMA Fetching ==
  ASSUME NEW c, NEW l, NEW k, NEW w, NEW conf, NEW g, NEW o, NEW h,
         ServiceInv(c, l, w, conf, g, o, h), c.phase = "live",
         k.pc = "render", ~ k.ready, k.t = c.t, k.n = c.n
  PROVE  ServiceInv(c, k, w, conf, g, o, h)
BY DEF ServiceInv, Adopted, UsesKnown, Chain, UsesHeld, Working, Known, Unset,
       On, Before, Present

\* The child CR goes and leaves its workload behind.
LEMMA Leaving ==
  ASSUME NEW c, NEW l, NEW w \in Workload, NEW u, NEW conf, NEW g, NEW o, NEW h,
         ServiceInv(c, l, w, conf, g, o, h), l.pc = "idle",
         u = [w EXCEPT !.orphan = (w # NoWorkload)]
  PROVE  ServiceInv(NoService, l, u, conf, g, o, h)
<1>1. u.orphan \/ u = NoWorkload
  <2>1. CASE w = NoWorkload
    <3>1. u = [NoWorkload EXCEPT !.orphan = FALSE]
      BY <2>1
    <3> QED
      BY <3>1 DEF NoWorkload
  <2>2. CASE w # NoWorkload
    BY <2>2 DEF Workload
  <2> QED
    BY <2>1, <2>2
<1>2. ~ Working(l)
  BY DEF ServiceInv, Adopted, Working
<1>3. /\ NoService.phase = "absent"
      /\ NoService.applied = NoInput
  BY DEF NoService
<1> QED
  BY <1>1, <1>2, <1>3 DEF ServiceInv, Adopted, Present, UsesHeld, Working

\* The config is copied.
LEMMA Rendering ==
  ASSUME NEW c, NEW l \in ChildLocal, NEW w \in Workload, NEW k, NEW u,
         NEW conf, NEW g, NEW o, NEW h,
         ServiceInv(c, l, w, conf, g, o, h), l.pc = "render", ~ w.orphan,
         Known(conf, g, o), c.phase = "live" => Names(conf) \subseteq h,
         k = [l EXCEPT !.pc = "deploy", !.c = conf],
         u = [w EXCEPT !.own = conf]
  PROVE  ServiceInv(c, k, u, conf, g, o, h)
<1>1. /\ k.pc = "deploy" /\ k.c = conf /\ k.t = l.t /\ k.n = l.n
      /\ k.ready = l.ready
      /\ u.own = conf /\ u.rev = w.rev /\ u.pods = w.pods /\ ~ u.orphan
  BY DEF ChildLocal, Workload
<1>2. ~ l.ready /\ Working(l) /\ Working(k) /\ ~ k.ready
  BY <1>1 DEF ServiceInv, Adopted, Working
<1>3. c.phase \notin {"absent", "new"} /\ conf # NoConfig
  BY <1>2 DEF ServiceInv, Adopted
<1>4. Adopted(c, k, u)
  BY <1>1, <1>2, <1>3 DEF Adopted
<1>5. On(k, g) = On(l, g) /\ Known(k, g, o) = Known(l, g, o)
  BY <1>1 DEF On, Known, Before, Unset
<1>6. Present(c) => UsesKnown(c, k, u, g, o)
  BY <1>1, <1>2, <1>5 DEF ServiceInv, UsesKnown
<1>7. Present(c) => Chain(c, k, u, conf, g)
  BY <1>1, <1>2, <1>5 DEF ServiceInv, Chain
<1>8. UsesHeld(c, u, h)
  BY <1>1 DEF ServiceInv, UsesHeld
<1> QED
  BY <1>3, <1>4, <1>6, <1>7, <1>8 DEF ServiceInv

\* The StatefulSet gets a new template.
LEMMA Deploying ==
  ASSUME NEW c, NEW l, NEW w \in Workload, NEW k, NEW u, NEW r,
         NEW conf, NEW g, NEW o, NEW h,
         ServiceInv(c, l, w, conf, g, o, h), l.pc = "deploy",
         ~ Working(k), r.t = l.t, r.n = l.n,
         u = [w EXCEPT !.rev = r, !.seen = FALSE]
  PROVE  ServiceInv(c, k, u, conf, g, o, h)
<1>1. u.own = w.own /\ u.rev = r /\ u.pods = w.pods /\ u.orphan = w.orphan
  BY DEF Workload
<1>2. ~ l.ready /\ Working(l) /\ ~ k.ready /\ k.pc # "deploy"
  BY DEF ServiceInv, Adopted, Working
<1>3. c.phase \notin {"absent", "new"} /\ conf # NoConfig
  BY <1>2 DEF ServiceInv, Adopted
<1>4. Adopted(c, k, u)
  BY <1>1, <1>2, <1>3 DEF ServiceInv, Adopted
<1>5. On(r, g) = On(l, g) /\ Known(r, g, o) = Known(l, g, o)
  BY DEF On, Known, Before, Unset
<1>6. Present(c) => UsesKnown(c, k, u, g, o)
  BY <1>1, <1>2, <1>5 DEF ServiceInv, UsesKnown
<1>7. Present(c) => Chain(c, k, u, conf, g)
  <2> SUFFICES ASSUME Present(c) PROVE Chain(c, k, u, conf, g)
    OBVIOUS
  <2>1. Chain(c, l, w, conf, g)
    BY DEF ServiceInv
  <2>2. ASSUME ~ w.orphan, On(w.rev, g) PROVE On(r, g)
    BY <2>1, <2>2, <1>2, <1>5 DEF Chain
  <2> QED
    BY <2>1, <2>2, <1>1, <1>2, <1>5 DEF Chain
<1>8. UsesHeld(c, u, h)
  BY <1>1 DEF ServiceInv, UsesHeld
<1> QED
  BY <1>3, <1>4, <1>6, <1>7, <1>8 DEF ServiceInv


\* The roll-out is judged.
LEMMA Checking ==
  ASSUME NEW c, NEW l \in ChildLocal, NEW w, NEW k, NEW r, NEW b \in BOOLEAN,
         NEW conf, NEW g, NEW o, NEW h,
         ServiceInv(c, l, w, conf, g, o, h), l.pc = "deploy",
         r.t = l.t, r.n = l.n, w.rev = r, b => \A p \in w.pods : p.rev = r,
         k = [l EXCEPT !.pc = "patch", !.ready = b]
  PROVE  ServiceInv(c, k, w, conf, g, o, h)
<1>1. k.pc = "patch" /\ k.ready = b /\ k.t = l.t /\ k.n = l.n
  BY DEF ChildLocal
<1>2. ~ l.ready /\ Working(l) /\ (Working(k) <=> b)
  BY <1>1 DEF ServiceInv, Adopted, Working
<1>3. c.phase \notin {"absent", "new"} /\ conf # NoConfig
  BY <1>2 DEF ServiceInv, Adopted
<1>4. c.phase = "live" => ~ w.orphan
  BY DEF ServiceInv, Adopted
<1>5. Adopted(c, k, w)
  BY <1>1, <1>2, <1>3, <1>4 DEF ServiceInv, Adopted
<1>6. /\ On(k, g) = On(l, g) /\ Known(k, g, o) = Known(l, g, o)
      /\ On(r, g) = On(l, g)
  BY <1>1 DEF On, Known, Before, Unset
<1>7. Present(c) => UsesKnown(c, k, w, g, o)
  BY <1>1, <1>2, <1>6 DEF ServiceInv, UsesKnown
<1>8. Present(c) => Chain(c, k, w, conf, g)
  BY <1>1, <1>2, <1>6 DEF ServiceInv, Chain
<1> QED
  BY <1>3, <1>5, <1>7, <1>8 DEF ServiceInv

\* The status is published.
LEMMA Patching ==
  ASSUME NEW c \in ServiceCR, NEW l \in ChildLocal, NEW w \in Workload,
         NEW conf, NEW g, NEW o, NEW h,
         ServiceInv(c, l, w, conf, g, o, h), c.phase # "absent"
  PROVE  ServiceInv(Patched(c, l), ChildIdle, w, conf, g, o, h)
<1> DEFINE d == Patched(c, l)
<1> SUFFICES ServiceInv(d, ChildIdle, w, conf, g, o, h)
  OBVIOUS
<1>1. /\ d.phase = IF c.phase = "new" THEN "live" ELSE c.phase
      /\ d.t = c.t /\ d.n = c.n
      /\ d.applied = IF l.ready THEN [t |-> l.t, n |-> l.n] ELSE c.applied
  BY DEF Patched, ServiceCR
<1> HIDE DEF d
<1>2. ServiceInv(c, ChildIdle, w, conf, g, o, h)
  BY Resting DEF ChildIdle, Working
<1>3. ~ Working(ChildIdle) /\ ~ ChildIdle.ready /\ ChildIdle.pc = "idle"
  BY DEF ChildIdle, Working
<1>4. On(d, g) = On(c, g) /\ Known(d, g, o) = Known(c, g, o)
  BY <1>1 DEF On, Known, Before, Unset
<1>5. CASE c.phase = "new"
  <2>1. /\ w.orphan \/ w = NoWorkload
        /\ ~ l.ready /\ c.applied = NoInput
    BY <1>5 DEF ServiceInv, Adopted, Working
  <2>2. d.phase = "live" /\ d.applied = NoInput
    BY <1>1, <1>5, <2>1
  <2>3. Adopted(d, ChildIdle, w)
    BY <1>3, <2>2 DEF Adopted
  <2>4. /\ ~ w.orphan => /\ w.own.t = NoSecret /\ w.own.n = NoSecret
                         /\ w.rev.t = NoSecret /\ w.rev.n = NoSecret
                         /\ w.pods = {}
        /\ NoInput.t = NoSecret /\ NoInput.n = NoSecret
    BY <2>1 DEF NoWorkload, NoConfig, NoRev, NoInput
  <2>5. UsesKnown(d, ChildIdle, w, g, o)
    BY <1>2, <1>3, <1>4, <1>5, <2>2, <2>4
       DEF ServiceInv, UsesKnown, Known, Unset, Present
  <2>6. Chain(d, ChildIdle, w, conf, g)
    BY <1>2, <1>3, <1>4, <1>5, <2>2, <2>4 DEF ServiceInv, Chain, On, Present
  <2>7. UsesHeld(d, w, h)
    BY <2>4 DEF UsesHeld, Names
  <2> QED
    BY <1>2, <1>3, <1>5, <2>3, <2>5, <2>6, <2>7 DEF ServiceInv
<1>6. CASE c.phase = "live"
  <2>1. d.phase = "live"
    BY <1>1, <1>6
  <2>2. Adopted(d, ChildIdle, w)
    BY <1>1, <1>2, <1>3, <1>6, <2>1 DEF ServiceInv, Adopted
  <2>3. ASSUME l.ready PROVE /\ On(d.applied, g) = On(l, g)
                             /\ Known(d.applied, g, o) = Known(l, g, o)
                             /\ ~ w.orphan
    BY <2>3, <1>1, <1>6 DEF On, Known, Before, Unset, ServiceInv, Adopted
  <2>4. UsesKnown(d, ChildIdle, w, g, o)
    BY <1>1, <1>2, <1>3, <1>4, <1>6, <2>3
       DEF ServiceInv, UsesKnown, Present, Working
  <2>5. Chain(d, ChildIdle, w, conf, g)
    BY <1>1, <1>2, <1>3, <1>4, <1>6, <2>3
       DEF ServiceInv, Chain, Present, Working
  <2>6. UsesHeld(d, w, h)
    BY <1>6, <2>1 DEF ServiceInv, UsesHeld
  <2> QED
    BY <1>2, <1>3, <1>6, <2>1, <2>2, <2>4, <2>5, <2>6 DEF ServiceInv
<1>7. CASE c.phase = "deleting"
  BY <1>1, <1>2, <1>3, <1>7 DEF ServiceInv, Adopted, Present, UsesHeld
<1> QED
  BY <1>5, <1>6, <1>7 DEF ServiceCR

\* Pods come and go: a new one has the present template or that of another
\* Pod, and the present config.
LEMMA PodsMoving ==
  ASSUME NEW c, NEW l, NEW w, NEW u, NEW conf, NEW g, NEW o, NEW h,
         ServiceInv(c, l, w, conf, g, o, h), ~ w.orphan, w # NoWorkload,
         u.own = w.own, u.rev = w.rev, u.orphan = w.orphan,
         \A q \in u.pods :
            \/ q \in w.pods
            \/ /\ q.use = w.own
               /\ q.rev = w.rev \/ \E p \in w.pods : q.rev = p.rev
  PROVE  ServiceInv(c, l, u, conf, g, o, h)
<1>1. c.phase \notin {"absent", "new"}
  BY DEF ServiceInv, Adopted
<1>2. Adopted(c, l, u)
  BY <1>1 DEF ServiceInv, Adopted
<1>3. Present(c) => UsesKnown(c, l, u, g, o)
  BY DEF ServiceInv, UsesKnown
<1>4. Present(c) => Chain(c, l, u, conf, g)
  <2> SUFFICES ASSUME Present(c) PROVE Chain(c, l, u, conf, g)
    OBVIOUS
  <2>1. Chain(c, l, w, conf, g)
    BY DEF ServiceInv
  <2>2. \A q \in u.pods : /\ On(q.rev, g) => On(w.rev, g) /\ On(q.use, g)
                          /\ On(q.use, g) => On(conf, g)
    BY <2>1 DEF Chain
  <2>3. On(c.applied, g) \/ (l.ready /\ On(l, g)) =>
          On(w.rev, g) /\ \A q \in u.pods : On(q.rev, g)
    BY <2>1 DEF Chain
  <2> QED
    BY <2>1, <2>2, <2>3 DEF Chain
<1>5. UsesHeld(c, u, h)
  BY DEF ServiceInv, UsesHeld
<1> QED
  BY <1>2, <1>3, <1>4, <1>5 DEF ServiceInv

\* What a deleted CR left behind is collected.
LEMMA Collecting ==
  ASSUME NEW c, NEW l, NEW w, NEW conf, NEW g, NEW o, NEW h,
         ServiceInv(c, l, w, conf, g, o, h), w.orphan
  PROVE  ServiceInv(c, l, NoWorkload, conf, g, o, h)
<1>1. /\ NoWorkload.own.t = NoSecret /\ NoWorkload.own.n = NoSecret
      /\ NoWorkload.rev.t = NoSecret /\ NoWorkload.rev.n = NoSecret
      /\ NoWorkload.pods = {} /\ ~ NoWorkload.orphan
      /\ NoInput.t = NoSecret /\ NoInput.n = NoSecret
  BY DEF NoWorkload, NoConfig, NoRev, NoInput
<1> HIDE DEF NoWorkload, NoInput
<1>2. Adopted(c, l, NoWorkload)
  BY <1>1 DEF ServiceInv, Adopted
<1>3. Present(c) => UsesKnown(c, l, NoWorkload, g, o)
  BY <1>1 DEF ServiceInv, UsesKnown, Known, Unset
<1>4. Present(c) => Chain(c, l, NoWorkload, conf, g)
  BY <1>1 DEF ServiceInv, Adopted, Chain, On, Present, Working
<1>5. UsesHeld(c, NoWorkload, h)
  BY <1>1 DEF UsesHeld, Names
<1> QED
  BY <1>2, <1>3, <1>4, <1>5 DEF ServiceInv


\* A service that has applied the target uses nothing else.
LEMMA AllOnTarget ==
  ASSUME NEW c, NEW l, NEW w, NEW conf, NEW g, NEW o, NEW h,
         ServiceInv(c, l, w, conf, g, o, h), c.phase = "live",
         On(c.applied, g)
  PROVE  /\ ~ w.orphan
         /\ On(c, g) /\ On(w.own, g) /\ On(w.rev, g)
         /\ Working(l) => On(l, g)
         /\ \A p \in w.pods : On(p.rev, g) /\ On(p.use, g)
<1>1. ~ w.orphan
  BY DEF ServiceInv, Adopted, On, NoInput
<1> QED
  BY <1>1 DEF ServiceInv, Chain, Present

----------------------------------------------------------------------------
(***************************************************************************)
(* What the steps of the Cinder controller, of RabbitMQ and of the user do *)
(* to the invariant of a service.                                          *)
(***************************************************************************)

\* The child CR is created, or brought to what the config was rendered from.
LEMMA Specifying ==
  ASSUME NEW c \in ServiceCR, NEW l, NEW w, NEW conf, NEW g, NEW o, NEW h,
         ServiceInv(c, l, w, conf, g, o, h), conf # NoConfig,
         Known(conf, g, o)
  PROVE  ServiceInv(Deployed(c, conf.t, conf.n), l, w, conf, g, o, h)
<1> DEFINE d == Deployed(c, conf.t, conf.n)
<1> SUFFICES ServiceInv(d, l, w, conf, g, o, h)
  OBVIOUS
<1>1. /\ d.t = conf.t /\ d.n = conf.n
      /\ d.phase = IF c.phase = "absent" THEN "new" ELSE c.phase
      /\ d.applied = IF c.phase = "absent" THEN NoInput ELSE c.applied
  BY DEF Deployed, Created, Updated, NoService, ServiceCR
<1> HIDE DEF d
<1>2. On(d, g) = On(conf, g) /\ Known(d, g, o) = Known(conf, g, o)
  BY <1>1 DEF On, Known, Before, Unset
<1>3. Adopted(d, l, w)
  BY <1>1 DEF ServiceInv, Adopted
<1>4. UsesHeld(d, w, h)
  BY <1>1 DEF ServiceInv, UsesHeld
<1>5. CASE c.phase = "absent"
  <2>1. /\ d.phase = "new" /\ d.applied = NoInput /\ ~ Working(l)
        /\ w.orphan \/ w = NoWorkload
        /\ l.ready => l.pc = "patch"
    BY <1>1, <1>5 DEF ServiceInv, Adopted
  <2>2. /\ ~ w.orphan => /\ w.own.t = NoSecret /\ w.own.n = NoSecret
                         /\ w.rev.t = NoSecret /\ w.rev.n = NoSecret
                         /\ w.pods = {}
        /\ NoInput.t = NoSecret /\ NoInput.n = NoSecret
    BY <2>1 DEF NoWorkload, NoConfig, NoRev, NoInput
  <2>3. UsesKnown(d, l, w, g, o)
    BY <1>2, <2>1, <2>2 DEF UsesKnown, Known, Unset
  <2>4. Chain(d, l, w, conf, g)
    BY <1>2, <2>1, <2>2 DEF Chain, On, Working
  <2> QED
    BY <1>3, <1>4, <2>3, <2>4 DEF ServiceInv
<1>6. CASE c.phase # "absent"
  <2>1. d.phase = c.phase /\ d.applied = c.applied
    BY <1>1, <1>6
  <2>2. Present(d) => UsesKnown(d, l, w, g, o)
    BY <1>2, <2>1 DEF ServiceInv, UsesKnown, Present
  <2>3. Present(d) => Chain(d, l, w, conf, g)
    BY <1>2, <2>1 DEF ServiceInv, Chain, Present
  <2> QED
    BY <1>3, <1>4, <2>2, <2>3 DEF ServiceInv
<1> QED
  BY <1>5, <1>6

\* A child CR is deleted.
LEMMA Removing ==
  ASSUME NEW c \in ServiceCR, NEW l, NEW w, NEW conf, NEW g, NEW o, NEW h,
         ServiceInv(c, l, w, conf, g, o, h)
  PROVE  /\ ServiceInv(Deleted(c), l, w, conf, g, o, h)
         /\ ~ Present(Deleted(c))
<1>1. CASE c.phase = "new"
  <2>1. Deleted(c) = NoService
    BY <1>1 DEF Deleted
  <2>2. NoService.phase = "absent" /\ NoService.applied = NoInput
    BY DEF NoService
  <2> QED
    BY <1>1, <2>1, <2>2 DEF ServiceInv, Adopted, Present, UsesHeld
<1>2. CASE c.phase = "live"
  <2>1. Deleted(c) = [c EXCEPT !.phase = "deleting", !.gen = @ + 1]
    BY <1>2 DEF Deleted
  <2>2. Deleted(c).phase = "deleting" /\ conf # NoConfig
    BY <1>2, <2>1 DEF ServiceCR, ServiceInv
  <2> QED
    BY <1>2, <2>2 DEF ServiceInv, Adopted, Present, UsesHeld
<1>3. CASE c.phase \notin {"new", "live"}
  BY <1>3 DEF Deleted, Present
<1> QED
  BY <1>1, <1>2, <1>3

\* The config is rendered again.
LEMMA Rerendering ==
  ASSUME NEW c, NEW l, NEW w, NEW conf, NEW new, NEW g, NEW o, NEW h,
         ServiceInv(c, l, w, conf, g, o, h), new # NoConfig,
         On(conf, g) => On(new, g)
  PROVE  ServiceInv(c, l, w, new, g, o, h)
BY DEF ServiceInv, Chain

\* Secrets that the service does not use are released.
LEMMA Releasing ==
  ASSUME NEW c, NEW l, NEW w, NEW conf, NEW g, NEW o, NEW h, NEW k,
         ServiceInv(c, l, w, conf, g, o, h), UsesHeld(c, w, k)
  PROVE  ServiceInv(c, l, w, conf, g, o, k)
BY DEF ServiceInv

\* The target becomes a pair that nothing has seen.
LEMMA Retargeting ==
  ASSUME NEW c, NEW l, NEW w, NEW conf, NEW g, NEW o, NEW new, NEW old, NEW h,
         ServiceInv(c, l, w, conf, g, o, h),
         \A x : Known(x, g, o) => Known(x, new, old) /\ ~ On(x, new)
  PROVE  ServiceInv(c, l, w, conf, new, old, h)
<1>1. Present(c) => UsesKnown(c, l, w, new, old)
  BY DEF ServiceInv, UsesKnown
<1>2. Present(c) => Chain(c, l, w, conf, new)
  <2> SUFFICES ASSUME Present(c) PROVE Chain(c, l, w, conf, new)
    OBVIOUS
  <2>1. UsesKnown(c, l, w, g, o)
    BY DEF ServiceInv
  <2>2. /\ ~ On(c, new) /\ ~ On(c.applied, new)
        /\ Working(l) => ~ On(l, new)
        /\ ~ w.orphan =>
             /\ ~ On(w.own, new) /\ ~ On(w.rev, new)
             /\ \A p \in w.pods : ~ On(p.rev, new) /\ ~ On(p.use, new)
    BY <2>1 DEF UsesKnown
  <2> QED
    BY <2>2 DEF Chain, Working
<1> QED
  BY <1>1, <1>2 DEF ServiceInv

\* A service that has applied the target can take any other for the next.
LEMMA Falling ==
  ASSUME NEW c, NEW l, NEW w, NEW conf, NEW g, NEW o, NEW new, NEW h,
         ServiceInv(c, l, w, conf, g, o, h),
         Present(c) => c.phase = "live" /\ On(c.applied, g),
         \A x : On(x, g) => ~ On(x, new)
  PROVE  ServiceInv(c, l, w, conf, new, g, h)
<1>1. \A x : On(x, g) => Known(x, new, g)
  BY DEF On, Known, Before
<1>2. Present(c) => UsesKnown(c, l, w, new, g)
  BY <1>1, AllOnTarget DEF UsesKnown
<1>3. Present(c) => Chain(c, l, w, conf, new)
  BY AllOnTarget DEF Chain, Working
<1> QED
  BY <1>2, <1>3 DEF ServiceInv

\* The target is recorded in the status.
LEMMA Tracking ==
  ASSUME NEW c, NEW l, NEW w, NEW conf, NEW g, NEW o, NEW old, NEW h,
         ServiceInv(c, l, w, conf, g, o, h),
         \/ \A x : Known(x, g, o) => Known(x, g, old)
         \/ Present(c) => c.phase = "live" /\ On(c.applied, g)
  PROVE  ServiceInv(c, l, w, conf, g, old, h)
<1>1. \A x : On(x, g) => Known(x, g, old)
  BY DEF Known
<1>2. Present(c) => UsesKnown(c, l, w, g, old)
  <2>1. CASE \A x : Known(x, g, o) => Known(x, g, old)
    BY <2>1 DEF ServiceInv, UsesKnown
  <2>2. CASE Present(c) => c.phase = "live" /\ On(c.applied, g)
    BY <2>2, <1>1, AllOnTarget DEF UsesKnown
  <2> QED
    BY <2>1, <2>2
<1> QED
  BY <1>2 DEF ServiceInv


----------------------------------------------------------------------------
(***************************************************************************)
(* A step that concerns the services only.                                 *)
(***************************************************************************)

\* No CR appears, and none that has applied the target goes back.
Advances(c, d, g) ==
  /\ d.phase = "new" => c.phase = "new"
  /\ Present(d) => Present(c)
  /\ c.phase = "live" /\ d.phase = "live" /\ On(c.applied, g) =>
       On(d.applied, g)

\* What has rolled out the target keeps it,
LEMMA RolledOutAdvances ==
  ASSUME NEW v, NEW u, NEW conf, NEW g, RolledOutTo(v, conf, g),
         \A s \in Service : Advances(v[s], u[s], g)
  PROVE  RolledOutTo(u, conf, g)
BY DEF RolledOutTo, Advances, Present

\* the verdict of a reconcile in progress stays true,
LEMMA VerdictAdvances ==
  ASSUME NEW p, NEW v, NEW u, NEW g, Verdict(p, v, g),
         \A s \in Service : Advances(v[s], u[s], g)
  PROVE  Verdict(p, u, g)
<1>1. \A s \in Service :
        /\ ~ Present(v[s]) => ~ Present(u[s])
        /\ v[s].phase # "new" /\ (v[s].phase = "live" => On(v[s].applied, g))
             => u[s].phase # "new" /\ (u[s].phase = "live" => On(u[s].applied, g))
  BY DEF Advances, Present
<1>2. Volumes \subseteq Service
  BY ServiceAssumption DEF Optional
<1> QED
  BY <1>1, <1>2 DEF Verdict

\* and so does what it is about to track.
LEMMA TrackAdvances ==
  ASSUME NEW p, NEW c, NEW m, NEW x, NEW v, NEW u, NEW conf, NEW g,
         Track(p, c, m, x, v, conf, g),
         \A s \in Service : Advances(v[s], u[s], g)
  PROVE  Track(p, c, m, x, u, conf, g)
<1>1. RolledOutTo(v, conf, g) => RolledOutTo(u, conf, g)
  BY RolledOutAdvances
<1> QED
  BY <1>1 DEF Track

\* A step of one service that keeps the invariant of that service, and takes
\* nothing back, keeps the invariant of all.
LEMMA OneService ==
  ASSUME NEW s \in Service, PodsInv, Alive,
         UNCHANGED <<cr, tu, nu, tfin, config, par>>,
         \A r \in Service \ {s} :
           svc'[r] = svc[r] /\ chi'[r] = chi[r] /\ sts'[r] = sts[r],
         ServiceInv(svc'[s], chi'[s], sts'[s], config, Target, Previous, tfin),
         Advances(svc[s], svc'[s], Target)
  PROVE  PodsInv'
<1>1. Target' = Target /\ Previous' = Previous /\ Settled' = Settled
  BY DEF Target, Previous, Settled
<1>2. \A r \in Service : Advances(svc[r], svc'[r], Target)
  BY DEF Advances
<1>3. BeginInv' /\ ConfigInv'
  BY <1>1 DEF PodsInv, BeginInv, ConfigInv
<1>4. ParentInv'
  <2>1. Course(par, cr, tu, nu, config, Target, Previous)
    BY DEF PodsInv, ParentInv
  <2>2. Verdict(par, svc', Target)
    BY <1>2, VerdictAdvances DEF PodsInv, ParentInv
  <2>3. Track(par, cr, tu, nu, svc', config, Target)
    BY <1>2, TrackAdvances DEF PodsInv, ParentInv
  <2> QED
    BY <1>1, <2>1, <2>2, <2>3 DEF ParentInv
<1>5. ServicesInv'
  <2>1. \A r \in Service :
          ServiceInv(svc'[r], chi'[r], sts'[r], config, Target, Previous, tfin)
    BY DEF PodsInv, ServicesInv
  <2> QED
    BY <1>1, <2>1 DEF ServicesInv
<1> QED
  BY <1>3, <1>4, <1>5 DEF PodsInv

\* A child CR as it was.
LEMMA SameAdvances == \A c, g : Advances(c, c, g)
BY DEF Advances

\* What is rendered is held whenever there is a service.
LEMMA ConfigHeld ==
  ASSUME FinalizerInv, PodsInv, Alive, NEW s \in Service,
         svc[s].phase = "live"
  PROVE  Names(config) \subseteq tfin
<1>1. config # NoConfig
  BY DEF PodsInv, ServicesInv, ServiceInv
<1> QED
  BY <1>1 DEF FinalizerInv, PhaseInv, HeldInv, ConfigProtected, Alive, Names

\* Every step of a child controller.
LEMMA ServicePods ==
  ASSUME TypeOK, FinalizerInv, PodsInv, Alive, NEW s \in Service, ServiceStep(s)
  PROVE  PodsInv'
<1> DEFINE c == svc[s]
           l == chi[s]
           w == sts[s]
<1>1. /\ c \in ServiceCR /\ l \in ChildLocal /\ w \in Workload
      /\ ServiceInv(c, l, w, config, Target, Previous, tfin)
      /\ Known(config, Target, Previous)
      /\ c.phase = "live" => Names(config) \subseteq tfin
  BY ConfigHeld DEF TypeOK, PodsInv, ServicesInv, ConfigInv
<1>2. svc \in [Service -> ServiceCR] /\ chi \in [Service -> ChildLocal]
        /\ sts \in [Service -> Workload]
  BY DEF TypeOK
<1>3. ASSUME NEW k, k.pc = "patch" \/ k = ChildIdle, ~ k.ready,
             chi' = [chi EXCEPT ![s] = k],
             UNCHANGED <<cr, tu, nu, tfin, config, svc, sts, par>>
      PROVE  PodsInv'
  <2>1. ~ Working(k)
    BY <1>3 DEF Working, ChildIdle
  <2>2. ServiceInv(c, k, w, config, Target, Previous, tfin)
    BY <1>1, <2>1, Resting
  <2> QED
    BY <1>2, <1>3, <2>2, SameAdvances, OneService
<1>4. CASE CFetchAbsent(s)
  BY <1>1, <1>4, SameAdvances, OneService DEF CFetchAbsent
<1>5. CASE CFetchNew(s)
  <2> DEFINE k == [ChildIdle EXCEPT !.pc = "patch", !.gen = svc[s].gen]
  <2>1. k.pc = "patch" /\ ~ k.ready
    BY DEF ChildIdle
  <2>2. /\ chi' = [chi EXCEPT ![s] = k]
        /\ UNCHANGED <<cr, tu, nu, tfin, config, svc, sts, par>>
    BY <1>5 DEF CFetchNew
  <2> HIDE DEF k
  <2> QED
    BY <1>3, <2>1, <2>2
<1>6. CASE CFetchLive(s)
  <2> DEFINE k == [ChildIdle EXCEPT !.pc = "render", !.gen = svc[s].gen,
                                    !.t = svc[s].t, !.n = svc[s].n]
  <2>1. k.pc = "render" /\ ~ k.ready /\ k.t = c.t /\ k.n = c.n
    BY DEF ChildIdle
  <2>2. /\ chi' = [chi EXCEPT ![s] = k]
        /\ c.phase = "live"
        /\ UNCHANGED <<cr, tu, nu, tfin, config, svc, sts, par>>
    BY <1>6 DEF CFetchLive
  <2> HIDE DEF k
  <2>3. ServiceInv(c, k, w, config, Target, Previous, tfin)
    BY <1>1, <2>1, <2>2, Fetching
  <2> QED
    BY <1>2, <2>2, <2>3, SameAdvances, OneService
<1>7. CASE CFetchDeleting(s)
  <2> DEFINE u == [w EXCEPT !.orphan = (w # NoWorkload)]
  <2>1. /\ svc' = [svc EXCEPT ![s] = NoService]
        /\ sts' = [sts EXCEPT ![s] = u]
        /\ l.pc = "idle"
        /\ UNCHANGED <<cr, tu, nu, tfin, config, chi, par>>
    BY <1>7 DEF CFetchDeleting
  <2>2. ServiceInv(NoService, l, u, config, Target, Previous, tfin)
    BY <1>1, <2>1, Leaving
  <2>3. Advances(c, NoService, Target)
    BY DEF Advances, NoService, Present
  <2> HIDE DEF u
  <2> QED
    BY <1>2, <2>1, <2>2, <2>3, OneService
<1>8. CASE CRender(s)
  <2> DEFINE k == [l EXCEPT !.pc = "deploy", !.c = config]
             u == [w EXCEPT !.own = config]
  <2>1. /\ chi' = [chi EXCEPT ![s] = k]
        /\ sts' = [sts EXCEPT ![s] = u]
        /\ l.pc = "render" /\ ~ w.orphan
        /\ UNCHANGED <<cr, tu, nu, tfin, config, svc, par>>
    BY <1>2, <1>8 DEF CRender, Conflict
  <2>2. ServiceInv(c, k, u, config, Target, Previous, tfin)
    BY <1>1, <2>1, Rendering
  <2> HIDE DEF u, k
  <2> QED
    BY <1>2, <2>1, <2>2, SameAdvances, OneService
<1>9. CASE CRenderConflict(s)
  <2> DEFINE k == [l EXCEPT !.pc = "patch", !.requeue = TRUE]
  <2>1. /\ chi' = [chi EXCEPT ![s] = k]
        /\ l.pc = "render"
        /\ UNCHANGED <<cr, tu, nu, tfin, config, svc, sts, par>>
    BY <1>2, <1>9 DEF CRenderConflict
  <2>2. k.pc = "patch" /\ ~ k.ready
    BY <1>1, <2>1 DEF ChildLocal, ServiceInv, Adopted
  <2> HIDE DEF k
  <2> QED
    BY <1>3, <2>1, <2>2
<1>10. CASE CDeployWait(s)
  <2> DEFINE k == [l EXCEPT !.pc = "patch", !.requeue = TRUE]
  <2>1. /\ chi' = [chi EXCEPT ![s] = k]
        /\ l.pc = "deploy"
        /\ UNCHANGED <<cr, tu, nu, tfin, config, svc, sts, par>>
    BY <1>2, <1>10 DEF CDeployWait
  <2>2. k.pc = "patch" /\ ~ k.ready
    BY <1>1, <2>1 DEF ChildLocal, ServiceInv, Adopted
  <2> HIDE DEF k
  <2> QED
    BY <1>3, <2>1, <2>2
<1>11. CASE CDeployPatch(s)
  <2> DEFINE k == [l EXCEPT !.pc = "patch", !.requeue = TRUE]
             h == InputHash(s)
             u == [w EXCEPT !.rev = h, !.seen = FALSE]
  <2>1. /\ chi' = [chi EXCEPT ![s] = k]
        /\ sts' = [sts EXCEPT ![s] = u]
        /\ l.pc = "deploy"
        /\ UNCHANGED <<cr, tu, nu, tfin, config, svc, par>>
    BY <1>2, <1>11 DEF CDeployPatch
  <2>2. ~ Working(k)
    BY <1>1, <2>1 DEF ChildLocal, ServiceInv, Adopted, Working
  <2>3. h.t = l.t /\ h.n = l.n
    BY DEF InputHash
  <2> HIDE DEF k, h
  <2>4. ServiceInv(c, k, u, config, Target, Previous, tfin)
    BY <1>1, <2>1, <2>2, <2>3, Deploying
  <2> HIDE DEF u
  <2> QED
    BY <1>2, <2>1, <2>4, SameAdvances, OneService
<1>12. CASE CDeployCheck(s)
  <2> DEFINE h == InputHash(s)
             b == IsReadyForInput(s, h)
             k == [l EXCEPT !.pc = "patch", !.ready = b]
  <2>1. /\ chi' = [chi EXCEPT ![s] = k]
        /\ l.pc = "deploy" /\ w.rev = h
        /\ UNCHANGED <<cr, tu, nu, tfin, config, svc, sts, par>>
    BY <1>2, <1>12 DEF CDeployCheck
  <2>2. h.t = l.t /\ h.n = l.n
    BY DEF InputHash
  <2>3. b \in BOOLEAN /\ (b => \A p \in w.pods : p.rev = h)
    BY <1>1 DEF IsReadyForInput, Workload
  <2> HIDE DEF h, b
  <2>4. ServiceInv(c, k, w, config, Target, Previous, tfin)
    BY <1>1, <2>1, <2>2, <2>3, Checking
  <2> HIDE DEF k
  <2> QED
    BY <1>2, <2>1, <2>4, SameAdvances, OneService
<1>13. CASE CPatch(s)
  <2> DEFINE d == Patched(c, l)
  <2>1. /\ svc' = [svc EXCEPT ![s] = d]
        /\ chi' = [chi EXCEPT ![s] = ChildIdle]
        /\ c.phase # "absent"
        /\ UNCHANGED <<cr, tu, nu, tfin, config, sts, par>>
    BY <1>13 DEF CPatch
  <2>2. ServiceInv(d, ChildIdle, w, config, Target, Previous, tfin)
    BY <1>1, <2>1, Patching
  <2>3. Advances(c, d, Target)
    <3>1. /\ d.phase = IF c.phase = "new" THEN "live" ELSE c.phase
          /\ d.applied = IF l.ready THEN [t |-> l.t, n |-> l.n] ELSE c.applied
      BY <1>1 DEF Patched, ServiceCR
    <3>2. c.phase = "live" /\ On(c.applied, Target) /\ l.ready => On(l, Target)
      BY <1>1, AllOnTarget DEF Working
    <3>3. [t |-> l.t, n |-> l.n].t = l.t /\ [t |-> l.t, n |-> l.n].n = l.n
      OBVIOUS
    <3> HIDE DEF d
    <3> QED
      BY <3>1, <3>2, <3>3 DEF Advances, Present, On
  <2> HIDE DEF d
  <2> QED
    BY <1>2, <2>1, <2>2, <2>3, OneService
<1>14. CASE CPatchGone(s)
  <2>1. ~ ChildIdle.ready
    BY DEF ChildIdle
  <2>2. /\ chi' = [chi EXCEPT ![s] = ChildIdle]
        /\ UNCHANGED <<cr, tu, nu, tfin, config, svc, sts, par>>
    BY <1>14 DEF CPatchGone
  <2> QED
    BY <1>3, <2>1, <2>2
<1> QED
  BY <1>4, <1>5, <1>6, <1>7, <1>8, <1>9, <1>10, <1>11, <1>12, <1>13, <1>14
     DEF ServiceStep


\* The StatefulSet controller, the kubelets and the garbage collector.
LEMMA WorkloadPods ==
  ASSUME TypeOK, FinalizerInv, PodsInv, Alive, NEW s \in Service,
         \/ StsSync(s)
         \/ StsFinish(s)
         \/ StsCollect(s)
         \/ PodRestart(s)
  PROVE  PodsInv'
<1> DEFINE w == sts[s]
<1>1. /\ svc \in [Service -> ServiceCR] /\ chi \in [Service -> ChildLocal]
      /\ sts \in [Service -> Workload]
      /\ w \in Workload
      /\ ServiceInv(svc[s], chi[s], w, config, Target, Previous, tfin)
  BY DEF TypeOK, PodsInv, ServicesInv
<1>2. ASSUME NEW u, sts' = [sts EXCEPT ![s] = u],
             UNCHANGED <<cr, tu, nu, tfin, config, svc, chi, par>>,
             ~ w.orphan, w # NoWorkload,
             u.own = w.own, u.rev = w.rev, u.orphan = w.orphan,
             \A q \in u.pods :
                \/ q \in w.pods
                \/ /\ q.use = w.own
                   /\ q.rev = w.rev \/ \E p \in w.pods : q.rev = p.rev
      PROVE  PodsInv'
  <2>1. ServiceInv(svc[s], chi[s], u, config, Target, Previous, tfin)
    BY <1>1, <1>2, PodsMoving
  <2> QED
    BY <1>1, <1>2, <2>1, SameAdvances, OneService
<1>3. NoWorkload.rev = NoRev /\ NoWorkload.pods = {}
  BY DEF NoWorkload
<1>4. CASE StsSync(s)
  <2> DEFINE u == [w EXCEPT !.seen = TRUE,
                            !.pods = IF \E p \in @ : p.rev = w.rev THEN @
                                     ELSE @ \cup {NewPod(s)}]
  <2>1. /\ sts' = [sts EXCEPT ![s] = u]
        /\ UNCHANGED <<cr, tu, nu, tfin, config, svc, chi, par>>
        /\ ~ w.orphan /\ w.rev # NoRev
    BY <1>1, <1>4 DEF StsSync
  <2>2. /\ u.own = w.own /\ u.rev = w.rev /\ u.orphan = w.orphan
        /\ u.pods \subseteq w.pods \cup {NewPod(s)}
    BY <1>1 DEF Workload
  <2>3. NewPod(s).use = w.own /\ NewPod(s).rev = w.rev
    BY DEF NewPod
  <2> HIDE DEF u
  <2> QED
    BY <1>2, <1>3, <2>1, <2>2, <2>3
<1>5. CASE StsFinish(s)
  <2> DEFINE u == [w EXCEPT !.pods = {p \in @ : p.rev = w.rev}]
  <2>1. /\ sts' = [sts EXCEPT ![s] = u]
        /\ UNCHANGED <<cr, tu, nu, tfin, config, svc, chi, par>>
        /\ ~ w.orphan /\ w.pods # {}
    BY <1>1, <1>5 DEF StsFinish
  <2>2. /\ u.own = w.own /\ u.rev = w.rev /\ u.orphan = w.orphan
        /\ u.pods \subseteq w.pods
    BY <1>1 DEF Workload
  <2> HIDE DEF u
  <2> QED
    BY <1>2, <1>3, <2>1, <2>2
<1>6. CASE StsCollect(s)
  <2>1. /\ sts' = [sts EXCEPT ![s] = NoWorkload]
        /\ UNCHANGED <<cr, tu, nu, tfin, config, svc, chi, par>>
        /\ w.orphan
    BY <1>6 DEF StsCollect
  <2>2. ServiceInv(svc[s], chi[s], NoWorkload, config, Target, Previous, tfin)
    BY <1>1, <2>1, Collecting
  <2> QED
    BY <1>1, <2>1, <2>2, SameAdvances, OneService
<1>7. CASE PodRestart(s)
  <2>1. PICK p \in w.pods :
          sts' = [sts EXCEPT ![s].pods = (@ \ {p}) \cup {[p EXCEPT !.use = w.own]}]
    BY <1>7 DEF PodRestart
  <2> DEFINE q == [p EXCEPT !.use = w.own]
             u == [w EXCEPT !.pods = (@ \ {p}) \cup {q}]
  <2>2. /\ sts' = [sts EXCEPT ![s] = u]
        /\ UNCHANGED <<cr, tu, nu, tfin, config, svc, chi, par>>
        /\ ~ w.orphan
    BY <1>1, <1>7, <2>1 DEF PodRestart
  <2>3. p \in Pod
    BY <1>1 DEF Workload
  <2>4. q.use = w.own /\ q.rev = p.rev
    BY <2>3 DEF Pod
  <2> HIDE DEF q
  <2>5. /\ u.own = w.own /\ u.rev = w.rev /\ u.orphan = w.orphan
        /\ u.pods \subseteq w.pods \cup {q}
    BY <1>1 DEF Workload
  <2> HIDE DEF u
  <2> QED
    BY <1>2, <1>3, <2>2, <2>4, <2>5
<1> QED
  BY <1>4, <1>5, <1>6, <1>7

----------------------------------------------------------------------------
(***************************************************************************)
(* Failures.                                                               *)
(***************************************************************************)

\* A reconcile of the Cinder controller that is lost.
LEMMA LostReconcile ==
  ASSUME NEW v, NEW conf, NEW c, NEW m, NEW x, NEW g, NEW o
  PROVE  /\ Course(ParentIdle, c, m, x, conf, g, o)
         /\ Verdict(ParentIdle, v, g)
         /\ Track(ParentIdle, c, m, x, v, conf, g)
<1>1. ParentIdle.pc = "idle"
  BY DEF ParentIdle
<1> QED
  BY <1>1 DEF Course, Verdict, Track, NormalPC, AfterCleanup

\* One that returns early keeps what its copy of the status says.
LEMMA EarlyReturn ==
  ASSUME NEW p, NEW q, NEW v, NEW conf, NEW c, NEW m, NEW x, NEW g, NEW o,
         Track(p, c, m, x, v, conf, g), p.pc # "idle",
         q.pc = "patch", q.T = p.T, q.N = p.N
  PROVE  /\ Course(q, c, m, x, conf, g, o)
         /\ Verdict(q, v, g)
         /\ Track(q, c, m, x, v, conf, g)
<1>1. q.pc \notin NormalPC /\ q.pc \notin AfterCleanup /\ q.pc # "deploy"
  BY DEF NormalPC, AfterCleanup
<1>2. Course(q, c, m, x, conf, g, o) /\ Verdict(q, v, g)
  BY <1>1 DEF Course, Verdict
<1>3. q.pc \in AfterFinalT /\ q.pc \in AfterFinalN
  BY DEF AfterFinalT, AfterFinalN
<1> QED
  BY <1>1, <1>2, <1>3 DEF Track

\* A step of the Cinder controller in which nothing but its own state changes
\* that the invariant speaks of.
LEMMA ParentMoves ==
  ASSUME PodsInv, Alive,
         UNCHANGED <<cr, tu, nu, tfin, config, svc, sts, chi>>,
         Course(par', cr, tu, nu, config, Target, Previous),
         Verdict(par', svc, Target),
         Track(par', cr, tu, nu, svc, config, Target)
  PROVE  PodsInv'
<1>1. Target' = Target /\ Previous' = Previous /\ Settled' = Settled
  BY DEF Target, Previous, Settled
<1>2. BeginInv' /\ ConfigInv'
  BY <1>1 DEF PodsInv, BeginInv, ConfigInv
<1>3. ServicesInv'
  BY <1>1 DEF PodsInv, ServicesInv
<1> QED
  BY <1>1, <1>2, <1>3 DEF PodsInv, ParentInv

\* Failed calls and crashes.
LEMMA FaultPods ==
  ASSUME TypeOK, FinalizerInv, PodsInv, Alive, Fault
  PROVE  PodsInv'
<1>1. CASE Crash
  <2>1. /\ par' = ParentIdle
        /\ chi' = [s \in Service |-> ChildIdle]
        /\ UNCHANGED <<cr, tu, nu, tfin, config, svc, sts>>
    BY <1>1 DEF Crash
  <2>2. Target' = Target /\ Previous' = Previous /\ Settled' = Settled
    BY <2>1 DEF Target, Previous, Settled
  <2>3. BeginInv' /\ ConfigInv'
    BY <2>1, <2>2 DEF PodsInv, BeginInv, ConfigInv
  <2>4. ParentInv'
    BY <2>1, LostReconcile DEF ParentInv
  <2>5. ~ Working(ChildIdle)
    BY DEF Working, ChildIdle
  <2>6. ServicesInv'
    BY <2>1, <2>2, <2>5, Resting DEF PodsInv, ServicesInv
  <2> QED
    BY <2>3, <2>4, <2>6 DEF PodsInv
<1>2. CASE PFail
  <2>1. /\ par' = [par EXCEPT !.pc = "patch", !.requeue = TRUE]
        /\ par.pc # "idle"
        /\ UNCHANGED <<cr, tu, nu, tfin, config, svc, sts, chi>>
    BY <1>2 DEF PFail, NormalPC, DeletePC
  <2>2. par'.pc = "patch" /\ par'.T = par.T /\ par'.N = par.N
    BY <2>1 DEF TypeOK, ParentLocal
  <2>3. Track(par, cr, tu, nu, svc, config, Target)
    BY DEF PodsInv, ParentInv
  <2> QED
    BY <2>1, <2>2, <2>3, EarlyReturn, ParentMoves
<1>3. ASSUME NEW s \in Service, CFail(s) PROVE PodsInv'
  <2> DEFINE k == [chi[s] EXCEPT !.pc = "patch", !.requeue = TRUE]
  <2>1. /\ chi \in [Service -> ChildLocal] /\ chi[s] \in ChildLocal
        /\ ServiceInv(svc[s], chi[s], sts[s], config, Target, Previous, tfin)
    BY DEF TypeOK, PodsInv, ServicesInv
  <2>2. /\ chi' = [chi EXCEPT ![s] = k]
        /\ chi[s].pc \in {"render", "deploy"}
        /\ UNCHANGED <<cr, tu, nu, tfin, config, svc, sts, par>>
    BY <1>3, <2>1 DEF CFail
  <2>3. ~ Working(k)
    BY <2>1, <2>2 DEF ChildLocal, ServiceInv, Adopted, Working
  <2> HIDE DEF k
  <2>4. ServiceInv(svc[s], k, sts[s], config, Target, Previous, tfin)
    BY <2>1, <2>3, Resting
  <2> QED
    BY <2>1, <2>2, <2>4, SameAdvances, OneService
<1> QED
  BY <1>1, <1>2, <1>3 DEF Fault


----------------------------------------------------------------------------
(***************************************************************************)
(* RabbitMQ and the user.                                                  *)
(***************************************************************************)

\* A settled status tracks what is asked for.
LEMMA SettledTarget ==
  ASSUME Settled
  PROVE  /\ Target = Previous
         /\ tu \in TransportSecrets /\ cr.T = tu
         /\ cr.notif => nu \in NotifSecrets /\ Previous.n = nu /\ nu # NoSecret
         /\ ~ cr.notif => cr.N = Nil /\ Previous.n = NoSecret
BY SecretAssumption DEF Settled, Target, Previous, NotifName

\* Then what is known is of the tracked pair, ...
LEMMA SettledKnown ==
  ASSUME Settled, NEW x, Known(x, Target, Previous)
  PROVE  \/ Unset(x)
         \/ /\ x.t = tu /\ x.t # NoSecret
            /\ x.n \in {Previous.n, NoSecret}
BY SettledTarget DEF Known, On, Before, Previous

\* ... no reconcile has moved on from it, ...
LEMMA SettledTrack ==
  ASSUME Settled, Track(par, cr, tu, nu, svc, config, Target), par.pc # "idle"
  PROVE  /\ par.T = cr.T
         /\ NotifName(par.N) = NotifName(cr.N)
         /\ par.N = Nil => cr.N = Nil
BY SettledTarget, SecretAssumption DEF Track, Previous

\* ... and all work towards it.
LEMMA SettledCourse ==
  ASSUME TypeOK, Settled, par.pc \in NormalPC,
         Course(par, cr, tu, nu, config, Target, Previous)
  PROVE  /\ Aim(par, tu, nu) = Target
         /\ nu \notin NotifSecrets => ~ par.notif
         /\ cr.notif => par.notif
         /\ par.pc \in BeforeNotif => par.notif = cr.notif
<1>1. Aim(par, tu, nu) = Target
  BY SettledTarget DEF Course
<1>2. nu \notin NotifSecrets => ~ par.notif
  BY SettledTarget DEF Course
<1>3. cr.notif => par.notif
  BY SettledTarget DEF Course
<1>4. ASSUME par.pc \in BeforeNotif PROVE par.notif = cr.notif
  <2>1. par.notif \in BOOLEAN /\ cr.notif \in BOOLEAN
    BY DEF TypeOK, ParentLocal, CinderCR
  <2>2. ASSUME par.notif, ~ cr.notif PROVE FALSE
    <3>1. Aim(par, tu, nu).n = nu /\ nu \in NotifSecrets
      BY <1>2, <1>4, <2>2 DEF Aim
    <3>2. Target.n = NoSecret
      BY <2>2 DEF Target
    <3> QED
      BY <1>1, <3>1, <3>2, SecretAssumption
  <2> QED
    BY <1>3, <2>1, <2>2
<1> QED
  BY <1>1, <1>2, <1>3, <1>4


\* A change of the target that nothing has seen yet.
LEMMA Shifting ==
  ASSUME TypeOK, FinalizerInv, PodsInv, Alive, Settled, ~ Settled',
         UNCHANGED <<tfin, config, svc, sts, chi, par>>,
         cr'.T = cr.T, cr'.N = cr.N, cr'.svcs = cr.svcs,
         tu' \in TransportSecrets, nu' = nu \/ nu' \in NotifSecrets,
         cr'.notif => nu' \in NotifSecrets /\ (cr.notif \/ tu' = tu),
         par.pc \in NormalPC => Aim(par, tu', nu') \in {Target, Target'},
         Known(config, Target', Previous), ~ On(config, Target'),
         \A s \in Service :
           ServiceInv(svc[s], chi[s], sts[s], config, Target', Previous, tfin)
  PROVE  PodsInv'
<1>1. Previous' = Previous
  BY DEF Previous
<1>2. BeginInv'
  BY DEF PodsInv, BeginInv
<1>3. ConfigInv'
  BY <1>1 DEF ConfigInv
<1>4. ServicesInv'
  BY <1>1 DEF ServicesInv
<1>5. Course(par, cr', tu', nu', config, Target', Previous)
  <2> SUFFICES ASSUME par.pc \in NormalPC
               PROVE  Course(par, cr', tu', nu', config, Target', Previous)
    BY DEF Course
  <2>1. /\ nu \notin NotifSecrets => ~ par.notif
        /\ cr.notif => par.notif
    BY SettledCourse DEF PodsInv, ParentInv
  <2>2. ~ par.notif /\ cr'.notif => Previous.t = tu' /\ Previous.n = NoSecret
    BY <2>1, SettledTarget DEF Previous
  <2>3. Aim(par, tu', nu') = Target' \/ Aim(par, tu', nu') = Previous
    BY SettledTarget
  <2> QED
    BY <2>1, <2>2, <2>3 DEF Course
<1>6. Verdict(par, svc, Target')
  <2>1. par.pc \in {"deploy"} \cup AfterCleanup => ~ On(par, Target')
    BY DEF FinalizerInv, HeldInv, AfterRender, AfterManageN, AfterManageT,
           NormalPC, AfterCleanup, On
  <2> QED
    BY <2>1 DEF PodsInv, ParentInv, Verdict
<1>7. Track(par, cr', tu', nu', svc, config, Target')
  BY SettledTrack DEF PodsInv, ParentInv, Track
<1> QED
  BY <1>1, <1>2, <1>3, <1>4, <1>5, <1>6, <1>7 DEF PodsInv, ParentInv

\* A change that leaves the target alone.
LEMMA Keeping ==
  ASSUME PodsInv, Alive, Target' = Target, Previous' = Previous,
         UNCHANGED <<tfin, config, svc, sts, chi, par>>,
         BeginInv', Settled' => Settled,
         Course(par, cr', tu', nu', config, Target, Previous),
         Track(par, cr', tu', nu', svc, config, Target)
  PROVE  PodsInv'
<1>1. ConfigInv'
  BY DEF PodsInv, ConfigInv
<1>2. ServicesInv'
  BY DEF PodsInv, ServicesInv
<1>3. Verdict(par, svc, Target)
  BY DEF PodsInv, ParentInv
<1> QED
  BY <1>1, <1>2, <1>3 DEF PodsInv, ParentInv

\* The first messaging credential is issued: nothing was rendered before.
LEMMA ProvisionTransportPods ==
  ASSUME TypeOK, FinalizerInv, PodsInv, Alive,
         NEW x \in TransportSecrets, ProvisionTransport(x)
  PROVE  PodsInv'
<1>1. /\ tu = NoSecret /\ tu' = x /\ tu \notin TransportSecrets
      /\ UNCHANGED <<cr, nu, tfin, config, svc, sts, chi, par>>
  BY SecretAssumption DEF ProvisionTransport
<1>2. config = NoConfig /\ cr.T = NoSecret
  BY <1>1 DEF PodsInv, BeginInv
<1>3. Target.t = NoSecret /\ Previous.t = NoSecret /\ Previous' = Previous
  BY <1>1, <1>2 DEF Target, Previous
<1>4. Target'.t = x /\ Target'.n = Target.n
  BY <1>1 DEF Target
<1>5. BeginInv'
  BY <1>1, <1>2 DEF PodsInv, BeginInv
<1>6. ConfigInv'
  BY <1>1, <1>2 DEF ConfigInv, Known, Unset, NoConfig
<1>7. ServicesInv'
  BY <1>1, <1>2, <1>3
     DEF PodsInv, ServicesInv, ServiceInv, Present
<1>8. par.pc \in NormalPC => par.pc = "transport"
  BY <1>3 DEF PodsInv, ParentInv, Course, Aim, FinalizerInv, HeldInv
<1>9. Course(par, cr, x, nu, config, Target', Previous)
  <2> SUFFICES ASSUME par.pc = "transport"
               PROVE  Course(par, cr, x, nu, config, Target', Previous)
    BY <1>8 DEF Course
  <2>1. par.notif = cr.notif
    BY <1>1 DEF PodsInv, ParentInv, Course, NormalPC
  <2>2. Aim(par, x, nu) = Target'
    BY <1>1, <2>1 DEF Aim, Target, BeforeNotif
  <2> QED
    BY <2>1, <2>2 DEF Course, BeforeNotif
<1>10. Verdict(par, svc, Target')
  <2>1. par.pc \notin {"deploy"} \cup AfterCleanup
    BY <1>8 DEF NormalPC, AfterCleanup
  <2> QED
    BY <2>1 DEF PodsInv, ParentInv, Verdict
<1>11. Track(par, cr, x, nu, svc, config, Target')
  <2>1. \A g : ~ On(config, g) /\ ~ RolledOutTo(svc, config, g)
    BY <1>2 DEF On, RolledOutTo, NoConfig
  <2> QED
    BY <1>1, <1>2, <2>1 DEF PodsInv, ParentInv, Track
<1> QED
  BY <1>1, <1>3, <1>5, <1>6, <1>7, <1>9, <1>10, <1>11 DEF PodsInv, ParentInv


\* The first notifications credential is issued: with the bus enabled, what
\* was asked for until now is what was tracked.
LEMMA ProvisionNotifPods ==
  ASSUME TypeOK, FinalizerInv, PodsInv, Alive,
         NEW x \in NotifSecrets, ProvisionNotif(x)
  PROVE  PodsInv'
<1>1. /\ nu = NoSecret /\ nu' = x /\ nu \notin NotifSecrets /\ x # NoSecret
      /\ UNCHANGED <<cr, tu, tfin, config, svc, sts, chi, par>>
      /\ Previous' = Previous
  BY SecretAssumption DEF ProvisionNotif, Previous
<1>2. BeginInv' /\ NotifName(cr.N) = NoSecret
  BY <1>1 DEF PodsInv, BeginInv
<1>3. Course(par, cr, tu, nu, config, Target, Previous)
  BY DEF PodsInv, ParentInv
<1>4. Track(par, cr, tu, nu, svc, config, Target)
  BY DEF PodsInv, ParentInv
<1>5. CASE ~ cr.notif
  <2>1. Target' = Target
    BY <1>1, <1>5 DEF Target
  <2>2. Settled' => Settled
    BY <1>1, <1>5 DEF Settled
  <2>3. par.pc \in NormalPC => ~ par.notif
    BY <1>1, <1>3, <1>5 DEF Course
  <2>4. Course(par, cr, tu, x, config, Target, Previous)
    BY <1>3, <2>3 DEF Course, Aim
  <2>5. Track(par, cr, tu, x, svc, config, Target)
    BY <1>1, <1>4, <1>5 DEF Track
  <2> QED
    BY <1>1, <1>2, <2>1, <2>2, <2>4, <2>5, Keeping
<1>6. CASE cr.notif
  <2>1. /\ Target.t = tu /\ Target.n = NoSecret
        /\ Target'.t = tu /\ Target'.n = x
        /\ Previous.t = cr.T /\ Previous.n = NoSecret
    BY <1>1, <1>2, <1>6 DEF Target, Previous
  <2>2. config # NoConfig => cr.T = tu
    BY <1>1, <1>6 DEF PodsInv, BeginInv
  <2>3. ~ Settled'
    BY <1>1, <1>2, <1>6, SecretAssumption DEF Settled, NotifName
  <2>4. ASSUME cr.T = tu, NEW y, Known(y, Target, Previous)
        PROVE  Known(y, Target', Previous) /\ ~ On(y, Target')
    BY <1>1, <2>1, <2>4 DEF Known, On, Before, Unset
  <2>5. Known(config, Target', Previous) /\ ~ On(config, Target')
    <3>1. CASE config = NoConfig
      BY <3>1 DEF Known, On, Unset, NoConfig
    <3>2. CASE config # NoConfig
      BY <3>2, <2>2, <2>4 DEF PodsInv, ConfigInv
    <3> QED
      BY <3>1, <3>2
  <2>6. ConfigInv'
    BY <1>1, <2>3, <2>5 DEF ConfigInv
  <2>7. ASSUME NEW s \in Service
        PROVE  ServiceInv(svc[s], chi[s], sts[s], config, Target', Previous, tfin)
    <3>1. ServiceInv(svc[s], chi[s], sts[s], config, Target, Previous, tfin)
      BY DEF PodsInv, ServicesInv
    <3>2. CASE config = NoConfig
      BY <3>1, <3>2 DEF ServiceInv, Present
    <3>3. CASE config # NoConfig
      BY <3>1, <3>3, <2>2, <2>4, Retargeting
    <3> QED
      BY <3>2, <3>3
  <2>8. ServicesInv'
    BY <1>1, <2>7 DEF ServicesInv
  <2>9. Course(par, cr, tu, x, config, Target', Previous)
    <3> SUFFICES ASSUME par.pc \in NormalPC
                 PROVE  Course(par, cr, tu, x, config, Target', Previous)
      BY DEF Course
    <3>1. CASE par.notif
      <4>1. Aim(par, tu, nu) = Target /\ par.pc \in BeforeNotif
        BY <1>1, <1>3, <3>1 DEF Course
      <4>2. Aim(par, tu, x) = Target'
        BY <1>1, <1>6, <3>1, <4>1 DEF Aim, Target
      <4> QED
        BY <1>3, <3>1, <4>2 DEF Course
    <3>2. CASE ~ par.notif
      <4>1. Previous.t = tu /\ Previous.n = NoSecret
        BY <1>3, <1>6, <3>2 DEF Course
      <4>2. Target = Previous
        BY <2>1, <4>1 DEF Target, Previous
      <4>3. Aim(par, tu, x) = Aim(par, tu, nu)
        BY <3>2 DEF Aim
      <4>4. Aim(par, tu, x) = Previous
        BY <1>3, <4>2, <4>3 DEF Course
      <4> QED
        BY <1>3, <3>2, <2>5, <4>4 DEF Course
    <3> QED
      BY <3>1, <3>2
  <2>10. Verdict(par, svc, Target')
    <3>1. par.pc \in {"deploy"} \cup AfterCleanup => ~ On(par, Target')
      BY <2>5 DEF FinalizerInv, HeldInv, AfterRender, AfterManageN,
                  AfterManageT, NormalPC, AfterCleanup, On
    <3> QED
      BY <3>1 DEF PodsInv, ParentInv, Verdict
  <2>11. Track(par, cr, tu, x, svc, config, Target')
    <3>1. RolledOutTo(svc, config, Target) => cr.T = tu
      BY <2>2 DEF RolledOutTo, On, NoConfig
    <3> QED
      BY <1>1, <1>2, <1>4, <1>6, <3>1 DEF Track
  <2> QED
    BY <1>1, <1>2, <2>6, <2>8, <2>9, <2>10, <2>11 DEF PodsInv, ParentInv
<1> QED
  BY <1>5, <1>6


\* What is known when the status is settled is tracked, and a new pair is not.
LEMMA SettledFresh ==
  ASSUME Settled, NEW new, new.t # tu \/ new.n \notin {Previous.n, NoSecret},
         NEW y, Known(y, Target, Previous)
  PROVE  Known(y, new, Previous) /\ ~ On(y, new)
<1>1. Previous.t = tu
  BY SettledTarget DEF Previous
<1> QED
  BY <1>1, SettledKnown DEF Known, On, Before, Unset

\* A new target that differs from what is tracked finds no service on it.
LEMMA SettledServices ==
  ASSUME PodsInv, Alive, Settled, NEW new, NEW s \in Service,
         new.t # tu \/ new.n \notin {Previous.n, NoSecret}
  PROVE  ServiceInv(svc[s], chi[s], sts[s], config, new, Previous, tfin)
BY SettledFresh, Retargeting DEF PodsInv, ServicesInv

\* A rotation of the messaging credential shifts the target; the pair that
\* was settled becomes the previous one.
LEMMA RotateTransportPods ==
  ASSUME Policy, TypeOK, FinalizerInv, PodsInv, Alive,
         NEW x \in TransportSecrets, RotateTransport(x)
  PROVE  PodsInv'
<1>1. /\ Settled /\ tu' = x /\ x # tu
      /\ UNCHANGED <<cr, nu, tfin, config, svc, sts, chi, par>>
  BY DEF RotateTransport, MayRotate, Policy
<1>2. ~ Settled' /\ (cr.notif => nu \in NotifSecrets)
  BY <1>1 DEF Settled
<1>3. Target'.t = x /\ Target' = [t |-> x, n |-> Target.n]
  BY <1>1 DEF Target
<1>4. Known(config, Target', Previous) /\ ~ On(config, Target')
  BY <1>1, <1>3, SettledFresh DEF PodsInv, ConfigInv
<1>5. \A s \in Service :
        ServiceInv(svc[s], chi[s], sts[s], config, Target', Previous, tfin)
  BY <1>1, <1>3, SettledServices
<1>6. ASSUME par.pc \in NormalPC
      PROVE  Aim(par, x, nu) \in {Target, Target'}
  <2>1. Aim(par, tu, nu) = Target
    BY <1>1, <1>6, SettledCourse DEF PodsInv, ParentInv
  <2>2. CASE par.pc = "transport"
    <3>1. Aim(par, tu, nu).n = Aim(par, x, nu).n /\ Aim(par, x, nu).t = x
      BY <2>2 DEF Aim
    <3>2. Aim(par, x, nu) = [t |-> x, n |-> Target.n]
      BY <2>1, <3>1 DEF Aim
    <3> QED
      BY <1>3, <3>2
  <2>3. CASE par.pc # "transport"
    BY <2>1, <2>3 DEF Aim
  <2> QED
    BY <2>2, <2>3
<1> QED
  BY <1>1, <1>2, <1>4, <1>5, <1>6, Shifting

\* So does one of the notifications credential, if notifications are on.
LEMMA RotateNotifPods ==
  ASSUME Policy, TypeOK, FinalizerInv, PodsInv, Alive,
         NEW x \in NotifSecrets, RotateNotif(x)
  PROVE  PodsInv'
<1>1. /\ Settled /\ nu' = x /\ nu \in NotifSecrets /\ x # nu /\ x # NoSecret
      /\ UNCHANGED <<cr, tu, tfin, config, svc, sts, chi, par>>
      /\ Previous' = Previous
  BY SecretAssumption DEF RotateNotif, MayRotate, Policy, Previous
<1>2. tu \in TransportSecrets
  BY <1>1, SettledTarget
<1>3. CASE cr.notif
  <2>1. ~ Settled'
    BY <1>1, <1>3 DEF Settled
  <2>2. Previous.n = nu
    BY <1>1, <1>3, SettledTarget
  <2>3. Target' = [t |-> tu, n |-> x]
    BY <1>1, <1>3 DEF Target
  <2>4. Target'.n \notin {Previous.n, NoSecret}
    BY <1>1, <2>2, <2>3
  <2>5. Known(config, Target', Previous) /\ ~ On(config, Target')
    BY <1>1, <2>4, SettledFresh DEF PodsInv, ConfigInv
  <2>6. \A s \in Service :
          ServiceInv(svc[s], chi[s], sts[s], config, Target', Previous, tfin)
    BY <1>1, <2>4, SettledServices
  <2>7. ASSUME par.pc \in NormalPC
        PROVE  Aim(par, tu, x) \in {Target, Target'}
    <3>1. /\ Aim(par, tu, nu) = Target
          /\ par.pc \in BeforeNotif => par.notif
      BY <1>1, <1>3, <2>7, SettledCourse DEF PodsInv, ParentInv
    <3>2. CASE par.pc \in BeforeNotif
      <4>1. Aim(par, tu, nu).t = tu
        BY <3>1 DEF Target
      <4>2. Aim(par, tu, x) = [t |-> tu, n |-> x]
        BY <3>1, <3>2, <4>1 DEF Aim
      <4> QED
        BY <2>3, <4>2
    <3>3. CASE par.pc \notin BeforeNotif
      BY <3>1, <3>3 DEF Aim
    <3> QED
      BY <3>2, <3>3
  <2> QED
    BY <1>1, <1>2, <1>3, <2>1, <2>5, <2>6, <2>7, Shifting
<1>4. CASE ~ cr.notif
  <2>1. Target' = Target
    BY <1>1, <1>4 DEF Target
  <2>2. BeginInv'
    BY <1>1 DEF PodsInv, BeginInv
  <2>3. Course(par, cr, tu, x, config, Target, Previous)
    <3>1. par.pc \in NormalPC => /\ par.pc \in BeforeNotif => ~ par.notif
                                 /\ Aim(par, tu, nu) = Target
      BY <1>1, <1>4, SettledCourse DEF PodsInv, ParentInv, TypeOK, CinderCR
    <3>2. par.pc \in NormalPC => Aim(par, tu, x) = Target
      BY <3>1 DEF Aim
    <3> QED
      BY <1>1, <1>2, <1>4, <3>2 DEF Course
  <2>4. Track(par, cr, tu, x, svc, config, Target)
    BY <1>1, <1>4 DEF PodsInv, ParentInv, Track
  <2> QED
    BY <1>1, <2>1, <2>2, <2>3, <2>4, Keeping
<1> QED
  BY <1>3, <1>4


\* The user enables the notifications bus, or disables it once every service
\* has rolled out.
LEMMA TogglePods ==
  ASSUME Policy, TypeOK, FinalizerInv, PodsInv, Alive, ToggleNotifications
  PROVE  PodsInv'
<1>1. /\ Settled /\ RolledOut
      /\ cr' = [cr EXCEPT !.notif = ~ @]
      /\ UNCHANGED <<tu, nu, tfin, config, svc, sts, chi, par>>
  BY DEF ToggleNotifications, Policy
<1>2. /\ cr'.phase = cr.phase /\ cr'.T = cr.T /\ cr'.N = cr.N
      /\ cr'.svcs = cr.svcs /\ cr'.notif = ~ cr.notif
      /\ cr.notif \in BOOLEAN
      /\ Previous' = Previous
  BY <1>1 DEF TypeOK, CinderCR, Previous
<1>3. tu \in TransportSecrets /\ cr.T = tu /\ Target = Previous
  BY <1>1, SettledTarget
<1>4. par.pc \in NormalPC => Aim(par, tu', nu') \in {Target, Target'}
  BY <1>1, SettledCourse DEF PodsInv, ParentInv
<1>5. CASE cr.notif
  <2>1. nu \in NotifSecrets /\ Previous.n = nu /\ nu # NoSecret /\ cr.N = nu
    BY <1>1, <1>5, SettledTarget DEF Settled
  <2>2. ~ Settled'
    BY <1>1, <1>2, <1>5, <2>1, SecretAssumption DEF Settled
  <2>3. Target'.t = tu /\ Target'.n = NoSecret /\ Target.t = tu /\ Target.n = nu
    BY <1>1, <1>2, <1>3, <1>5, <2>1 DEF Target
  <2>4. Known(config, Target', Previous) /\ ~ On(config, Target')
    BY <1>1, <1>3, <2>1, <2>3
       DEF PodsInv, ConfigInv, Known, On, Before, Unset, NoConfig
  <2>5. ASSUME NEW s \in Service
        PROVE  ServiceInv(svc[s], chi[s], sts[s], config, Target', Previous, tfin)
    <3>1. ServiceInv(svc[s], chi[s], sts[s], config, Target, Previous, tfin)
      BY DEF PodsInv, ServicesInv
    <3>2. tu # NoSecret
      BY <1>3, SecretAssumption
    <3>3. ASSUME Present(svc[s])
          PROVE  svc[s].phase = "live" /\ On(svc[s].applied, Target)
      <4>1. svc[s].applied = [t |-> tu, n |-> nu]
        BY <1>1, <1>5, <3>3 DEF RolledOut, Present
      <4>2. On(svc[s].applied, Target)
        BY <2>3, <3>2, <4>1 DEF On
      <4>3. svc[s].applied # NoInput
        BY <3>2, <4>1 DEF NoInput
      <4> QED
        BY <3>1, <3>3, <4>2, <4>3 DEF Present, ServiceInv, Adopted
    <3>4. \A x : On(x, Target) => ~ On(x, Target')
      BY <2>1, <2>3 DEF On
    <3> QED
      BY <1>3, <3>1, <3>3, <3>4, Falling
  <2> QED
    BY <1>1, <1>2, <1>3, <1>4, <1>5, <2>2, <2>4, <2>5, Shifting
<1>6. CASE ~ cr.notif /\ nu \in NotifSecrets
  <2>1. Previous.n = NoSecret /\ nu # NoSecret /\ cr.N = Nil
    BY <1>1, <1>6, SettledTarget, SecretAssumption
  <2>2. ~ Settled'
    BY <1>1, <1>2, <1>6, <2>1, SecretAssumption DEF Settled
  <2>3. Target'.n \notin {Previous.n, NoSecret}
    BY <1>1, <1>2, <1>6, <2>1 DEF Target
  <2>4. Known(config, Target', Previous) /\ ~ On(config, Target')
    BY <1>1, <2>3, SettledFresh DEF PodsInv, ConfigInv
  <2>5. \A s \in Service :
          ServiceInv(svc[s], chi[s], sts[s], config, Target', Previous, tfin)
    BY <1>1, <2>3, SettledServices
  <2> QED
    BY <1>1, <1>2, <1>3, <1>4, <1>6, <2>2, <2>4, <2>5, Shifting
<1>7. CASE ~ cr.notif /\ nu \notin NotifSecrets
  <2>1. Target' = Target /\ ~ Settled'
    BY <1>1, <1>2, <1>7 DEF Target, Settled
  <2>2. BeginInv'
    BY <1>1, <1>2, <1>3 DEF PodsInv, BeginInv
  <2>3. Course(par, cr', tu, nu, config, Target, Previous)
    <3>1. par.pc \in NormalPC => Aim(par, tu, nu) = Target /\ ~ par.notif
      BY <1>1, <1>7, SettledCourse DEF PodsInv, ParentInv
    <3>2. Previous.t = tu /\ Previous.n = NoSecret
      BY <1>1, <1>3, <1>7, SettledTarget DEF Previous
    <3> QED
      BY <1>3, <3>1, <3>2 DEF Course
  <2>4. Track(par, cr', tu, nu, svc, config, Target)
    <3>1. par.pc # "idle" =>
            /\ par.T = cr.T
            /\ NotifName(par.N) = NotifName(cr.N)
            /\ par.N = Nil => cr.N = Nil
      BY <1>1, SettledTrack DEF PodsInv, ParentInv
    <3> QED
      BY <1>2, <3>1 DEF PodsInv, ParentInv, Track
  <2> QED
    BY <1>1, <1>2, <2>1, <2>2, <2>3, <2>4, Keeping
<1> QED
  BY <1>2, <1>5, <1>6, <1>7

\* Edits that do not concern these Secrets.
LEMMA EditPods ==
  ASSUME PodsInv, Alive,
         UNCHANGED <<tu, nu, tfin, config, svc, sts, chi, par>>,
         cr'.T = cr.T, cr'.N = cr.N,
         cr'.notif = cr.notif, Single \subseteq cr'.svcs
  PROVE  PodsInv'
<1>1. Target' = Target /\ Previous' = Previous /\ (Settled' => Settled)
  BY DEF Target, Previous, Settled
<1>2. BeginInv'
  BY DEF PodsInv, BeginInv
<1>3. /\ Course(par, cr', tu, nu, config, Target, Previous)
      /\ Track(par, cr', tu, nu, svc, config, Target)
  BY DEF PodsInv, ParentInv, Course, Track
<1> QED
  BY <1>1, <1>2, <1>3, Keeping

\* Whatever the user, RabbitMQ or the platform does.
LEMMA DisturbancePods ==
  ASSUME Policy, TypeOK, FinalizerInv, PodsInv, Alive, Disturbance
  PROVE  PodsInv'
<1>1. ASSUME NEW x \in ACName, SetApplicationCredential(x) PROVE PodsInv'
  <2>1. /\ cr'.T = cr.T /\ cr'.N = cr.N
        /\ cr'.notif = cr.notif /\ cr'.svcs = cr.svcs
        /\ UNCHANGED <<tu, nu, tfin, config, svc, sts, chi, par>>
    BY <1>1 DEF SetApplicationCredential, TypeOK, CinderCR
  <2>2. Single \subseteq cr'.svcs
    BY <2>1 DEF PodsInv, BeginInv
  <2> QED
    BY <2>1, <2>2, EditPods
<1>2. ASSUME NEW s \in Optional, ToggleService(s) PROVE PodsInv'
  <2>1. /\ cr'.T = cr.T /\ cr'.N = cr.N
        /\ cr'.notif = cr.notif
        /\ cr.svcs \ {s} \subseteq cr'.svcs
        /\ UNCHANGED <<tu, nu, tfin, config, svc, sts, chi, par>>
    BY <1>2 DEF ToggleService, TypeOK, CinderCR
  <2>2. s \notin Single
    BY <1>2 DEF ToggleService, Policy, Optional, Single
  <2>3. Single \subseteq cr'.svcs
    BY <2>1, <2>2 DEF PodsInv, BeginInv
  <2> QED
    BY <2>1, <2>3, EditPods
<1>3. ASSUME DeleteCinder PROVE PodsInv'
  <2>1. /\ cr'.T = cr.T /\ cr'.N = cr.N
        /\ cr'.notif = cr.notif /\ cr'.svcs = cr.svcs
        /\ UNCHANGED <<tu, nu, tfin, config, svc, sts, chi, par>>
    BY <1>3 DEF DeleteCinder, TypeOK, CinderCR
  <2>2. Single \subseteq cr'.svcs
    BY <2>1 DEF PodsInv, BeginInv
  <2> QED
    BY <2>1, <2>2, EditPods
<1> QED
  BY <1>1, <1>2, <1>3, RotateTransportPods, RotateNotifPods, TogglePods,
     WorkloadPods, ServiceAssumption DEF Disturbance, Optional

\* Provisioning, roll-outs and the garbage collection keep the invariant.
LEMMA PlatformPods ==
  ASSUME TypeOK, FinalizerInv, PodsInv, Alive, PlatformStep
  PROVE  PodsInv'
<1>1. ASSUME NEW s \in Service, ChildCollect(s) PROVE FALSE
  BY <1>1 DEF ChildCollect, Alive
<1> QED
  BY <1>1, ProvisionTransportPods, ProvisionNotifPods, WorkloadPods
     DEF PlatformStep


----------------------------------------------------------------------------
(***************************************************************************)
(* The Cinder controller.                                                  *)
(***************************************************************************)

\* A reconcile starts.
LEMMA FetchPods ==
  ASSUME TypeOK, PodsInv, Alive, PFetchNew \/ PFetchLive
  PROVE  PodsInv'
<1>1. /\ UNCHANGED <<cr, tu, nu, tfin, config, svc, sts, chi>>
      /\ par'.pc \in {"patch", "transport"}
      /\ par'.T = cr.T /\ par'.N = cr.N /\ par'.notif = cr.notif
      /\ par'.svcs = cr.svcs /\ par'.next = 1
  BY DEF PFetchNew, PFetchLive, Fetched, ParentIdle
<1>2. Course(par', cr, tu, nu, config, Target, Previous)
  <2>1. par'.pc = "transport" => Aim(par', tu, nu) = Target
    BY <1>1 DEF Aim, Target, BeforeNotif
  <2> QED
    BY <1>1, <2>1 DEF Course, NormalPC, BeforeNotif
<1>3. Verdict(par', svc, Target)
  BY <1>1 DEF PodsInv, BeginInv, Verdict, AfterCleanup, NormalPC
<1>4. Track(par', cr, tu, nu, svc, config, Target)
  BY <1>1 DEF PodsInv, BeginInv, Track, NormalPC
<1> QED
  BY <1>1, <1>2, <1>3, <1>4, ParentMoves

\* It finds the messaging bus without a credential.
LEMMA TransportWaitPods ==
  ASSUME TypeOK, FinalizerInv, PodsInv, Alive, PTransportWait
  PROVE  PodsInv'
<1>1. /\ tu \in {Nil, NoSecret} /\ tu' = NoSecret
      /\ tu \notin TransportSecrets /\ tu' \notin TransportSecrets
      /\ UNCHANGED <<cr, nu, tfin, config, svc, sts, chi>>
      /\ Previous' = Previous /\ par.pc = "transport"
  BY SecretAssumption DEF PTransportWait, Previous
<1>2. /\ par'.pc = "patch" /\ par'.T = par.T /\ par'.N = par.N
      /\ par.T \in TName
  BY DEF PTransportWait, TypeOK, ParentLocal
<1>3. config = NoConfig /\ cr.T = NoSecret
  BY <1>1 DEF PodsInv, BeginInv
<1>4. BeginInv'
  BY <1>1, <1>3 DEF PodsInv, BeginInv
<1>5. ConfigInv'
  BY <1>1, <1>3 DEF ConfigInv, Known, Unset, NoConfig
<1>6. ServicesInv'
  BY <1>1, <1>3 DEF PodsInv, ServicesInv, ServiceInv, Present
<1>7. Track(par', cr, tu', nu, svc, config, Target')
  <2>1. \A g : ~ On(config, g) /\ ~ RolledOutTo(svc, config, g)
    BY <1>3 DEF On, RolledOutTo, NoConfig
  <2>2. par.T # Nil
    BY <1>2, SecretAssumption DEF TName
  <2> QED
    BY <1>1, <1>2, <1>3, <2>1, <2>2 DEF PodsInv, ParentInv, Track, NormalPC
<1>8. /\ Course(par', cr, tu', nu, config, Target', Previous)
      /\ Verdict(par', svc, Target')
  BY <1>2 DEF Course, Verdict, NormalPC, AfterCleanup
<1> QED
  BY <1>1, <1>4, <1>5, <1>6, <1>7, <1>8 DEF PodsInv, ParentInv

\* It finds the notifications bus without one.
LEMMA NotifWaitPods ==
  ASSUME TypeOK, FinalizerInv, PodsInv, Alive, PNotifWait
  PROVE  PodsInv'
<1>1. /\ nu \in {Nil, NoSecret} /\ nu' = NoSecret
      /\ nu \notin NotifSecrets /\ nu' \notin NotifSecrets
      /\ UNCHANGED <<cr, tu, tfin, config, svc, sts, chi>>
      /\ Previous' = Previous /\ Target' = Target /\ par.pc = "notif"
  BY SecretAssumption DEF PNotifWait, Previous, Target
<1>2. /\ par'.pc = "patch" /\ par'.T = par.T /\ par'.N = NotifName(par.N)
  BY DEF PNotifWait, TypeOK, ParentLocal
<1>3. NotifName(par'.N) = NotifName(par.N) /\ par'.N # Nil
  BY <1>2, SecretAssumption DEF NotifName
<1>4. BeginInv' /\ (Settled' => Settled)
  BY <1>1 DEF PodsInv, BeginInv, Settled
<1>5. ConfigInv' /\ ServicesInv'
  BY <1>1, <1>4 DEF PodsInv, ConfigInv, ServicesInv
<1>6. Track(par', cr, tu, nu', svc, config, Target)
  BY <1>1, <1>2, <1>3
     DEF PodsInv, ParentInv, Track, NormalPC, AfterFinalT, AfterFinalN
<1>7. /\ Course(par', cr, tu, nu', config, Target, Previous)
      /\ Verdict(par', svc, Target)
  BY <1>2 DEF Course, Verdict, NormalPC, AfterCleanup
<1> QED
  BY <1>1, <1>4, <1>5, <1>6, <1>7 DEF PodsInv, ParentInv

\* It reads the name of the messaging Secret, ...
LEMMA TransportPods ==
  ASSUME TypeOK, FinalizerInv, PodsInv, Alive, PTransport
  PROVE  PodsInv'
<1>1. /\ tu \in TransportSecrets /\ par.pc = "transport"
      /\ UNCHANGED <<cr, tu, nu, tfin, config, svc, sts, chi>>
      /\ tu # NoSecret
  BY SecretAssumption DEF PTransport, TypeOK, TName
<1>2. /\ par'.pc = "manageT" /\ par'.t = tu /\ par'.n = par.n
      /\ par'.T = (IF par.T = NoSecret THEN tu ELSE par.T)
      /\ par'.N = par.N /\ par'.notif = par.notif /\ par'.svcs = par.svcs
      /\ par'.next = par.next
  BY DEF PTransport, TypeOK, ParentLocal
<1>3. Course(par', cr, tu, nu, config, Target, Previous)
  <2>1. Aim(par', tu, nu) = Aim(par, tu, nu)
    BY <1>1, <1>2 DEF Aim, BeforeNotif
  <2> QED
    BY <1>1, <1>2, <2>1 DEF PodsInv, ParentInv, Course, NormalPC, BeforeNotif
<1>4. Verdict(par', svc, Target)
  BY <1>1, <1>2 DEF PodsInv, ParentInv, Verdict, AfterCleanup, NormalPC
<1>5. Track(par', cr, tu, nu, svc, config, Target)
  BY <1>1, <1>2
     DEF PodsInv, ParentInv, Track, NormalPC, AfterFinalT, AfterFinalN
<1> QED
  BY <1>1, <1>3, <1>4, <1>5, ParentMoves

\* ... and that of the notifications Secret.
LEMMA NotifPods ==
  ASSUME TypeOK, FinalizerInv, PodsInv, Alive, PNotif
  PROVE  PodsInv'
<1>1. /\ nu \in NotifSecrets /\ par.pc = "notif" /\ par.notif
      /\ UNCHANGED <<cr, tu, nu, tfin, config, svc, sts, chi>>
  BY DEF PNotif, TypeOK, NName, FinalizerInv, HeldInv
<1>2. /\ par'.pc = "manageN" /\ par'.t = par.t /\ par'.n = nu
      /\ par'.T = par.T /\ par'.N = NotifName(par.N)
      /\ par'.notif = par.notif /\ par'.svcs = par.svcs
      /\ par'.next = par.next
  BY DEF PNotif, TypeOK, ParentLocal
<1>3. NotifName(par'.N) = NotifName(par.N) /\ par'.N # Nil
  BY <1>2, SecretAssumption DEF NotifName
<1>4. Course(par', cr, tu, nu, config, Target, Previous)
  <2>1. Aim(par', tu, nu) = Aim(par, tu, nu)
    BY <1>1, <1>2 DEF Aim, BeforeNotif
  <2> QED
    BY <1>1, <1>2, <2>1 DEF PodsInv, ParentInv, Course, NormalPC, BeforeNotif
<1>5. Verdict(par', svc, Target)
  BY <1>1, <1>2 DEF PodsInv, ParentInv, Verdict, AfterCleanup, NormalPC
<1>6. Track(par', cr, tu, nu, svc, config, Target)
  BY <1>1, <1>2, <1>3
     DEF PodsInv, ParentInv, Track, NormalPC, AfterFinalT, AfterFinalN
<1> QED
  BY <1>1, <1>4, <1>5, <1>6, ParentMoves


\* A step of the Cinder controller that changes which Secrets are held.
LEMMA HoldingMoves ==
  ASSUME PodsInv, Alive,
         UNCHANGED <<cr, tu, nu, config, svc, sts, chi>>,
         \A s \in Service : UsesHeld(svc[s], sts[s], tfin'),
         Course(par', cr, tu, nu, config, Target, Previous),
         Verdict(par', svc, Target),
         Track(par', cr, tu, nu, svc, config, Target)
  PROVE  PodsInv'
<1>1. Target' = Target /\ Previous' = Previous /\ Settled' = Settled
  BY DEF Target, Previous, Settled
<1>2. BeginInv' /\ ConfigInv'
  BY <1>1 DEF PodsInv, BeginInv, ConfigInv
<1>3. ServicesInv'
  BY <1>1, Releasing DEF PodsInv, ServicesInv
<1> QED
  BY <1>1, <1>2, <1>3 DEF PodsInv, ParentInv

\* More Secrets are held.
LEMMA HoldingMore ==
  ASSUME PodsInv, Alive, NEW s \in Service, NEW k, tfin \subseteq k
  PROVE  UsesHeld(svc[s], sts[s], k)
BY DEF PodsInv, ServicesInv, ServiceInv, UsesHeld

\* The finalizers are put on the Secrets.
LEMMA ManagePods ==
  ASSUME TypeOK, FinalizerInv, PodsInv, Alive, PManageT \/ PManageN
  PROVE  PodsInv'
<1>1. /\ UNCHANGED <<cr, tu, nu, config, svc, sts, chi>>
      /\ tfin \subseteq tfin'
  BY DEF PManageT, PManageN, Manage
<1>2. /\ par'.t = par.t /\ par'.n = par.n /\ par'.T = par.T /\ par'.N = par.N
      /\ par'.notif = par.notif /\ par'.svcs = par.svcs
      /\ par'.next = par.next
      /\ par.notif \in BOOLEAN
      /\ \/ /\ par.pc = "manageT"
            /\ par'.pc = IF par.notif THEN "notif" ELSE "render"
         \/ par.pc = "manageN" /\ par'.pc = "render"
  BY DEF PManageT, PManageN, TypeOK, ParentLocal
<1>3. /\ par.pc = "manageN" => par.notif
      /\ par.pc = "manageT" => par.n = NoSecret
  BY DEF FinalizerInv, HeldInv
<1>4. Course(par', cr, tu, nu, config, Target, Previous)
  <2>1. Aim(par', tu, nu) = Aim(par, tu, nu)
    BY <1>2, <1>3 DEF Aim, BeforeNotif
  <2>2. /\ par.pc \in NormalPC /\ par'.pc \in NormalPC
        /\ par.notif /\ nu \notin NotifSecrets =>
             par.pc \in BeforeNotif /\ par'.pc \in BeforeNotif
    BY <1>2 DEF PodsInv, ParentInv, Course, NormalPC, BeforeNotif
  <2> QED
    BY <1>2, <2>1, <2>2 DEF PodsInv, ParentInv, Course
<1>5. Verdict(par', svc, Target)
  BY <1>2 DEF PodsInv, ParentInv, Verdict, AfterCleanup, NormalPC
<1>6. Track(par', cr, tu, nu, svc, config, Target)
  BY <1>2 DEF PodsInv, ParentInv, Track, NormalPC, AfterFinalT, AfterFinalN
<1> QED
  BY <1>1, <1>4, <1>5, <1>6, HoldingMore, HoldingMoves

\* The config is rendered.
LEMMA RenderPods ==
  ASSUME TypeOK, FinalizerInv, PodsInv, Alive, PRender
  PROVE  PodsInv'
<1>1. /\ UNCHANGED <<cr, tu, nu, tfin, svc, sts, chi>>
      /\ config'.t = par.t /\ config'.n = par.n
      /\ par.pc = "render"
      /\ Target' = Target /\ Previous' = Previous /\ Settled' = Settled
  BY DEF PRender, Rendered, Target, Previous, Settled
<1>2. /\ par'.t = par.t /\ par'.n = par.n /\ par'.T = par.T /\ par'.N = par.N
      /\ par'.notif = par.notif /\ par'.svcs = par.svcs
      /\ par'.next = par.next
      /\ par'.pc \in {"patch", "manageAC"}
      /\ par.notif \in BOOLEAN
  BY DEF PRender, TypeOK, ParentLocal
<1>3. par.t \in TransportSecrets /\ par.t # NoSecret /\ par.t # Nil
  BY <1>1, SecretAssumption
     DEF FinalizerInv, HeldInv, NormalPC, TypeOK, ParentLocal, TName
<1>4. config' # NoConfig
  BY <1>1, <1>3 DEF NoConfig
<1>5. /\ Aim(par, tu, nu) = [t |-> par.t, n |-> par.n]
      /\ Aim(par', tu, nu) = [t |-> par.t, n |-> par.n]
  BY <1>1, <1>2 DEF Aim, BeforeNotif
<1>6. \/ par.t = Target.t /\ par.n = Target.n /\ Aim(par, tu, nu) = Target
      \/ par.t = Previous.t /\ par.n = Previous.n /\ ~ On(config, Target)
         /\ Aim(par, tu, nu) = Previous
  BY <1>1, <1>5 DEF PodsInv, ParentInv, Course, NormalPC
<1>7. /\ On(config, Target) => On(config', Target)
      /\ Known(config', Target, Previous)
  BY <1>1, <1>3, <1>6 DEF On, Known, Before
<1>8. ~ par.notif \/ nu \in NotifSecrets
  BY <1>1 DEF PodsInv, ParentInv, Course, NormalPC, BeforeNotif
<1>9. tu \in TransportSecrets
  <2> SUFFICES ASSUME tu \notin TransportSecrets PROVE FALSE
    OBVIOUS
  <2>1. cr.T = NoSecret /\ tu \in {Nil, NoSecret}
    BY DEF PodsInv, BeginInv, TypeOK, TName
  <2> QED
    BY <1>3, <1>6, <2>1 DEF Target, Previous
<1>10. cr.notif /\ nu \notin NotifSecrets => cr.T = tu
  BY <1>1, <1>8 DEF PodsInv, ParentInv, Course, NormalPC, Previous
<1>11. BeginInv'
  BY <1>1, <1>9, <1>10 DEF PodsInv, BeginInv
<1>12. Settled => On(config', Target)
  BY <1>1, <1>3, <1>6, SettledTarget DEF On
<1>13. ConfigInv'
  BY <1>1, <1>7, <1>12 DEF ConfigInv
<1>14. ServicesInv'
  BY <1>1, <1>4, <1>7, Rerendering DEF PodsInv, ServicesInv
<1>15. Course(par', cr, tu, nu, config', Target, Previous)
  <2>1. Aim(par, tu, nu) = Target \/ ~ On(config', Target)
    <3>1. On(config', Target) =>
            [t |-> par.t, n |-> par.n] = [t |-> Target.t, n |-> Target.n]
      BY <1>1 DEF On
    <3>2. Target = [t |-> Target.t, n |-> Target.n]
      BY DEF Target
    <3> QED
      BY <1>5, <3>1, <3>2
  <2>2. Aim(par, tu, nu) = Target \/ Aim(par, tu, nu) = Previous
    BY <1>6
  <2>3. Aim(par', tu, nu) = Aim(par, tu, nu)
    BY <1>5
  <2> QED
    BY <1>1, <1>2, <1>8, <2>1, <2>2, <2>3
       DEF PodsInv, ParentInv, Course, NormalPC
<1>16. Verdict(par', svc, Target)
  BY <1>1, <1>2 DEF PodsInv, ParentInv, Verdict, AfterCleanup, NormalPC
<1>17. Track(par', cr, tu, nu, svc, config', Target)
  BY <1>1, <1>2
     DEF PodsInv, ParentInv, Track, NormalPC, AfterFinalT, AfterFinalN
<1> QED
  BY <1>1, <1>11, <1>13, <1>14, <1>15, <1>16, <1>17 DEF PodsInv, ParentInv

\* The application credential's finalizers do not matter here.
LEMMA CredentialPods ==
  ASSUME TypeOK, FinalizerInv, PodsInv, Alive, PManageAC \/ PFinalAC \/ PPruneAC
  PROVE  PodsInv'
<1>1. UNCHANGED <<cr, tu, nu, tfin, config, svc, sts, chi>>
  BY DEF PManageAC, PFinalAC, PPruneAC
<1>2. /\ par'.t = par.t /\ par'.n = par.n /\ par'.T = par.T /\ par'.N = par.N
      /\ par'.notif = par.notif /\ par'.svcs = par.svcs
      /\ par'.next = par.next /\ par'.ready = par.ready
      /\ par.next \in Nat
      /\ \/ par.pc = "manageAC" /\ par'.pc = "deploy"
         \/ par.pc = "finalAC" /\ par'.pc = "pruneT"
         \/ par.pc = "pruneAC" /\ par'.pc = "patch"
  BY DEF PManageAC, PFinalAC, PPruneAC, TypeOK, ParentLocal
<1>3. Course(par', cr, tu, nu, config, Target, Previous)
  <2>1. Aim(par', tu, nu) = Aim(par, tu, nu)
    BY <1>2 DEF Aim, BeforeNotif
  <2>2. ~ par.notif \/ nu \in NotifSecrets
    BY <1>2 DEF PodsInv, ParentInv, Course, NormalPC, BeforeNotif
  <2> QED
    BY <1>2, <2>1, <2>2 DEF PodsInv, ParentInv, Course, NormalPC
<1>4. Verdict(par', svc, Target)
  <2>1. CASE par'.pc = "deploy"
    <3>1. par'.next = 1
      BY <1>2, <2>1 DEF PodsInv, ParentInv, Verdict, AfterCleanup, NormalPC
    <3>2. \A s \in Service : ~ s < par'.next
      BY <3>1, ServiceAssumption DEF Service
    <3> QED
      BY <1>2, <2>1, <3>2
         DEF PodsInv, ParentInv, Verdict, AfterCleanup, NormalPC
  <2>2. CASE par'.pc = "pruneT"
    <3>1. \A g : On(par', g) = On(par, g)
      BY <1>2 DEF On
    <3> QED
      BY <1>2, <2>2, <3>1
         DEF PodsInv, ParentInv, Verdict, AfterCleanup, NormalPC
  <2>3. CASE par'.pc = "patch"
    BY <2>3 DEF Verdict, AfterCleanup, NormalPC
  <2> QED
    BY <1>2, <2>1, <2>2, <2>3
<1>5. Track(par', cr, tu, nu, svc, config, Target)
  BY <1>2 DEF PodsInv, ParentInv, Track, NormalPC, AfterFinalT, AfterFinalN
<1> QED
  BY <1>1, <1>3, <1>4, <1>5, ParentMoves


\* From the first service to the last prune, the config is what it works with.
LEMMA RollingOut ==
  ASSUME TypeOK, FinalizerInv, PodsInv, Alive,
         par.pc \in {"deploy"} \cup AfterCleanup
  PROVE  /\ par.t \in TransportSecrets /\ par.t # NoSecret
         /\ config.t = par.t /\ config.n = par.n /\ config # NoConfig
         /\ par.n \in NName /\ par.T \in TName /\ par.T # NoSecret
         /\ ~ par.notif => par.n = NoSecret
         /\ ~ par.notif \/ nu \in NotifSecrets
         /\ ~ par.notif /\ cr.notif => Previous.t = tu /\ Previous.n = NoSecret
         /\ \/ On(par, Target) /\ par.t = Target.t /\ par.n = Target.n
            \/ ~ On(config, Target) /\ par.t = Previous.t /\ par.n = Previous.n
<1>1. /\ par.pc \in NormalPC /\ par.pc \in AfterRender
      /\ par.pc \notin {"transport", "idle"}
      /\ par.pc \notin BeforeNotif
  BY DEF AfterCleanup, NormalPC, AfterRender, AfterManageN, AfterManageT,
         BeforeNotif
<1>2. par.t \in TName /\ par.n \in NName /\ par.T \in TName
  BY DEF TypeOK, ParentLocal
<1>3. /\ par.t # NoSecret /\ config.t = par.t /\ config.n = par.n
      /\ ~ par.notif => par.n = NoSecret
  BY <1>1 DEF FinalizerInv, HeldInv
<1>4. par.t \in TransportSecrets /\ config # NoConfig
  BY <1>2, <1>3 DEF TName, NoConfig
<1>5. par.T # NoSecret
  BY <1>1 DEF PodsInv, ParentInv, Track
<1>6. /\ ~ par.notif \/ nu \in NotifSecrets
      /\ ~ par.notif /\ cr.notif => Previous.t = tu /\ Previous.n = NoSecret
      /\ \/ Aim(par, tu, nu) = Target
         \/ Aim(par, tu, nu) = Previous /\ ~ On(config, Target)
  BY <1>1 DEF PodsInv, ParentInv, Course
<1>7. Aim(par, tu, nu) = [t |-> par.t, n |-> par.n]
  BY <1>1 DEF Aim
<1>8. \/ On(par, Target) /\ par.t = Target.t /\ par.n = Target.n
      \/ ~ On(config, Target) /\ par.t = Previous.t /\ par.n = Previous.n
  BY <1>3, <1>6, <1>7 DEF On
<1> QED
  BY <1>2, <1>3, <1>4, <1>5, <1>6, <1>8

\* A step of the Cinder controller that changes child CRs.
LEMMA ServingMoves ==
  ASSUME PodsInv, Alive,
         UNCHANGED <<cr, tu, nu, tfin, config, sts, chi>>,
         par.pc = "deploy", par'.pc \in {"deploy", "finalT"},
         par'.t = par.t, par'.n = par.n, par'.T = par.T, par'.N = par.N,
         par'.notif = par.notif,
         \A s \in Service : ServiceInv(svc'[s], chi[s], sts[s], config,
                                       Target, Previous, tfin),
         Verdict(par', svc', Target)
  PROVE  PodsInv'
<1>1. Target' = Target /\ Previous' = Previous /\ Settled' = Settled
  BY DEF Target, Previous, Settled
<1>2. BeginInv' /\ ConfigInv' /\ ServicesInv'
  BY <1>1 DEF PodsInv, BeginInv, ConfigInv, ServicesInv
<1>3. Course(par', cr, tu, nu, config, Target, Previous)
  <2>1. Aim(par', tu, nu) = Aim(par, tu, nu)
    BY DEF Aim, BeforeNotif
  <2> QED
    BY <2>1 DEF PodsInv, ParentInv, Course, NormalPC, BeforeNotif
<1>4. Track(par', cr, tu, nu, svc', config, Target)
  BY DEF PodsInv, ParentInv, Track, NormalPC, AfterFinalT, AfterFinalN
<1> QED
  BY <1>1, <1>2, <1>3, <1>4 DEF PodsInv, ParentInv

\* A service gets its CR: one that counts as ready has applied it.
LEMMA DeployPods ==
  ASSUME TypeOK, FinalizerInv, PodsInv, Alive, NEW s \in Service, PDeploy(s)
  PROVE  PodsInv'
<1> DEFINE c == Deployed(svc[s], par.t, par.n)
<1>1. /\ UNCHANGED <<cr, tu, nu, tfin, config, sts, chi>>
      /\ svc' = [svc EXCEPT ![s] = c]
      /\ svc \in [Service -> ServiceCR] /\ svc[s] \in ServiceCR
      /\ par.pc = "deploy" /\ par.next = s /\ s \in par.svcs
  BY DEF PDeploy, TypeOK
<1>2. /\ par'.pc = "deploy" /\ par'.t = par.t /\ par'.n = par.n
      /\ par'.T = par.T /\ par'.N = par.N
      /\ par'.notif = par.notif /\ par'.svcs = par.svcs
      /\ par'.next = s + 1
      /\ par'.ready = (par.ready /\ ServiceReady(c, par.t, par.n))
  BY DEF PDeploy, TypeOK, ParentLocal
<1>3. /\ config.t = par.t /\ config.n = par.n /\ config # NoConfig
      /\ par.t # NoSecret
  BY <1>1, RollingOut
<1>4. ServiceInv(c, chi[s], sts[s], config, Target, Previous, tfin)
  BY <1>1, <1>3, Specifying DEF PodsInv, ConfigInv, ServicesInv
<1> HIDE DEF c
<1>5. \A r \in Service : ServiceInv(svc'[r], chi[r], sts[r], config,
                                    Target, Previous, tfin)
  BY <1>1, <1>4 DEF PodsInv, ServicesInv
<1>6. Verdict(par', svc', Target)
  <2>1. Verdict(par, svc, Target) /\ On(par', Target) = On(par, Target)
    BY <1>2 DEF PodsInv, ParentInv, On
  <2>2. ASSUME NEW r \in Service, r < s + 1
        PROVE  /\ r \in Backups \ par.svcs => ~ Present(svc'[r])
               /\ r \in par.svcs /\ par'.ready /\ On(par', Target) =>
                    /\ svc'[r].phase # "new"
                    /\ svc'[r].phase = "live" => On(svc'[r].applied, Target)
    <3>1. CASE r = s
      <4>1. svc'[r] = c
        BY <1>1, <3>1
      <4>2. ASSUME par'.ready, On(par', Target)
            PROVE  c.phase # "new" /\ On(c.applied, Target)
        <5>1. c.applied = [t |-> par.t, n |-> par.n]
          BY <1>2, <4>2 DEF ServiceReady
        <5>2. c.applied # NoInput
          BY <1>3, <5>1 DEF NoInput
        <5>3. c.phase # "new"
          BY <1>4, <5>2 DEF ServiceInv, Adopted
        <5>4. On(c.applied, Target)
          BY <2>1, <4>2, <5>1 DEF On
        <5> QED
          BY <5>3, <5>4
      <4> QED
        BY <1>1, <3>1, <4>1, <4>2
    <3>2. CASE r # s
      <4>1. r < s /\ svc'[r] = svc[r]
        BY <1>1, <2>2, <3>2, ServiceAssumption DEF Service
      <4> QED
        BY <1>1, <1>2, <2>1, <4>1 DEF Verdict
    <3> QED
      BY <3>1, <3>2
  <2>3. Single \subseteq par'.svcs
    BY <1>1, <1>2, <2>1 DEF Verdict, NormalPC
  <2> QED
    BY <1>2, <2>2, <2>3 DEF Verdict, AfterCleanup, NormalPC
<1> QED
  BY <1>1, <1>2, <1>5, <1>6, ServingMoves

\* A backup that is not wanted goes.
LEMMA SkipPods ==
  ASSUME TypeOK, FinalizerInv, PodsInv, Alive, NEW s \in Service, PSkip(s)
  PROVE  PodsInv'
<1> DEFINE c == IF s \in Backups THEN Deleted(svc[s]) ELSE svc[s]
<1>1. /\ UNCHANGED <<cr, tu, nu, tfin, config, sts, chi>>
      /\ svc' = [svc EXCEPT ![s] = c]
      /\ svc \in [Service -> ServiceCR] /\ svc[s] \in ServiceCR
      /\ par.pc = "deploy" /\ par.next = s /\ s \notin par.svcs
  BY DEF PSkip, TypeOK
<1>2. /\ par'.pc = "deploy" /\ par'.t = par.t /\ par'.n = par.n
      /\ par'.T = par.T /\ par'.N = par.N
      /\ par'.notif = par.notif /\ par'.svcs = par.svcs
      /\ par'.next = s + 1 /\ par'.ready = par.ready
  BY DEF PSkip, TypeOK, ParentLocal
<1>3. /\ ServiceInv(c, chi[s], sts[s], config, Target, Previous, tfin)
      /\ s \in Backups => ~ Present(c)
  BY <1>1, Removing DEF PodsInv, ServicesInv
<1> HIDE DEF c
<1>4. \A r \in Service : ServiceInv(svc'[r], chi[r], sts[r], config,
                                    Target, Previous, tfin)
  BY <1>1, <1>3 DEF PodsInv, ServicesInv
<1>5. Verdict(par', svc', Target)
  <2>1. Verdict(par, svc, Target) /\ On(par', Target) = On(par, Target)
    BY <1>2 DEF PodsInv, ParentInv, On
  <2>2. ASSUME NEW r \in Service, r < s + 1
        PROVE  /\ r \in Backups \ par.svcs => ~ Present(svc'[r])
               /\ r \in par.svcs /\ par'.ready /\ On(par', Target) =>
                    /\ svc'[r].phase # "new"
                    /\ svc'[r].phase = "live" => On(svc'[r].applied, Target)
    <3>1. CASE r = s
      BY <1>1, <1>3, <3>1
    <3>2. CASE r # s
      <4>1. r < s /\ svc'[r] = svc[r]
        BY <1>1, <2>2, <3>2, ServiceAssumption DEF Service
      <4> QED
        BY <1>1, <1>2, <2>1, <4>1 DEF Verdict
    <3> QED
      BY <3>1, <3>2
  <2>3. Single \subseteq par'.svcs
    BY <1>1, <1>2, <2>1 DEF Verdict, NormalPC
  <2> QED
    BY <1>2, <2>2, <2>3 DEF Verdict, AfterCleanup, NormalPC
<1> QED
  BY <1>1, <1>2, <1>4, <1>5, ServingMoves

\* So do the volumes.
LEMMA CleanupPods ==
  ASSUME TypeOK, FinalizerInv, PodsInv, Alive, PCleanup
  PROVE  PodsInv'
<1>1. /\ UNCHANGED <<cr, tu, nu, tfin, config, sts, chi>>
      /\ svc' = [s \in Service |->
                   IF s \in Unwanted THEN Deleted(svc[s]) ELSE svc[s]]
      /\ svc \in [Service -> ServiceCR]
      /\ par.pc = "deploy" /\ par.next > NumServices
  BY DEF PCleanup, TypeOK
<1>2. /\ par'.pc = "finalT" /\ par'.t = par.t /\ par'.n = par.n
      /\ par'.T = par.T /\ par'.N = par.N
      /\ par'.notif = par.notif /\ par'.svcs = par.svcs
      /\ par'.next = par.next /\ par'.ready = par.ready
  BY DEF PCleanup, TypeOK, ParentLocal
<1>3. ASSUME NEW s \in Service
      PROVE  /\ ServiceInv(svc'[s], chi[s], sts[s], config, Target, Previous, tfin)
             /\ s \in Unwanted => ~ Present(svc'[s])
             /\ s \notin Unwanted => svc'[s] = svc[s]
    BY <1>1, Removing DEF PodsInv, ServicesInv
<1>4. Verdict(par', svc', Target)
  <2>1. Verdict(par, svc, Target) /\ On(par', Target) = On(par, Target)
    BY <1>2 DEF PodsInv, ParentInv, On
  <2>2. \A s \in Volumes \ par.svcs : ~ Present(svc'[s])
    BY <1>3, ServiceAssumption DEF Unwanted, Present, Optional
  <2>3. ASSUME NEW s \in Service, s < par.next
        PROVE  /\ s \in Backups \ par.svcs => ~ Present(svc'[s])
               /\ s \in par.svcs /\ par'.ready /\ On(par', Target) =>
                    /\ svc'[s].phase # "new"
                    /\ svc'[s].phase = "live" => On(svc'[s].applied, Target)
    <3>1. CASE s \in Unwanted
      BY <1>3, <3>1 DEF Unwanted
    <3>2. CASE s \notin Unwanted
      BY <1>1, <1>2, <1>3, <2>1, <2>3, <3>2 DEF Verdict
    <3> QED
      BY <3>1, <3>2
  <2>4. Single \subseteq par'.svcs
    BY <1>1, <1>2, <2>1 DEF Verdict, NormalPC
  <2> QED
    BY <1>1, <1>2, <2>2, <2>3, <2>4 DEF Verdict, AfterCleanup, NormalPC
<1> QED
  BY <1>1, <1>2, <1>3, <1>4, ServingMoves


\* A reconcile that found all services ready on the target is right.
LEMMA Reported ==
  ASSUME TypeOK, FinalizerInv, PodsInv, Alive, par.pc \in AfterCleanup,
         par.ready, On(par, Target)
  PROVE  RolledOutTo(svc, config, Target)
<1>1. Verdict(par, svc, Target) /\ par.next > NumServices /\ par.next \in Nat
      /\ par.pc \in NormalPC
  BY DEF PodsInv, ParentInv, Verdict, TypeOK, ParentLocal, AfterCleanup,
         NormalPC
<1>2. On(config, Target)
  BY RollingOut DEF On
<1>3. ASSUME NEW s \in Service, Present(svc[s])
      PROVE  svc[s].phase = "live" /\ On(svc[s].applied, Target)
  <2>1. s < par.next
    BY <1>1, ServiceAssumption DEF Service
  <2>2. s \in par.svcs
    BY <1>1, <1>3, <2>1 DEF Verdict, Single
  <2> QED
    BY <1>1, <1>3, <2>1, <2>2 DEF Verdict, Present
<1> QED
  BY <1>2, <1>3 DEF RolledOutTo

\* Then nothing but the target is in use.
LEMMA RolledOutUse ==
  ASSUME PodsInv, Alive, RolledOutTo(svc, config, Target), NEW s \in Service,
         svc[s].phase = "live"
  PROVE  /\ Names(sts[s].own) \subseteq {Target.t, Target.n}
         /\ \A p \in sts[s].pods : Names(p.use) \subseteq {Target.t, Target.n}
<1>1. On(svc[s].applied, Target)
  BY DEF RolledOutTo, Present
<1>2. ServiceInv(svc[s], chi[s], sts[s], config, Target, Previous, tfin)
  BY DEF PodsInv, ServicesInv
<1>3. On(sts[s].own, Target) /\ \A p \in sts[s].pods : On(p.use, Target)
  BY <1>1, <1>2, AllOnTarget
<1> QED
  BY <1>3 DEF On, Names

\* Releasing a Secret that the target does not name.
LEMMA RolledOutRelease ==
  ASSUME PodsInv, Alive, RolledOutTo(svc, config, Target), NEW x,
         x \notin {Target.t, Target.n}, NEW s \in Service
  PROVE  UsesHeld(svc[s], sts[s], Remove(tfin, x))
BY RolledOutUse
   DEF PodsInv, ServicesInv, ServiceInv, UsesHeld, Remove

\* The rotation of the messaging Secret is finalized: the tracked one is
\* released only if it is not the one worked with, and that is the target.
LEMMA FinalTPods ==
  ASSUME TypeOK, FinalizerInv, PodsInv, Alive, PFinalT
  PROVE  PodsInv'
<1>1. /\ UNCHANGED <<cr, tu, nu, config, svc, sts, chi>>
      /\ par.pc = "finalT" /\ par.pc \in AfterCleanup
      /\ tfin' = IF Releases(par.T, par.t, par.ready)
                 THEN Remove(tfin, par.T) ELSE tfin
  BY DEF PFinalT, AfterCleanup, Finalize
<1>2. /\ par'.pc = "finalN" /\ par'.t = par.t /\ par'.n = par.n
      /\ par'.T = Tracked(par.T, par.t, par.ready) /\ par'.N = par.N
      /\ par'.notif = par.notif /\ par'.svcs = par.svcs
      /\ par'.next = par.next /\ par'.ready = par.ready
  BY DEF PFinalT, TypeOK, ParentLocal
<1>3. /\ par.t \in TransportSecrets /\ par.t # NoSecret
      /\ par.n \in NName /\ par.T \in TName /\ par.T # NoSecret
      /\ ~ par.notif \/ nu \in NotifSecrets
      /\ \/ On(par, Target) /\ par.t = Target.t /\ par.n = Target.n
         \/ par.t = Previous.t
  BY <1>1, RollingOut
<1>4. par.T = cr.T \/ (cr.T = NoSecret /\ par.T = tu)
  BY <1>1 DEF PodsInv, ParentInv, Track, AfterFinalT
<1>5. par.ready /\ On(par, Target) => RolledOutTo(svc, config, Target)
  BY <1>1, Reported
<1>6. ASSUME NEW s \in Service PROVE UsesHeld(svc[s], sts[s], tfin')
  <2>1. CASE Releases(par.T, par.t, par.ready)
    <3>1. par.ready /\ par.T # par.t /\ par.T # par.n
      BY <1>3, <2>1, SecretAssumption DEF Releases, TName, NName
    <3>2. On(par, Target) /\ par.T \notin {Target.t, Target.n}
      BY <1>3, <1>4, <3>1 DEF Previous
    <3> QED
      BY <1>1, <1>5, <2>1, <3>1, <3>2, RolledOutRelease
  <2>2. CASE ~ Releases(par.T, par.t, par.ready)
    BY <1>1, <2>2, HoldingMore
  <2> QED
    BY <2>1, <2>2
<1>7. Course(par', cr, tu, nu, config, Target, Previous)
  <2>1. Aim(par', tu, nu) = Aim(par, tu, nu)
    BY <1>1, <1>2 DEF Aim, BeforeNotif
  <2> QED
    BY <1>1, <1>2, <1>3, <2>1 DEF PodsInv, ParentInv, Course, NormalPC
<1>8. Verdict(par', svc, Target)
  <2>1. On(par', Target) = On(par, Target)
    BY <1>2 DEF On
  <2> QED
    BY <1>1, <1>2, <2>1 DEF PodsInv, ParentInv, Verdict, AfterCleanup, NormalPC
<1>9. Track(par', cr, tu, nu, svc, config, Target)
  <2>1. \/ par'.T = cr.T
        \/ cr.T = NoSecret /\ par'.T = tu
        \/ par'.T = tu /\ RolledOutTo(svc, config, Target)
    <3>1. CASE par.ready
      BY <1>2, <1>3, <1>5, <3>1 DEF Tracked, Previous, Target
    <3>2. CASE ~ par.ready
      BY <1>2, <1>3, <1>4, <3>2 DEF Tracked
    <3> QED
      BY <3>1, <3>2
  <2>2. par'.T # NoSecret
    BY <1>2, <1>3 DEF Tracked
  <2> QED
    BY <1>1, <1>2, <2>1, <2>2
       DEF PodsInv, ParentInv, Track, NormalPC, AfterFinalT, AfterFinalN
<1> QED
  BY <1>1, <1>6, <1>7, <1>8, <1>9, HoldingMoves


\* The same for the notifications Secret; the status may not have tracked the
\* first one before.
LEMMA FinalNPods ==
  ASSUME TypeOK, FinalizerInv, PodsInv, Alive, PFinalN
  PROVE  PodsInv'
<1> DEFINE old == NotifName(par.N)
<1>1. /\ UNCHANGED <<cr, tu, nu, config, svc, sts, chi>>
      /\ par.pc = "finalN" /\ par.pc \in AfterCleanup /\ par.notif
      /\ tfin' = IF Releases(old, par.n, par.ready)
                 THEN Remove(tfin, old) ELSE tfin
  BY DEF PFinalN, AfterCleanup, Finalize
<1>2. /\ par'.pc = "finalAC" /\ par'.t = par.t /\ par'.n = par.n
      /\ par'.N = Tracked(old, par.n, par.ready) /\ par'.T = par.T
      /\ par'.notif = par.notif /\ par'.svcs = par.svcs
      /\ par'.next = par.next /\ par'.ready = par.ready
  BY DEF PFinalN, TypeOK, ParentLocal
<1>3. /\ par.t \in TransportSecrets /\ par.n \in NName
      /\ nu \in NotifSecrets
      /\ \/ On(par, Target) /\ par.t = Target.t /\ par.n = Target.n
         \/ par.n = Previous.n
      /\ On(par, Target) => On(config, Target)
  BY <1>1, RollingOut DEF On
<1>4. /\ old \in NName /\ old = NotifName(cr.N)
      /\ old # Nil /\ par.n # Nil
  BY <1>1, <1>3, SecretAssumption
     DEF PodsInv, ParentInv, Track, AfterFinalN, TypeOK, ParentLocal, NName,
         NotifName
<1> HIDE DEF old
<1>5. par.ready /\ On(par, Target) => RolledOutTo(svc, config, Target)
  BY <1>1, Reported
<1>6. ASSUME NEW s \in Service PROVE UsesHeld(svc[s], sts[s], tfin')
  <2>1. CASE Releases(old, par.n, par.ready)
    <3>1. par.ready /\ old # par.n /\ old # par.t
      BY <1>3, <1>4, <2>1, SecretAssumption DEF Releases, NName
    <3>2. On(par, Target) /\ old \notin {Target.t, Target.n}
      BY <1>3, <1>4, <3>1 DEF Previous
    <3> QED
      BY <1>1, <1>5, <2>1, <3>1, <3>2, RolledOutRelease
  <2>2. CASE ~ Releases(old, par.n, par.ready)
    BY <1>1, <2>2, HoldingMore
  <2> QED
    BY <2>1, <2>2
<1>7. Course(par', cr, tu, nu, config, Target, Previous)
  <2>1. Aim(par', tu, nu) = Aim(par, tu, nu)
    BY <1>1, <1>2 DEF Aim, BeforeNotif
  <2> QED
    BY <1>1, <1>2, <1>3, <2>1 DEF PodsInv, ParentInv, Course, NormalPC
<1>8. Verdict(par', svc, Target)
  <2>1. On(par', Target) = On(par, Target)
    BY <1>2 DEF On
  <2> QED
    BY <1>1, <1>2, <2>1 DEF PodsInv, ParentInv, Verdict, AfterCleanup, NormalPC
<1>9. Track(par', cr, tu, nu, svc, config, Target)
  <2>1. par'.N \in {old, par.n} /\ par'.N # Nil /\ NotifName(par'.N) = par'.N
    BY <1>2, <1>4 DEF Tracked, NotifName
  <2>2. \/ NotifName(par'.N) = NotifName(cr.N)
        \/ /\ NotifName(cr.N) = NoSecret /\ cr.notif /\ par'.N = nu
           /\ nu \in NotifSecrets /\ On(config, Target)
        \/ /\ NotifName(par'.N) = Target.n
           /\ RolledOutTo(svc, config, Target)
    <3>1. CASE par'.N = old
      BY <1>4, <2>1, <3>1
    <3>2. CASE par'.N = par.n /\ par.n = Previous.n
      BY <2>1, <3>2 DEF Previous
    <3>3. CASE par'.N = par.n /\ On(par, Target) /\ par.n = Target.n
      <4>1. CASE par.ready
        BY <1>5, <2>1, <3>3, <4>1
      <4>2. CASE ~ par.ready /\ old = NoSecret /\ cr.notif
        <5>1. Target.n = nu
          BY <1>3, <4>2 DEF Target
        <5> QED
          BY <1>3, <1>4, <3>3, <4>2, <5>1
      <4>3. CASE ~ par.ready /\ old = NoSecret /\ ~ cr.notif
        <5>1. Target.n = NoSecret
          BY <4>3 DEF Target
        <5> QED
          BY <1>4, <2>1, <3>3, <4>3, <5>1
      <4>4. CASE ~ par.ready /\ old # NoSecret
        BY <1>2, <1>4, <2>1, <4>4 DEF Tracked
      <4> QED
        BY <4>1, <4>2, <4>3, <4>4
    <3> QED
      BY <1>3, <2>1, <3>1, <3>2, <3>3
  <2>3. par'.pc \in AfterFinalN /\ par.pc \in AfterFinalT
        /\ par'.pc \in AfterFinalT
    BY <1>1, <1>2 DEF AfterFinalN, AfterFinalT
  <2> QED
    BY <1>1, <1>2, <1>3, <2>1, <2>2, <2>3
       DEF PodsInv, ParentInv, Track, NormalPC
<1> QED
  BY <1>1, <1>6, <1>7, <1>8, <1>9, HoldingMoves

\* With the bus disabled, the tracked Secret is released once the services
\* are ready without it.
LEMMA FinalNDisabledPods ==
  ASSUME TypeOK, FinalizerInv, PodsInv, Alive, PFinalNDisabled
  PROVE  PodsInv'
<1> DEFINE release == par.ready /\ par.N \notin {Nil, NoSecret}
<1>1. /\ UNCHANGED <<cr, tu, nu, config, svc, sts, chi>>
      /\ par.pc = "finalN" /\ par.pc \in AfterCleanup /\ ~ par.notif
      /\ tfin' = IF release THEN Remove(tfin, par.N) ELSE tfin
  BY DEF PFinalNDisabled, AfterCleanup
<1>2. /\ par'.pc = "finalAC" /\ par'.t = par.t /\ par'.n = par.n
      /\ par'.N = (IF release THEN Nil ELSE par.N) /\ par'.T = par.T
      /\ par'.notif = par.notif /\ par'.svcs = par.svcs
      /\ par'.next = par.next /\ par'.ready = par.ready
      /\ par.N \in NName \cup {Nil}
  BY DEF PFinalNDisabled, TypeOK, ParentLocal
<1>3. /\ par.t \in TransportSecrets /\ par.n = NoSecret
      /\ cr.notif => Previous.n = NoSecret
      /\ \/ On(par, Target) /\ par.t = Target.t /\ par.n = Target.n
         \/ par.n = Previous.n
  BY <1>1, RollingOut
<1>4. /\ NotifName(par.N) = NotifName(cr.N)
      /\ par.N = Nil => cr.N = Nil
      /\ nu \notin NotifSecrets => NotifName(par.N) = NoSecret
  BY <1>1 DEF PodsInv, ParentInv, Track, AfterFinalN
<1>5. ASSUME release
      PROVE  /\ RolledOutTo(svc, config, Target)
             /\ ~ cr.notif /\ Target.n = NoSecret
             /\ par.N \notin {Target.t, Target.n}
  <2>1. Previous.n = par.N /\ par.N \in NotifSecrets
    BY <1>2, <1>4, <1>5 DEF Previous, NotifName, NName
  <2>2. On(par, Target) /\ ~ cr.notif /\ par.N # par.n
    BY <1>3, <1>5, <2>1
  <2>3. par.N # par.t
    BY <1>3, <2>1, SecretAssumption
  <2> QED
    BY <1>1, <1>3, <1>5, <2>2, <2>3, Reported DEF On
<1>6. ASSUME NEW s \in Service PROVE UsesHeld(svc[s], sts[s], tfin')
  BY <1>1, <1>5, HoldingMore, RolledOutRelease
<1>7. Course(par', cr, tu, nu, config, Target, Previous)
  <2>1. Aim(par', tu, nu) = Aim(par, tu, nu)
    BY <1>1, <1>2 DEF Aim, BeforeNotif
  <2> QED
    BY <1>1, <1>2, <2>1 DEF PodsInv, ParentInv, Course, NormalPC
<1>8. Verdict(par', svc, Target)
  <2>1. On(par', Target) = On(par, Target)
    BY <1>2 DEF On
  <2> QED
    BY <1>1, <1>2, <2>1 DEF PodsInv, ParentInv, Verdict, AfterCleanup, NormalPC
<1>9. Track(par', cr, tu, nu, svc, config, Target)
  <2>1. par'.pc \in AfterFinalN /\ par.pc \in AfterFinalT
        /\ par'.pc \in AfterFinalT
    BY <1>1, <1>2 DEF AfterFinalN, AfterFinalT
  <2>2. NotifName(Nil) = NoSecret
    BY DEF NotifName
  <2>3. CASE release
    BY <1>1, <1>2, <1>5, <2>1, <2>2, <2>3
       DEF PodsInv, ParentInv, Track, NormalPC
  <2>4. CASE ~ release
    BY <1>1, <1>2, <1>4, <2>1, <2>4
       DEF PodsInv, ParentInv, Track, NormalPC
  <2> QED
    BY <2>3, <2>4
<1> QED
  BY <1>1, <1>6, <1>7, <1>8, <1>9, HoldingMoves

\* Whatever the prune does not keep is not in use.
LEMMA PrunePods ==
  ASSUME TypeOK, FinalizerInv, PodsInv, Alive, PPruneT
  PROVE  PodsInv'
<1>1. /\ UNCHANGED <<cr, tu, nu, config, svc, sts, chi>>
      /\ par.pc = "pruneT" /\ par.pc \in AfterCleanup
      /\ tfin' = tfin \cap {par.T, par.t, NotifName(par.N), par.n}
  BY DEF PPruneT, AfterCleanup, Prune, KeepT
<1>2. /\ par'.pc = "pruneAC" /\ par'.t = par.t /\ par'.n = par.n
      /\ par'.N = par.N /\ par'.T = par.T
      /\ par'.notif = par.notif /\ par'.svcs = par.svcs
      /\ par'.next = par.next /\ par'.ready = par.ready
  BY DEF PPruneT, TypeOK, ParentLocal
<1>3. config.t = par.t /\ config.n = par.n
      /\ (~ par.notif \/ nu \in NotifSecrets)
  BY <1>1, RollingOut
<1>4. /\ \/ par.T = cr.T
         \/ cr.T = NoSecret
         \/ RolledOutTo(svc, config, Target)
      /\ \/ NotifName(par.N) = NotifName(cr.N)
         \/ NotifName(cr.N) = NoSecret
         \/ RolledOutTo(svc, config, Target)
  BY <1>1 DEF PodsInv, ParentInv, Track
<1> DEFINE kept == {par.T, par.t, NotifName(par.N), par.n}
<1>5. ASSUME NEW s \in Service, svc[s].phase = "live", ~ sts[s].orphan
      PROVE  /\ Names(sts[s].own) \subseteq kept
             /\ \A p \in sts[s].pods : Names(p.use) \subseteq kept
  <2>1. CASE RolledOutTo(svc, config, Target)
    <3>1. Target.t = par.t /\ Target.n = par.n
      BY <1>3, <2>1 DEF RolledOutTo, On
    <3> QED
      BY <1>5, <2>1, <3>1, RolledOutUse
  <2>2. CASE ~ RolledOutTo(svc, config, Target)
    <3>1. ASSUME NEW x, Known(x, Target, Previous),
                 On(x, Target) => On(config, Target)
          PROVE  Names(x) \subseteq kept
      <4>1. CASE Unset(x)
        BY <4>1 DEF Unset, Names
      <4>2. CASE On(x, Target)
        <5>1. x.t = par.t /\ x.n = par.n
          BY <1>3, <3>1, <4>2 DEF On
        <5> QED
          BY <5>1 DEF Names
      <4>3. CASE Before(x, Previous)
        <5>1. x.t # NoSecret /\ x.t = cr.T /\ x.n \in {NotifName(cr.N), NoSecret}
          BY <4>3 DEF Before, Previous
        <5>2. x.t = par.T /\ x.n \in {NotifName(par.N), NoSecret}
          BY <1>4, <2>2, <5>1
        <5> QED
          BY <5>2 DEF Names
      <4> QED
        BY <3>1, <4>1, <4>2, <4>3 DEF Known
    <3>2. /\ UsesKnown(svc[s], chi[s], sts[s], Target, Previous)
          /\ Chain(svc[s], chi[s], sts[s], config, Target)
      BY <1>5 DEF PodsInv, ServicesInv, ServiceInv, Present
    <3>3. Names(sts[s].own) \subseteq kept
      BY <1>5, <3>1, <3>2 DEF UsesKnown, Chain
    <3>4. \A p \in sts[s].pods : Names(p.use) \subseteq kept
      BY <1>5, <3>1, <3>2 DEF UsesKnown, Chain
    <3> QED
      BY <3>3, <3>4
  <2> QED
    BY <2>1, <2>2
<1>6. ASSUME NEW s \in Service PROVE UsesHeld(svc[s], sts[s], tfin')
  <2>1. UsesHeld(svc[s], sts[s], tfin)
    BY DEF PodsInv, ServicesInv, ServiceInv
  <2> QED
    BY <1>1, <1>5, <2>1 DEF UsesHeld
<1>7. Course(par', cr, tu, nu, config, Target, Previous)
  <2>1. Aim(par', tu, nu) = Aim(par, tu, nu)
    BY <1>1, <1>2 DEF Aim, BeforeNotif
  <2> QED
    BY <1>1, <1>2, <1>3, <2>1 DEF PodsInv, ParentInv, Course, NormalPC
<1>8. Verdict(par', svc, Target)
  <2>1. On(par', Target) = On(par, Target)
    BY <1>2 DEF On
  <2> QED
    BY <1>1, <1>2, <2>1 DEF PodsInv, ParentInv, Verdict, AfterCleanup, NormalPC
<1>9. Track(par', cr, tu, nu, svc, config, Target)
  BY <1>1, <1>2
     DEF PodsInv, ParentInv, Track, NormalPC, AfterFinalT, AfterFinalN
<1> QED
  BY <1>1, <1>6, <1>7, <1>8, <1>9, HoldingMoves


\* The status is published: what it tracks from now on is what everything
\* that is not on the target is on.
LEMMA PatchPods ==
  ASSUME TypeOK, FinalizerInv, PodsInv, Alive, PPatch
  PROVE  PodsInv'
<1> SUFFICES ASSUME Alive' PROVE PodsInv'
  BY DEF PodsInv
<1>1. /\ UNCHANGED <<tu, nu, tfin, config, svc, sts, chi>>
      /\ par.pc = "patch" /\ par.pc # "idle" /\ par' = ParentIdle
      /\ cr'.T = par.T /\ cr'.N = par.N /\ cr'.notif = cr.notif
      /\ cr'.svcs = cr.svcs
      /\ Target' = Target
      /\ Previous'.t = par.T /\ Previous'.n = NotifName(par.N)
  BY DEF PPatch, PatchedCR, TypeOK, CinderCR, Target, Previous
<1>2. /\ Previous.t = cr.T /\ Previous.n = NotifName(cr.N)
      /\ par.T # Nil
  BY SecretAssumption DEF Previous, TypeOK, ParentLocal, TName
<1> DEFINE rolled == RolledOutTo(svc, config, Target)
<1>3. /\ \/ par.T = cr.T
         \/ cr.T = NoSecret /\ par.T = tu
         \/ par.T = tu /\ rolled
      /\ \/ NotifName(par.N) = NotifName(cr.N)
         \/ NotifName(cr.N) = NoSecret /\ On(config, Target)
         \/ rolled
      /\ par.N = Nil => cr.N = Nil \/ rolled
      /\ nu \notin NotifSecrets => NotifName(par.N) = NoSecret
  BY <1>1 DEF PodsInv, ParentInv, Track
<1>4. rolled => On(config, Target)
  BY DEF RolledOutTo
<1>5. BeginInv'
  <2>1. ASSUME tu \notin TransportSecrets PROVE config = NoConfig /\ par.T = NoSecret
    <3>1. config = NoConfig /\ cr.T = NoSecret /\ tu \in {Nil, NoSecret}
      BY <2>1 DEF PodsInv, BeginInv, TypeOK, TName
    <3>2. ~ rolled
      BY <1>4, <3>1 DEF On, NoConfig
    <3> QED
      BY <1>2, <1>3, <3>1, <3>2
  <2>2. cr.notif /\ nu \notin NotifSecrets /\ config # NoConfig => par.T = tu
    BY <1>3 DEF PodsInv, BeginInv
  <2> QED
    BY <1>1, <1>3, <2>1, <2>2 DEF PodsInv, BeginInv
<1> HIDE DEF rolled
<1>6. ASSUME ~ rolled, NEW x, Known(x, Target, Previous)
      PROVE  Known(x, Target, Previous')
  BY <1>1, <1>2, <1>3, <1>6 DEF Known, Before
<1>7. ConfigInv'
  <2>1. Known(config, Target, Previous')
    BY <1>4, <1>6 DEF PodsInv, ConfigInv, Known
  <2>2. ASSUME Settled', ~ On(config, Target) PROVE Unset(config)
    <3>1. tu \in TransportSecrets /\ par.T = tu
          /\ IF cr.notif THEN nu \in NotifSecrets /\ par.N = nu ELSE par.N = Nil
      BY <1>1, <2>2 DEF Settled
    <3>2. ~ rolled /\ NotifName(par.N) = NotifName(cr.N)
          /\ (par.N = Nil => cr.N = Nil)
      BY <1>3, <1>4, <2>2
    <3>3. CASE par.T = cr.T
      <4>1. cr.notif => cr.N = nu
        BY <3>1, <3>2, SecretAssumption DEF NotifName
      <4>2. Settled
        BY <3>1, <3>2, <3>3, <4>1 DEF Settled
      <4> QED
        BY <2>2, <4>2 DEF PodsInv, ConfigInv
    <3>4. CASE cr.T = NoSecret
      BY <1>2, <2>2, <3>4 DEF PodsInv, ConfigInv, Known, Before
    <3> QED
      BY <1>3, <3>2, <3>3, <3>4
  <2> QED
    BY <1>1, <2>1, <2>2 DEF ConfigInv
<1>8. ASSUME NEW s \in Service
      PROVE  ServiceInv(svc[s], chi[s], sts[s], config, Target, Previous', tfin)
  <2>1. ServiceInv(svc[s], chi[s], sts[s], config, Target, Previous, tfin)
    BY DEF PodsInv, ServicesInv
  <2>2. CASE rolled
    <3>1. Present(svc[s]) =>
            svc[s].phase = "live" /\ On(svc[s].applied, Target)
      BY <2>2 DEF rolled, RolledOutTo
    <3> QED
      BY <2>1, <3>1, Tracking
  <2>3. CASE ~ rolled
    BY <1>6, <2>1, <2>3, Tracking
  <2> QED
    BY <2>2, <2>3
<1>9. ServicesInv'
  BY <1>1, <1>8 DEF ServicesInv
<1>10. ParentInv'
  BY <1>1, LostReconcile DEF ParentInv
<1> QED
  BY <1>5, <1>7, <1>9, <1>10 DEF PodsInv

\* Every step of the Cinder controller.
LEMMA ControllerPods ==
  ASSUME TypeOK, FinalizerInv, PodsInv, Alive, ControllerStep
  PROVE  PodsInv'
<1>1. /\ cr.phase \in {"new", "live"} \/ par.pc \in NormalPC
      /\ par.pc \in DeletePC => cr.phase = "deleting"
  BY DEF Alive, FinalizerInv, PhaseInv
<1>2. ASSUME \/ PFetchGone \/ PFetchDeleting \/ PDelList \/ PDelPruneT
             \/ PDelPruneAC \/ PPatchGone
             \/ \E x \in ACSecrets : PDelAC(x)
             \/ \E x \in TransportSecrets \cup NotifSecrets : PDelT(x)
      PROVE  FALSE
  BY <1>1, <1>2 DEF PFetchGone, PFetchDeleting, PDelList, PDelPruneT,
                    PDelPruneAC, PPatchGone, PDelAC, PDelT, DeletePC, NormalPC
<1> QED
  BY <1>2, FetchPods, TransportWaitPods, TransportPods, NotifWaitPods,
     NotifPods, ManagePods, RenderPods, CredentialPods, DeployPods, SkipPods,
     CleanupPods, FinalTPods, FinalNPods, FinalNDisabledPods, PrunePods,
     PatchPods
     DEF ControllerStep

----------------------------------------------------------------------------
(***************************************************************************)
(* The results.                                                            *)
(***************************************************************************)

\* A CR that is deleted is not brought back.
LEMMA AliveStays ==
  ASSUME TypeOK, FinalizerInv, [Next]_vars, Alive'
  PROVE  Alive
<1>1. CASE UNCHANGED vars
  BY <1>1 DEF vars, Alive
<1>2. CASE PPatch
  <2>1. cr' = PatchedCR /\ cr.phase # "gone" /\ par'.pc \notin NormalPC
    BY <1>2 DEF PPatch, ParentIdle, NormalPC
  <2>2. cr'.phase \in {"new", "live"}
    BY <2>1 DEF Alive
  <2> QED
    BY <2>1, <2>2 DEF PatchedCR, TypeOK, CinderCR, Alive, FinalizerInv,
                      OwnFinalizerInv
<1>3. CASE DeleteCinder
  BY <1>3 DEF DeleteCinder, Alive
<1>4. CASE Disturbance /\ ~ DeleteCinder
  BY <1>4 DEF Disturbance, RotateTransport, RotateNotif, ToggleNotifications,
              SetApplicationCredential, ToggleService, PodRestart, TypeOK,
              CinderCR, Alive
<1>5. CASE ControllerStep /\ ~ PPatch
  <2>1. cr' = cr
    BY <1>5 DEF ControllerStep, PFetchGone, PFetchNew, PFetchLive,
                PFetchDeleting, PTransportWait, PTransport, PManageT,
                PNotifWait, PNotif, PManageN, PRender, PManageAC, PDeploy,
                PSkip, PCleanup, PFinalT, PFinalN, PFinalNDisabled, PFinalAC,
                PPruneT, PPruneAC, PDelAC, PDelList, PDelT, PDelPruneT,
                PDelPruneAC, PPatchGone
  <2>2. CASE par.pc \in NormalPC
    BY <2>1, <2>2 DEF Alive
  <2>3. CASE par.pc \notin NormalPC /\ cr.phase = "deleting"
    <3>1. \/ PFetchDeleting \/ PDelList \/ PDelPruneT \/ PDelPruneAC
          \/ \E x \in ACSecrets : PDelAC(x)
          \/ \E x \in TransportSecrets \cup NotifSecrets : PDelT(x)
      BY <1>5, <2>3
         DEF ControllerStep, PFetchGone, PFetchNew, PFetchLive,
             PTransportWait, PTransport, PManageT, PNotifWait, PNotif,
             PManageN, PRender, PManageAC, PDeploy, PSkip, PCleanup, PFinalT,
             PFinalN, PFinalNDisabled, PFinalAC, PPruneT, PPruneAC,
             PPatchGone, NormalPC
    <3>2. par'.pc \in {"delAC", "delT", "delPruneAC", "patch"}
      BY <3>1 DEF PFetchDeleting, Fetched, ParentIdle, PDelList, PDelPruneT,
                  PDelPruneAC, PDelAC, PDelT, TypeOK, ParentLocal
    <3> QED
      BY <2>1, <2>3, <3>2 DEF Alive, NormalPC
  <2>4. CASE cr.phase # "deleting"
    BY <2>1, <2>4 DEF Alive
  <2> QED
    BY <2>2, <2>3, <2>4
<1>6. CASE \E s \in Service : ServiceStep(s)
  BY <1>6 DEF ServiceStep, CFetchAbsent, CFetchNew, CFetchLive, CFetchDeleting,
              CRender, CRenderConflict, CDeployPatch, CDeployWait,
              CDeployCheck, CPatch, CPatchGone, Alive
<1>7. CASE PlatformStep
  BY <1>7 DEF PlatformStep, ProvisionTransport, ProvisionNotif, StsSync,
              StsFinish, StsCollect, ChildCollect, Alive
<1>8. CASE Fault
  <2>1. cr' = cr
    BY <1>8 DEF Fault, Crash, PFail, CFail
  <2>2. CASE Crash
    <3>1. par'.pc = "idle"
      BY <2>2 DEF Crash, ParentIdle
    <3> QED
      BY <2>1, <3>1 DEF Alive, NormalPC
  <2>3. CASE PFail
    <3>1. par'.pc = "patch"
      BY <2>3 DEF PFail, TypeOK, ParentLocal
    <3> QED
      BY <2>1, <3>1 DEF Alive, NormalPC
  <2>4. CASE \E s \in Service : CFail(s)
    BY <2>1, <2>4 DEF CFail, Alive
  <2> QED
    BY <1>8, <2>2, <2>3, <2>4 DEF Fault
<1> QED
  BY <1>1, <1>2, <1>3, <1>4, <1>5, <1>6, <1>7, <1>8 DEF Next

\* The invariant is inductive.
LEMMA NextPods ==
  Policy /\ TypeOK /\ FinalizerInv /\ PodsInv /\ [Next]_vars => PodsInv'
<1> SUFFICES ASSUME Policy, TypeOK, FinalizerInv, PodsInv, [Next]_vars, Alive'
             PROVE  PodsInv'
  BY DEF PodsInv
<1>1. Alive
  BY AliveStays
<1>2. CASE UNCHANGED vars
  <2>1. /\ UNCHANGED <<cr, tu, nu, tfin, config, svc, sts, chi>>
        /\ par' = par
    BY <1>2 DEF vars
  <2> QED
    BY <1>1, <2>1, ParentMoves DEF PodsInv, ParentInv
<1>3. CASE Next
  BY <1>1, <1>3, ControllerPods, ServicePods, PlatformPods, DisturbancePods,
     FaultPods DEF Next
<1> QED
  BY <1>2, <1>3

\* A new CR has nothing.
LEMMA InitPods == Init => PodsInv
<1> SUFFICES ASSUME Init PROVE PodsInv
  OBVIOUS
<1>1. /\ cr.T = NoSecret /\ cr.N = Nil /\ cr.svcs = Service
      /\ tu = Nil /\ nu = Nil /\ config = NoConfig /\ par = ParentIdle
      /\ svc = [s \in Service |-> NoService]
      /\ sts = [s \in Service |-> NoWorkload]
      /\ chi = [s \in Service |-> ChildIdle]
  BY DEF Init
<1>2. BeginInv
  BY <1>1, SecretAssumption DEF BeginInv, NotifName, Single
<1>3. ConfigInv
  BY <1>1 DEF ConfigInv, Known, Unset, NoConfig
<1>4. ParentInv
  BY <1>1, LostReconcile DEF ParentInv
<1>5. /\ NoService.phase = "absent" /\ NoService.applied = NoInput
      /\ ~ ChildIdle.ready /\ ~ Working(ChildIdle)
  BY DEF NoService, ChildIdle, Working
<1>6. ServicesInv
  BY <1>1, <1>5 DEF ServicesInv, ServiceInv, Adopted, Present, UsesHeld
<1> QED
  BY <1>2, <1>3, <1>4, <1>6 DEF PodsInv

\* At all times the previous and the target pair of credentials account for
\* everything that runs or is about to run, whichever reconcile, failure,
\* crash, roll-out, edit or rotation comes next.
THEOREM PodsInvariant == Policy => (Spec => []PodsInv)
<1> SUFFICES ASSUME Policy PROVE Spec => []PodsInv
  OBVIOUS
<1>1. QED
  BY InitType, InitFinalizer, InitPods, NextType, NextFinalizer, NextPods, PTL
     DEF Spec

\* In a service that runs, every Pod's Secrets are held.
LEMMA PodsHeld == TypeOK /\ PodsInv => PodsProtected
<1> SUFFICES ASSUME TypeOK, PodsInv, cr.phase = "live",
                    NEW s \in Service, Running(s)
             PROVE  InUse(s) \subseteq tfin
  BY DEF PodsProtected
<1>1. UsesHeld(svc[s], sts[s], tfin)
  BY DEF PodsInv, Alive, ServicesInv, ServiceInv
<1>2. \A p \in sts[s].pods : {p.use.t, p.use.n} \ {NoSecret} \subseteq tfin
  BY <1>1 DEF UsesHeld, Running, Names
<1>3. ASSUME NEW x \in InUse(s) PROVE x \in tfin
  <2>1. x # NoSecret /\ \E p \in sts[s].pods : x \in {p.use.t, p.use.n}
    BY <1>3 DEF InUse
  <2> QED
    BY <1>2, <2>1
<1> QED
  BY <1>3

\* As long as one change of the credentials is complete before the next is
\* made, no running Pod of a service holds a RabbitMQ credential that the
\* operator has released: const.go, the finalizer prevents "cleaning up old
\* RabbitMQ users before cinder pods have rolled out new credentials".
THEOREM PodsAlwaysProtected == Policy => (Spec => []PodsProtected)
<1> SUFFICES ASSUME Policy PROVE Spec => []PodsProtected
  OBVIOUS
<1>1. QED
  BY PodsHeld, TypeCorrect, PodsInvariant, PTL

\* FinalizeSecretRotation, which runs in reconciles of a CR marked for deletion
\* meanwhile too, releases the Secret the status tracks only when no running
\* Pod of any service uses it, as long as one change of the credentials is
\* complete before the next is made.
THEOREM ReleasesSafely == Policy => (Spec => TrackedReleaseSafe)
<1> DEFINE Safe == par.pc \in {"finalT", "finalN"} =>
                     \A x \in tfin \ tfin', s \in Service :
                       Running(s) => x \notin InUse(s)
<1>1. ASSUME TypeOK, FinalizerInv, PodsInv', [Next]_vars
      PROVE  Safe
  <2> SUFFICES ASSUME par.pc \in {"finalT", "finalN"},
                      NEW x \in tfin \ tfin', NEW s \in Service, Running(s),
                      x \in InUse(s)
               PROVE  FALSE
    OBVIOUS
  <2>1. tfin' # tfin
    OBVIOUS
  <2>2. PFinalT \/ PFinalN \/ PFinalNDisabled
    <3>1. Next
      BY <1>1, <2>1 DEF vars
    <3>2. ControllerStep
      BY <2>1, <3>1
         DEF Next, ServiceStep, CFetchAbsent, CFetchNew, CFetchLive,
             CFetchDeleting, CRender, CRenderConflict, CDeployPatch,
             CDeployWait, CDeployCheck, CPatch, CPatchGone, PlatformStep,
             ProvisionTransport, ProvisionNotif, StsSync, StsFinish,
             StsCollect, ChildCollect, Disturbance, RotateTransport,
             RotateNotif, ToggleNotifications, SetApplicationCredential,
             ToggleService, DeleteCinder, PodRestart, Fault, Crash, PFail,
             CFail
    <3> QED
      BY <3>2
         DEF ControllerStep, PFetchGone, PFetchNew, PFetchLive,
             PFetchDeleting, PTransportWait, PTransport, PManageT,
             PNotifWait, PNotif, PManageN, PRender, PManageAC, PDeploy,
             PSkip, PCleanup, PFinalAC, PPruneT, PPruneAC, PDelAC, PDelList,
             PDelT, PDelPruneT, PDelPruneAC, PPatch, PPatchGone
  <2>3. /\ cr' = cr /\ svc' = svc /\ sts' = sts
        /\ par'.pc \in {"finalN", "finalAC"}
    BY <1>1, <2>2 DEF PFinalT, PFinalN, PFinalNDisabled, TypeOK, ParentLocal
  <2>4. Alive'
    BY <1>1, <2>3 DEF Alive, FinalizerInv, PhaseInv, TypeOK, CinderCR, NormalPC
  <2>5. UsesHeld(svc[s], sts[s], tfin')
    BY <1>1, <2>3, <2>4 DEF PodsInv, ServicesInv, ServiceInv
  <2>6. PICK p \in sts[s].pods : x \in Names(p.use)
    BY DEF InUse, Names
  <2> QED
    BY <2>5, <2>6 DEF UsesHeld, Running
<1> SUFFICES ASSUME Policy PROVE Spec => TrackedReleaseSafe
  OBVIOUS
<1>2. Spec => [][Safe]_vars
  BY <1>1, TypeCorrect, FinalizerInvariant, PodsInvariant, PTL DEF Spec
<1> QED
  BY <1>2 DEF TrackedReleaseSafe

----------------------------------------------------------------------------
\* A Cinder that has been deployed for a while satisfies the three invariants
\* as well: one pair of Secrets is target and previous pair, and everything
\* is on it.
LEMMA InitSteady ==
  SteadyInit => TypeOK /\ FinalizerInv /\ PodsInv
<1> SUFFICES ASSUME NEW t \in TransportSecrets, NEW a \in ACName, Steady(t, a)
             PROVE  TypeOK /\ FinalizerInv /\ PodsInv
  BY DEF SteadyInit
<1> DEFINE conf  == [t |-> t, n |-> NoSecret, ac |-> a]
           rev   == [t |-> t, n |-> NoSecret, c |-> conf]
           child == [phase |-> "live", gen |-> 1, t |-> t, n |-> NoSecret,
                     obs |-> 1, applied |-> [t |-> t, n |-> NoSecret],
                     ready |-> TRUE]
           load  == [own |-> conf, rev |-> rev, seen |-> TRUE,
                     pods |-> {[rev |-> rev, use |-> conf]}, orphan |-> FALSE]
<1>1. /\ cr = [phase |-> "live", ac |-> a, notif |-> FALSE, svcs |-> Service,
               T |-> t, N |-> Nil, AC |-> a, hash |-> conf]
      /\ tu = t /\ nu = Nil /\ tfin = {t} /\ acfin = {a} \ {NoSecret}
      /\ config = conf /\ par = ParentIdle /\ pq = FALSE
      /\ svc = [s \in Service |-> child] /\ sts = [s \in Service |-> load]
      /\ chi = [s \in Service |-> ChildIdle]
      /\ cq = [s \in Service |-> FALSE]
      /\ issued = {t} /\ faults = 0 /\ changes = 0
  BY DEF Steady
<1>2. t # NoSecret
  BY SecretAssumption
<1>3. TypeOK
  <2>1. conf \in Config
    BY DEF Config, TName, NName
  <2>2. rev \in Rev
    BY <2>1 DEF Rev, TName, NName
  <2>3. child \in ServiceCR
    BY DEF ServiceCR, Input, TName, NName
  <2>4. load \in Workload
    <3>1. [rev |-> rev, use |-> conf] \in Pod
      BY <2>1, <2>2 DEF Pod
    <3> QED
      BY <2>1, <2>2, <3>1 DEF Workload
  <2>5. cr \in CinderCR
    BY <1>1, <2>1 DEF CinderCR, TName, NName
  <2> HIDE DEF conf, rev, child, load
  <2>6. svc \in [Service -> ServiceCR] /\ sts \in [Service -> Workload]
    BY <1>1, <2>3, <2>4
  <2>7. chi \in [Service -> ChildLocal] /\ cq \in [Service -> BOOLEAN]
    BY <1>1, Constants
  <2>8. par \in ParentLocal /\ config \in Config /\ pq \in BOOLEAN
    BY <1>1, <2>1, Constants
  <2>9. /\ tu \in TName \cup {Nil} /\ nu \in NName \cup {Nil}
        /\ tfin \subseteq TName \cup NName /\ acfin \subseteq ACSecrets
        /\ issued \subseteq TransportSecrets \cup NotifSecrets
    BY <1>1 DEF TName, ACName
  <2>10. faults \in 0 .. MaxFaults /\ changes \in 0 .. MaxChanges
    BY <1>1, BoundAssumption
  <2> QED
    BY <2>5, <2>6, <2>7, <2>8, <2>9, <2>10 DEF TypeOK
<1>4. FinalizerInv
  BY <1>1 DEF FinalizerInv, PhaseInv, OwnFinalizerInv, HeldInv,
              ConfigProtected, AfterManageT, AfterManageN, AfterRender,
              NormalPC, DeletePC, ParentIdle
<1>5. PodsInv
  <2>1. Target = [t |-> t, n |-> NoSecret]
    BY <1>1 DEF Target
  <2>2. cr.T = t /\ cr.N = Nil /\ ~ cr.notif /\ cr.svcs = Service
    BY <1>1
  <2>3. On(conf, Target) /\ On(rev, Target)
    BY <1>2, <2>1 DEF On
  <2>4. BeginInv
    BY <1>1, <2>2, SecretAssumption DEF BeginInv, NotifName, Single
  <2>5. ConfigInv
    BY <1>1, <2>3 DEF ConfigInv, Known
  <2>6. ParentInv
    BY <1>1, LostReconcile DEF ParentInv
  <2>7. /\ ChildIdle.pc = "idle" /\ ~ ChildIdle.ready /\ ~ Working(ChildIdle)
    BY DEF ChildIdle, Working
  <2>8. On(child, Target) /\ On(child.applied, Target)
    BY <1>2, <2>1 DEF On
  <2>9. /\ child.phase = "live" /\ ~ load.orphan /\ load.own = conf
        /\ load.rev = rev /\ load.pods = {[rev |-> rev, use |-> conf]}
    OBVIOUS
  <2>10. conf # NoConfig /\ Names(conf) \subseteq {t}
    BY <1>2 DEF NoConfig, Names
  <2> HIDE DEF conf, rev, child, load
  <2>11. ServiceInv(child, ChildIdle, load, conf, Target, Previous, {t})
    <3>1. Adopted(child, ChildIdle, load)
      BY <2>7, <2>9 DEF Adopted
    <3>2. UsesKnown(child, ChildIdle, load, Target, Previous)
      BY <2>3, <2>7, <2>8, <2>9 DEF UsesKnown, Known
    <3>3. Chain(child, ChildIdle, load, conf, Target)
      BY <2>3, <2>7, <2>8, <2>9 DEF Chain
    <3>4. UsesHeld(child, load, {t})
      BY <2>9, <2>10 DEF UsesHeld
    <3> QED
      BY <2>10, <3>1, <3>2, <3>3, <3>4 DEF ServiceInv
  <2>12. ServicesInv
    BY <1>1, <2>11 DEF ServicesInv
  <2> QED
    BY <2>4, <2>5, <2>6, <2>12 DEF PodsInv
<1> QED
  BY <1>3, <1>4, <1>5

\* What holds of a deployment from its creation on holds of one that was up
\* before: the Secrets of the config stay held, nothing leaks, and no running
\* Pod holds a released credential.
THEOREM SteadyProtected ==
  Policy => (SteadySpec => [](ConfigProtected /\ NoLeakAfterDelete
                              /\ PodsProtected))
<1>1. TypeOK /\ FinalizerInv /\ PodsInv =>
        ConfigProtected /\ NoLeakAfterDelete /\ PodsProtected
  BY PodsHeld DEF FinalizerInv, PhaseInv, NoLeakAfterDelete
<1> SUFFICES ASSUME Policy
             PROVE  SteadySpec => [](ConfigProtected /\ NoLeakAfterDelete
                                     /\ PodsProtected)
  OBVIOUS
<1>2. QED
  BY <1>1, InitSteady, NextType, NextFinalizer, NextPods, PTL DEF SteadySpec


=============================================================================
