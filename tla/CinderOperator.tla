--------------------------- MODULE CinderOperator ---------------------------
(***************************************************************************)
(* The operator process, with the Cinder controller and the controllers of *)
(* its services, in its environment.                                       *)
(***************************************************************************)
EXTENDS CinderController, CinderService, Environment

Init ==
  /\ cr \in [phase : {"new"}, ac : ACName,
             notif : {b \in BOOLEAN : b => NotifSecrets # {}},
             svcs : {Service}, T : {NoSecret}, N : {Nil}, AC : {NoSecret},
             hash : {NoConfig}]
  /\ tu = Nil
  /\ nu = Nil
  /\ tfin = {}
  /\ acfin = {}
  /\ config = NoConfig
  /\ svc = [s \in Service |-> NoService]
  /\ sts = [s \in Service |-> NoWorkload]
  /\ par = ParentIdle
  /\ chi = [s \in Service |-> ChildIdle]
  /\ pq = TRUE
  /\ cq = [s \in Service |-> FALSE]
  /\ issued = {}
  /\ faults = 0
  /\ changes = 0

\* A Cinder that has been deployed for a while on transport Secret t, without
\* notifications and with application credential a: where a behaviour of Spec
\* without disturbances comes to rest.
Steady(t, a) ==
  LET conf == [t |-> t, n |-> NoSecret, ac |-> a]
      rev  == [t |-> t, n |-> NoSecret, c |-> conf]
  IN  /\ cr = [phase |-> "live", ac |-> a, notif |-> FALSE, svcs |-> Service,
               T |-> t, N |-> Nil, AC |-> a, hash |-> conf]
      /\ tu = t
      /\ nu = Nil
      /\ tfin = {t}
      /\ acfin = {a} \ {NoSecret}
      /\ config = conf
      /\ svc = [s \in Service |->
                  [phase |-> "live", gen |-> 1, t |-> t, n |-> NoSecret,
                   obs |-> 1, applied |-> [t |-> t, n |-> NoSecret],
                   ready |-> TRUE]]
      /\ sts = [s \in Service |->
                  [own |-> conf, rev |-> rev, seen |-> TRUE,
                   pods |-> {[rev |-> rev, use |-> conf]}, orphan |-> FALSE]]
      /\ par = ParentIdle
      /\ chi = [s \in Service |-> ChildIdle]
      /\ pq = FALSE
      /\ cq = [s \in Service |-> FALSE]
      /\ issued = {t}
      /\ faults = 0
      /\ changes = 0

SteadyInit == \E t \in TransportSecrets, a \in ACName : Steady(t, a)

\* The operator's Pod is lost and another becomes leader: every reconcile in
\* progress is lost with the status it would have written, and the informers'
\* first list queues every object.
Crash ==
  /\ faults < MaxFaults
  /\ faults' = faults + 1
  /\ par' = ParentIdle
  /\ chi' = [s \in Service |-> ChildIdle]
  /\ pq' = TRUE
  /\ cq' = [s \in Service |-> svc[s].phase # "absent"]
  /\ UNCHANGED <<cr, tu, nu, tfin, acfin, config, svc, sts, issued, changes>>

Fault ==
  \/ Crash
  \/ PFail
  \/ \E s \in Service : CFail(s)

\* Credentials are provisioned, Pods roll, garbage is collected.
PlatformStep ==
  \/ \E x \in TransportSecrets : ProvisionTransport(x)
  \/ \E x \in NotifSecrets : ProvisionNotif(x)
  \/ \E s \in Service : \/ StsSync(s)
                        \/ StsFinish(s)
                        \/ StsCollect(s)
                        \/ ChildCollect(s)

\* What may happen but need not.
Disturbance ==
  \/ \E x \in TransportSecrets : RotateTransport(x)
  \/ \E x \in NotifSecrets : RotateNotif(x)
  \/ \E x \in ACName : SetApplicationCredential(x)
  \/ ToggleNotifications
  \/ \E s \in Optional : ToggleService(s)
  \/ DeleteCinder
  \/ \E s \in Service : PodRestart(s)

Next ==
  \/ ControllerStep
  \/ \E s \in Service : ServiceStep(s)
  \/ PlatformStep
  \/ Disturbance
  \/ Fault

Spec == Init /\ [][Next]_vars

SteadySpec == SteadyInit /\ [][Next]_vars

\* A queued request is eventually worked on and a reconcile eventually
\* returns; RabbitMQ eventually issues a credential; StatefulSets eventually
\* roll out, and garbage is eventually collected.
Fairness ==
  /\ WF_vars(ControllerStep)
  /\ WF_vars(\E x \in TransportSecrets : ProvisionTransport(x))
  /\ WF_vars(\E x \in NotifSecrets : ProvisionNotif(x))
  /\ \A s \in Service : /\ WF_vars(ServiceStep(s))
                        /\ WF_vars(StsSync(s))
                        /\ WF_vars(StsFinish(s))
                        /\ WF_vars(StsCollect(s))
                        /\ WF_vars(ChildCollect(s))

FairSpec       == Spec /\ Fairness
FairSteadySpec == SteadySpec /\ Fairness

----------------------------------------------------------------------------
\* A service whose CR is in place.  The Pods of a removed volume do not count:
\* allServicesReady passes them over, and FinalizeSecretRotation, which follows
\* volumeCleanupDeployments in the same reconcile, may release their Secret
\* while they end.
Running(s) == svc[s].phase = "live" /\ ~ sts[s].orphan

\* The transport and notifications credentials the Pods of s were started with.
InUse(s) == (UNION {{p.use.t, p.use.n} : p \in sts[s].pods}) \ {NoSecret}

\* As long as Cinder is not being deleted, the rendered config names only
\* Secrets that carry the consumer finalizer: ManageSecretConsumerFinalizer
\* comes first, and neither a finalized rotation nor a prune, of this or of
\* an interrupted earlier reconcile, releases them.
ConfigProtected ==
  cr.phase = "live" => {config.t, config.n} \ {NoSecret} \subseteq tfin

\* No Pod of a service in place holds a RabbitMQ credential that the operator
\* has released (const.go: the finalizer prevents "cleaning up old RabbitMQ users before
\* cinder pods have rolled out new credentials").
PodsProtected ==
  cr.phase = "live" => \A s \in Service : Running(s) => InUse(s) \subseteq tfin

\* When the CR is gone, no Secret carries either finalizer, whichever rotation
\* or crash the deletion met: nothing would ever remove it any more.
NoLeakAfterDelete == cr.phase = "gone" => tfin = {} /\ acfin = {}

\* FinalizeSecretRotation releases the Secret the status tracks only when no
\* Pod of a service in place uses it, even if RabbitMQ rotates again before the services
\* have rolled out (reconcileNormal: the old finalizer is removed "after all
\* services deploy").
TrackedReleaseSafe ==
  [][par.pc \in {"finalT", "finalN"} =>
       \A x \in tfin \ tfin', s \in Service : Running(s) => x \notin InUse(s)]_vars

\* Everything has caught up with the CR: config, services, Pods, tracked
\* Secrets, and exactly the Secrets in use carry a finalizer.
Wanted == [t |-> tu, n |-> IF cr.notif THEN nu ELSE NoSecret, ac |-> cr.ac]

UpToDate ==
  /\ cr.phase = "live"
  /\ config = Wanted
  /\ cr.T = tu
  /\ NotifName(cr.N) = Wanted.n
  /\ cr.AC = cr.ac
  /\ tfin = {Wanted.t, Wanted.n} \ {NoSecret}
  /\ acfin = {Wanted.ac} \ {NoSecret}
  /\ \A s \in cr.svcs :
       /\ ServiceReady(svc[s], Wanted.t, Wanted.n)
       /\ \A p \in sts[s].pods : p.use = Wanted
  /\ \A s \in Service \ cr.svcs : svc[s].phase = "absent"

CleanedUp ==
  /\ cr.phase = "gone"
  /\ tfin = {}
  /\ acfin = {}
  /\ \A s \in Service : svc[s].phase = "absent" /\ sts[s] = NoWorkload

\* Once rotations, edits and failures stop, the operator comes to rest, either
\* with everything up to date or, if the CR was deleted, with nothing left:
\* no wake-up is missing on the way, above all after the returns of
\* reconcileNormal that rely on the event of their own status patch.
Converges == <>[](UpToDate \/ CleanedUp)

----------------------------------------------------------------------------
Leased == {config.t, config.n} \ {NoSecret}

Lease == INSTANCE CredentialLease
         WITH Secret <- TransportSecrets \cup NotifSecrets,
              phase <- cr.phase, held <- tfin, used <- Leased

\* The operator implements the abstract specification of its leases: every
\* step of every reconcile, retry, crash, rotation or edit adopts the CR,
\* leases a Secret, renders leased ones, gives up leases the config does not
\* need, ends with none, or changes nothing of this.
LeaseImplemented == Lease!Spec

----------------------------------------------------------------------------
(***************************************************************************)
(* Why ConfigProtected and NoLeakAfterDelete hold: what a reconcile in     *)
(* progress has established by the time it reaches a given point, stated   *)
(* so that the conjunction is inductive.                                   *)
(***************************************************************************)
AfterManageT == NormalPC \ {"transport", "manageT"}
AfterManageN == AfterManageT \ {"notif", "manageN"}
AfterRender  == AfterManageN \ {"render"}

\* Only a CR with our finalizer is worked on, and one is deleting from the
\* moment reconcileDelete starts; before and after, no Secret is held.
PhaseInv ==
  /\ cr.phase \in {"new", "gone"} =>
       par.pc \in {"idle", "patch"} /\ tfin = {} /\ acfin = {}
  /\ cr.phase = "new" => config = NoConfig
  /\ par.pc \in DeletePC => cr.phase = "deleting"

\* The CR's own finalizer is added to a new CR only, and removed only after
\* both kinds of Secret have been released.
OwnFinalizerInv ==
  /\ par.fin # "keep" => par.pc = "patch"
  /\ par.fin = "add" => cr.phase \in {"new", "gone"}
  /\ par.fin = "remove" =>
       cr.phase = "deleting" /\ tfin = {} /\ acfin = {}
  /\ par.pc = "delPruneAC" => tfin = {}

\* The Secrets a reconcile works with are held before it renders them, and
\* stay held until it returns, as do those of the present config, even if the
\* CR is deleted meanwhile; a finalizer is only put on a Secret with a name.
HeldInv ==
  /\ par.pc \in NormalPC \ {"transport"} => par.t # NoSecret
  /\ par.pc = "manageN" => par.n # NoSecret
  /\ par.pc \in AfterManageT => par.t \in tfin
  /\ par.pc \in AfterManageN => par.n = NoSecret \/ par.n \in tfin
  /\ par.pc \in NormalPC /\ ~ par.notif => par.n = NoSecret
  /\ par.pc \in {"notif", "manageN"} => par.notif
  /\ par.pc \in {"transport", "manageT"} => par.n = NoSecret
  /\ par.pc \in AfterRender => config.t = par.t /\ config.n = par.n
  /\ par.pc \in NormalPC => {config.t, config.n} \ {NoSecret} \subseteq tfin

\* The inductive invariant: between ManageSecretConsumerFinalizer and the
\* return of the reconcile, held and rendered Secrets stay in step.
FinalizerInv ==
  PhaseInv /\ OwnFinalizerInv /\ HeldInv /\ ConfigProtected

----------------------------------------------------------------------------
(***************************************************************************)
(* Statements of comments in the code that the code does not keep.         *)
(***************************************************************************)

\* "The old secret's finalizer is removed later (after all services deploy) so
\* that rapid rotations don't revoke a credential still in use by pods", of
\* the application credential: it is released only when no Pod uses it.
ACReleaseSafe ==
  [][\A x \in acfin \ acfin', s \in Service :
       Running(s) /\ cr.phase = "live" => \A p \in sts[s].pods : p.use.ac # x]_vars

=============================================================================
