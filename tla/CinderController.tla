-------------------------- MODULE CinderController --------------------------
(***************************************************************************)
(* The Cinder controller: one worker, so one reconcile at a time, whose    *)
(* local state is par.  A reconcile works on the copy of the CR it fetched *)
(* and writes the status once, when it returns; each call to the API       *)
(* server in between is an action of its own.                              *)
(***************************************************************************)
EXTENDS ClusterState

\* The tracked notifications Secret as a name: "" for a nil pointer.
NotifName(n) == IF n = Nil THEN NoSecret ELSE n

\* Mutant: readiness alone decides, as before AppliedInputSecretHash existed.
ServiceReadyByCondition(c, t, n) == c.ready

\* allServicesReady is kept only by a child that has observed the spec just
\* written, has rolled out the expected input Secrets, and is ready.
ServiceReady(c, t, n) ==
  /\ c.gen = c.obs
  /\ c.applied = [t |-> t, n |-> n]
  /\ c.ready

\* CreateOrUpdate of a child CR: the generation moves iff the spec does.
Created(t, n) ==
  [NoService EXCEPT !.phase = "new", !.gen = 1, !.t = t, !.n = n]
Updated(c, t, n) ==
  IF c.t = t /\ c.n = n THEN c
  ELSE [c EXCEPT !.gen = @ + 1, !.t = t, !.n = n]
Deployed(c, t, n) ==
  IF c.phase = "absent" THEN Created(t, n) ELSE Updated(c, t, n)

\* A reconcile starts from a copy of the CR.
Fetched(pc) ==
  [ParentIdle EXCEPT !.pc = pc, !.ac = cr.ac, !.notif = cr.notif,
                     !.svcs = cr.svcs, !.T = cr.T, !.N = cr.N, !.AC = cr.AC,
                     !.hash = cr.hash]

----------------------------------------------------------------------------
\* Reconcile, the CR is gone.
PFetchGone ==
  /\ par.pc = "idle"
  /\ pq
  /\ cr.phase = "gone"
  /\ pq' = FALSE
  /\ UNCHANGED <<cr, tu, nu, tfin, acfin, config, svc, sts, par, chi, cq,
                 issued, faults, changes>>

\* Reconcile of a CR without our finalizer: add it and return.
PFetchNew ==
  /\ par.pc = "idle"
  /\ pq
  /\ cr.phase = "new"
  /\ pq' = FALSE
  /\ par' = [Fetched("patch") EXCEPT !.fin = "add"]
  /\ UNCHANGED <<cr, tu, nu, tfin, acfin, config, svc, sts, chi, cq,
                 issued, faults, changes>>

\* Reconcile, entering reconcileNormal.
PFetchLive ==
  /\ par.pc = "idle"
  /\ pq
  /\ cr.phase = "live"
  /\ pq' = FALSE
  /\ par' = Fetched("transport")
  /\ UNCHANGED <<cr, tu, nu, tfin, acfin, config, svc, sts, chi, cq,
                 issued, faults, changes>>

\* Reconcile, entering reconcileDelete, which releases the application
\* credentials of the status and of the spec first.
PFetchDeleting ==
  /\ par.pc = "idle"
  /\ pq
  /\ cr.phase = "deleting"
  /\ pq' = FALSE
  /\ par' = [Fetched("delAC") EXCEPT !.todo = {cr.AC, cr.ac} \ {NoSecret}]
  /\ UNCHANGED <<cr, tu, nu, tfin, acfin, config, svc, sts, chi, cq,
                 issued, faults, changes>>

----------------------------------------------------------------------------
\* transportURLCreateOrUpdate, and the wait for status.secretName.
PTransportWait ==
  /\ par.pc = "transport"
  /\ tu \in {Nil, NoSecret}
  /\ tu' = NoSecret
  /\ par' = [par EXCEPT !.pc = "patch", !.requeue = TRUE]
  /\ pq' = (pq \/ tu = Nil)
  /\ UNCHANGED <<cr, nu, tfin, acfin, config, svc, sts, chi, cq,
                 issued, faults, changes>>

\* Mutant: the Secret's name is used without waiting for it.
PTransportNoWait ==
  /\ par.pc = "transport"
  /\ par' = [par EXCEPT !.pc = "manageT", !.t = tu,
                        !.T = IF @ = NoSecret THEN tu ELSE @]
  /\ UNCHANGED <<cr, tu, nu, tfin, acfin, config, svc, sts, chi, pq, cq,
                 issued, faults, changes>>

\* The Secret has a name; the first one is tracked from here on, a later one
\* only when its rotation is finalized.
PTransport ==
  /\ par.pc = "transport"
  /\ tu \notin {Nil, NoSecret}
  /\ par' = [par EXCEPT !.pc = "manageT", !.t = tu,
                        !.T = IF @ = NoSecret THEN tu ELSE @]
  /\ UNCHANGED <<cr, tu, nu, tfin, acfin, config, svc, sts, chi, pq, cq,
                 issued, faults, changes>>

\* The transport Secret's finalizer (its Secrets are watched).  Without a
\* notifications bus there is nothing to do before the config is rendered.
PManageT ==
  /\ par.pc = "manageT"
  /\ tfin' = Manage(tfin, par.t)
  /\ par' = [par EXCEPT !.pc = IF par.notif THEN "notif" ELSE "render"]
  /\ pq' = (pq \/ par.t \notin tfin)
  /\ UNCHANGED <<cr, tu, nu, acfin, config, svc, sts, chi, cq,
                 issued, faults, changes>>

\* The notifications TransportURL, and the wait for its status.secretName.
PNotifWait ==
  /\ par.pc = "notif"
  /\ nu \in {Nil, NoSecret}
  /\ nu' = NoSecret
  /\ par' = [par EXCEPT !.pc = "patch", !.requeue = TRUE,
                        !.N = NotifName(@)]
  /\ pq' = (pq \/ nu = Nil)
  /\ UNCHANGED <<cr, tu, tfin, acfin, config, svc, sts, chi, cq,
                 issued, faults, changes>>

\* The pointer that is tested for nil was set to "" before: the status is
\* not given the first Secret here, unlike that of the transport Secret.
PNotif ==
  /\ par.pc = "notif"
  /\ nu \notin {Nil, NoSecret}
  /\ par' = [par EXCEPT !.pc = "manageN", !.n = nu, !.N = NotifName(@)]
  /\ UNCHANGED <<cr, tu, nu, tfin, acfin, config, svc, sts, chi, pq, cq,
                 issued, faults, changes>>

\* Mutant: the notifications Secret is rendered without a finalizer.
PManageNForgotten ==
  /\ par.pc = "manageN"
  /\ par' = [par EXCEPT !.pc = "render"]
  /\ UNCHANGED <<cr, tu, nu, tfin, acfin, config, svc, sts, chi, pq, cq,
                 issued, faults, changes>>

\* The notifications Secret's finalizer, the same string as the transport
\* Secret's.  These Secrets are not watched.
PManageN ==
  /\ par.pc = "manageN"
  /\ tfin' = Manage(tfin, par.n)
  /\ par' = [par EXCEPT !.pc = "render"]
  /\ UNCHANGED <<cr, tu, nu, acfin, config, svc, sts, chi, pq, cq,
                 issued, faults, changes>>

Rendered == [t |-> par.t, n |-> par.n, ac |-> par.ac]

\* generateServiceConfigs writes <cinder>-config-data, whose changes wake
\* every child; if the hash of the inputs is not the recorded one, return,
\* and let the status change bring the CR back.
PRender ==
  /\ par.pc = "render"
  /\ config' = Rendered
  /\ par' = [par EXCEPT !.pc = IF par.hash # Rendered
                               THEN "patch" ELSE "manageAC",
                        !.hash = Rendered]
  /\ pq' = (pq \/ config # Rendered)
  /\ cq' = [s \in Service |->
              cq[s] \/ (config # Rendered /\ svc[s].phase # "absent")]
  /\ UNCHANGED <<cr, tu, nu, tfin, acfin, svc, sts, chi,
                 issued, faults, changes>>

\* The application credential's finalizer.  Its Secrets are not watched.
PManageAC ==
  /\ par.pc = "manageAC"
  /\ acfin' = IF par.ac = NoSecret THEN acfin ELSE Manage(acfin, par.ac)
  /\ par' = [par EXCEPT !.pc = "deploy"]
  /\ UNCHANGED <<cr, tu, nu, tfin, config, svc, sts, chi, pq, cq,
                 issued, faults, changes>>

----------------------------------------------------------------------------
\* Create or update the next service's CR and take its readiness into
\* account, as the CR is right after the call.
PDeploy(s) ==
  /\ par.pc = "deploy"
  /\ par.next = s
  /\ s \in par.svcs
  /\ LET c == Deployed(svc[s], par.t, par.n)
     IN  /\ svc' = [svc EXCEPT ![s] = c]
         /\ par' = [par EXCEPT !.next = s + 1,
                               !.ready = @ /\ ServiceReady(c, par.t, par.n)]
         /\ pq' = (pq \/ c # svc[s])
         /\ cq' = [cq EXCEPT ![s] = @ \/ c # svc[s]]
  /\ UNCHANGED <<cr, tu, nu, tfin, acfin, config, sts, chi,
                 issued, faults, changes>>

\* A backup of the legacy interface that is not wanted is deleted in its
\* turn; a key missing from the cinderBackups map is simply never met, and
\* volumes are cleaned up after the loop.
PSkip(s) ==
  /\ par.pc = "deploy"
  /\ par.next = s
  /\ s \notin par.svcs
  /\ par' = [par EXCEPT !.next = s + 1]
  /\ LET c == IF s \in Backups THEN Deleted(svc[s]) ELSE svc[s]
     IN  /\ svc' = [svc EXCEPT ![s] = c]
         /\ pq' = (pq \/ c # svc[s])
         /\ cq' = [cq EXCEPT ![s] = @ \/ c # svc[s]]
  /\ UNCHANGED <<cr, tu, nu, tfin, acfin, config, sts, chi,
                 issued, faults, changes>>

\* Mutant: no volume is ever cleaned up.
UnwantedIgnored == {}

\* The volumes whose key left spec.cinderVolumes.
Unwanted == {s \in Volumes \ par.svcs : svc[s].phase \in {"new", "live"}}

\* volumeCleanupDeployments, after the last service.  Its List is served from
\* the client's cache; that it fails, which is swallowed, is left out.
PCleanup ==
  /\ par.pc = "deploy"
  /\ par.next > NumServices
  /\ svc' = [s \in Service |->
               IF s \in Unwanted THEN Deleted(svc[s]) ELSE svc[s]]
  /\ par' = [par EXCEPT !.pc = "finalT"]
  /\ pq' = (pq \/ Unwanted # {})
  /\ cq' = [s \in Service |-> cq[s] \/ s \in Unwanted]
  /\ UNCHANGED <<cr, tu, nu, tfin, acfin, config, sts, chi,
                 issued, faults, changes>>

\* FinalizeSecretRotation of the transport Secret.
PFinalT ==
  /\ par.pc = "finalT"
  /\ tfin' = Finalize(tfin, par.T, par.t, par.ready)
  /\ par' = [par EXCEPT !.pc = "finalN", !.T = Tracked(@, par.t, par.ready)]
  /\ pq' = (pq \/ tfin' # tfin)
  /\ UNCHANGED <<cr, tu, nu, acfin, config, svc, sts, chi, cq,
                 issued, faults, changes>>

\* FinalizeSecretRotation of the notifications Secret ...
PFinalN ==
  /\ par.pc = "finalN"
  /\ par.notif
  /\ tfin' = Finalize(tfin, NotifName(par.N), par.n, par.ready)
  /\ par' = [par EXCEPT !.pc = "finalAC",
                        !.N = Tracked(NotifName(@), par.n, par.ready)]
  /\ UNCHANGED <<cr, tu, nu, acfin, config, svc, sts, chi, pq, cq,
                 issued, faults, changes>>

\* Mutant: the disabled bus is released without waiting for the roll-out.
PFinalNDisabledEarly ==
  /\ par.pc = "finalN"
  /\ ~ par.notif
  /\ tfin' = Remove(tfin, par.N)
  /\ par' = [par EXCEPT !.pc = "finalAC", !.N = Nil]
  /\ UNCHANGED <<cr, tu, nu, acfin, config, svc, sts, chi, pq, cq,
                 issued, faults, changes>>

\* ... or its release, once no Pod reads it any more.
PFinalNDisabled ==
  /\ par.pc = "finalN"
  /\ ~ par.notif
  /\ LET release == par.ready /\ par.N \notin {Nil, NoSecret}
     IN  /\ tfin' = IF release THEN Remove(tfin, par.N) ELSE tfin
         /\ par' = [par EXCEPT !.pc = "finalAC",
                               !.N = IF release THEN Nil ELSE @]
  /\ UNCHANGED <<cr, tu, nu, acfin, config, svc, sts, chi, pq, cq,
                 issued, faults, changes>>

\* FinalizeSecretRotation of the application credential.
PFinalAC ==
  /\ par.pc = "finalAC"
  /\ acfin' = Finalize(acfin, par.AC, par.ac, par.ready)
  /\ par' = [par EXCEPT !.pc = "pruneT", !.AC = Tracked(@, par.ac, par.ready)]
  /\ UNCHANGED <<cr, tu, nu, tfin, config, svc, sts, chi, pq, cq,
                 issued, faults, changes>>

\* Mutant: the Secret being rolled out is pruned with the rest.
KeepTTracked == {par.T, NotifName(par.N), par.n}

\* The Secrets that keep the transport finalizer.
KeepT == {par.T, par.t, NotifName(par.N), par.n}

PPruneT ==
  /\ par.pc = "pruneT"
  /\ tfin' = Prune(tfin, KeepT)
  /\ par' = [par EXCEPT !.pc = "pruneAC"]
  /\ pq' = (pq \/ (tfin \ tfin') \cap TransportSecrets # {})
  /\ UNCHANGED <<cr, tu, nu, acfin, config, svc, sts, chi, cq,
                 issued, faults, changes>>

KeepAC == {par.AC, par.ac}

PPruneAC ==
  /\ par.pc = "pruneAC"
  /\ acfin' = Prune(acfin, KeepAC)
  /\ par' = [par EXCEPT !.pc = "patch"]
  /\ UNCHANGED <<cr, tu, nu, tfin, config, svc, sts, chi, pq, cq,
                 issued, faults, changes>>

----------------------------------------------------------------------------
\* reconcileDelete: release the application credentials one by one, ...
PDelAC(x) ==
  /\ par.pc = "delAC"
  /\ x \in par.todo
  /\ acfin' = Remove(acfin, x)
  /\ par' = [par EXCEPT !.todo = @ \ {x}]
  /\ UNCHANGED <<cr, tu, nu, tfin, config, svc, sts, chi, pq, cq,
                 issued, faults, changes>>

\* ... list the transport Secrets of the status and of the TransportURLs, ...
PDelList ==
  /\ par.pc = "delAC"
  /\ par.todo = {}
  /\ par' = [par EXCEPT !.pc = "delT",
                        !.todo = {par.T, tu, nu, par.N} \ {Nil, NoSecret}]
  /\ UNCHANGED <<cr, tu, nu, tfin, acfin, config, svc, sts, chi, pq, cq,
                 issued, faults, changes>>

\* ... release them one by one, ...
PDelT(x) ==
  /\ par.pc = "delT"
  /\ x \in par.todo
  /\ tfin' = Remove(tfin, x)
  /\ par' = [par EXCEPT !.todo = @ \ {x}]
  /\ pq' = (pq \/ x \in tfin \cap TransportSecrets)
  /\ UNCHANGED <<cr, tu, nu, acfin, config, svc, sts, chi, cq,
                 issued, faults, changes>>

\* ... and release whatever a rotation left behind.
PDelPruneT ==
  /\ par.pc = "delT"
  /\ par.todo = {}
  /\ tfin' = Prune(tfin, {})
  /\ par' = [par EXCEPT !.pc = "delPruneAC"]
  /\ pq' = (pq \/ tfin \cap TransportSecrets # {})
  /\ UNCHANGED <<cr, tu, nu, acfin, config, svc, sts, chi, cq,
                 issued, faults, changes>>

\* Mutant: only the credentials of the spec and the status are released.
PDelPruneACForgotten ==
  /\ par.pc = "delPruneAC"
  /\ par' = [par EXCEPT !.pc = "patch", !.fin = "remove"]
  /\ UNCHANGED <<cr, tu, nu, tfin, acfin, config, svc, sts, chi, pq, cq,
                 issued, faults, changes>>

\* Last, our finalizer is to leave the CR with the final patch.
PDelPruneAC ==
  /\ par.pc = "delPruneAC"
  /\ acfin' = Prune(acfin, {})
  /\ par' = [par EXCEPT !.pc = "patch", !.fin = "remove"]
  /\ UNCHANGED <<cr, tu, nu, tfin, config, svc, sts, chi, pq, cq,
                 issued, faults, changes>>

----------------------------------------------------------------------------
\* A call fails, or something the reconcile needs is not there yet (database,
\* memcached, password Secret, network attachment, init job): return early.
PFail ==
  /\ par.pc \in NormalPC \cup DeletePC
  /\ faults < MaxFaults
  /\ faults' = faults + 1
  /\ par' = [par EXCEPT !.pc = "patch", !.requeue = TRUE]
  /\ UNCHANGED <<cr, tu, nu, tfin, acfin, config, svc, sts, chi, pq, cq,
                 issued, changes>>

\* The CR after the deferred patch.
PatchedCR ==
  [cr EXCEPT !.phase = CASE par.fin = "remove" -> "gone"
                         [] par.fin = "add"    -> "live"
                         [] OTHER              -> @,
             !.T = par.T, !.N = par.N, !.AC = par.AC, !.hash = par.hash]

\* Mutant: a predicate hides status changes from the controller's own queue.
PPatchQuiet ==
  /\ par.pc = "patch"
  /\ cr.phase # "gone"
  /\ cr' = PatchedCR
  /\ par' = ParentIdle
  /\ pq' = (pq \/ par.requeue \/ cr'.phase # cr.phase)
  /\ UNCHANGED <<tu, nu, tfin, acfin, config, svc, sts, chi, cq,
                 issued, faults, changes>>

\* The deferred helper.PatchInstance of Reconcile.
PPatch ==
  /\ par.pc = "patch"
  /\ cr.phase # "gone"
  /\ cr' = PatchedCR
  /\ par' = ParentIdle
  /\ pq' = (pq \/ par.requeue \/ cr' # cr)
  /\ UNCHANGED <<tu, nu, tfin, acfin, config, svc, sts, chi, cq,
                 issued, faults, changes>>

\* The CR was deleted before it got its finalizer.
PPatchGone ==
  /\ par.pc = "patch"
  /\ cr.phase = "gone"
  /\ par' = ParentIdle
  /\ pq' = TRUE
  /\ UNCHANGED <<cr, tu, nu, tfin, acfin, config, svc, sts, chi, cq,
                 issued, faults, changes>>

\* One worker step of the Cinder controller, failures excluded.
ControllerStep ==
  \/ PFetchGone
  \/ PFetchNew
  \/ PFetchLive
  \/ PFetchDeleting
  \/ PTransportWait
  \/ PTransport
  \/ PManageT
  \/ PNotifWait
  \/ PNotif
  \/ PManageN
  \/ PRender
  \/ PManageAC
  \/ \E s \in Service : PDeploy(s)
  \/ \E s \in Service : PSkip(s)
  \/ PCleanup
  \/ PFinalT
  \/ PFinalN
  \/ PFinalNDisabled
  \/ PFinalAC
  \/ PPruneT
  \/ PPruneAC
  \/ \E x \in ACSecrets : PDelAC(x)
  \/ PDelList
  \/ \E x \in TransportSecrets \cup NotifSecrets : PDelT(x)
  \/ PDelPruneT
  \/ PDelPruneAC
  \/ PPatch
  \/ PPatchGone

=============================================================================
