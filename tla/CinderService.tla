--------------------------- MODULE CinderService ---------------------------
(***************************************************************************)
(* The child controllers: CinderVolume, and with the same state machine    *)
(* CinderAPI, CinderScheduler and CinderBackup.                            *)
(*                                                                         *)
(* Each controller has one worker, so a child CR has at most one reconcile *)
(* in progress, chi[s].  A reconcile reads the child CR, then the Cinder   *)
(* config Secret, copies it into the child's own config Secret, patches    *)
(* the StatefulSet with a hash of all it read, judges the roll-out, and    *)
(* writes the child's status: other actors move between any two of these.  *)
(***************************************************************************)
EXTENDS ClusterState

\* The child's resources were left behind by a deleted CR of the same name.
Conflict(s) == sts[s].orphan

\* statefulset.IsReady and IsReadyForInput: every Pod runs the template that
\* carries this input hash, and the template is the one observed.
IsReadyForInput(s, rev) ==
  /\ sts[s].rev = rev
  /\ sts[s].seen
  /\ sts[s].pods # {}
  /\ \A p \in sts[s].pods : p.rev = rev

\* createHashOfInputHashes: two inputs get the same hash iff they are equal.
InputHash(s) == [t |-> chi[s].t, n |-> chi[s].n, c |-> chi[s].c]

----------------------------------------------------------------------------
\* Reconcile, the request's object is gone.
CFetchAbsent(s) ==
  /\ chi[s].pc = "idle"
  /\ cq[s]
  /\ svc[s].phase = "absent"
  /\ cq' = [cq EXCEPT ![s] = FALSE]
  /\ UNCHANGED <<cr, tu, nu, tfin, acfin, config, svc, sts, par, chi, pq,
                 issued, faults, changes>>

\* Reconcile of a CR without our finalizer: register it and return.
CFetchNew(s) ==
  /\ chi[s].pc = "idle"
  /\ cq[s]
  /\ svc[s].phase = "new"
  /\ cq' = [cq EXCEPT ![s] = FALSE]
  /\ chi' = [chi EXCEPT ![s] = [ChildIdle EXCEPT !.pc = "patch",
                                                 !.gen = svc[s].gen]]
  /\ UNCHANGED <<cr, tu, nu, tfin, acfin, config, svc, sts, par, pq,
                 issued, faults, changes>>

\* Reconcile, reconcileNormal up to the check of the referenced Secrets.
CFetchLive(s) ==
  /\ chi[s].pc = "idle"
  /\ cq[s]
  /\ svc[s].phase = "live"
  /\ cq' = [cq EXCEPT ![s] = FALSE]
  /\ chi' = [chi EXCEPT ![s] = [ChildIdle EXCEPT !.pc = "render",
                                                 !.gen = svc[s].gen,
                                                 !.t = svc[s].t,
                                                 !.n = svc[s].n]]
  /\ UNCHANGED <<cr, tu, nu, tfin, acfin, config, svc, sts, par, pq,
                 issued, faults, changes>>

\* Reconcile, reconcileDelete: our finalizer goes, and the CR with it; its
\* resources are left to the garbage collector.
CFetchDeleting(s) ==
  /\ chi[s].pc = "idle"
  /\ cq[s]
  /\ svc[s].phase = "deleting"
  /\ svc' = [svc EXCEPT ![s] = NoService]
  /\ sts' = [sts EXCEPT ![s].orphan = (sts[s] # NoWorkload)]
  /\ cq' = [cq EXCEPT ![s] = FALSE]
  /\ pq' = TRUE
  /\ UNCHANGED <<cr, tu, nu, tfin, acfin, config, par, chi,
                 issued, faults, changes>>

\* generateServiceConfigs copies the Cinder config into the child's own config
\* Secret, which the Pods mount and whose hash is an input of the StatefulSet.
\* The other read of the Cinder config, in verifyConfigSecrets a moment before,
\* is abstracted: it only adds its hash to the inputs.  A config that changed
\* between the two has queued the child again, and that reconcile, with a
\* hash of its own, patches the StatefulSet once more before it is ready.
CRender(s) ==
  /\ chi[s].pc = "render"
  /\ ~ Conflict(s)
  /\ chi' = [chi EXCEPT ![s].pc = "deploy", ![s].c = config]
  /\ sts' = [sts EXCEPT ![s].own = config]
  /\ cq' = [cq EXCEPT ![s] = @ \/ sts[s].own # config]
  /\ UNCHANGED <<cr, tu, nu, tfin, acfin, config, svc, par, pq,
                 issued, faults, changes>>

\* The controller reference on a leftover resource cannot be set: an error.
CRenderConflict(s) ==
  /\ chi[s].pc = "render"
  /\ Conflict(s)
  /\ chi' = [chi EXCEPT ![s].pc = "patch", ![s].requeue = TRUE]
  /\ UNCHANGED <<cr, tu, nu, tfin, acfin, config, svc, sts, par, pq, cq,
                 issued, faults, changes>>

\* ss.CreateOrPatch with a new hash: the StatefulSet's status is then for an
\* older generation, and the reconcile ends with ErrStatefulSetWaiting.
CDeployPatch(s) ==
  /\ chi[s].pc = "deploy"
  /\ sts[s].rev # InputHash(s)
  /\ sts' = [sts EXCEPT ![s].rev = InputHash(s), ![s].seen = FALSE]
  /\ chi' = [chi EXCEPT ![s].pc = "patch", ![s].requeue = TRUE]
  /\ cq' = [cq EXCEPT ![s] = TRUE]
  /\ UNCHANGED <<cr, tu, nu, tfin, acfin, config, svc, par, pq,
                 issued, faults, changes>>

\* ss.CreateOrPatch changes nothing, but the generation is not observed yet.
CDeployWait(s) ==
  /\ chi[s].pc = "deploy"
  /\ sts[s].rev = InputHash(s)
  /\ ~ sts[s].seen
  /\ chi' = [chi EXCEPT ![s].pc = "patch", ![s].requeue = TRUE]
  /\ UNCHANGED <<cr, tu, nu, tfin, acfin, config, svc, sts, par, pq, cq,
                 issued, faults, changes>>

\* ss.CreateOrPatch changes nothing: judge the roll-out.
CDeployCheck(s) ==
  /\ chi[s].pc = "deploy"
  /\ sts[s].rev = InputHash(s)
  /\ sts[s].seen
  /\ chi' = [chi EXCEPT ![s].pc = "patch",
                        ![s].ready = IsReadyForInput(s, InputHash(s))]
  /\ UNCHANGED <<cr, tu, nu, tfin, acfin, config, svc, sts, par, pq, cq,
                 issued, faults, changes>>

\* Any call of reconcileNormal fails, or a requirement is not met yet: the
\* conditions set so far are written, and the request is retried.
CFail(s) ==
  /\ chi[s].pc \in {"render", "deploy"}
  /\ faults < MaxFaults
  /\ faults' = faults + 1
  /\ chi' = [chi EXCEPT ![s].pc = "patch", ![s].requeue = TRUE]
  /\ UNCHANGED <<cr, tu, nu, tfin, acfin, config, svc, sts, par, pq, cq,
                 issued, changes>>

\* The status a reconcile leaves.  Conditions were reset when it started, so
\* readiness is what this reconcile found; the applied hash is only replaced
\* by a ready one.
Patched(c, l) ==
  [c EXCEPT !.phase = IF @ = "new" THEN "live" ELSE @,
            !.obs = l.gen,
            !.ready = l.ready,
            !.applied = IF l.ready THEN [t |-> l.t, n |-> l.n] ELSE @]

\* The deferred helper.PatchInstance of Reconcile: conditions, the observed
\* generation and AppliedInputSecretHash are written in one call.
CPatch(s) ==
  /\ chi[s].pc = "patch"
  /\ svc[s].phase # "absent"
  /\ svc' = [svc EXCEPT ![s] = Patched(@, chi[s])]
  /\ chi' = [chi EXCEPT ![s] = ChildIdle]
  /\ LET changed == svc[s] # Patched(svc[s], chi[s])
     IN  /\ cq' = [cq EXCEPT ![s] = @ \/ chi[s].requeue \/ changed]
         /\ pq' = (pq \/ changed)
  /\ UNCHANGED <<cr, tu, nu, tfin, acfin, config, sts, par,
                 issued, faults, changes>>

\* The CR vanished during the reconcile: PatchInstance fails, and the retry
\* finds nothing.
CPatchGone(s) ==
  /\ chi[s].pc = "patch"
  /\ svc[s].phase = "absent"
  /\ chi' = [chi EXCEPT ![s] = ChildIdle]
  /\ cq' = [cq EXCEPT ![s] = TRUE]
  /\ UNCHANGED <<cr, tu, nu, tfin, acfin, config, svc, sts, par, pq,
                 issued, faults, changes>>

\* One worker step of the controller of service s, failures excluded.
ServiceStep(s) ==
  \/ CFetchAbsent(s)
  \/ CFetchNew(s)
  \/ CFetchLive(s)
  \/ CFetchDeleting(s)
  \/ CRender(s)
  \/ CRenderConflict(s)
  \/ CDeployPatch(s)
  \/ CDeployWait(s)
  \/ CDeployCheck(s)
  \/ CPatch(s)
  \/ CPatchGone(s)

=============================================================================
