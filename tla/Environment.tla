---------------------------- MODULE Environment ----------------------------
(***************************************************************************)
(* What surrounds the operator: the RabbitMQ part of infra-operator, which *)
(* names the credential Secret of a TransportURL, the StatefulSet          *)
(* controller with the kubelets, the garbage collector, and the user who   *)
(* edits the Cinder CR.  Rotations and edits are bounded by MaxChanges.    *)
(***************************************************************************)
EXTENDS ClusterState

\* What the watches of SetupWithManager turn an event into: a request for the
\* child that owns the object, or for the Cinder CR.
Wake(s)    == cq' = [cq EXCEPT ![s] = TRUE]
WakeCinder == pq' = TRUE

\* The status of the CR has caught up with what RabbitMQ and the user asked.
Settled ==
  /\ tu \in TransportSecrets
  /\ cr.T = tu
  /\ IF cr.notif THEN nu \in NotifSecrets /\ cr.N = nu ELSE cr.N = Nil

\* When may the credential in use be replaced by Secret x?
\*   settled: only when the previous rotation is complete;
\*   fresh:   at any time, but never by a Secret used before (A -> B -> C);
\*   any:     at any time, by any Secret.
MayRotate(x) ==
  CASE Rotation = "settled" -> Settled
    [] Rotation = "fresh"   -> x \notin issued
    [] OTHER                -> TRUE

\* Every service there is, even one whose removal was asked for only now,
\* reports that it has rolled out the current credentials.
RolledOut ==
  \A s \in Service :
    svc[s].phase \in {"new", "live"} =>
      /\ svc[s].ready
      /\ svc[s].applied = [t |-> tu, n |-> IF cr.notif THEN nu ELSE NoSecret]

Change ==
  /\ changes < MaxChanges
  /\ changes' = changes + 1

----------------------------------------------------------------------------
\* infra-operator has created the first messaging credential.
ProvisionTransport(x) ==
  /\ tu = NoSecret
  /\ cr.phase # "gone"
  /\ tu' = x
  /\ issued' = issued \cup {x}
  /\ WakeCinder
  /\ UNCHANGED <<cr, nu, tfin, acfin, config, svc, sts, par, chi, cq,
                 faults, changes>>

\* It rotates the credential: status.secretName names another Secret.
RotateTransport(x) ==
  /\ "rotate" \in Disturbances
  /\ cr.phase # "gone"
  /\ tu \in TransportSecrets \ {x}
  /\ MayRotate(x)
  /\ Change
  /\ tu' = x
  /\ issued' = issued \cup {x}
  /\ WakeCinder
  /\ UNCHANGED <<cr, nu, tfin, acfin, config, svc, sts, par, chi, cq, faults>>

\* The same for the notifications bus.
ProvisionNotif(x) ==
  /\ nu = NoSecret
  /\ cr.phase # "gone"
  /\ nu' = x
  /\ issued' = issued \cup {x}
  /\ WakeCinder
  /\ UNCHANGED <<cr, tu, tfin, acfin, config, svc, sts, par, chi, cq,
                 faults, changes>>

RotateNotif(x) ==
  /\ "rotate" \in Disturbances
  /\ cr.phase # "gone"
  /\ nu \in NotifSecrets \ {x}
  /\ MayRotate(x)
  /\ Change
  /\ nu' = x
  /\ issued' = issued \cup {x}
  /\ WakeCinder
  /\ UNCHANGED <<cr, tu, tfin, acfin, config, svc, sts, par, chi, cq, faults>>

----------------------------------------------------------------------------
NewPod(s) == [rev |-> sts[s].rev, use |-> sts[s].own]

\* The StatefulSet controller observes the current generation and sees to it
\* that a Pod of this template runs.  A Pod that starts reads the child's
\* config Secret as it is now, which may be newer than the template.
StsSync(s) ==
  /\ ~ sts[s].orphan
  /\ sts[s].rev # NoRev
  /\ ~ sts[s].seen
  /\ sts' = [sts EXCEPT ![s].seen = TRUE,
                        ![s].pods = IF \E p \in @ : p.rev = sts[s].rev THEN @
                                    ELSE @ \cup {NewPod(s)}]
  /\ Wake(s)
  /\ UNCHANGED <<cr, tu, nu, tfin, acfin, config, svc, par, chi, pq,
                 issued, faults, changes>>

\* The last Pod of an older template is gone.
StsFinish(s) ==
  /\ ~ sts[s].orphan
  /\ sts[s].seen
  /\ \E p \in sts[s].pods : p.rev # sts[s].rev
  /\ sts' = [sts EXCEPT ![s].pods = {p \in @ : p.rev = sts[s].rev}]
  /\ Wake(s)
  /\ UNCHANGED <<cr, tu, nu, tfin, acfin, config, svc, par, chi, pq,
                 issued, faults, changes>>

\* A Pod is restarted under its template and reads the config Secret again.
PodRestart(s) ==
  /\ "restart" \in Disturbances
  /\ ~ sts[s].orphan
  /\ \E p \in sts[s].pods :
       /\ p.use # sts[s].own
       /\ sts' = [sts EXCEPT
                    ![s].pods = (@ \ {p}) \cup {[p EXCEPT !.use = sts[s].own]}]
  /\ Wake(s)
  /\ UNCHANGED <<cr, tu, nu, tfin, acfin, config, svc, par, chi, pq,
                 issued, faults, changes>>

\* The garbage collector removes the resources of a deleted child CR ...
StsCollect(s) ==
  /\ sts[s].orphan
  /\ sts' = [sts EXCEPT ![s] = NoWorkload]
  /\ UNCHANGED <<cr, tu, nu, tfin, acfin, config, svc, par, chi, pq, cq,
                 issued, faults, changes>>

\* ... and deletes the child CRs of a deleted Cinder CR.
ChildCollect(s) ==
  /\ cr.phase = "gone"
  /\ svc[s].phase \in {"new", "live"}
  /\ svc' = [svc EXCEPT ![s] = Deleted(@)]
  /\ Wake(s)
  /\ WakeCinder
  /\ UNCHANGED <<cr, tu, nu, tfin, acfin, config, sts, par, chi,
                 issued, faults, changes>>

----------------------------------------------------------------------------
\* The user, or the operator that owns the Cinder CR, edits or deletes it.
Edit ==
  /\ cr.phase = "live"
  /\ Change
  /\ WakeCinder

SetApplicationCredential(x) ==
  /\ "credential" \in Disturbances
  /\ Edit
  /\ cr.ac # x
  /\ cr' = [cr EXCEPT !.ac = x]
  /\ UNCHANGED <<tu, nu, tfin, acfin, config, svc, sts, par, chi, cq,
                 issued, faults>>

ToggleNotifications ==
  /\ "notifications" \in Disturbances
  /\ NotifSecrets # {}
  /\ Rotation = "settled" => Settled /\ RolledOut
  /\ Edit
  /\ cr' = [cr EXCEPT !.notif = ~ @]
  /\ UNCHANGED <<tu, nu, tfin, acfin, config, svc, sts, par, chi, cq,
                 issued, faults>>

ToggleService(s) ==
  /\ "service" \in Disturbances
  /\ Edit
  /\ cr' = [cr EXCEPT !.svcs = IF s \in @ THEN @ \ {s} ELSE @ \cup {s}]
  /\ UNCHANGED <<tu, nu, tfin, acfin, config, svc, sts, par, chi, cq,
                 issued, faults>>

DeleteCinder ==
  /\ "delete" \in Disturbances
  /\ cr.phase \in {"new", "live"}
  /\ Change
  /\ cr' = [cr EXCEPT !.phase = IF @ = "new" THEN "gone" ELSE "deleting"]
  /\ WakeCinder
  /\ UNCHANGED <<tu, nu, tfin, acfin, config, svc, sts, par, chi, cq,
                 issued, faults>>

=============================================================================
