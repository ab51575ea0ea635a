----------------------------- MODULE Readiness ------------------------------
(***************************************************************************)
(* How the Cinder controller decides that a deployment is ready: admission *)
(* of the spec, the requirements, the database jobs, the child CRs of both *)
(* backup interfaces and of the volumes, and the conditions that are       *)
(* published.  A child's own controller is reduced to the status it        *)
(* publishes; its rotation of credentials is the subject of CinderOperator.*)
(***************************************************************************)
EXTENDS Webhook

CONSTANTS
  Core,        \* the services that are always deployed
  ListBackups, \* the names spec.cinderBackups may use
  Volumes,     \* the names spec.cinderVolumes may use
  Order,       \* the place of a service in the order of their deployment
  RawSpecs,    \* the specs users submit
  MaxEdits,    \* bound on accepted edits
  MaxFaults    \* bound on failures and crashes

Service == Core \cup {"backup"} \cup ListBackups \cup Volumes

\* The specs a user can write.
UserSpec == CinderSpec(ListBackups, Volumes)

\* The CRs of different kinds have different names.
ASSUME NameAssumption ==
  /\ "api" \in Core /\ Core \subseteq {"api", "scheduler"}
  /\ ListBackups \cap {"api", "scheduler", "backup"} = {}
  /\ Volumes \cap ({"api", "scheduler", "backup"} \cup ListBackups) = {}
  /\ Volumes \subseteq DOMAIN NameLen
ASSUME OrderAssumption ==
  /\ Order \in [Service -> Nat]
  /\ \A r, s \in Service : Order[r] = Order[s] => r = s
ASSUME SpecAssumption == RawSpecs \subseteq UserSpec /\ Nil \notin UserSpec
ASSUME BoundAssumption == MaxEdits \in Nat /\ MaxFaults \in Nat

VARIABLES
  cr,      \* the Cinder CR: spec, generation, finalizer and status
  par,     \* the reconcile of the Cinder controller in progress
  child,   \* the CRs of the services
  job,     \* the Jobs in the cluster
  db,      \* the images each kind of job has run to completion with
  queued,  \* a request for the Cinder CR waits in the work queue
  faults   \* failures and crashes so far

vars == <<cr, par, child, job, db, queued, faults>>

----------------------------------------------------------------------------
Job == {"dbsync", "migrations"}

\* What reconcileNormal requires, in this order, before the jobs.
Requirement ==
  {"Rbac", "TransportURL", "Memcached", "Input", "DB", "ServiceConfig",
   "NetworkAttachments"}

\* The conditions of the services and the overall one.  Those of requirements
\* and jobs are recorded by the one at which the reconcile stopped: the ones
\* before it are True, it is False, and the ones after it are Unknown.
Condition == {"API", "Scheduler", "Backup", "Volume", "Ready"}

Status == {"True", "False", "Unknown"}

AllUnknown == [c \in Condition |-> "Unknown"]

ChildCR ==
  [phase : {"absent", "live", "deleting"}, tmpl : Template \cup {Nil},
   seen : BOOLEAN,      \* ObservedGeneration = Generation
   applied : BOOLEAN,   \* AppliedInputSecretHash is the expected one
   ready : BOOLEAN]     \* its Ready condition is True

NoChild ==
  [phase |-> "absent", tmpl |-> Nil, seen |-> FALSE, applied |-> FALSE,
   ready |-> FALSE]

NoJob == [image |-> Nil, state |-> "none"]

\* The Cinder CR: spec as the webhook stores it, and what is published.
CinderCR ==
  [spec : UserSpec \cup {Nil}, gen : 0..(MaxEdits + 1),
   obs : 0..(MaxEdits + 1), fin : BOOLEAN, conds : [Condition -> Status],
   stop : Requirement \cup Job \cup {"none"},
   input : [BaseField -> BaseValue] \cup {Nil},
   hash : [Job -> Images \cup {Nil}]]

PC == {"idle", "require", "dbsync", "migrations", "deploy", "finish", "patch"}

\* A reconcile: the copy of the CR it works on, what it has found out, and
\* the services it still has to deploy.
Local ==
  [pc : PC, spec : UserSpec \cup {Nil}, gen : 0..(MaxEdits + 1),
   conds : [Condition -> Status],
   stop : Requirement \cup Job \cup {"none"},
   input : [BaseField -> BaseValue] \cup {Nil},
   hash : [Job -> Images \cup {Nil}], todo : SUBSET Service,
   waiting : SUBSET {"Backup", "Volume"}, bad : SUBSET {"Backup", "Volume"},
   requeue : BOOLEAN]

JobState ==
  [image : Images \cup {Nil}, state : {"none", "running", "done", "failed"}]

Idle ==
  [pc |-> "idle", spec |-> Nil, gen |-> 0, conds |-> AllUnknown,
   stop |-> "none", input |-> Nil, hash |-> [j \in Job |-> Nil],
   todo |-> {}, waiting |-> {}, bad |-> {}, requeue |-> FALSE]

TypeOK ==
  /\ cr \in CinderCR
  /\ par \in Local
  /\ child \in [Service -> ChildCR]
  /\ job \in [Job -> JobState]
  /\ db \in [Job -> SUBSET Images]
  /\ queued \in BOOLEAN
  /\ faults \in 0..MaxFaults

Init ==
  /\ cr = [spec |-> Nil, gen |-> 0, obs |-> 0, fin |-> FALSE,
           conds |-> AllUnknown, stop |-> "none", input |-> Nil,
           hash |-> [j \in Job |-> Nil]]
  /\ par = Idle
  /\ child = [s \in Service |-> NoChild]
  /\ job = [j \in Job |-> NoJob]
  /\ db = [j \in Job |-> {}]
  /\ queued = FALSE
  /\ faults = 0

----------------------------------------------------------------------------
(***************************************************************************)
(* What the spec asks for.                                                 *)
(***************************************************************************)
LegacyBackup(spec) == spec.backup.replicas > 0 /\ spec.backups = Nil

Wanted(spec) ==
  Core \cup {s \in {"backup"} : LegacyBackup(spec)}
    \cup {n \in BackupNames(spec) : spec.backups[n].replicas > 0}
    \cup DOMAIN spec.volumes

TemplateOf(spec, s) ==
  CASE s = "api"           -> spec.api
    [] s = "scheduler"     -> spec.scheduler
    [] s = "backup"        -> spec.backup
    [] s \in ListBackups   -> spec.backups[s]
    [] s \in Volumes       -> spec.volumes[s]

\* The services the deployment loops of reconcileNormal come across.
Visited(spec) == Core \cup {"backup"} \cup BackupNames(spec) \cup DOMAIN spec.volumes

ConditionOf(s) ==
  CASE s = "api"       -> "API"
    [] s = "scheduler" -> "Scheduler"
    [] s \in Volumes   -> "Volume"
    [] OTHER           -> "Backup"

----------------------------------------------------------------------------
(***************************************************************************)
(* Reconcile.                                                              *)
(***************************************************************************)

\* Mutant: the conditions of the last reconcile are kept.
StartedFromStatus ==
  [Idle EXCEPT !.spec = cr.spec, !.gen = cr.gen, !.conds = cr.conds,
               !.input = cr.input, !.hash = cr.hash]

\* Every reconcile starts with all conditions Unknown.
Started ==
  [Idle EXCEPT !.spec = cr.spec, !.gen = cr.gen, !.input = cr.input,
               !.hash = cr.hash]

\* The reconcile returns; requeue: it asks for another one, or fails.
Returned(p, requeue) == [p EXCEPT !.pc = "patch", !.requeue = requeue]

\* It returns because the requirement or job r is not there yet.
Stopped(p, r, requeue) == [Returned(p, requeue) EXCEPT !.stop = r]

Marked(p, c, status) == [p EXCEPT !.conds[c] = status]

PFetch ==
  /\ par.pc = "idle" /\ queued /\ cr.spec # Nil
  /\ queued' = FALSE
  /\ par' = IF cr.fin THEN [Started EXCEPT !.pc = "require"]
            ELSE Returned(Started, FALSE)
  /\ UNCHANGED <<cr, child, job, db, faults>>

\* One requirement is missing or its check fails.
PRequireFail ==
  /\ par.pc = "require"
  /\ faults < MaxFaults
  /\ faults' = faults + 1
  /\ \E r \in Requirement : par' = Stopped(par, r, TRUE)
  /\ UNCHANGED <<cr, child, job, db, queued>>

\* The rendered config depends on the base of the spec; when its hash changes,
\* the reconcile records the hash and returns.
PRequire ==
  /\ par.pc = "require"
  /\ par' = IF par.input # par.spec.base
            THEN [Stopped(par, "ServiceConfig", FALSE) EXCEPT !.input = par.spec.base]
            ELSE [par EXCEPT !.pc = "dbsync"]
  /\ UNCHANGED <<cr, child, job, db, queued, faults>>

\* reconcileInit, one job: it is done when the status has its hash or when a
\* Job with this definition has completed; otherwise it is (re)started.
JobNext == [dbsync |-> "migrations", migrations |-> "deploy"]

PJobDone(j) ==
  /\ par.pc = j
  /\ \/ par.hash[j] = par.spec.api.image
     \/ job[j] = [image |-> par.spec.api.image, state |-> "done"]
  /\ par' = [par EXCEPT
               !.pc = JobNext[j],
               !.hash[j] = par.spec.api.image,
               !.todo = Visited(par.spec)]
  /\ UNCHANGED <<cr, child, job, db, queued, faults>>

\* Mutant: the hash is recorded when the Job is created.
PJobStartRecords(j) ==
  /\ par.pc = j
  /\ par.hash[j] # par.spec.api.image
  /\ job[j].image # par.spec.api.image
  /\ job' = [job EXCEPT ![j] = [image |-> par.spec.api.image, state |-> "running"]]
  /\ par' = [Stopped(par, j, TRUE) EXCEPT !.hash[j] = par.spec.api.image]
  /\ UNCHANGED <<cr, child, db, queued, faults>>

PJobStart(j) ==
  /\ par.pc = j
  /\ par.hash[j] # par.spec.api.image
  /\ job[j].image # par.spec.api.image
  /\ job' = [job EXCEPT ![j] = [image |-> par.spec.api.image, state |-> "running"]]
  /\ par' = Stopped(par, j, TRUE)
  /\ UNCHANGED <<cr, child, db, queued, faults>>

PJobWait(j) ==
  /\ par.pc = j
  /\ par.hash[j] # par.spec.api.image
  /\ job[j].image = par.spec.api.image
  /\ job[j].state \in {"running", "failed"}
  /\ par' = Stopped(par, j, TRUE)
  /\ UNCHANGED <<cr, child, job, db, queued, faults>>

----------------------------------------------------------------------------
(***************************************************************************)
(* Deployment of the services, one after the other.                        *)
(***************************************************************************)

\* CreateOrPatch of a child CR: a changed spec is a new generation.
Deployed(c, t) ==
  IF c.phase = "absent"
  THEN [NoChild EXCEPT !.phase = "live", !.tmpl = t]
  ELSE IF c.tmpl = t THEN c
  ELSE [c EXCEPT !.tmpl = t, !.seen = FALSE]

\* Deletion of a child CR, a new generation as well.
Removed(c) ==
  IF c.phase = "live" THEN [c EXCEPT !.phase = "deleting", !.seen = FALSE] ELSE c

\* The status speaks of the current spec and of the current credentials.
Matches(c) == c.seen /\ c.applied

\* Mutant: the reason in place of the status.
MirrorReason(c) == IF c.ready THEN "True" ELSE "Requested"

Mirror(c) == IF c.ready THEN "True" ELSE "False"

\* API, scheduler and the legacy backup have a condition of their own.
PDeploySingle(s) ==
  LET c == Deployed(child[s], TemplateOf(par.spec, s))
  IN  /\ s \in Core \/ (s = "backup" /\ LegacyBackup(par.spec))
      /\ child' = [child EXCEPT ![s] = c]
      /\ par' = [Marked(par, ConditionOf(s),
                        IF Matches(c) THEN Mirror(c) ELSE "Unknown")
                 EXCEPT !.todo = @ \ {s}]

\* Without a legacy backup its CR is cleaned up and the condition is True.
PSkipLegacy(s) ==
  /\ s = "backup" /\ ~ LegacyBackup(par.spec)
  /\ child' = [child EXCEPT ![s] = Removed(@)]
  /\ par' = [Marked(par, "Backup", "True") EXCEPT !.todo = @ \ {s}]

\* The verdict on the children seen so far of a condition that several share.
Waiting(cond, c) == IF Matches(c) THEN par.waiting ELSE par.waiting \cup {cond}
Bad(cond, c) == IF Matches(c) /\ ~ c.ready THEN par.bad \cup {cond} ELSE par.bad

Combined(cond, waiting, bad, before) ==
  IF cond \in bad THEN "False" ELSE IF cond \in waiting THEN before ELSE "True"

\* A backup of the list: the condition is updated after each of them.
PDeployBackup(s) ==
  LET c == Deployed(child[s], TemplateOf(par.spec, s))
  IN  /\ s \in ListBackups /\ s \in Wanted(par.spec)
      /\ child' = [child EXCEPT ![s] = c]
      /\ par' = [par EXCEPT
                   !.waiting = Waiting("Backup", c),
                   !.bad = Bad("Backup", c),
                   !.conds["Backup"] = Combined("Backup", Waiting("Backup", c),
                                                Bad("Backup", c), @),
                   !.todo = @ \ {s}]

PSkipBackup(s) ==
  /\ s \in ListBackups /\ s \notin Wanted(par.spec)
  /\ child' = [child EXCEPT ![s] = Removed(@)]
  /\ par' = [par EXCEPT !.todo = @ \ {s}]

\* A volume: the condition is set after the last of them.
PDeployVolume(s) ==
  LET c == Deployed(child[s], TemplateOf(par.spec, s))
  IN  /\ s \in Volumes
      /\ child' = [child EXCEPT ![s] = c]
      /\ par' = [par EXCEPT !.waiting = Waiting("Volume", c),
                            !.bad = Bad("Volume", c),
                            !.todo = @ \ {s}]

PDeploy(s) ==
  /\ par.pc = "deploy" /\ s \in par.todo
  /\ \A r \in par.todo : Order[s] <= Order[r]
  /\ \/ PDeploySingle(s)
     \/ PSkipLegacy(s)
     \/ PDeployBackup(s)
     \/ PSkipBackup(s)
     \/ PDeployVolume(s)
  /\ UNCHANGED <<cr, job, db, queued, faults>>

\* The condition of the volumes, the cleanup of volumes that left the spec,
\* and the CronJob.
PCleanup ==
  /\ par.pc = "deploy" /\ par.todo = {}
  /\ child' = [s \in Service |->
                 IF s \in Volumes \ DOMAIN par.spec.volumes
                 THEN Removed(child[s]) ELSE child[s]]
  /\ par' = [par EXCEPT
               !.pc = "finish",
               !.conds["Volume"] = Combined("Volume", par.waiting, par.bad, @)]
  /\ UNCHANGED <<cr, job, db, queued, faults>>

IsReady(p) ==
  \A c \in {ConditionOf(s) : s \in Core} \cup {"Backup", "Volume"} :
     p.conds[c] = "True"

PFinish ==
  /\ par.pc = "finish"
  /\ par' = Returned(IF IsReady(par) THEN Marked(par, "Ready", "True") ELSE par,
                     FALSE)
  /\ UNCHANGED <<cr, child, job, db, queued, faults>>

\* A call of the deployment fails.
PDeployFail ==
  /\ par.pc \in {"deploy", "finish"}
  /\ faults < MaxFaults
  /\ faults' = faults + 1
  /\ par' = Returned(par, TRUE)
  /\ UNCHANGED <<cr, child, job, db, queued>>

\* The deferred patch publishes what the reconcile found out.  A Ready that
\* was not decided mirrors the most severe of the other conditions.
Mirrored(p) ==
  IF p.stop # "none" \/ \E c \in Condition : p.conds[c] = "False"
  THEN "False" ELSE "Unknown"

Published(p) ==
  [cr EXCEPT
     !.obs = p.gen, !.fin = TRUE, !.input = p.input, !.hash = p.hash,
     !.stop = p.stop,
     !.conds = IF p.conds["Ready"] = "Unknown"
               THEN [p.conds EXCEPT !["Ready"] = Mirrored(p)] ELSE p.conds]

\* Mutant: the controller ignores events of its own status patches.
PPatchSilent ==
  /\ par.pc = "patch"
  /\ cr' = Published(par)
  /\ queued' = (queued \/ par.requeue)
  /\ par' = Idle
  /\ UNCHANGED <<child, job, db, faults>>

PPatch ==
  /\ par.pc = "patch"
  /\ cr' = Published(par)
  /\ queued' = (queued \/ par.requeue \/ cr' # cr)
  /\ par' = Idle
  /\ UNCHANGED <<child, job, db, faults>>

----------------------------------------------------------------------------
(***************************************************************************)
(* Users, children, Jobs, and the operator's process.                      *)
(***************************************************************************)

\* A user creates the CR or edits it; a refused edit changes nothing.
Submit(raw) ==
  /\ cr.gen <= MaxEdits
  /\ Admits(cr.spec, raw)
  /\ Default(raw) # cr.spec
  /\ cr' = [cr EXCEPT !.spec = Default(raw), !.gen = @ + 1]
  /\ queued' = TRUE
  /\ UNCHANGED <<par, child, job, db, faults>>

\* The child's controller observes the new spec: not rolled out yet.
ChildObserves(s) ==
  /\ child[s].phase = "live" /\ ~ child[s].seen
  /\ child' = [child EXCEPT ![s].seen = TRUE, ![s].ready = FALSE]
  /\ queued' = TRUE
  /\ UNCHANGED <<cr, par, job, db, faults>>

\* The roll-out completes.
ChildReady(s) ==
  /\ child[s].phase = "live" /\ child[s].seen /\ ~ child[s].ready
  /\ child' = [child EXCEPT ![s].applied = TRUE, ![s].ready = TRUE]
  /\ queued' = TRUE
  /\ UNCHANGED <<cr, par, job, db, faults>>

\* A reconcile of the child that started before the last change of its spec
\* reports its roll-out now.
ChildLate(s) ==
  /\ child[s].phase = "live" /\ ~ child[s].seen /\ ~ child[s].ready
  /\ child[s].applied
  /\ child' = [child EXCEPT ![s].ready = TRUE]
  /\ queued' = TRUE
  /\ UNCHANGED <<cr, par, job, db, faults>>

\* Pods of the child fail.
ChildUnready(s) ==
  /\ child[s].phase = "live" /\ child[s].seen /\ child[s].ready
  /\ faults < MaxFaults
  /\ faults' = faults + 1
  /\ child' = [child EXCEPT ![s].ready = FALSE]
  /\ queued' = TRUE
  /\ UNCHANGED <<cr, par, job, db>>

\* The child's controller has removed its finalizer.
ChildGone(s) ==
  /\ child[s].phase = "deleting"
  /\ child' = [child EXCEPT ![s] = NoChild]
  /\ queued' = TRUE
  /\ UNCHANGED <<cr, par, job, db, faults>>

JobFinishes(j) ==
  /\ job[j].state = "running"
  /\ job' = [job EXCEPT ![j].state = "done"]
  /\ db' = [db EXCEPT ![j] = @ \cup {job[j].image}]
  /\ queued' = TRUE
  /\ UNCHANGED <<cr, par, child, faults>>

JobFails(j) ==
  /\ job[j].state = "running"
  /\ faults < MaxFaults
  /\ faults' = faults + 1
  /\ job' = [job EXCEPT ![j].state = "failed"]
  /\ queued' = TRUE
  /\ UNCHANGED <<cr, par, child, db>>

\* An administrator removes a failed Job.
JobRemoved(j) ==
  /\ job[j].state = "failed"
  /\ job' = [job EXCEPT ![j] = NoJob]
  /\ queued' = TRUE
  /\ UNCHANGED <<cr, par, child, db, faults>>

\* A completed Job is removed when its TTL expires.
JobExpires(j) ==
  /\ job[j].state = "done"
  /\ faults < MaxFaults
  /\ faults' = faults + 1
  /\ job' = [job EXCEPT ![j] = NoJob]
  /\ queued' = TRUE
  /\ UNCHANGED <<cr, par, child, db>>

\* The operator is restarted: the reconcile in progress is lost.
Crash ==
  /\ faults < MaxFaults
  /\ faults' = faults + 1
  /\ par.pc # "idle"
  /\ par' = Idle
  /\ queued' = TRUE
  /\ UNCHANGED <<cr, child, job, db>>

ControllerStep ==
  \/ PFetch
  \/ PRequire
  \/ \E j \in Job : PJobDone(j) \/ PJobStart(j) \/ PJobWait(j)
  \/ \E s \in Service : PDeploy(s)
  \/ PCleanup
  \/ PFinish
  \/ PPatch

ChildStep(s) ==
  ChildObserves(s) \/ ChildReady(s) \/ ChildLate(s) \/ ChildGone(s)

Fault ==
  \/ PRequireFail
  \/ PDeployFail
  \/ Crash
  \/ \E s \in Service : ChildUnready(s)
  \/ \E j \in Job : JobFails(j) \/ JobExpires(j)

Next ==
  \/ ControllerStep
  \/ \E s \in Service : ChildStep(s)
  \/ \E j \in Job : JobFinishes(j) \/ JobRemoved(j)
  \/ \E raw \in RawSpecs : Submit(raw)
  \/ Fault

Spec == Init /\ [][Next]_vars

\* A queued request is worked on and a reconcile goes on, the controllers of
\* the services and the Jobs make progress, and failed Jobs are removed.
Fairness ==
  /\ WF_vars(ControllerStep)
  /\ \A s \in Service : WF_vars(ChildStep(s))
  /\ \A j \in Job : WF_vars(JobFinishes(j)) /\ WF_vars(JobRemoved(j))

FairSpec == Spec /\ Fairness

----------------------------------------------------------------------------
\* The service runs what the spec asks for: its CR has the template of the
\* spec, its controller has observed that, and its Pods have rolled out.
RolledOut(s) ==
  /\ child[s].phase = "live"
  /\ child[s].tmpl = TemplateOf(cr.spec, s)
  /\ Matches(child[s])
  /\ child[s].ready

\* Nothing is left to do: no reconcile runs and none is queued.
AtRest == par.pc = "idle" /\ ~ queued

PublishedReady == cr.spec # Nil /\ cr.conds["Ready"] = "True"

\* When the controller is at rest and the CR says Ready, the API, the
\* scheduler, the legacy backup and the volumes have rolled out the current
\* spec, whatever happened on the way: the conditions are reset by every
\* reconcile, a child that has not observed its spec does not count, and every
\* change of a child's status leads to another reconcile.
ReadyMeansRolledOut ==
  AtRest /\ PublishedReady =>
    \A s \in Wanted(cr.spec) \ ListBackups : RolledOut(s)

\* "IsReady - returns true if all subresources Ready condition is true": the
\* same of every service, the backups of spec.cinderBackups included.
ReadyMeansAllReady ==
  AtRest /\ PublishedReady => \A s \in Wanted(cr.spec) : RolledOut(s)

\* The API is never given an image before db sync and then the online data
\* migrations have run to completion with that image, however Jobs fail,
\* expire or are replaced and whenever the operator dies between the end of a
\* Job and the status patch that records its hash (reconcileInit).
MigratedBeforeDeploy ==
  /\ db["migrations"] \subseteq db["dbsync"]
  /\ child["api"].phase # "absent" =>
       \A j \in Job : child["api"].tmpl.image \in db[j]

\* What the webhook has stored it accepts again: the operator's own patches of
\* the CR (adding and removing its finalizer) go through the same validation,
\* and a spec that was valid once but not on the next update could never lose
\* its finalizer.
StoredSpecAccepted ==
  cr.spec # Nil => Admits(cr.spec, cr.spec) /\ Default(cr.spec) = cr.spec

\* The label "<statefulset>-<hash>" of a volume's Pods, with the name
\* <cinder>-volume-<volume> and a hash of at most 10 digits, fits in 63
\* characters for every volume that is deployed.
RevisionLabelFits ==
  \A s \in Volumes : child[s].phase # "absent" =>
    CrNameLen + 8 + NameLen[s] + 1 + 10 <= 63

\* "Deploy a list of cinder-backups only if Spec.CinderBackup is not used":
\* the controller relies on the webhook for this.
OneBackupInterface ==
  [][\A s \in ListBackups :
       child[s].phase = "absent" /\ child'[s].phase = "live" =>
         ~ IsDeprecatedUsed(par.spec)]_vars

\* Once edits and failures stop, the CR becomes Ready for its latest
\* generation and stays so.
BecomesReady ==
  <>[](cr.spec = Nil \/ ( /\ PublishedReady
                          /\ cr.obs = cr.gen
                          /\ \A s \in Wanted(cr.spec) : RolledOut(s) ))

=============================================================================
