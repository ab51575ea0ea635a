# cinder-operator: a TLA+ model of its controllers

This directory specifies the parts of cinder-operator that are hardest to get
right by testing, in three models:

* **Credentials** (`CinderOperator`): several controllers, each with its own
  work queue, move a Cinder deployment from one set of credentials to another
  while RabbitMQ rotates, users edit, Pods roll, calls fail and the operator
  restarts.  The consumer finalizers on the credential Secrets say which
  credentials may not be revoked yet.  `CredentialLease` says abstractly what
  the operator promises.
* **Readiness** (`Readiness`, with `Webhook`): how a submitted spec is
  admitted, and how requirements, database jobs and the status of the children
  become the conditions of the Cinder CR.
* **Registration** (`ServiceRegistration`): the life of one service CR: what it
  registers in Keystone, the Topology it holds, and what deletion gives back.

TLC checks what follows on small instances.  For every instance TLAPS proves
the types and every safety invariant that holds in these models: those about
finalizers on credentials, in Keystone and on Topologies, what Ready means, what
the webhook admits, the order of migration and deployment, and the refinement
of the abstract specification.  The protection of running Pods is proved for one
change of the credentials at a time.  Liveness is left to TLC.

## 1. Inventory of the system

| Part | Source | State it keeps | Operations |
|---|---|---|---|
| Cinder controller | `internal/controller/cinder_controller.go` | Cinder CR status (tracked Secrets, hash, conditions), `<cinder>-config-data`, child CRs, consumer finalizers | `Reconcile`, `reconcileNormal`, `reconcileInit`, `reconcileDelete`, `*DeploymentCreateOrUpdate`, `backupCleanupDeployment`, `volumeCleanupDeployments`, `generateServiceConfigs`, `ensureDB` |
| Child controllers (API, Scheduler, Backup, Volume) | `internal/controller/cinder{api,scheduler,backup,volume}_controller.go` | child CR status (`ObservedGeneration`, `AppliedInputSecretHash`, `LastAppliedTopology`, conditions), own config Secret, StatefulSet; API: KeystoneService and KeystoneEndpoint CRs | `Reconcile`, `reconcileNormal`, `reconcileInit` (API), `reconcileDelete`, `generateServiceConfigs`, `findObjectsForSrc` |
| Shared helpers | `internal/controller/cinder_common.go` | Topology finalizers | `verifyServiceSecret`, `verifyConfigSecrets`, `ensureTopology` |
| Workload definitions | `internal/cinder*/statefulset.go`, `volumes.go`, `job.go`, `cronjob.go` | none | build the objects |
| API types and webhook | `api/v1beta1/` | none | `IsReady`, `Default`, `ValidateCreate`, `ValidateUpdate` |
| Operator process | `cmd/main.go` | leader lease | starts one manager with five controllers |
| lib-common `object` package (external) | used by the Cinder controller | consumer finalizers | `Manage-`, `Remove-`, `PruneSecretConsumerFinalizer(s)`, `FinalizeSecretRotation` |
| Surroundings (external) | watched by the controllers | TransportURL status, Keystone CRs, Jobs, Pods | infra-operator, Keystone operator, Job and StatefulSet controllers, garbage collector, user |

**How they interact.** Only through objects in the API server.  The Cinder
controller writes `<cinder>-config-data` and the child CRs; a child controller
is woken by both, copies the config into its own Secret and patches its
StatefulSet with a hash of all its inputs; when the Pods have rolled out it
records `AppliedInputSecretHash` and conditions, which wakes the Cinder
controller.  RabbitMQ's operator names the credential Secret in the
TransportURL status and respects the finalizers.  Each controller has one
worker, so reconciles of one object never overlap, but those of different
objects do.

**What is hard.** A reconcile works on a copy of its CR and writes the status
once, when it returns: everything it does in between is visible to others and
survives a crash, its status does not.  Readiness is judged on a child CR that
is about to change.  Several returns of `reconcileNormal` rely on the event of
their own status patch.  Rotations may overlap.  `PROJECT.json` lists these
hazards line by line.

**What makes it correct.** A credential that the config or a running Pod uses
is never released; a credential nobody uses is eventually released, at the
latest when the CR is deleted; the deployment eventually catches up with the
CR.  Ready speaks of the spec as it is now; no service is started on a database
that was not migrated for it; what a service registers elsewhere (Keystone,
Topology) is current when it is Ready and given back when it is gone.

## 2. Modules

```
ConsumerFinalizers          the lib-common finalizer helpers, as operators on sets
      |
ClusterState                constants, variables, types (TypeOK)
   /     |        \
CinderController  CinderService  Environment       actions
   \     |        /
CinderOperator              Init, Next, fairness, properties, inductive invariant
   /             \              (implements CredentialLease)
MCCinderOperator  CinderOperatorProofs     types, finalizers, refinement
                        |
                  PodsProofs               running Pods are protected

Webhook                     defaulting and validation, as operators on a spec
   |
Readiness                   the Cinder controller: gates, children, conditions
   |-- MCReadiness
   `-- ReadinessProofs      webhook, migration, Ready

ServiceRegistration         the controller of one service
   |-- MCServiceRegistration
   `-- ServiceRegistrationProofs           types, Keystone
              |
       ServiceReadyProofs                  Ready, Topologies
```

The three models meet at the status of a child CR: `CinderService` and
`ServiceRegistration` look at one child controller from two sides and publish
it, `CinderController` and `Readiness` read it.  They are kept apart because
the state they need is different and their product would be out of TLC's reach.

### Credentials

**State.** `cr` is the Cinder CR: `phase` is new (no finalizer of ours yet),
live, deleting or gone; `ac`, `notif`, `svcs` are spec fields; `T`, `N`, `AC`,
`hash` are status fields (`TransportURLSecret`, `NotificationsURLSecret` with
`Nil` for a nil pointer, `ApplicationCredentialSecret`, the input hash).  `tu`
and `nu` are `status.secretName` of the two TransportURLs.  `tfin` and `acfin`
are the sets of Secrets with `TransportConsumerFinalizer` and
`ACConsumerFinalizer`.  `config` is what `<cinder>-config-data` was rendered
from.  `svc[s]` is a child CR, `sts[s]` its config Secret (`own`), its
StatefulSet (`rev`, the hash in the template; `seen`, generation observed) and
its Pods (template and the config read at start).  `par` and `chi[s]` are the
reconciles in progress, `pq` and `cq[s]` the work queues.

**Actions.** One per stretch of a reconcile between two calls that read or
write shared state.  `P...` actions are the Cinder controller, in the order of
`reconcileNormal` (transport, manageT, notif, manageN, render, manageAC,
deploy, finalT, finalN, finalAC, pruneT, pruneAC, patch) and `reconcileDelete`
(delAC, delT, delPruneAC, patch); `C...` actions are a child controller
(render, deploy, patch).  `PatchInstance`, deferred by every `Reconcile`, is
`PPatch` or `CPatch`.  An action that writes a watched object also sets the
queues its event reaches; it never wakes a queue that has no watch (Secrets of
the notifications TransportURL and application credentials are not watched).

**Abstractions.** A Secret is its name, and a hash is the record of what is
hashed (no collisions).  All four child controllers share one state machine.
`PFail` and `CFail` stand for every failing call and every requirement that is
not met yet: memcached, database, password Secret, networks, topology, TLS,
jobs.  A failed step has no partial effect of its own, since each action makes
at most one write that matters here; the helper calls that write several
Secrets (prune) are one action.  `reconcileDelete` releases the Secrets of its
list in any order, where the code has a fixed one.  Reads come from the API
server's present state: the delay of the informer cache is not modelled.  A
StatefulSet has a roll-out of at most two kinds of Pods, old and new, which is
what readiness can tell apart; replicas are at least 1.  `Deleted` is the
deletion of a child CR, by the Cinder controller or the garbage collector: one
without our finalizer goes at once, any other gets a timestamp and with it a new
generation.  The child's own `reconcileDelete`, which writes nothing else that
is modelled, is one step.  A
child reads `<cinder>-config-data` twice, to hash it (`verifyConfigSecrets`) and
to copy it (`generateServiceConfigs`); `CRender` is the second read.  The first
only adds a hash to the inputs of the StatefulSet: a config that changed between
the two has queued the child again, and the reconcile that follows patches the
StatefulSet once more before it can find it ready.  `volumeCleanupDeployments`
swallows a failed List; the client serves it from its cache, and that it fails is
left out.

**Surroundings.** `Environment` is external.  `Rotation` says what is assumed
of RabbitMQ: "settled" (it rotates only when the status tracks the current
Secret, and users toggle the notifications bus only once every service there
is, even one about to be removed, has rolled out: `RolledOut`),
"fresh" (any time, never back to an earlier Secret), "any".

### Readiness

`cr` is the Cinder CR (spec as stored by the webhook, generation, finalizer,
published conditions, hashes of the completed jobs), `par` the reconcile in
progress with the conditions it has found so far, `child` the service CRs,
`job` the two Jobs and `db` what has been run on the database.  A reconcile is
`PFetch`, `PRequire` (RBAC, TransportURL, memcached, Secret, database, config,
networks, in the code's order; any of them may fail), `PJobDone`, `PJobStart` or
`PJobWait` for db sync and then for the migrations, one `PDeploy` per service in
the code's order (`todo` is what is left of the loops, the constant `Order` the
place of a service in them), `PCleanup`, `PFinish` and the deferred `PPatch`.  The
conditions of requirements and jobs are represented by the one at which the
reconcile stopped: those before it are True and those after it Unknown.  A
child's controller is reduced to the status it publishes, with the late report
of a reconcile that began before the last change (`ChildLate`).

`Webhook` follows `cinder_webhook.go` operator by operator.  A field the
validation only tests is reduced to the outcome of the test (the namespace of a
topologyRef, validity of probes and service overrides), names to their length.
Warnings have no effect and are left out.

### Registration

One service CR of kind "api", "worker" (scheduler, backup) or "volume"; the
kinds differ in what they register and in the order of `reconcileDelete`.  `ks`
holds, for each of the two names the API registers, the KeystoneService and the
KeystoneEndpoint (absent, without conditions, not Ready, Ready; our finalizer),
the URL the endpoint asks for and whether Keystone's catalogue has it.  `fins` the finalizers on each Topology by name (the CR's, or a
volume's backend name), `tls` whether the certificate Secret exists.
`KsService` and `KsEndpoint` are one pass each of the loop of
`reconcileInit`: the CR is written, with our finalizer and the current URLs,
whatever its state; its condition is mirrored into the one local condition
(`svcReady`, `epReady`) that both services share, so that the second overwrites
the first unless it has no conditions yet (`Mirror`); and the loop goes on.  It
does not wait for Keystone, and neither does `Deploy`.  Writing does not touch
the status of a Keystone CR: after an edit of the URLs it may still be Ready for
the old ones.  Keystone acts at any moment (`KsRegister`), and wakes the
controller (`OwnsKeystone`).

`EnsureServiceTopology` is external and makes two calls, `Release` and
`Acquire`.  A failed call (`CallFails`) still runs the deferred patch; a crash,
or a patch that fails, does not.

### The abstract specification

`CredentialLease` has three variables: the phase of the CR, the Secrets under
lease, and those in use by the config of the services.  Its actions say that a
Secret is leased before it is used, that a live CR gives up only what is not in
use, and that the CR ends with no lease.  `CinderOperator` maps `cr.phase`,
`tfin` and the Secrets of `config` to them; every reconcile step, queue, child,
Pod, fault and crash is one of these actions or a stutter.

## 3. Properties

### Credentials

* `ConfigProtected`: the rendered config names only Secrets with the finalizer.
* `PodsProtected`: no Pod of a service in place (`Running`: its CR is live, its
  workload is not that of a deleted predecessor) uses a RabbitMQ Secret that was
  released.
* `NoLeakAfterDelete`: nothing is held once the CR is gone.
* `TrackedReleaseSafe` (action): a finalized rotation releases a Secret only
  when no Pod of a service in place uses it, even if rotations overlap.
* `Converges` (liveness): eventually up to date or cleaned up, for good.
* `FinalizerInv`: the inductive invariant of section 5.
* `LeaseImplemented`: `CinderOperator` implements `CredentialLease`.
* `ACReleaseSafe`: what a comment says of the code, and TLC refutes.

`PodsProtected` and `ACReleaseSafe` speak of a CR that is not being deleted:
`reconcileDelete` releases credentials while the children still run, and a TODO
there leaves the order open.

### Readiness

* `ReadyMeansRolledOut`: at rest, Ready means that API, scheduler, legacy
  backup and volumes have rolled out the current spec.
* `ReadyMeansAllReady`: the same for the backups of the list too, as the
  comment on `IsReady` says; TLC refutes it.
* `MigratedBeforeDeploy`: the API never gets an image for which db sync and
  then the migrations have not completed.
* `StoredSpecAccepted`: the webhook accepts again what it has stored, so that
  the operator can always patch its finalizer; defaulting is idempotent.
* `RevisionLabelFits`: the label of a volume's Pods fits for every volume that
  is deployed.  The names in `spec.cinderBackups` are not validated by the
  webhook, so nothing is claimed for them.
* `OneBackupInterface` (action): no backup of the list is created for a spec
  that uses the legacy one.
* `BecomesReady` (liveness): after the last disturbance, Ready for the latest
  generation, for good.

### Registration

* `NoKeystoneLeak`, `NoTopologyLeak`: a CR that is gone has left no finalizer
  behind; one at rest holds only the Topology of its spec.
* `EndpointNeedsService`: an endpoint is held only while its service is.
* `ReadyMeansRegistered`: Ready at rest means the current Topology, a StatefulSet
  rolled out with it, and, for the API, every Keystone CR written with our
  finalizer and for the current URL.  It does not mean that Keystone has acted
  on them: `IsReady` looks at no Keystone condition.
* `KeystoneConditionsCurrent`: the Keystone conditions of a Ready CinderAPI at
  rest are what the present Keystone CRs give, not what they gave when a
  reconcile looked at them.
* `Settles` (liveness): Ready for the latest generation, and, for the API, in
  the catalogue at the current URL with both Keystone conditions True; or gone
  with nothing left in Keystone.

## 4. Runs

Deadlock is not checked: a work queue that runs empty is the normal end.
Secrets of one kind are interchangeable, so the safety runs of
`MCCinderOperator` use symmetry; runs that check temporal formulas do not.

| Run | Instance | Result |
|---|---|---|
| `lifecycle` | 1 service, 2 transport Secrets, 1 application credential, 2 changes, 1 fault, from creation | `TypeOK`, `ConfigProtected`, `PodsProtected`, `NoLeakAfterDelete` hold |
| `notifications` | 1 service, 2 notifications Secrets, 2 changes, 1 fault, from creation | `FinalizerInv`, `PodsProtected` hold |
| `readded_volume` | 1 volume, 2 transport Secrets, 4 changes (removals, rotations, re-adding in any order), Pod restarts, 1 fault, from a settled deployment | `PodsProtected` holds |
| `rapid` | 1 service, 3 transport Secrets, overlapping rotations, Pod restarts | `TrackedReleaseSafe` holds |
| `converge` | 1 service (a legacy backup), 2 transport Secrets, 1 notifications Secret, 1 application credential, 1 change of any kind, 1 fault, fairness | `Converges`, `LeaseImplemented` hold |
| `readiness` | API, legacy backup, 1 listed backup, 2 volumes (one with a name that is too long), 2 images, 10 submitted specs, 1 edit, 1 fault, fairness | `TypeOK` and the properties of readiness hold |
| `registration` | an API or a worker, 1 Topology or none, 2 URLs, 1 edit, 1 fault or crash, fairness | `TypeOK` and the properties of registration hold |
| `rapid_prune` | as `rapid`, without restarts | `PodsProtected` violated: Pods on B when C arrives, and the prune releases B |
| `credential_release` | 1 service, 2 application credentials | `ACReleaseSafe` violated: readiness ignores the application credential |
| `removed_backup` | 2 services, one a key of `spec.cinderBackups` | `PodsProtected` violated: a removed key's CR is neither deleted nor waited for |
| `backups_ready` | API, 1 listed backup, no faults | `ReadyMeansAllReady` violated: the legacy branch marks the shared condition True first |
| `topology_leak` | a volume, 1 Topology, no faults | `NoTopologyLeak` violated: the finalizer is removed under another name |

**Bounds.** `MaxChanges` bounds rotations and edits, `MaxFaults` failed calls
and crashes.  Two changes allow an edit during a rotation;
`readded_volume` has four, so that a removal, a re-adding and rotations before,
between and after them overlap in every order, with the predecessor's StatefulSet
still to be collected.  Three transport Secrets are what
overlapping rotations need (old, intermediate, current).  One fault may hit any
step, and the recovery from it is complete before the next would matter, because
no reconcile carries anything over but what is in the objects.  The passing runs
on credentials have one service each, which keeps every order of its steps with
those of the Cinder controller in reach; that readiness is the conjunction over
all services, judged one after the other while the earlier ones move on, is
what `PodsAlwaysProtected` proves for any number of them (`Verdict` in section 5).
In `readiness` one edit is enough to change the image, move between the backup
interfaces, remove a volume or try a spec that is refused, at any point of a
reconcile; the services of one loop only repeat its step, so one listed backup
and one volume that can be deployed show how verdicts combine with those of the
single services.  The scheduler is treated by the code exactly as the API and is
left out of the instance.  In `registration` one edit finds the Keystone CRs in any state, adds a
Topology or drops it, and changes the URL at once or not; the CR is created with
one fixed URL, since URLs differ only in name; one fault or crash hits any step.  A Topology that is replaced by another is released and acquired by the
same two steps as one that is dropped and one that is added; that, and more
edits, faults and crashes, are covered by the proofs of section 5, which prove
every safety property of this run for any number of them.
`Steady` is where an undisturbed behaviour of `Spec` comes to rest, so runs
that start there skip the first deployment and nothing else.

**Fairness.** A queued request is worked on and a reconcile goes on (weak
fairness of each controller: controller-runtime's workers, and the operator is
restarted after a crash); RabbitMQ issues a credential, StatefulSets roll out
and garbage is collected.  Rotations, edits, restarts and faults have no
fairness and are bounded, so `Converges` speaks of what happens after the last.
It is checked with one edit: a config that changes and changes back during
one roll-out can leave a Pod with the config of the moment in between,
because the template's hash returns to the hash the Pod was started with.
`BecomesReady` adds that Jobs finish and that an administrator removes a failed
one, which `DoJob` never replaces by itself; `Settles`, that Keystone registers
what is asked for (nothing but `Settles` depends on it) and that a missing
certificate is issued at last.

**Observations.** Readiness of a child for the expected credentials is tested
twice in `reconcileNormal`, by generation and by `AppliedInputSecretHash`.
In these models either test alone is enough for `PodsProtected` and
`TrackedReleaseSafe`; without both, TLC finds a release under a running Pod.

Two more gaps between comments and code show in the credentials model and are
not among the runs.  The comment at `cinder_controller.go:859` says that the
application credential gets its finalizer "early, before deployment"; the config
with it is rendered at 819, which wakes the children, and the reconcile returns
at 856 before the finalizer is added.  And the nil test at 719 never succeeds,
because the pointer was set to "" at 682-684: a first-time notifications Secret
is not tracked until a reconcile completes, so that a bus that is enabled and
disabled before that loses its Secret while a Pod may use it.  The policy
"settled" of the passing runs excludes such a fast toggle.

Readiness does not count a volume that was removed from the spec, and the same
reconcile that deletes its CR may release the old credential, before its Pods
have ended: with them in `Running`, TLC finds it with one rotation and one
removal.  The comment at `internal/cinder/const.go:93-95` does not say whether
it means these Pods; `PodsProtected` is about the services in place.

CinderAPI is Ready, and Cinder with it, whether or not Keystone has registered
anything: `cinderapi_controller.go:613-681` mirrors the conditions and goes on,
and `IsReady` (`cinderapi_types.go:179-184`) does not look at them.  Both
services share one condition of each kind, in which the last one with conditions
hides the first: the repository's tests make only the CRs of `cinderv3` Ready and
see KeystoneServiceReady become True.  What is registered in the end is what
`Settles` says.

The controllers of scheduler, backup and volume remove their own finalizer
before they release the Topology: if that call fails, the deferred patch removes
the CR all the same and the Topology keeps its finalizer.  CinderAPI has the
order right.  A crash between the Topology's finalizer and the status patch,
with an edit of the reference in between, loses the Topology for every kind.
`NoTopologyLeak` leaves these cases out.

A child that is being deleted has a new generation, which its controller never
reports as observed again together with Ready; a child that is removed and
wanted again at once therefore does not count as ready by accident.

The webhook and the controller test `cinderBackups` differently (length, nil):
an empty map beside a legacy backup is admitted, and neither is deployed.
`ValidateCreate` guards the errors of the spec by the list of name errors, which
works because the library returns an empty list and not nil, and it discards
warnings.

## 5. Proofs

| Theorem | Module | States |
|---|---|---|
| `TypeCorrect`, `FinalizerInvariant` | `CinderOperatorProofs` | `Spec => []TypeOK`, `Spec => []FinalizerInv` |
| `ConfigAlwaysProtected`, `NoFinalizerLeaks` | `CinderOperatorProofs` | `ConfigProtected`, `NoLeakAfterDelete` |
| `ImplementsLease` | `CinderOperatorProofs` | `Spec => LeaseImplemented` |
| `PodsInvariant`, `PodsAlwaysProtected` | `PodsProofs` | `PodsInv`, `PodsProtected`, under `Policy` |
| `ReleasesSafely` | `PodsProofs` | `TrackedReleaseSafe`, under `Policy` |
| `SteadyProtected` | `PodsProofs` | the credential invariants for `SteadySpec`, under `Policy` |
| `AdmittedAlways`, `ReadinessTypes` | `ReadinessProofs` | `TypeOK` and `SpecInv` |
| `StoredSpecsAccepted`, `LabelsFit`, `OneBackupInterfaceUsed` | `ReadinessProofs` | `StoredSpecAccepted`, `RevisionLabelFits`, `OneBackupInterface` |
| `MigratedFirst`, `ReadyIsRolledOut` | `ReadinessProofs` | `MigratedBeforeDeploy`, `ReadyMeansRolledOut` |
| `RegistrationInvariant`, `RegistrationTypes` | `ServiceRegistrationProofs` | the invariant, `TypeOK` |
| `KeystoneReleased`, `ServiceOutlivesEndpoint` | `ServiceRegistrationProofs` | `NoKeystoneLeak`, `EndpointNeedsService` |
| `ServiceReadyInvariant`, `ReadyIsRegistered` | `ServiceReadyProofs` | the invariant, `ReadyMeansRegistered` |
| `KeystoneMirrored` | `ServiceReadyProofs` | `KeystoneConditionsCurrent` |
| `TopologyReleased` | `ServiceReadyProofs` | `NoTopologyLeak`, for an API, a scheduler and a backup |

**Assumptions.** All are named `ASSUME`s that TLC evaluates on the instances.
Of credentials: services are numbered and the kinds of optional ones do not
overlap (`ServiceAssumption`); transport and notifications Secrets are different
Secrets and none has the empty name (`SecretAssumption`); bounds are numbers
(`BoundAssumption`).  Of readiness: names of services of different kinds differ
(`NameAssumption`; the code tells them apart by the kind of their CR),
the order of deployment has no ties (`OrderAssumption`), what is submitted has
the form of a spec (`SpecAssumption`), the default image is an image, and a
missing one is not (`ImageAssumption`), lengths are numbers
(`LengthAssumption`).  Of registration: `KindAssumption`, `NoneAssumption`,
`FirstURLAssumption`, `RegistrationBounds`.

### Finalizers: `CinderOperatorProofs`

`TypeOK` is inductive by itself: one lemma per component, one step per action,
one sub-step per variable the action changes.

Neither `ConfigProtected` nor `NoLeakAfterDelete` is inductive.
`ConfigProtected` survives a release only because the reconcile that releases
has itself rendered the config from the Secrets it keeps, and those Secrets were
held before they were rendered: `HeldInv` says what is known at each program
counter.  Its last conjunct, that a reconcile which has not noticed the deletion
keeps what the config names, is what `PodsProofs` needs when the CR is deleted
under a running reconcile.  `NoLeakAfterDelete` needs that a CR without our
finalizer holds nothing (`PhaseInv`) and that our finalizer leaves only after
both prunes (`OwnFinalizerInv`).  Other actors leave all of this alone
(`FinalizerFrame`), and a crash only makes the conditions on the program counter
vacuous.  The releases use the assumption that transport and notifications
Secrets are different Secrets.

The refinement uses the same invariant.  A step of the Cinder controller that
adds a finalizer is `Acquire`, one that writes the config is `Use`, which needs
that what is rendered is held (`HeldInv`), one that finalizes or prunes is
`Release`, which needs that the keep list covers the config, and the patch that
removes our own finalizer is `End`, which needs that nothing is held and that
only a CR being deleted gets there (`OwnFinalizerInv`).  Everything else leaves
the three mapped variables alone (`LeaseFrame`, `OthersLease`,
`DisturbanceLease`).

### Running Pods: `PodsProofs`

`PodsProtected` is false without restrictions: runs `rapid_prune` and
`removed_backup` are the counterexamples.  It is proved under

    Policy == /\ Rotation = "settled"
              /\ "service" \in Disturbances => ListBackups = {}

that is, when RabbitMQ rotates only once the status tracks the current Secret,
users toggle the notifications bus only once every service has rolled out, and
no key is removed from `spec.cinderBackups`.  Everything else is
unrestricted: services, Secrets, the number and kind of edits, deletion, Pod
restarts, failed calls (the swallowed List of `volumeCleanupDeployments` is not
in the model) and crashes.

Under this policy the credentials are at any time on their way from a previous
pair of Secrets, which the status tracks, to a target pair, which the
TransportURLs name.  `PodsInv` says, as long as the CR is not being deleted or a
reconcile has not noticed it (`Alive`):

* `UsesKnown`: whatever a child CR, a child reconcile, a config Secret, a
  template or a Pod names is the target or the previous pair, or nothing yet;
* `Chain`: the target travels from `config` to the child CR, the child's config
  Secret, the template and the Pods in this order and is not taken back, so that
  a child which reports it as applied has no Pod on anything else;
* `Verdict`: what the Cinder reconcile has found ready by the time it reaches
  service number `next` stays ready (`Advances`: no step of a child goes back);
* `Track`: its copy of the status differs from the CR's only by what is true,
  and it tracks the target only if every service has rolled it out;
* `Course`: it works towards the target, or it began before the last change, and
  then nothing has seen the target yet;
* `UsesHeld`: what runs is among the Secrets held, which is `PodsProtected`.

Each is needed.  A finalized rotation or a prune releases the previous pair, and
`UsesHeld` survives it because `Verdict` with `Chain` puts all Pods on the
target; `Verdict` needs `Advances` for the services judged earlier in the same
loop, and `volumeCleanupDeployments` for the volumes no longer wanted; a new
rotation (`Shifting`, `Retargeting`) turns target into previous pair, which
needs that the status is settled, hence `Track`; and a reconcile that read the
TransportURL before it goes on with the old pair, which is `Course`.
`ReleasesSafely` follows from `PodsInv` after the step, also when the CR has been
marked for deletion meanwhile.  `SteadyProtected` restates the invariants for
the settled deployments that run `readded_volume` starts from.

### Readiness: `ReadinessProofs`

* `SpecInv`: every spec in the cluster, stored or being worked on, is one the
  webhook has defaulted and accepted.  That the stored spec is accepted again
  rests on `DefaultTwice`: defaulting is idempotent.  Jobs therefore always have
  an image, and a reconcile deploys only services its copy of the spec names.
* `MigratedInv`: a hash in the status, in the reconcile's copy, and a Job that
  is done each imply that the database has seen that image; the migrations run
  only with an image db sync has completed with; a reconcile that deploys has
  found both done for its copy.
* `ReadyInv`: Ready is decided last and Volume after the last volume; as long as
  no request is queued, what the reconcile has found out is still true
  (`CurrentInv`).  Every event that makes a verdict out of date queues a
  request, so that the invariant is vacuous until the next reconcile starts
  from `AllUnknown`.

### Registration: `ServiceRegistrationProofs`, `ServiceReadyProofs`

None of the invariants is inductive.  The types need that generations count the
edits (`GenInv`).  `NoKeystoneLeak` needs that our own finalizer is removed only
after the loop of `reconcileDelete` (`FreeInv`), hence what that loop has given
back so far (`ReleaseInv`), and that a reconcile that began before the deletion
is over when the CR goes (`PcInv`).  `EndpointNeedsService` needs that a
reconcile which has come to the endpoint has given the service its finalizer,
and keeps it until deletion starts (`ServiceInv`).  `Onward` and `Elsewhere`
cover the steps that move on or do not concern Keystone.

`ReadyMeansRegistered` needs what each step of a reconcile has established by
the time it is passed, true as long as no request is queued (`SettledInv`,
`Passed`, `Promise`).  Of Keystone this is only what the controller does itself:
the CRs of the services passed are written for the URL it works with
(`Registered`).  `KeystoneMirrored` needs that in addition the local conditions
are those the loop has mirrored so far (`Mirrored`); a step of Keystone that
would make them untrue queues a request, and the invariant holds again from the
next reconcile, which mirrors afresh.  Nothing is assumed of Keystone, not even
that it ever answers.  `NoTopologyLeak` needs where the one Topology that may be
held is recorded: in the status between reconciles, in the reconcile's copy
while one runs (`TopologyInv`).  It excludes the volume, for which it is false
(`topology_leak`), a crash, after which the record is lost, and for scheduler
and backup a failed call; these are the exceptions `NoTopologyLeak` itself names.

### Only model-checked

* Liveness (`Converges`, `BecomesReady`, `Settles`): out of the prover's reach.
* `TrackedReleaseSafe` when rotations overlap (run `rapid`): its proof would
  need an invariant about any number of pairs under way.
* The five runs that expect a violation are counterexamples, not theorems.

The proofs also found two places where TLC's parser and the prover read a
formula differently: `UNION S \ T` is `(UNION S) \ T` for one and
`UNION (S \ T)` for the other.  Such terms are in parentheses in `InUse` and in
`Webhook`.

## 6. Not modelled, and the plan

Next:

1. *Proofs*: `TrackedReleaseSafe` when rotations overlap; that the Ready
   conditions of `ServiceRegistration` implement the child that `Readiness`
   assumes; the release of everything no longer needed at the end of a complete
   reconcile.
2. *Small algorithms*: `processCustomServiceConfig`, probe defaults, route
   annotations, `GetOwningCinderName`.
3. *Replicas*: counts other than 0 and 1, and a service that is scaled to 0.
4. *Database account*: `ensureDB` is a requirement that may fail; the MariaDB
   account and its finalizers, which are released at the end of every complete
   reconcile, are in a library.

Left out for good: object construction without state (volumes, labels, probes
of a container), RBAC, metrics and certificate watchers, generated code.
