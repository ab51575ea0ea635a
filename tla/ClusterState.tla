--------------------------- MODULE ClusterState ---------------------------
(***************************************************************************)
(* The API-server objects that the controllers of cinder-operator share,   *)
(* the local state of a reconcile in progress, and the work queues.        *)
(*                                                                         *)
(* One Cinder CR in one namespace.  Its services are numbered in the order *)
(* reconcileNormal deploys them: CinderAPI, CinderScheduler, the backups   *)
(* and the volumes.  A Secret is its name; its content never changes       *)
(* (a rotation issues a Secret of another name).                           *)
(***************************************************************************)
EXTENDS Integers, FiniteSets, ConsumerFinalizers

CONSTANTS
  NumServices,       \* number of child services a Cinder CR may have
  Backups,           \* the service of spec.cinderBackup (legacy interface)
  ListBackups,       \* the services of the spec.cinderBackups map
  Volumes,           \* the services of the spec.cinderVolumes map
  TransportSecrets,  \* names RabbitMQ may give the messaging-bus Secret
  NotifSecrets,      \* names it may give the notifications-bus Secret
  ACSecrets,         \* application-credential Secrets
  Nil,               \* a nil pointer, or an object that does not exist
  Rotation,          \* when RabbitMQ may rotate, see Environment
  Disturbances,      \* which edits, deletions and restarts may happen
  MaxFaults,         \* bound: failed calls and operator crashes
  MaxChanges         \* bound: rotations and edits of the CR

Service  == 1 .. NumServices
Optional == Backups \cup ListBackups \cup Volumes

ASSUME ServiceAssumption ==
  /\ NumServices \in Nat \ {0}
  /\ Optional \subseteq Service
  /\ Backups \cap ListBackups = {}
  /\ Backups \cap Volumes = {}
  /\ ListBackups \cap Volumes = {}

ASSUME SecretAssumption ==
  /\ NoSecret \notin TransportSecrets \cup NotifSecrets \cup ACSecrets \cup {Nil}
  /\ Nil \notin TransportSecrets \cup NotifSecrets \cup ACSecrets
  /\ TransportSecrets \cap NotifSecrets = {}

ASSUME BoundAssumption ==
  /\ MaxFaults \in Nat
  /\ MaxChanges \in Nat
  /\ Rotation \in {"settled", "fresh", "any"}
  /\ Disturbances \subseteq {"rotate", "credential", "notifications",
                             "service", "delete", "restart"}

VARIABLES
  cr,       \* the Cinder CR: lifecycle, the spec fields and status fields used
  tu, nu,   \* status.secretName of the messaging and notifications TransportURL
  tfin,     \* Secrets that carry TransportConsumerFinalizer
  acfin,    \* Secrets that carry ACConsumerFinalizer
  config,   \* what the <cinder>-config-data Secret was rendered from
  svc,      \* the child CRs
  sts,      \* each child's own config Secret, its StatefulSet and its Pods
  par,      \* the Cinder controller's reconcile in progress
  chi,      \* each child controller's reconcile in progress
  pq, cq,   \* work queues: is a reconcile of the CR, of a child, pending?
  issued,   \* credential Secrets issued so far (history)
  faults, changes

vars == <<cr, tu, nu, tfin, acfin, config, svc, sts, par, chi, pq, cq,
          issued, faults, changes>>

----------------------------------------------------------------------------
TName  == TransportSecrets \cup {NoSecret}
NName  == NotifSecrets \cup {NoSecret}
ACName == ACSecrets \cup {NoSecret}

Config == [t : TName, n : NName, ac : ACName]
Input  == [t : TName, n : NName]
Rev    == [t : TName, n : NName, c : Config]

\* What has not been rendered, applied or deployed yet.  A rendered config
\* always names a transport Secret, so these values stand for nothing else.
NoConfig == [t |-> NoSecret, n |-> NoSecret, ac |-> NoSecret]
NoInput  == [t |-> NoSecret, n |-> NoSecret]
NoRev    == [t |-> NoSecret, n |-> NoSecret, c |-> NoConfig]

CinderCR ==
  [phase : {"new", "live", "deleting", "gone"},
   ac : ACName, notif : BOOLEAN, svcs : SUBSET Service,
   T : TName, N : NName \cup {Nil}, AC : ACName, hash : Config]

ServiceCR ==
  [phase : {"absent", "new", "live", "deleting"},
   gen : Nat, t : TName, n : NName,
   obs : Nat, applied : Input, ready : BOOLEAN]

NoService == [phase |-> "absent", gen |-> 0, t |-> NoSecret, n |-> NoSecret,
              obs |-> 0, applied |-> NoInput, ready |-> FALSE]

\* Deletion of a child CR: one without a finalizer goes at once, any other
\* gets a deletion timestamp, which is a new generation.
Deleted(c) ==
  CASE c.phase = "new"  -> NoService
    [] c.phase = "live" -> [c EXCEPT !.phase = "deleting", !.gen = @ + 1]
    [] OTHER            -> c

\* A Pod runs one revision of the StatefulSet's template, with the config it
\* read from the child's config Secret when it was started.
Pod == [rev : Rev, use : Config]

Workload == [own : Config, rev : Rev, seen : BOOLEAN, pods : SUBSET Pod,
             orphan : BOOLEAN]

NoWorkload == [own |-> NoConfig, rev |-> NoRev, seen |-> FALSE, pods |-> {},
               orphan |-> FALSE]

NormalPC == {"transport", "manageT", "notif", "manageN", "render", "manageAC",
             "deploy", "finalT", "finalN", "finalAC", "pruneT",
             "pruneAC"}
DeletePC == {"delAC", "delT", "delPruneAC"}

ParentLocal ==
  [pc : {"idle", "patch"} \cup NormalPC \cup DeletePC,
   ac : ACName, notif : BOOLEAN, svcs : SUBSET Service,
   T : TName, N : NName \cup {Nil}, AC : ACName, hash : Config,
   t : TName, n : NName, ready : BOOLEAN, next : Nat,
   todo : SUBSET (TransportSecrets \cup NotifSecrets \cup ACSecrets),
   requeue : BOOLEAN, fin : {"keep", "add", "remove"}]

ParentIdle ==
  [pc |-> "idle", ac |-> NoSecret, notif |-> FALSE, svcs |-> {},
   T |-> NoSecret, N |-> Nil, AC |-> NoSecret, hash |-> NoConfig,
   t |-> NoSecret, n |-> NoSecret, ready |-> TRUE, next |-> 1,
   todo |-> {}, requeue |-> FALSE, fin |-> "keep"]

ChildLocal ==
  [pc : {"idle", "render", "deploy", "patch"}, gen : Nat,
   t : TName, n : NName, c : Config, ready : BOOLEAN, requeue : BOOLEAN]

ChildIdle ==
  [pc |-> "idle", gen |-> 0, t |-> NoSecret, n |-> NoSecret,
   c |-> NoConfig, ready |-> FALSE, requeue |-> FALSE]

TypeOK ==
  /\ cr \in CinderCR
  /\ tu \in TName \cup {Nil}
  /\ nu \in NName \cup {Nil}
  /\ tfin \subseteq TName \cup NName
  /\ acfin \subseteq ACSecrets
  /\ config \in Config
  /\ svc \in [Service -> ServiceCR]
  /\ sts \in [Service -> Workload]
  /\ par \in ParentLocal
  /\ chi \in [Service -> ChildLocal]
  /\ pq \in BOOLEAN
  /\ cq \in [Service -> BOOLEAN]
  /\ issued \subseteq TransportSecrets \cup NotifSecrets
  /\ faults \in 0 .. MaxFaults
  /\ changes \in 0 .. MaxChanges

=============================================================================
