---------------------------- MODULE MCReadiness -----------------------------
EXTENDS Readiness

OnlyAPI   == {"api"}
OnlyB     == {"b1"}
None      == {}
V1AndLong == {"v1", "long"}
TheOrder  == [api |-> 1, backup |-> 2, b1 |-> 3, long |-> 4, v1 |-> 5]
ApiBackup == [api |-> 1, backup |-> 2, b1 |-> 3]

\* With the name "cinder" a volume's name may have 38 characters.
Lengths == [b1 |-> 2, v1 |-> 38, long |-> 39]
CinderLength == 6

TwoImages == {"new", "default"}

T0 == [replicas |-> 1, image |-> Unset, topo |-> "none", probes |-> TRUE]
Off == [T0 EXCEPT !.replicas = 0]
Empty == [n \in {} |-> T0]

Plain ==
  [api |-> T0, scheduler |-> T0, backup |-> Off, backups |-> [b1 |-> Off],
   volumes |-> [v1 |-> T0], topo |-> "own", override |-> TRUE,
   rabbit |-> "one", base |-> [f \in BaseField |-> Unset]]

NoVolume == [Plain EXCEPT !.volumes = Empty]

\* Specs that differ in what is deployed: other images, the backup of either
\* interface.
Deployments ==
  {Plain,
   [Plain EXCEPT !.api.image = "new", !.volumes["v1"].image = "new"],
   [NoVolume EXCEPT !.backup = [T0 EXCEPT !.probes = FALSE], !.backups = Nil],
   [NoVolume EXCEPT !.backups = [b1 |-> T0]]}

\* Specs that are refused, always or as an update of another one.
Doubtful ==
  {[Plain EXCEPT !.backup = T0, !.backups = [b1 |-> T0]],
   [Plain EXCEPT !.volumes = [long |-> T0]],
   [Plain EXCEPT !.volumes["v1"].topo = "other"],
   [Plain EXCEPT !.override = FALSE],
   [Plain EXCEPT !.scheduler.probes = FALSE],
   [NoVolume EXCEPT !.rabbit = "two", !.base["apiTimeout"] = "given"]}

Submitted == Deployments \cup Doubtful

BackupEdits == {NoVolume, [NoVolume EXCEPT !.backups = [b1 |-> T0]]}

=============================================================================
