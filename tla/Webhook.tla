------------------------------ MODULE Webhook -------------------------------
(***************************************************************************)
(* Admission of a Cinder CR: the defaulting and the validating webhook, as *)
(* operators on a spec.  A field that only the validation looks at is      *)
(* reduced to the distinction the validation makes.                        *)
(***************************************************************************)
EXTENDS Integers, FiniteSets

CONSTANTS
  Images,      \* container images
  Nil,         \* a nil map, an absent value
  Unset,       \* "" or 0: not given by the user
  Default0,    \* the value the operator's environment provides
  NameLen,     \* the length of the name of a volume or a backup
  CrNameLen    \* the length of the name of the Cinder CR

ASSUME LengthAssumption ==
  /\ CrNameLen \in Nat
  /\ \A n \in DOMAIN NameLen : NameLen[n] \in Nat
ASSUME ImageAssumption ==
  /\ Default0 \in Images
  /\ Unset \notin Images /\ Nil \notin Images

\* A reference to a Topology: none, in the CR's namespace, or in another one.
TopoRef == {"none", "own", "other"}

\* What a service's part of the spec says; probes: the overrides are valid.
Template ==
  [replicas : 0..1, image : Images \cup {Unset}, topo : TopoRef,
   probes : BOOLEAN]

\* The fields of CinderSpecBase that have a default.
BaseField == {"messagingBus", "dbPurgeAge", "dbPurgeSchedule", "apiTimeout"}

BaseValue == {Unset, "given", Default0}

\* A map from some of the names to templates.
Named(names) == UNION {[D -> Template] : D \in SUBSET names}

\* CinderSpec, with the names the two maps may use; override: the keys of the
\* service overrides are known ones; rabbit: the deprecated field.
CinderSpec(backupNames, volumeNames) ==
  [api : Template, scheduler : Template, backup : Template,
   backups : Named(backupNames) \cup {Nil}, volumes : Named(volumeNames),
   topo : TopoRef, override : BOOLEAN, rabbit : STRING \cup {Unset},
   base : [BaseField -> BaseValue]]

(***************************************************************************)
(* Default                                                                 *)
(***************************************************************************)
OrDefault(v) == IF v = Unset THEN Default0 ELSE v

WithImage(t) == [t EXCEPT !.image = OrDefault(@)]

\* CinderSpecBase.Default.  NotificationsBus has no default.
DefaultBase(base) == [f \in BaseField |-> OrDefault(base[f])]

\* Cinder.Default.
Default(spec) ==
  [spec EXCEPT
     !.api       = WithImage(@),
     !.scheduler = WithImage(@),
     !.backup    = WithImage(@),
     !.backups   = IF @ = Nil THEN Nil
                   ELSE [n \in DOMAIN @ |-> WithImage(@[n])],
     !.volumes   = [n \in DOMAIN @ |-> WithImage(@[n])],
     !.base      = DefaultBase(@)]

(***************************************************************************)
(* Validation.  Each operator returns the paths it finds fault with.       *)
(***************************************************************************)

\* Every list backup that is configured; a nil list has none.
BackupNames(spec) == IF spec.backups = Nil THEN {} ELSE DOMAIN spec.backups

\* ValidateTopologyRef: a Topology of another namespace is not supported.
TopologyErrors(path, ref) == IF ref = "other" THEN {path} ELSE {}

ValidateCinderTopology(spec) ==
  TopologyErrors("topologyRef", spec.topo)
    \cup TopologyErrors("cinderAPI", spec.api.topo)
    \cup TopologyErrors("cinderScheduler", spec.scheduler.topo)
    \cup TopologyErrors("cinderBackup", spec.backup.topo)
    \cup (UNION {TopologyErrors(n, spec.backups[n].topo) : n \in BackupNames(spec)})
    \cup (UNION {TopologyErrors(n, spec.volumes[n].topo) : n \in DOMAIN spec.volumes})

IsDeprecatedUsed(spec) == spec.backup.replicas > 0

\* Mutant: using both backup interfaces is only worth a warning.
WarnCinderBackup(spec) == {}

\* Both backup interfaces at once are refused.
ValidateCinderBackup(spec) ==
  IF IsDeprecatedUsed(spec) /\ BackupNames(spec) # {} THEN {"cinderBackup"} ELSE {}

ProbeErrors(path, t) == IF t.probes THEN {} ELSE {path}

\* The overrides of the legacy cinderBackup are not looked at.
ValidateProbes(spec) ==
  ProbeErrors("cinderAPI", spec.api)
    \cup ProbeErrors("cinderScheduler", spec.scheduler)
    \cup (UNION {ProbeErrors(n, spec.volumes[n]) : n \in DOMAIN spec.volumes})
    \cup (UNION {ProbeErrors(n, spec.backups[n]) : n \in BackupNames(spec)})

\* ValidateRoutedOverrides: only the keys public and internal are known.
OverrideErrors(spec) == IF spec.override THEN {} ELSE {"override"}

\* What CinderSpec and CinderSpecCore check on create and on update alike.
SpecErrors(spec) ==
  OverrideErrors(spec) \cup ValidateCinderTopology(spec)
    \cup ValidateCinderBackup(spec) \cup ValidateProbes(spec)

\* Mutant: a deprecated field is refused whether it changes or not.
DeprecatedRefused(old, new) ==
  IF new.rabbit # Unset THEN {"rabbitMqClusterName"} ELSE {}

\* A deprecated field may be kept or cleared, but not given another value.
DeprecatedErrors(old, new) ==
  IF new.rabbit # old.rabbit /\ new.rabbit # Unset
  THEN {"rabbitMqClusterName"} ELSE {}

\* The Pods of a StatefulSet carry a label "<statefulset>-<revision hash>".
DNS1123LabelMaxLength == 63

\* Mutant: "-volume-" is forgotten.
CorrectionWithoutInfix(len) == 11 + len

GetCrMaxLengthCorrection(len) == 11 + len + 8

ValidateDNS1123Label(names, correction) ==
  {n \in names : NameLen[n] > DNS1123LabelMaxLength - correction}

NameErrors(spec) ==
  ValidateDNS1123Label(DOMAIN spec.volumes, GetCrMaxLengthCorrection(CrNameLen))

ValidateCreate(spec) == NameErrors(spec) \cup SpecErrors(spec)

ValidateUpdate(old, spec) ==
  NameErrors(spec) \cup DeprecatedErrors(old, spec) \cup SpecErrors(spec)

\* The mutating webhook runs before the validating one.
Admits(old, raw) ==
  IF old = Nil THEN ValidateCreate(Default(raw)) = {}
  ELSE ValidateUpdate(old, Default(raw)) = {}

=============================================================================
