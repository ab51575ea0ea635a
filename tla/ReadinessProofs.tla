-------------------------- MODULE ReadinessProofs ---------------------------
(***************************************************************************)
(* Proofs about the readiness of a deployment, for any services, images,   *)
(* submitted specs, edits and failures: types, what the webhook admits and *)
(* what follows for the services that are deployed, that the database is   *)
(* migrated before the API gets a new image, and what Ready means.         *)
(***************************************************************************)
EXTENDS Readiness, TLAPS

----------------------------------------------------------------------------
\* The webhook.  Default fills in images and the fields of the base.
LEMMA TemplateDefault ==
  ASSUME NEW t \in Template
  PROVE  /\ WithImage(t) \in Template
         /\ WithImage(t).image \in Images
         /\ WithImage(WithImage(t)) = WithImage(t)
         /\ WithImage(t).topo = t.topo
         /\ WithImage(t).probes = t.probes
         /\ WithImage(t).replicas = t.replicas
<1> USE ImageAssumption DEF Template, WithImage, OrDefault
<1>1. t.image \in Images \cup {Unset}
  OBVIOUS
<1>2. WithImage(t) \in Template /\ WithImage(t).image \in Images
  BY <1>1
<1>3. WithImage(WithImage(t)) = WithImage(t)
  BY <1>1
<1> QED BY <1>2, <1>3

\* Default() of the fields of the CR itself gives each a value, once.
LEMMA BaseDefault ==
  ASSUME NEW b \in [BaseField -> BaseValue]
  PROVE  /\ DefaultBase(b) \in [BaseField -> BaseValue]
         /\ DefaultBase(DefaultBase(b)) = DefaultBase(b)
BY ImageAssumption DEF DefaultBase, OrDefault, BaseValue

\* A map of templates, with the same names before and after.
LEMMA NamedDefault ==
  ASSUME NEW names, NEW m \in Named(names)
  PROVE  LET d == [n \in DOMAIN m |-> WithImage(m[n])]
         IN  /\ DOMAIN m \subseteq names
             /\ \A n \in DOMAIN m : m[n] \in Template
             /\ d \in Named(names)
             /\ [n \in DOMAIN d |-> WithImage(d[n])] = d
<1>1. PICK D \in SUBSET names : m \in [D -> Template]
  BY DEF Named
<1>2. \A n \in D : /\ WithImage(m[n]) \in Template
                   /\ WithImage(WithImage(m[n])) = WithImage(m[n])
  BY <1>1, TemplateDefault
<1>3. [n \in DOMAIN m |-> WithImage(m[n])] \in [D -> Template]
  BY <1>1, <1>2
<1> QED BY <1>1, <1>2, <1>3 DEF Named

\* A spec is its fields.
LEMMA SpecFields ==
  ASSUME NEW r \in UserSpec
  PROVE  /\ r.api \in Template /\ r.scheduler \in Template
         /\ r.backup \in Template
         /\ r.backups \in Named(ListBackups) \cup {Nil}
         /\ r.volumes \in Named(Volumes)
         /\ r.topo \in TopoRef /\ r.override \in BOOLEAN
         /\ r.rabbit \in STRING \cup {Unset}
         /\ r.base \in [BaseField -> BaseValue]
BY DEF UserSpec, CinderSpec

\* A spec is determined by its fields.
LEMMA SpecEqual ==
  ASSUME NEW r \in UserSpec, NEW s \in UserSpec,
         r.api = s.api, r.scheduler = s.scheduler, r.backup = s.backup,
         r.backups = s.backups, r.volumes = s.volumes, r.topo = s.topo,
         r.override = s.override, r.rabbit = s.rabbit, r.base = s.base
  PROVE  r = s
BY DEF UserSpec, CinderSpec

\* The maps of templates after defaulting.
FilledBackups(bs) ==
  IF bs = Nil THEN Nil ELSE [n \in DOMAIN bs |-> WithImage(bs[n])]
FilledVolumes(vs) == [n \in DOMAIN vs |-> WithImage(vs[n])]

\* Default, field by field.
LEMMA DefaultFields ==
  ASSUME NEW raw \in UserSpec
  PROVE  /\ Default(raw).api = WithImage(raw.api)
         /\ Default(raw).scheduler = WithImage(raw.scheduler)
         /\ Default(raw).backup = WithImage(raw.backup)
         /\ Default(raw).backups = FilledBackups(raw.backups)
         /\ Default(raw).volumes = FilledVolumes(raw.volumes)
         /\ Default(raw).topo = raw.topo
         /\ Default(raw).override = raw.override
         /\ Default(raw).rabbit = raw.rabbit
         /\ Default(raw).base = DefaultBase(raw.base)
         /\ Default(raw) \in UserSpec
<1> DEFINE a    == WithImage(raw.api)
           s    == WithImage(raw.scheduler)
           b    == WithImage(raw.backup)
           bs   == FilledBackups(raw.backups)
           vs   == FilledVolumes(raw.volumes)
           base == DefaultBase(raw.base)
           d    == Default(raw)
<1>1. a \in Template /\ s \in Template /\ b \in Template
  BY SpecFields, TemplateDefault
<1>2. base \in [BaseField -> BaseValue]
  BY SpecFields, BaseDefault
<1>3. bs \in Named(ListBackups) \cup {Nil}
  BY SpecFields, NamedDefault DEF FilledBackups
<1>4. vs \in Named(Volumes)
  BY SpecFields, NamedDefault DEF FilledVolumes
<1>5. d = [raw EXCEPT !.api = a, !.scheduler = s, !.backup = b,
                      !.backups = bs, !.volumes = vs, !.base = base]
  BY Zenon DEF Default, FilledBackups, FilledVolumes
<1> HIDE DEF a, s, b, bs, vs, base, d
<1>6. /\ d.api = a /\ d.scheduler = s /\ d.backup = b /\ d.backups = bs
      /\ d.volumes = vs /\ d.base = base /\ d.topo = raw.topo
      /\ d.override = raw.override /\ d.rabbit = raw.rabbit
      /\ d \in UserSpec
  BY <1>1, <1>2, <1>3, <1>4, <1>5 DEF UserSpec, CinderSpec
<1> QED BY <1>6 DEF a, s, b, bs, vs, base, d

\* Defaulting twice is defaulting once.
LEMMA DefaultTwice ==
  ASSUME NEW raw \in UserSpec
  PROVE  Default(Default(raw)) = Default(raw)
<1> DEFINE d == Default(raw)
<1>1. d \in UserSpec /\ Default(d) \in UserSpec
  BY DefaultFields
<1>2. /\ Default(d).api = d.api /\ Default(d).scheduler = d.scheduler
      /\ Default(d).backup = d.backup
  BY <1>1, DefaultFields, SpecFields, TemplateDefault
<1>3. Default(d).base = d.base
  BY <1>1, DefaultFields, SpecFields, BaseDefault
<1>4. FilledBackups(FilledBackups(raw.backups)) = FilledBackups(raw.backups)
  <2>1. CASE raw.backups = Nil
    BY <2>1 DEF FilledBackups
  <2>2. CASE raw.backups # Nil
    <3> DEFINE bs == raw.backups
               e == [n \in DOMAIN bs |-> WithImage(bs[n])]
    <3>1. bs \in Named(ListBackups)
      BY <2>2, SpecFields
    <3>2. [n \in DOMAIN e |-> WithImage(e[n])] = e
      BY <3>1, NamedDefault
    <3>3. FilledBackups(bs) = e
      BY <2>2 DEF FilledBackups
    <3>4. FilledBackups(e) = e
      BY <3>2, Zenon DEF FilledBackups
    <3> QED BY <3>3, <3>4
  <2> QED BY <2>1, <2>2
<1>5. FilledVolumes(FilledVolumes(raw.volumes)) = FilledVolumes(raw.volumes)
  BY SpecFields, NamedDefault DEF FilledVolumes
<1>6. Default(d).backups = d.backups /\ Default(d).volumes = d.volumes
  BY <1>1, <1>4, <1>5, DefaultFields
<1>7. /\ Default(d).topo = d.topo /\ Default(d).override = d.override
      /\ Default(d).rabbit = d.rabbit
  BY <1>1, DefaultFields
<1> HIDE DEF d
<1>8. Default(d) = d
  BY <1>1, <1>2, <1>3, <1>6, <1>7, SpecEqual
<1> QED BY <1>8 DEF d

----------------------------------------------------------------------------
\* What the webhook lets into the cluster.
Stored(spec) ==
  /\ Default(spec) = spec
  /\ NameErrors(spec) = {}
  /\ SpecErrors(spec) = {}

\* The label of the Pods of volume s fits.
LabelFits(s) == CrNameLen + 8 + NameLen[s] + 1 + 10 <= 63

\* Specs are admitted ones, a reconcile has a copy of one, it deploys only
\* services it comes across in that copy, and its Jobs run with an image.
SpecInv ==
  /\ cr.spec # Nil => Stored(cr.spec)
  /\ par.pc # "idle" => par.spec # Nil /\ Stored(par.spec)
  /\ par.pc = "deploy" => par.todo \subseteq Visited(par.spec)
  /\ \A s \in Volumes : child[s].phase # "absent" => LabelFits(s)
  /\ \A j \in Job : job[j].state # "none" => job[j].image \in Images

\* What Submit stores, the webhook accepts.
LEMMA AdmittedStored ==
  ASSUME NEW old \in UserSpec \cup {Nil}, NEW raw \in UserSpec, Admits(old, raw)
  PROVE  Default(raw) \in UserSpec /\ Stored(Default(raw))
<1>1. NameErrors(Default(raw)) = {} /\ SpecErrors(Default(raw)) = {}
  BY DEF Admits, ValidateCreate, ValidateUpdate
<1> QED BY <1>1, DefaultTwice, DefaultFields DEF Stored

\* A name that passes the validation leaves room for the label.
LEMMA StoredLabels ==
  ASSUME NEW spec \in UserSpec, Stored(spec), NEW s \in DOMAIN spec.volumes
  PROVE  LabelFits(s)
<1>1. s \in Volumes
  BY SpecFields, NamedDefault
<1>2. CrNameLen \in Nat /\ NameLen[s] \in Nat
  BY <1>1, LengthAssumption, NameAssumption
<1>3. ~(NameLen[s] > DNS1123LabelMaxLength - GetCrMaxLengthCorrection(CrNameLen))
  BY DEF Stored, NameErrors, ValidateDNS1123Label
<1> QED
  BY <1>2, <1>3 DEF LabelFits, DNS1123LabelMaxLength, GetCrMaxLengthCorrection

\* An admitted spec does not use both backup interfaces.
LEMMA StoredBackups ==
  ASSUME NEW spec \in UserSpec, Stored(spec), NEW s \in BackupNames(spec)
  PROVE  ~IsDeprecatedUsed(spec)
BY DEF Stored, SpecErrors, ValidateCinderBackup

\* Its images are given.
LEMMA StoredImage ==
  ASSUME NEW spec \in UserSpec, Stored(spec)
  PROVE  spec.api.image \in Images
BY DefaultFields, SpecFields, TemplateDefault DEF Stored

----------------------------------------------------------------------------
\* The kinds of service are disjoint, and each has a template in a spec that
\* asks for it.
LEMMA VisitedTemplate ==
  ASSUME NEW spec \in UserSpec, NEW s \in Visited(spec)
  PROVE  /\ s \in Service
         /\ s \in ListBackups => s \in BackupNames(spec)
         /\ s \in Volumes => s \in DOMAIN spec.volumes
         /\ TemplateOf(spec, s) \in Template
         /\ s \in Core => ConditionOf(s) \in {"API", "Scheduler"}
<1>1. /\ BackupNames(spec) \subseteq ListBackups
      /\ spec.backups # Nil => \A n \in BackupNames(spec) : spec.backups[n] \in Template
  BY SpecFields, NamedDefault DEF BackupNames
<1>2. /\ DOMAIN spec.volumes \subseteq Volumes
      /\ \A n \in DOMAIN spec.volumes : spec.volumes[n] \in Template
  BY SpecFields, NamedDefault
<1>3. s \in Service
  BY <1>1, <1>2 DEF Visited, Service
<1>4. /\ s \in ListBackups => s \in BackupNames(spec)
      /\ s \in Volumes => s \in DOMAIN spec.volumes
  BY <1>1, <1>2, NameAssumption DEF Visited
<1>5. ASSUME s \in {"api", "scheduler", "backup"} PROVE TemplateOf(spec, s) \in Template
  <2>1. s \notin ListBackups /\ s \notin Volumes
    BY <1>5, NameAssumption
  <2>2. TemplateOf(spec, s) \in {spec.api, spec.scheduler, spec.backup}
    BY <1>5, <2>1 DEF TemplateOf
  <2> QED BY <2>2, SpecFields
<1>6. ASSUME s \in ListBackups PROVE TemplateOf(spec, s) \in Template
  <2>1. s \notin {"api", "scheduler", "backup"} /\ spec.backups # Nil /\ s \notin Volumes
    BY <1>4, <1>6, NameAssumption DEF BackupNames
  <2>2. TemplateOf(spec, s) = spec.backups[s]
    BY <1>6, <2>1 DEF TemplateOf
  <2> QED BY <1>1, <1>4, <1>6, <2>1, <2>2
<1>7. ASSUME s \in Volumes PROVE TemplateOf(spec, s) \in Template
  <2>1. s \notin {"api", "scheduler", "backup"} \cup ListBackups
    BY <1>7, NameAssumption
  <2>2. TemplateOf(spec, s) = spec.volumes[s]
    BY <1>7, <2>1 DEF TemplateOf
  <2> QED BY <1>2, <1>4, <1>7, <2>2
<1>8. TemplateOf(spec, s) \in Template
  BY <1>3, <1>5, <1>6, <1>7, NameAssumption DEF Service
<1>9. s \in Core => ConditionOf(s) \in {"API", "Scheduler"}
  BY NameAssumption DEF ConditionOf
<1> QED BY <1>3, <1>4, <1>8, <1>9

----------------------------------------------------------------------------
\* Types.  What a reconcile works on, and the CR of a service.
LEMMA LocalUpdates ==
  ASSUME NEW p \in Local, NEW r \in Requirement \cup Job, NEW b \in BOOLEAN,
         NEW c \in Condition, NEW st \in Status
  PROVE  /\ Returned(p, b) \in Local
         /\ Stopped(p, r, b) \in Local
         /\ Marked(p, c, st) \in Local
<1>1. Returned(p, b) \in Local
  BY DEF Returned, Local, PC
<1>2. Stopped(p, r, b) \in Local
  BY <1>1 DEF Stopped, Local
<1>3. [p.conds EXCEPT ![c] = st] \in [Condition -> Status]
  BY DEF Local
<1>4. Marked(p, c, st) \in Local
  BY <1>3 DEF Marked, Local
<1> QED BY <1>1, <1>2, <1>4

\* No reconcile in progress is a well-typed local state.
LEMMA IdleType == Idle \in Local
<1>1. AllUnknown \in [Condition -> Status]
  BY DEF AllUnknown, Status
<1>2. [j \in Job |-> Nil] \in [Job -> Images \cup {Nil}]
  OBVIOUS
<1>3. 0 \in 0..(MaxEdits + 1)
  BY BoundAssumption
<1> QED BY <1>1, <1>2, <1>3 DEF Idle, Local, PC

\* Deleting a child and writing a template to it keep it well typed.
LEMMA ChildUpdates ==
  ASSUME NEW c \in ChildCR, NEW t \in Template
  PROVE  /\ NoChild \in ChildCR /\ NoChild.phase = "absent"
         /\ Removed(c) \in ChildCR
         /\ Deployed(c, t) \in ChildCR
         /\ Deployed(c, t).phase # "absent"
         /\ Deployed(c, t).tmpl = t
         /\ Removed(c).phase = "absent" <=> c.phase = "absent"
         /\ Removed(c).tmpl = c.tmpl
<1>1. NoChild \in ChildCR /\ NoChild.phase = "absent"
  BY DEF NoChild, ChildCR
<1>2. /\ Removed(c) \in ChildCR /\ Removed(c).tmpl = c.tmpl
      /\ Removed(c).phase = "absent" <=> c.phase = "absent"
  BY DEF Removed, ChildCR
<1>3. /\ Deployed(c, t) \in ChildCR /\ Deployed(c, t).phase # "absent"
      /\ Deployed(c, t).tmpl = t
  BY DEF Deployed, NoChild, ChildCR
<1> QED BY <1>1, <1>2, <1>3

\* An empty namespace is well typed.
LEMMA InitTypes == Init => TypeOK
<1> SUFFICES ASSUME Init PROVE TypeOK
  OBVIOUS
<1>1. cr \in CinderCR
  BY BoundAssumption DEF Init, CinderCR, AllUnknown, Status
<1>2. par \in Local
  BY IdleType DEF Init
<1>3. NoChild \in ChildCR
  BY DEF NoChild, ChildCR
<1>4. /\ child \in [Service -> ChildCR] /\ job \in [Job -> JobState]
      /\ db \in [Job -> SUBSET Images]
  BY <1>3 DEF Init, NoJob, JobState
<1>5. faults \in 0..MaxFaults
  BY BoundAssumption DEF Init
<1>6. queued \in BOOLEAN
  BY DEF Init
<1> QED BY <1>1, <1>2, <1>4, <1>5, <1>6 DEF TypeOK

\* The first steps of a reconcile.
LEMMA StartTypes ==
  ASSUME TypeOK, SpecInv, PFetch \/ PRequireFail \/ PRequire
  PROVE  TypeOK'
<1> USE DEF TypeOK
<1>1. CASE PFetch
  <2>1. Started \in Local
    BY IdleType DEF Started, Local, CinderCR
  <2>2. [Started EXCEPT !.pc = "require"] \in Local
    BY <2>1 DEF Local, PC
  <2>3. Returned(Started, FALSE) \in Local
    BY <2>1 DEF Returned, Local, PC
  <2> QED BY <1>1, <2>2, <2>3 DEF PFetch
<1>2. CASE PRequireFail
  <2>1. faults' \in 0..MaxFaults
    BY <1>2, BoundAssumption DEF PRequireFail
  <2>2. PICK r \in Requirement : par' = Stopped(par, r, TRUE)
    BY <1>2 DEF PRequireFail
  <2>3. par' \in Local
    <3>1. Returned(par, TRUE) \in Local
      BY DEF Returned, Local, PC
    <3> QED BY <2>2, <3>1 DEF Stopped, Local
  <2> QED BY <1>2, <2>1, <2>3 DEF PRequireFail
<1>3. CASE PRequire
  <2>1. par.spec \in UserSpec
    BY <1>3 DEF PRequire, SpecInv, Local
  <2>2. par.spec.base \in [BaseField -> BaseValue]
    BY <2>1, SpecFields
  <2>3. "ServiceConfig" \in Requirement
    BY DEF Requirement
  <2>4. Returned(par, FALSE) \in Local
    BY DEF Returned, Local, PC
  <2>5. Stopped(par, "ServiceConfig", FALSE) \in Local
    BY <2>3, <2>4 DEF Stopped, Local
  <2>6. [Stopped(par, "ServiceConfig", FALSE) EXCEPT !.input = par.spec.base] \in Local
    BY <2>2, <2>5 DEF Local
  <2>7. [par EXCEPT !.pc = "dbsync"] \in Local
    BY DEF Local, PC
  <2> QED BY <1>3, <2>6, <2>7 DEF PRequire
<1> QED BY <1>1, <1>2, <1>3

\* The jobs.
LEMMA JobTypes ==
  ASSUME TypeOK, SpecInv, NEW j \in Job, PJobDone(j) \/ PJobStart(j) \/ PJobWait(j)
  PROVE  TypeOK'
<1> USE DEF TypeOK
<1>1. par.pc = j /\ par.pc # "idle"
  BY DEF PJobDone, PJobStart, PJobWait, Job
<1>2. par.spec \in UserSpec /\ par.spec.api.image \in Images
  BY <1>1, StoredImage DEF SpecInv, Local
<1>3. CASE PJobDone(j)
  <2>1. JobNext[j] \in PC
    BY DEF JobNext, PC, Job
  <2>2. Visited(par.spec) \subseteq Service
    BY <1>2, VisitedTemplate
  <2>3. [par.hash EXCEPT ![j] = par.spec.api.image] \in [Job -> Images \cup {Nil}]
    BY <1>2 DEF Local
  <2>4. par' \in Local
    BY <1>3, <2>1, <2>2, <2>3 DEF PJobDone, Local
  <2> QED BY <1>3, <2>4 DEF PJobDone
<1>4. Stopped(par, j, TRUE) \in Local
  <2>1. Returned(par, TRUE) \in Local
    BY DEF Returned, Local, PC
  <2> QED BY <2>1 DEF Stopped, Local
<1>5. CASE PJobStart(j)
  <2>1. job' \in [Job -> JobState]
    BY <1>2, <1>5 DEF PJobStart, JobState
  <2> QED BY <1>4, <1>5, <2>1 DEF PJobStart
<1>6. CASE PJobWait(j)
  BY <1>4, <1>6 DEF PJobWait
<1> QED BY <1>3, <1>5, <1>6


\* The deployment: at most one service is touched, its CR is created or
\* patched with its template, or deleted.
LEMMA DeployTypes ==
  ASSUME TypeOK, SpecInv, NEW s \in Service, PDeploy(s)
  PROVE  TypeOK'
<1> USE DEF TypeOK
<1>1. par.spec \in UserSpec /\ s \in Visited(par.spec)
  BY DEF PDeploy, SpecInv, Local
<1>2. TemplateOf(par.spec, s) \in Template
  BY <1>1, VisitedTemplate
<1> DEFINE c == Deployed(child[s], TemplateOf(par.spec, s))
<1>3. c \in ChildCR /\ Removed(child[s]) \in ChildCR
  BY <1>2, ChildUpdates
<1>4. c.ready \in BOOLEAN /\ c.seen \in BOOLEAN /\ c.applied \in BOOLEAN
  BY <1>3 DEF ChildCR
<1> HIDE DEF c
<1>5. CASE PDeploySingle(s)
  <2> DEFINE st == IF Matches(c) THEN Mirror(c) ELSE "Unknown"
  <2>1. child' = [child EXCEPT ![s] = c]
    BY <1>5 DEF PDeploySingle, c
  <2>2. ConditionOf(s) \in Condition /\ st \in Status
    BY DEF ConditionOf, Condition, Mirror, Status
  <2>3. par' = [Marked(par, ConditionOf(s), st) EXCEPT !.todo = @ \ {s}]
    BY <1>5 DEF PDeploySingle, c
  <2>4. Marked(par, ConditionOf(s), st) \in Local
    <3> HIDE DEF st
    <3>1. [par.conds EXCEPT ![ConditionOf(s)] = st] \in [Condition -> Status]
      BY <2>2 DEF Local
    <3> QED BY <3>1 DEF Marked, Local
  <2>5. par' \in Local
    <3> HIDE DEF st
    <3> QED BY <2>3, <2>4 DEF Local
  <2> QED BY <1>3, <2>1, <2>5 DEF PDeploy
<1>6. CASE PSkipLegacy(s)
  <2>1. [par.conds EXCEPT !["Backup"] = "True"] \in [Condition -> Status]
    BY DEF Local, Condition, Status
  <2>2. par' \in Local
    BY <1>6, <2>1 DEF PSkipLegacy, Marked, Local
  <2> QED BY <1>3, <1>6, <2>2 DEF PDeploy, PSkipLegacy
<1>7. CASE PDeployBackup(s)
  <2> DEFINE w == Waiting("Backup", c)
             b == Bad("Backup", c)
             v == Combined("Backup", w, b, par.conds["Backup"])
  <2>1. /\ w \in SUBSET {"Backup", "Volume"} /\ b \in SUBSET {"Backup", "Volume"}
    BY DEF Waiting, Bad, Local
  <2>2. v \in Status
    BY DEF Combined, Status, Local, Condition
  <2>3. child' = [child EXCEPT ![s] = c]
    BY <1>7 DEF PDeployBackup, c
  <2>4. par' = [par EXCEPT !.waiting = w, !.bad = b,
                           !.conds["Backup"] = Combined("Backup", w, b, @),
                           !.todo = @ \ {s}]
    BY <1>7 DEF PDeployBackup, c
  <2> HIDE DEF w, b
  <2>5. par' \in Local
    BY <2>1, <2>2, <2>4 DEF Local
  <2> QED BY <1>3, <2>3, <2>5 DEF PDeploy
<1>8. CASE PSkipBackup(s)
  BY <1>3, <1>8 DEF PDeploy, PSkipBackup, Local
<1>9. CASE PDeployVolume(s)
  <2> DEFINE w == Waiting("Volume", c)
             b == Bad("Volume", c)
  <2>1. /\ w \in SUBSET {"Backup", "Volume"} /\ b \in SUBSET {"Backup", "Volume"}
    BY DEF Waiting, Bad, Local
  <2>2. child' = [child EXCEPT ![s] = c]
    BY <1>9 DEF PDeployVolume, c
  <2>3. par' = [par EXCEPT !.waiting = w, !.bad = b, !.todo = @ \ {s}]
    BY <1>9 DEF PDeployVolume, c
  <2> HIDE DEF w, b
  <2>4. par' \in Local
    BY <2>1, <2>3 DEF Local
  <2> QED BY <1>3, <2>2, <2>4 DEF PDeploy
<1> QED BY <1>5, <1>6, <1>7, <1>8, <1>9 DEF PDeploy

\* The end of a reconcile.
LEMMA EndTypes ==
  ASSUME TypeOK, PCleanup \/ PFinish \/ PDeployFail \/ PPatch \/ Crash
  PROVE  TypeOK'
<1> USE DEF TypeOK
<1>1. CASE PCleanup
  <2>1. child' \in [Service -> ChildCR]
    <3>1. \A s \in Service : child[s] \in ChildCR /\ Removed(child[s]) \in ChildCR
      BY DEF Removed, ChildCR
    <3> QED BY <1>1, <3>1 DEF PCleanup
  <2>2. Combined("Volume", par.waiting, par.bad, par.conds["Volume"]) \in Status
    BY DEF Combined, Status, Local, Condition
  <2>3. par' \in Local
    BY <1>1, <2>2 DEF PCleanup, Local, PC
  <2> QED BY <1>1, <2>1, <2>3 DEF PCleanup
<1>2. CASE PFinish
  <2>1. Marked(par, "Ready", "True") \in Local
    BY LocalUpdates DEF Condition, Status, Requirement
  <2> DEFINE q == IF IsReady(par) THEN Marked(par, "Ready", "True") ELSE par
  <2>2. q \in Local /\ par' = Returned(q, FALSE)
    BY <1>2, <2>1 DEF PFinish
  <2> HIDE DEF q
  <2>3. par' \in Local
    BY <2>2 DEF Returned, Local, PC
  <2> QED BY <1>2, <2>3 DEF PFinish
<1>3. CASE PDeployFail
  <2>1. faults' \in 0..MaxFaults
    BY <1>3, BoundAssumption DEF PDeployFail
  <2>2. par' \in Local
    BY <1>3 DEF PDeployFail, Returned, Local, PC
  <2> QED BY <1>3, <2>1, <2>2 DEF PDeployFail
<1>4. CASE PPatch
  <2>1. Mirrored(par) \in Status
    BY DEF Mirrored, Status
  <2>2. [par.conds EXCEPT !["Ready"] = Mirrored(par)] \in [Condition -> Status]
    BY <2>1 DEF Local
  <2>3. Published(par) \in CinderCR
    <3> DEFINE co == IF par.conds["Ready"] = "Unknown"
                     THEN [par.conds EXCEPT !["Ready"] = Mirrored(par)]
                     ELSE par.conds
    <3>1. co \in [Condition -> Status]
      BY <2>2 DEF Local
    <3>2. Published(par) =
            [cr EXCEPT !.obs = par.gen, !.fin = TRUE, !.input = par.input,
                       !.hash = par.hash, !.stop = par.stop, !.conds = co]
      BY DEF Published
    <3> HIDE DEF co
    <3> QED BY <3>1, <3>2 DEF Local, CinderCR
  <2>4. queued' \in BOOLEAN
    BY <1>4, Zenon DEF PPatch
  <2> QED BY <1>4, <2>3, <2>4, IdleType DEF PPatch
<1>5. CASE Crash
  <2>1. faults' \in 0..MaxFaults
    BY <1>5, BoundAssumption DEF Crash
  <2> QED BY <1>5, <2>1, IdleType DEF Crash
<1> QED BY <1>1, <1>2, <1>3, <1>4, <1>5


\* Users, the controllers of the services, and the Jobs.
LEMMA OutsideTypes ==
  ASSUME TypeOK, SpecInv,
         \/ \E raw \in RawSpecs : Submit(raw)
         \/ \E s \in Service : ChildStep(s) \/ ChildUnready(s)
         \/ \E j \in Job : \/ JobFinishes(j) \/ JobRemoved(j)
                           \/ JobFails(j) \/ JobExpires(j)
  PROVE  TypeOK'
<1> USE DEF TypeOK
<1>1. ASSUME NEW raw \in RawSpecs, Submit(raw) PROVE TypeOK'
  <2>1. Default(raw) \in UserSpec
    BY SpecAssumption, DefaultFields
  <2>2. cr.gen + 1 \in 0..(MaxEdits + 1)
    <3>1. cr.gen \in 0..(MaxEdits + 1) /\ cr.gen <= MaxEdits
      BY <1>1 DEF Submit, CinderCR
    <3> QED BY <3>1, BoundAssumption
  <2>3. cr' \in CinderCR
    BY <1>1, <2>1, <2>2 DEF Submit, CinderCR
  <2> QED BY <1>1, <2>3 DEF Submit
<1>2. ASSUME NEW s \in Service, ChildStep(s) \/ ChildUnready(s) PROVE TypeOK'
  <2>1. child[s] \in ChildCR /\ NoChild \in ChildCR
    BY DEF ChildCR, NoChild
  <2>2. /\ [child[s] EXCEPT !.seen = TRUE, !.ready = FALSE] \in ChildCR
        /\ [child[s] EXCEPT !.applied = TRUE, !.ready = TRUE] \in ChildCR
        /\ [child[s] EXCEPT !.ready = TRUE] \in ChildCR
        /\ [child[s] EXCEPT !.ready = FALSE] \in ChildCR
    BY <2>1 DEF ChildCR
  <2>3. PICK c \in ChildCR : child' = [child EXCEPT ![s] = c]
    BY <1>2, <2>1, <2>2
       DEF ChildStep, ChildObserves, ChildReady, ChildLate, ChildGone, ChildUnready
  <2>4. child' \in [Service -> ChildCR]
    BY <2>3
  <2>5. faults' \in 0..MaxFaults
    BY <1>2, BoundAssumption
       DEF ChildStep, ChildObserves, ChildReady, ChildLate, ChildGone, ChildUnready
  <2> QED
    BY <1>2, <2>4, <2>5
       DEF ChildStep, ChildObserves, ChildReady, ChildLate, ChildGone, ChildUnready
<1>3. ASSUME NEW j \in Job,
             JobFinishes(j) \/ JobRemoved(j) \/ JobFails(j) \/ JobExpires(j)
      PROVE  TypeOK'
  <2>1. job[j] \in JobState /\ NoJob \in JobState
    BY DEF JobState, NoJob
  <2>2. job' \in [Job -> JobState]
    BY <1>3, <2>1 DEF JobFinishes, JobRemoved, JobFails, JobExpires, JobState
  <2>3. faults' \in 0..MaxFaults
    BY <1>3, BoundAssumption DEF JobFinishes, JobRemoved, JobFails, JobExpires
  <2>4. db' \in [Job -> SUBSET Images]
    <3>1. job[j].state = "running" => job[j].image \in Images
      BY DEF SpecInv
    <3> QED BY <1>3, <3>1 DEF JobFinishes, JobRemoved, JobFails, JobExpires
  <2> QED
    BY <1>3, <2>2, <2>3, <2>4 DEF JobFinishes, JobRemoved, JobFails, JobExpires
<1> QED BY <1>1, <1>2, <1>3


\* What PDeploy leaves alone and what it does to the CR of its service.
LEMMA DeployFrame ==
  ASSUME TypeOK, SpecInv, NEW s \in Service, PDeploy(s)
  PROVE  /\ par.spec \in UserSpec /\ Stored(par.spec) /\ s \in Visited(par.spec)
         /\ par'.pc = "deploy" /\ par'.spec = par.spec /\ par'.gen = par.gen
         /\ par'.hash = par.hash /\ par'.input = par.input
         /\ par'.stop = par.stop /\ par'.requeue = par.requeue
         /\ par'.todo = par.todo \ {s}
         /\ \A r \in Service \ {s} : child'[r] = child[r]
         /\ \/ child'[s] = Deployed(child[s], TemplateOf(par.spec, s))
            \/ s \notin Core /\ s \notin Volumes /\ child'[s] = Removed(child[s])
<1> USE DEF TypeOK
<1>1. par.spec \in UserSpec /\ Stored(par.spec) /\ s \in Visited(par.spec)
  BY DEF PDeploy, SpecInv, Local
<1>2. \A c, st : LET q == Marked(par, c, st)
                 IN  /\ q.pc = par.pc /\ q.spec = par.spec /\ q.gen = par.gen
                     /\ q.hash = par.hash /\ q.input = par.input
                     /\ q.stop = par.stop /\ q.requeue = par.requeue
                     /\ q.todo = par.todo
                     /\ [q EXCEPT !.todo = @ \ {s}].todo = par.todo \ {s}
  BY DEF Marked, Local
<1>3. /\ par'.pc = "deploy" /\ par'.spec = par.spec /\ par'.gen = par.gen
      /\ par'.hash = par.hash /\ par'.input = par.input
      /\ par'.stop = par.stop /\ par'.requeue = par.requeue
      /\ par'.todo = par.todo \ {s}
  <2>1. CASE PDeploySingle(s)
    BY <1>2, <2>1 DEF PDeploy, PDeploySingle, Marked, Local
  <2>2. CASE PSkipLegacy(s)
    BY <1>2, <2>2 DEF PDeploy, PSkipLegacy, Marked, Local
  <2>3. CASE PDeployBackup(s)
    BY <2>3 DEF PDeploy, PDeployBackup, Local
  <2>4. CASE PSkipBackup(s)
    BY <2>4 DEF PDeploy, PSkipBackup, Local
  <2>5. CASE PDeployVolume(s)
    BY <2>5 DEF PDeploy, PDeployVolume, Local
  <2> QED BY <2>1, <2>2, <2>3, <2>4, <2>5 DEF PDeploy
<1>4. \/ child' = [child EXCEPT ![s] = Deployed(child[s], TemplateOf(par.spec, s))]
      \/ s \notin Core /\ s \notin Volumes /\ child' = [child EXCEPT ![s] = Removed(@)]
  BY NameAssumption, Zenon
     DEF PDeploy, PDeploySingle, PSkipLegacy, PDeployBackup, PSkipBackup, PDeployVolume
<1> QED BY <1>1, <1>3, <1>4


\* A reconcile starts from a copy of the CR, with nothing found out.
LEMMA FetchFrame ==
  ASSUME TypeOK, PFetch
  PROVE  /\ cr.spec \in UserSpec /\ par'.spec = cr.spec /\ par'.gen = cr.gen
         /\ par'.pc = IF cr.fin THEN "require" ELSE "patch"
         /\ par'.conds = AllUnknown /\ par'.stop = "none"
         /\ par'.input = cr.input /\ par'.hash = cr.hash
         /\ par'.waiting = {} /\ par'.bad = {} /\ par'.requeue = FALSE
<1>1. /\ Started.spec = cr.spec /\ Started.gen = cr.gen
      /\ Started.conds = AllUnknown /\ Started.stop = "none"
      /\ Started.input = cr.input /\ Started.hash = cr.hash
      /\ Started.waiting = {} /\ Started.bad = {} /\ Started.requeue = FALSE
      /\ Started \in Local
  BY IdleType DEF TypeOK, Started, Idle, Local, CinderCR
<1>2. par' = IF cr.fin THEN [Started EXCEPT !.pc = "require"]
             ELSE Returned(Started, FALSE)
  BY DEF PFetch
<1>3. cr.spec \in UserSpec
  BY DEF TypeOK, PFetch, CinderCR
<1> HIDE DEF Started
<1>4. CASE cr.fin
  BY <1>1, <1>2, <1>3, <1>4 DEF Local
<1>5. CASE ~cr.fin
  BY <1>1, <1>2, <1>3, <1>5 DEF Returned, Local
<1> QED BY <1>4, <1>5

\* The last step of a complete reconcile decides on Ready.
LEMMA FinishFrame ==
  ASSUME TypeOK, PFinish
  PROVE  /\ UNCHANGED <<cr, child, job, db, queued, faults>>
         /\ par.pc = "finish" /\ par'.pc = "patch"
         /\ par'.spec = par.spec /\ par'.gen = par.gen /\ par'.hash = par.hash
         /\ par'.stop = par.stop /\ par'.requeue = FALSE
         /\ par'.conds = IF IsReady(par) THEN [par.conds EXCEPT !["Ready"] = "True"]
                         ELSE par.conds
<1> DEFINE q == IF IsReady(par) THEN Marked(par, "Ready", "True") ELSE par
<1>1. Marked(par, "Ready", "True") \in Local
  BY LocalUpdates DEF TypeOK, Condition, Status, Requirement
<1>2. /\ q \in Local /\ q.spec = par.spec /\ q.gen = par.gen
      /\ q.hash = par.hash /\ q.stop = par.stop
      /\ q.conds = IF IsReady(par) THEN [par.conds EXCEPT !["Ready"] = "True"]
                   ELSE par.conds
  BY <1>1 DEF TypeOK, Marked, Local
<1>3. par' = Returned(q, FALSE)
  BY DEF PFinish
<1> HIDE DEF q
<1> QED BY <1>2, <1>3 DEF PFinish, Returned, Local

----------------------------------------------------------------------------
\* Every step keeps to admitted specs.
LEMMA StartSpecs ==
  ASSUME TypeOK, SpecInv, PFetch \/ PRequireFail \/ PRequire
  PROVE  SpecInv'
<1> USE DEF TypeOK
<1>1. /\ cr' = cr /\ child' = child /\ job' = job
      /\ par'.pc # "deploy"
      /\ par'.spec = cr.spec \/ (par'.spec = par.spec /\ par.pc # "idle")
      /\ par.pc = "idle" => cr.spec # Nil /\ par'.spec = cr.spec
  <2>1. CASE PFetch
    <3>1. cr' = cr /\ child' = child /\ job' = job /\ cr.spec # Nil
      BY <2>1 DEF PFetch
    <3>2. par'.spec = cr.spec /\ par'.pc # "deploy"
      BY <2>1, FetchFrame
    <3> QED BY <3>1, <3>2
  <2>2. CASE PRequireFail
    BY <2>2 DEF PRequireFail, Stopped, Returned, Local
  <2>3. CASE PRequire
    BY <2>3 DEF PRequire, Stopped, Returned, Local
  <2> QED BY <2>1, <2>2, <2>3
<1>2. par'.spec # Nil /\ Stored(par'.spec)
  <2>1. CASE par.pc = "idle"
    BY <1>1, <2>1 DEF SpecInv
  <2>2. CASE par.pc # "idle"
    <3>1. CASE PFetch
      BY <3>1, <2>2 DEF PFetch
    <3>2. CASE PRequireFail
      BY <3>2, <2>2 DEF PRequireFail, Stopped, Returned, Local, SpecInv
    <3>3. CASE PRequire
      BY <3>3, <2>2 DEF PRequire, Stopped, Returned, Local, SpecInv
    <3> QED BY <3>1, <3>2, <3>3
  <2> QED BY <2>1, <2>2
<1> QED BY <1>1, <1>2 DEF SpecInv

\* ensureDBSync and the online migrations leave every spec as it is, and
\* a Job is only started for an image.
LEMMA JobSpecs ==
  ASSUME TypeOK, SpecInv, NEW j \in Job, PJobDone(j) \/ PJobStart(j) \/ PJobWait(j)
  PROVE  SpecInv'
<1> USE DEF TypeOK
<1>1. par.spec \in UserSpec /\ Stored(par.spec) /\ par.spec.api.image \in Images
  BY StoredImage DEF PJobDone, PJobStart, PJobWait, Job, SpecInv, Local
<1>2. /\ cr' = cr /\ child' = child
      /\ par'.spec = par.spec
      /\ par'.pc = "deploy" => par'.todo = Visited(par.spec)
  BY DEF PJobDone, PJobStart, PJobWait, Stopped, Returned, Local
<1>3. \A k \in Job : job'[k].state # "none" => job'[k].image \in Images
  <2>1. CASE PJobStart(j)
    BY <1>1, <2>1 DEF PJobStart, SpecInv
  <2>2. CASE PJobDone(j) \/ PJobWait(j)
    BY <2>2 DEF PJobDone, PJobWait, SpecInv
  <2> QED BY <2>1, <2>2
<1>4. par'.spec # Nil
  BY <1>1, <1>2, SpecAssumption
<1> QED BY <1>1, <1>2, <1>3, <1>4 DEF SpecInv

\* The CreateOrUpdate of a child copies a template of an admitted spec.
LEMMA DeploySpecs ==
  ASSUME TypeOK, SpecInv, NEW s \in Service, PDeploy(s)
  PROVE  SpecInv'
<1> USE DEF TypeOK
<1>1. cr' = cr /\ job' = job
  BY DEF PDeploy
<1>2. par'.spec # Nil /\ Stored(par'.spec) /\ par'.todo \subseteq Visited(par'.spec)
  BY DeployFrame DEF PDeploy, SpecInv
<1>3. ASSUME NEW v \in Volumes, child'[v].phase # "absent" PROVE LabelFits(v)
  <2>1. v \in Service
    BY DEF Service
  <2>2. CASE v = s
    <3>1. s \in DOMAIN par.spec.volumes
      BY <2>2, DeployFrame, VisitedTemplate
    <3> QED BY <2>2, <3>1, DeployFrame, StoredLabels
  <2>3. CASE v # s
    BY <1>3, <2>1, <2>3, DeployFrame DEF SpecInv
  <2> QED BY <2>2, <2>3
<1> QED BY <1>1, <1>2, <1>3 DEF SpecInv

\* What ends a reconcile, or cuts it short, writes the status only.
LEMMA EndSpecs ==
  ASSUME TypeOK, SpecInv, PCleanup \/ PFinish \/ PDeployFail \/ PPatch \/ Crash
  PROVE  SpecInv'
<1> USE DEF TypeOK
<1>1. /\ job' = job /\ cr'.spec = cr.spec
      /\ par'.pc # "deploy"
      /\ par'.pc = "idle" \/ (par'.spec = par.spec /\ par.pc # "idle")
  <2>1. CASE PCleanup
    BY <2>1 DEF PCleanup, Local
  <2>2. CASE PFinish
    BY <2>2, FinishFrame
  <2>3. CASE PDeployFail
    BY <2>3 DEF PDeployFail, Returned, Local
  <2>4. CASE PPatch
    BY <2>4 DEF PPatch, Published, CinderCR, Idle
  <2>5. CASE Crash
    BY <2>5 DEF Crash, Idle
  <2> QED BY <2>1, <2>2, <2>3, <2>4, <2>5
<1>2. \A s \in Service : child'[s].phase = "absent" <=> child[s].phase = "absent"
  <2>1. \A s \in Service :
          Removed(child[s]).phase = "absent" <=> child[s].phase = "absent"
    BY DEF Removed, ChildCR
  <2>2. child' = child \/ PCleanup
    BY DEF PCleanup, PFinish, PDeployFail, PPatch, Crash
  <2> QED BY <2>1, <2>2 DEF PCleanup
<1>3. Volumes \subseteq Service
  BY DEF Service
<1> QED BY <1>1, <1>2, <1>3 DEF SpecInv

\* The webhook admits what the user submits; children and Jobs leave the
\* specs alone.
LEMMA OutsideSpecs ==
  ASSUME TypeOK, SpecInv,
         \/ \E raw \in RawSpecs : Submit(raw)
         \/ \E s \in Service : ChildStep(s) \/ ChildUnready(s)
         \/ \E j \in Job : \/ JobFinishes(j) \/ JobRemoved(j)
                           \/ JobFails(j) \/ JobExpires(j)
  PROVE  SpecInv'
<1> USE DEF TypeOK
<1>1. ASSUME NEW raw \in RawSpecs, Submit(raw) PROVE SpecInv'
  <2>1. raw \in UserSpec /\ cr.spec \in UserSpec \cup {Nil}
    BY SpecAssumption DEF CinderCR
  <2>2. Stored(Default(raw))
    BY <1>1, <2>1, AdmittedStored DEF Submit
  <2>3. cr'.spec = Default(raw)
    BY <1>1 DEF Submit, CinderCR
  <2> QED BY <1>1, <2>2, <2>3 DEF Submit, SpecInv
<1>2. ASSUME NEW s \in Service, ChildStep(s) \/ ChildUnready(s) PROVE SpecInv'
  <2>1. UNCHANGED <<cr, par, job>>
    BY <1>2
       DEF ChildStep, ChildObserves, ChildReady, ChildLate, ChildGone, ChildUnready
  <2>2. \A r \in Service : child'[r].phase # "absent" => child[r].phase # "absent"
    BY <1>2
       DEF ChildStep, ChildObserves, ChildReady, ChildLate, ChildGone, ChildUnready,
           NoChild, ChildCR
  <2>3. Volumes \subseteq Service
    BY DEF Service
  <2> QED BY <2>1, <2>2, <2>3 DEF SpecInv
<1>3. ASSUME NEW j \in Job,
             JobFinishes(j) \/ JobRemoved(j) \/ JobFails(j) \/ JobExpires(j)
      PROVE  SpecInv'
  <2>1. UNCHANGED <<cr, par, child>>
    BY <1>3 DEF JobFinishes, JobRemoved, JobFails, JobExpires
  <2>2. \A k \in Job : job'[k].state # "none" =>
          job[k].state # "none" /\ job'[k].image = job[k].image
    BY <1>3 DEF JobFinishes, JobRemoved, JobFails, JobExpires, NoJob, JobState
  <2> QED BY <2>1, <2>2 DEF SpecInv
<1> QED BY <1>1, <1>2, <1>3

----------------------------------------------------------------------------
\* Types and admission together are inductive.
LEMMA SpecSteps ==
  ASSUME TypeOK, SpecInv, [Next]_vars
  PROVE  TypeOK' /\ SpecInv'
<1>1. CASE UNCHANGED vars
  BY <1>1 DEF vars, TypeOK, SpecInv
<1>2. CASE Next
  <2>1. CASE PFetch \/ PRequire \/ PRequireFail
    BY <2>1, StartTypes, StartSpecs
  <2>2. CASE \E j \in Job : PJobDone(j) \/ PJobStart(j) \/ PJobWait(j)
    BY <2>2, JobTypes, JobSpecs
  <2>3. CASE \E s \in Service : PDeploy(s)
    BY <2>3, DeployTypes, DeploySpecs
  <2>4. CASE PCleanup \/ PFinish \/ PDeployFail \/ PPatch \/ Crash
    BY <2>4, EndTypes, EndSpecs
  <2>5. CASE \/ \E raw \in RawSpecs : Submit(raw)
             \/ \E s \in Service : ChildStep(s) \/ ChildUnready(s)
             \/ \E j \in Job : \/ JobFinishes(j) \/ JobRemoved(j)
                               \/ JobFails(j) \/ JobExpires(j)
    BY <2>5, OutsideTypes, OutsideSpecs
  <2> QED BY <1>2, <2>1, <2>2, <2>3, <2>4, <2>5 DEF Next, ControllerStep, Fault
<1> QED BY <1>1, <1>2

\* Nothing is stored at first.
LEMMA InitSpecs == Init => SpecInv
BY DEF Init, SpecInv, Idle, NoChild, NoJob, Service

\* Only admitted specs are ever stored or worked on.
THEOREM AdmittedAlways == Spec => [](TypeOK /\ SpecInv)
<1>1. Init => TypeOK /\ SpecInv
  BY InitTypes, InitSpecs
<1>2. TypeOK /\ SpecInv /\ [Next]_vars => (TypeOK /\ SpecInv)'
  BY SpecSteps
<1> QED BY <1>1, <1>2, PTL DEF Spec

\* Types hold; that a Job or an API has an image at all, and that a reconcile
\* deploys services of its spec only, needs SpecInv.
THEOREM ReadinessTypes == Spec => []TypeOK
BY AdmittedAlways, PTL

\* What the webhook has stored it accepts again, so that the operator's own
\* patches of the CR (its finalizer) are never refused.
THEOREM StoredSpecsAccepted == Spec => []StoredSpecAccepted
<1>1. ASSUME TypeOK, SpecInv PROVE StoredSpecAccepted
  <2> SUFFICES ASSUME cr.spec # Nil
               PROVE  Admits(cr.spec, cr.spec) /\ Default(cr.spec) = cr.spec
    BY DEF StoredSpecAccepted
  <2>1. /\ Default(cr.spec) = cr.spec
        /\ NameErrors(cr.spec) = {} /\ SpecErrors(cr.spec) = {}
    BY <1>1 DEF SpecInv, Stored
  <2>2. DeprecatedErrors(cr.spec, cr.spec) = {}
    BY DEF DeprecatedErrors
  <2> QED BY <2>1, <2>2 DEF Admits, ValidateUpdate
<1> QED BY <1>1, AdmittedAlways, PTL

\* The label of the Pods of every volume that is deployed has at most 63
\* characters, for any names the webhook admits.
THEOREM LabelsFit == Spec => []RevisionLabelFits
<1>1. SpecInv => RevisionLabelFits
  BY DEF SpecInv, RevisionLabelFits, LabelFits
<1> QED BY <1>1, AdmittedAlways, PTL

\* The controller relies on the webhook: no backup of the list is created
\* from a spec that also uses the legacy backup.
THEOREM OneBackupInterfaceUsed == Spec => OneBackupInterface
<1> DEFINE A == \A s \in ListBackups :
                  child[s].phase = "absent" /\ child'[s].phase = "live" =>
                    ~ IsDeprecatedUsed(par.spec)
<1>1. ASSUME TypeOK, SpecInv, [Next]_vars PROVE A
  <2> SUFFICES ASSUME NEW s \in ListBackups,
                      child[s].phase = "absent", child'[s].phase = "live"
               PROVE  ~ IsDeprecatedUsed(par.spec)
    OBVIOUS
  <2>1. s \in Service /\ s \notin Core /\ s \notin Volumes
    BY NameAssumption DEF Service
  <2>2. child'[s] # child[s]
    OBVIOUS
  <2>3. CASE \E r \in Service : PDeploy(r)
    <3>1. PICK r \in Service : PDeploy(r)
      BY <2>3
    <3>2. r = s
      BY <1>1, <2>1, <2>2, <3>1, DeployFrame
    <3>3. s \in BackupNames(par.spec)
      BY <1>1, <3>1, <3>2, DeployFrame, VisitedTemplate
    <3> QED BY <1>1, <3>1, <3>3, DeployFrame, StoredBackups
  <2>4. CASE PCleanup
    BY <2>1, <2>2, <2>4 DEF PCleanup
  <2>5. CASE \E r \in Service : ChildStep(r) \/ ChildUnready(r)
    <3>1. child[s] \in ChildCR
      BY <1>1, <2>1 DEF TypeOK
    <3>2. PICK r \in Service : ChildStep(r) \/ ChildUnready(r)
      BY <2>5
    <3>3. child[r].phase # "absent"
      BY <3>2 DEF ChildStep, ChildObserves, ChildReady, ChildLate, ChildGone,
                  ChildUnready
    <3>4. child'[s] = child[s]
      BY <2>1, <3>2, <3>3, <1>1
         DEF ChildStep, ChildObserves, ChildReady, ChildLate, ChildGone,
             ChildUnready, TypeOK
    <3> QED BY <2>2, <3>4
  <2>6. child' = child \/ (\E r \in Service : PDeploy(r)) \/ PCleanup
          \/ (\E r \in Service : ChildStep(r) \/ ChildUnready(r))
    BY <1>1
       DEF Next, ControllerStep, Fault, PFetch, PRequire, PJobDone, PJobStart,
           PJobWait, PFinish, PPatch, PRequireFail, PDeployFail, Crash, JobFinishes,
           JobRemoved, JobFails, JobExpires, Submit, vars
  <2> QED BY <2>2, <2>3, <2>4, <2>5, <2>6
<1>2. Spec => [][A]_vars
  BY <1>1, AdmittedAlways, PTL DEF Spec
<1> QED BY <1>2 DEF OneBackupInterface


----------------------------------------------------------------------------
\* The database.  What is recorded as done has been done with that image,
\* the migrations only ever run with an image db sync has completed with, and
\* a reconcile that deploys has found both done for its copy of the spec.
MigratedInv ==
  /\ db["migrations"] \subseteq db["dbsync"]
  /\ \A j \in Job : /\ job[j].state = "done" => job[j].image \in db[j]
                    /\ cr.hash[j] \in db[j] \cup {Nil}
                    /\ par.hash[j] \in db[j] \cup {Nil}
  /\ job["migrations"].state # "none" => job["migrations"].image \in db["dbsync"]
  /\ par.pc \in {"migrations", "deploy"} => par.spec.api.image \in db["dbsync"]
  /\ par.pc = "deploy" => par.spec.api.image \in db["migrations"]
  /\ child["api"].phase # "absent" =>
       \A j \in Job : child["api"].tmpl.image \in db[j]

\* Nothing is recorded and nothing is deployed at first.
LEMMA InitMigrated == Init => MigratedInv
BY NameAssumption DEF Init, MigratedInv, Idle, NoChild, NoJob, Service, Job

\* The jobs: one is done, or replaced by one for the image of the spec.
LEMMA JobMigrated ==
  ASSUME TypeOK, SpecInv, MigratedInv,
         NEW j \in Job, PJobDone(j) \/ PJobStart(j) \/ PJobWait(j)
  PROVE  MigratedInv'
<1> USE DEF TypeOK
<1> DEFINE i == par.spec.api.image
<1>1. par.pc = j /\ i \in Images /\ i # Nil
  <2>1. par.pc = j /\ par.pc # "idle"
    BY DEF PJobDone, PJobStart, PJobWait, Job
  <2>2. i \in Images
    BY <2>1, StoredImage DEF SpecInv, Local
  <2> QED BY <2>1, <2>2, ImageAssumption
<1>2. UNCHANGED <<cr, child, db>> /\ par'.spec = par.spec
  BY DEF PJobDone, PJobStart, PJobWait, Stopped, Returned, Local
<1>3. CASE PJobDone(j)
  <2>1. i \in db[j]
    BY <1>1, <1>3 DEF PJobDone, MigratedInv
  <2>2. par'.hash = [par.hash EXCEPT ![j] = i] /\ par'.pc = JobNext[j] /\ job' = job
    BY <1>3 DEF PJobDone, Local
  <2>3. \A k \in Job : par'.hash[k] \in db[k] \cup {Nil}
    BY <2>1, <2>2 DEF MigratedInv, Local
  <2>4. par'.pc \in {"migrations", "deploy"} => i \in db["dbsync"]
    BY <1>1, <2>1 DEF MigratedInv, Job
  <2>5. par'.pc = "deploy" => j = "migrations"
    BY <2>2 DEF JobNext, Job
  <2> QED BY <1>2, <2>1, <2>2, <2>3, <2>4, <2>5 DEF MigratedInv
<1>4. CASE PJobStart(j)
  <2>1. par'.pc = "patch" /\ par'.hash = par.hash
    BY <1>4 DEF PJobStart, Stopped, Returned, Local
  <2>2. \A k \in Job : job'[k].state = "done" =>
          job[k].state = "done" /\ job'[k] = job[k]
    BY <1>4 DEF PJobStart
  <2>3. job'["migrations"].state # "none" => job'["migrations"].image \in db["dbsync"]
    BY <1>1, <1>4 DEF PJobStart, MigratedInv, Job
  <2> QED BY <1>2, <2>1, <2>2, <2>3 DEF MigratedInv
<1>5. CASE PJobWait(j)
  <2>1. par'.pc = "patch" /\ par'.hash = par.hash /\ job' = job
    BY <1>5 DEF PJobWait, Stopped, Returned, Local
  <2> QED BY <1>2, <2>1 DEF MigratedInv
<1> QED BY <1>3, <1>4, <1>5

\* The API is deployed with the image both jobs are done for.
LEMMA DeployMigrated ==
  ASSUME TypeOK, SpecInv, MigratedInv, NEW s \in Service, PDeploy(s)
  PROVE  MigratedInv'
<1> USE DEF TypeOK
<1>1. UNCHANGED <<cr, job, db>> /\ par.pc = "deploy"
  BY DEF PDeploy
<1>2. "api" \in Service /\ "api" \in Core
  BY NameAssumption DEF Service
<1>3. par'.pc = "deploy" /\ par'.spec = par.spec /\ par'.hash = par.hash
  BY DeployFrame
<1>4. child'["api"].phase # "absent" =>
        \A j \in Job : child'["api"].tmpl.image \in db[j]
  <2>1. CASE s = "api"
    <3>1. TemplateOf(par.spec, "api") = par.spec.api
      BY NameAssumption DEF TemplateOf
    <3>2. par.spec.api \in Template
      BY DeployFrame, SpecFields
    <3>3. child'["api"].tmpl = par.spec.api
      BY <1>2, <2>1, <3>1, <3>2, DeployFrame, ChildUpdates
    <3>4. \A j \in Job : par.spec.api.image \in db[j]
      BY <1>1 DEF MigratedInv, Job
    <3> QED BY <3>3, <3>4
  <2>2. CASE s # "api"
    BY <1>2, <2>2, DeployFrame DEF MigratedInv
  <2> QED BY <2>1, <2>2
<1> QED BY <1>1, <1>3, <1>4 DEF MigratedInv

\* The other steps of a reconcile neither run a Job nor deploy a child, and
\* record in the status only what this reconcile has found done.
LEMMA ReconcileMigrated ==
  ASSUME TypeOK, SpecInv, MigratedInv,
         \/ PFetch \/ PRequire \/ PRequireFail
         \/ PCleanup \/ PFinish \/ PDeployFail \/ PPatch \/ Crash
  PROVE  MigratedInv'
<1> USE DEF TypeOK
<1>1. UNCHANGED <<job, db>>
  BY DEF PFetch, PRequire, PRequireFail, PCleanup, PFinish, PDeployFail, PPatch, Crash
<1>2. par'.pc \notin {"migrations", "deploy"}
  <2>1. CASE PFetch
    BY <2>1, FetchFrame
  <2>2. CASE PFinish
    BY <2>2, FinishFrame
  <2>3. CASE PRequire
    BY <2>3 DEF PRequire, Stopped, Returned, Local
  <2>4. CASE PRequireFail \/ PDeployFail
    BY <2>4 DEF PRequireFail, PDeployFail, Stopped, Returned, Local
  <2>5. CASE PCleanup
    BY <2>5 DEF PCleanup, Local
  <2>6. CASE PPatch \/ Crash
    BY <2>6 DEF PPatch, Crash, Idle
  <2> QED BY <2>1, <2>2, <2>3, <2>4, <2>5, <2>6
<1>3. \A j \in Job : /\ cr'.hash[j] \in db[j] \cup {Nil}
                     /\ par'.hash[j] \in db[j] \cup {Nil}
  <2>1. CASE PFetch
    BY <2>1, FetchFrame DEF PFetch, MigratedInv
  <2>2. CASE PFinish
    BY <2>2, FinishFrame DEF MigratedInv
  <2>3. CASE PRequire \/ PRequireFail \/ PDeployFail \/ PCleanup
    <3>1. cr' = cr /\ par'.hash = par.hash
      BY <2>3
         DEF PRequire, PRequireFail, PDeployFail, PCleanup, Stopped, Returned, Local
    <3> QED BY <3>1 DEF MigratedInv
  <2>4. CASE PPatch
    <3>1. cr'.hash = par.hash /\ par'.hash = [j \in Job |-> Nil]
      BY <2>4 DEF PPatch, Published, Idle, CinderCR
    <3> QED BY <3>1 DEF MigratedInv
  <2>5. CASE Crash
    BY <2>5 DEF Crash, Idle, MigratedInv
  <2> QED BY <2>1, <2>2, <2>3, <2>4, <2>5
<1>4. /\ child'["api"].phase = "absent" <=> child["api"].phase = "absent"
      /\ child'["api"].tmpl = child["api"].tmpl
  <2>1. "api" \in Service /\ "api" \notin Volumes
    BY NameAssumption DEF Service
  <2>2. child'["api"] = child["api"]
    BY <2>1
       DEF PFetch, PRequire, PRequireFail, PCleanup, PFinish, PDeployFail, PPatch, Crash
  <2> QED BY <2>2
<1> QED BY <1>1, <1>2, <1>3, <1>4 DEF MigratedInv

\* A Job that finishes adds to what the database has seen, and one that is
\* removed or fails takes nothing away.
LEMMA OutsideMigrated ==
  ASSUME TypeOK, SpecInv, MigratedInv,
         \/ \E raw \in RawSpecs : Submit(raw)
         \/ \E s \in Service : ChildStep(s) \/ ChildUnready(s)
         \/ \E j \in Job : \/ JobFinishes(j) \/ JobRemoved(j)
                           \/ JobFails(j) \/ JobExpires(j)
  PROVE  MigratedInv'
<1> USE DEF TypeOK
<1>1. ASSUME NEW raw \in RawSpecs, Submit(raw) PROVE MigratedInv'
  <2>1. cr'.hash = cr.hash
    BY <1>1 DEF Submit, CinderCR
  <2> QED BY <1>1, <2>1 DEF Submit, MigratedInv
<1>2. ASSUME NEW s \in Service, ChildStep(s) \/ ChildUnready(s) PROVE MigratedInv'
  <2>1. UNCHANGED <<cr, par, job, db>>
    BY <1>2
       DEF ChildStep, ChildObserves, ChildReady, ChildLate, ChildGone, ChildUnready
  <2>2. child'["api"].phase # "absent" =>
          child["api"].phase # "absent" /\ child'["api"].tmpl = child["api"].tmpl
    <3>1. "api" \in Service
      BY NameAssumption DEF Service
    <3> QED
      BY <1>2, <3>1
         DEF ChildStep, ChildObserves, ChildReady, ChildLate, ChildGone,
             ChildUnready, NoChild, ChildCR
  <2> QED BY <2>1, <2>2 DEF MigratedInv
<1>3. ASSUME NEW j \in Job,
             JobFinishes(j) \/ JobRemoved(j) \/ JobFails(j) \/ JobExpires(j)
      PROVE  MigratedInv'
  <2>1. UNCHANGED <<cr, par, child>>
    BY <1>3 DEF JobFinishes, JobRemoved, JobFails, JobExpires
  <2>2. \A k \in Job : db[k] \subseteq db'[k]
    BY <1>3 DEF JobFinishes, JobRemoved, JobFails, JobExpires
  <2>3. \A k \in Job :
          /\ job'[k].state = "done" => job'[k].image \in db'[k]
          /\ job'[k].state # "none" =>
               job[k].state # "none" /\ job'[k].image = job[k].image
    BY <1>3
       DEF JobFinishes, JobRemoved, JobFails, JobExpires, NoJob, JobState, MigratedInv
  <2>4. db'["migrations"] \subseteq db'["dbsync"]
    BY <1>3 DEF JobFinishes, JobRemoved, JobFails, JobExpires, MigratedInv, Job
  <2>5. "migrations" \in Job /\ "dbsync" \in Job
    BY DEF Job
  <2> QED BY <2>1, <2>2, <2>3, <2>4, <2>5 DEF MigratedInv
<1> QED BY <1>1, <1>2, <1>3

\* The migrations invariant is inductive.
LEMMA StepsMigrated ==
  ASSUME TypeOK, SpecInv, MigratedInv, [Next]_vars
  PROVE  MigratedInv'
<1>1. CASE UNCHANGED vars
  BY <1>1 DEF vars, MigratedInv
<1>2. CASE Next
  <2>1. CASE \/ PFetch \/ PRequire \/ PRequireFail
             \/ PCleanup \/ PFinish \/ PDeployFail \/ PPatch \/ Crash
    BY <2>1, ReconcileMigrated
  <2>2. CASE \E j \in Job : PJobDone(j) \/ PJobStart(j) \/ PJobWait(j)
    BY <2>2, JobMigrated
  <2>3. CASE \E s \in Service : PDeploy(s)
    BY <2>3, DeployMigrated
  <2>4. CASE \/ \E raw \in RawSpecs : Submit(raw)
             \/ \E s \in Service : ChildStep(s) \/ ChildUnready(s)
             \/ \E j \in Job : \/ JobFinishes(j) \/ JobRemoved(j)
                               \/ JobFails(j) \/ JobExpires(j)
    BY <2>4, OutsideMigrated
  <2> QED BY <1>2, <2>1, <2>2, <2>3, <2>4 DEF Next, ControllerStep, Fault
<1> QED BY <1>1, <1>2

\* The API never has an image the database has not been migrated to, in that
\* order, whatever becomes of Jobs and whenever the operator dies.
THEOREM MigratedFirst == Spec => []MigratedBeforeDeploy
<1>1. MigratedInv => MigratedBeforeDeploy
  BY DEF MigratedInv, MigratedBeforeDeploy
<1>2. TypeOK /\ SpecInv /\ MigratedInv /\ [Next]_vars => MigratedInv'
  BY StepsMigrated
<1> QED BY <1>1, <1>2, InitMigrated, AdmittedAlways, PTL DEF Spec


----------------------------------------------------------------------------
\* Ready.  The services whose conditions speak for each of them: all but the
\* backups of the list, whose shared condition is updated one after the other.
Counted == Wanted(cr.spec) \ ListBackups

\* What the reconcile in progress holds of a service it has come across.
Judged(s) ==
  IF s \in Volumes THEN "Volume" \in par.waiting \cup par.bad \/ RolledOut(s)
  ELSE par.conds[ConditionOf(s)] = "True" => RolledOut(s)

\* As long as no request is queued, nothing has changed since the reconcile
\* fetched the CR but by its own steps: what it has found out still holds.
CurrentInv ==
  /\ par.pc # "idle" => par.spec = cr.spec
  /\ par.pc = "deploy" => \A s \in Counted \ par.todo : Judged(s)
  /\ par.pc = "finish" =>
       \A s \in Counted : par.conds[ConditionOf(s)] = "True" => RolledOut(s)
  /\ par.pc = "patch" /\ par.conds["Ready"] = "True" =>
       \A s \in Counted : RolledOut(s)
  /\ par.pc = "idle" /\ PublishedReady => \A s \in Counted : RolledOut(s)

\* A reconcile decides on Ready last and on the volumes after the last of
\* them, and a CR that is being deleted has a generation nobody has observed.
ReadyInv ==
  /\ par.pc # "patch" => par.conds["Ready"] = "Unknown"
  /\ par.pc \in {"require", "dbsync", "migrations", "deploy"} =>
       par.conds["Volume"] = "Unknown"
  /\ \A s \in Service : child[s].phase = "deleting" => ~child[s].seen
  /\ ~queued => CurrentInv

\* Nothing claims to be ready at first.
LEMMA InitReady == Init => ReadyInv
BY DEF Init, ReadyInv, CurrentInv, Idle, AllUnknown, Condition, NoChild, PublishedReady

\* A service that counts is of a kind that is deployed on its own or a volume.
LEMMA CountedKinds ==
  ASSUME TypeOK, cr.spec # Nil, NEW s \in Counted
  PROVE  /\ s \in Service /\ s \in Visited(cr.spec)
         /\ s \in Core \/ s = "backup" \/ s \in Volumes
         /\ s = "backup" => LegacyBackup(cr.spec)
         /\ ConditionOf(s) \in Condition \ {"Ready"}
         /\ s \in Volumes <=> ConditionOf(s) = "Volume"
         /\ s = "backup" <=> ConditionOf(s) = "Backup"
<1>1. cr.spec \in UserSpec
  BY DEF TypeOK, CinderCR
<1>2. BackupNames(cr.spec) \subseteq ListBackups /\ DOMAIN cr.spec.volumes \subseteq Volumes
  BY <1>1, SpecFields, NamedDefault DEF BackupNames
<1>3. s \in Core \/ s \in DOMAIN cr.spec.volumes \/ (s = "backup" /\ LegacyBackup(cr.spec))
  BY <1>2 DEF Counted, Wanted
<1>4. /\ s \in Core \/ s = "backup" \/ s \in Volumes
      /\ s = "backup" => LegacyBackup(cr.spec)
  BY <1>2, <1>3, NameAssumption
<1>5. s \in Service /\ s \in Visited(cr.spec)
  BY <1>3, <1>4 DEF Service, Visited
<1>6. CASE s \in Volumes
  <2>1. ConditionOf(s) = "Volume" /\ s # "backup"
    BY <1>6, NameAssumption DEF ConditionOf
  <2> QED BY <1>4, <1>5, <1>6, <2>1 DEF Condition
<1>7. CASE s \notin Volumes
  <2>1. s \in {"api", "scheduler", "backup"}
    BY <1>4, <1>7, NameAssumption
  <2>2. /\ s = "api" => ConditionOf(s) = "API"
        /\ s = "scheduler" => ConditionOf(s) = "Scheduler"
        /\ s = "backup" => ConditionOf(s) = "Backup"
    BY <1>7, <2>1 DEF ConditionOf
  <2> QED BY <1>4, <1>5, <1>7, <2>1, <2>2 DEF Condition
<1> QED BY <1>6, <1>7

\* The CR that CreateOrPatch leaves behind; a deletion is observed by nobody.
LEMMA DeployedReady ==
  ASSUME NEW c \in ChildCR, NEW t \in Template,
         c.phase = "deleting" => ~c.seen
  PROVE  LET d == Deployed(c, t)
         IN  /\ d.phase = "deleting" => ~d.seen
             /\ Matches(d) => d.phase = "live" /\ d.tmpl = t
             /\ Removed(c).phase = "deleting" => ~Removed(c).seen
BY DEF Deployed, Removed, NoChild, Matches, ChildCR


\* What PDeploy finds out: about its own service and nothing about others.
LEMMA DeployJudges ==
  ASSUME TypeOK, SpecInv, NEW s \in Service, PDeploy(s)
  PROVE  /\ par'.conds \in [Condition -> Status]
         /\ \A c \in Condition : c # ConditionOf(s) \/ s \in Volumes =>
              par'.conds[c] = par.conds[c]
         /\ par.waiting \subseteq par'.waiting /\ par.bad \subseteq par'.bad
         /\ s \in Core \/ (s = "backup" /\ LegacyBackup(par.spec)) =>
              /\ child'[s] = Deployed(child[s], TemplateOf(par.spec, s))
              /\ par'.conds[ConditionOf(s)] = "True" =>
                   Matches(child'[s]) /\ child'[s].ready
         /\ s \in Volumes =>
              /\ child'[s] = Deployed(child[s], TemplateOf(par.spec, s))
              /\ \/ "Volume" \in par'.waiting \cup par'.bad
                 \/ Matches(child'[s]) /\ child'[s].ready
         /\ s \in ListBackups => s \in Wanted(par.spec) \/ par'.conds = par.conds
<1> USE DEF TypeOK
<1> DEFINE c == Deployed(child[s], TemplateOf(par.spec, s))
<1>1. /\ s \in Core => s \notin ListBackups /\ s \notin Volumes /\ s # "backup"
      /\ s \in ListBackups => s \notin Volumes /\ s # "backup"
      /\ s \in Volumes => s # "backup"
  BY NameAssumption
<1>2. /\ s = "backup" => ConditionOf(s) = "Backup"
      /\ s \in ListBackups => ConditionOf(s) = "Backup"
      /\ s \in Core => ConditionOf(s) \in {"API", "Scheduler"}
  BY <1>1, NameAssumption DEF ConditionOf
<1>3. par' \in Local
  BY DeployTypes DEF TypeOK
<1>4. par'.conds \in [Condition -> Status]
  BY <1>3 DEF Local
<1> HIDE DEF c
<1>5. CASE PDeploySingle(s)
  <2> DEFINE st == IF Matches(c) THEN Mirror(c) ELSE "Unknown"
  <2>1. child'[s] = c
    BY <1>5 DEF PDeploySingle, c
  <2>2. par' = [Marked(par, ConditionOf(s), st) EXCEPT !.todo = @ \ {s}]
    BY <1>5 DEF PDeploySingle, c
  <2>3. st = "True" => Matches(c) /\ c.ready
    BY DEF Mirror
  <2>4. ConditionOf(s) \in Condition
    BY <1>2, <1>5 DEF PDeploySingle, Condition
  <2> HIDE DEF st
  <2>5. /\ par'.conds = [par.conds EXCEPT ![ConditionOf(s)] = st]
        /\ par'.waiting = par.waiting /\ par'.bad = par.bad
    BY <2>2 DEF Marked, Local
  <2>6. s \notin Volumes /\ s \notin ListBackups
    BY <1>1, <1>5 DEF PDeploySingle
  <2>7. \A k \in Condition : k # ConditionOf(s) => par'.conds[k] = par.conds[k]
    BY <2>5 DEF Local
  <2>8. par'.conds[ConditionOf(s)] = st
    BY <2>4, <2>5 DEF Local
  <2> QED BY <1>4, <2>1, <2>3, <2>5, <2>6, <2>7, <2>8 DEF c
<1>6. CASE PSkipLegacy(s)
  <2>1. /\ par'.conds = [par.conds EXCEPT !["Backup"] = "True"]
        /\ par'.waiting = par.waiting /\ par'.bad = par.bad
    BY <1>6 DEF PSkipLegacy, Marked, Local
  <2>2. \A k \in Condition : k # "Backup" => par'.conds[k] = par.conds[k]
    BY <2>1 DEF Local
  <2> QED BY <1>1, <1>2, <1>4, <1>6, <2>1, <2>2 DEF PSkipLegacy
<1>7. CASE PDeployBackup(s)
  <2> DEFINE w == Waiting("Backup", c)
             b == Bad("Backup", c)
             v == Combined("Backup", w, b, par.conds["Backup"])
  <2>1. par' = [par EXCEPT !.waiting = w, !.bad = b,
                           !.conds["Backup"] = Combined("Backup", w, b, @),
                           !.todo = @ \ {s}]
    BY <1>7 DEF PDeployBackup, c
  <2>2. par.waiting \subseteq w /\ par.bad \subseteq b
    BY DEF Waiting, Bad
  <2> HIDE DEF w, b
  <2>3. /\ par'.conds = [par.conds EXCEPT !["Backup"] = v]
        /\ par'.waiting = w /\ par'.bad = b
    BY <2>1 DEF Local
  <2>4. \A k \in Condition : k # "Backup" => par'.conds[k] = par.conds[k]
    BY <2>3 DEF Local
  <2>5. s \in ListBackups /\ s \in Wanted(par.spec)
    BY <1>7 DEF PDeployBackup
  <2> QED BY <1>1, <1>2, <1>4, <2>2, <2>3, <2>4, <2>5
<1>8. CASE PSkipBackup(s)
  <2>1. /\ s \in ListBackups
        /\ par'.conds = par.conds /\ par'.waiting = par.waiting /\ par'.bad = par.bad
    BY <1>8 DEF PSkipBackup, Local
  <2> QED BY <1>1, <1>4, <2>1
<1>9. CASE PDeployVolume(s)
  <2> DEFINE w == Waiting("Volume", c)
             b == Bad("Volume", c)
  <2>1. child'[s] = c /\ s \in Volumes
    BY <1>9 DEF PDeployVolume, c
  <2>2. par' = [par EXCEPT !.waiting = w, !.bad = b, !.todo = @ \ {s}]
    BY <1>9 DEF PDeployVolume, c
  <2>3. par.waiting \subseteq w /\ par.bad \subseteq b
    BY DEF Waiting, Bad
  <2>4. "Volume" \in w \cup b \/ (Matches(c) /\ c.ready)
    BY DEF Waiting, Bad
  <2> HIDE DEF w, b
  <2>5. par'.conds = par.conds /\ par'.waiting = w /\ par'.bad = b
    BY <2>2 DEF Local
  <2> QED BY <1>1, <1>4, <2>1, <2>3, <2>4, <2>5 DEF c
<1> QED BY <1>5, <1>6, <1>7, <1>8, <1>9 DEF PDeploy


\* A child that is deployed is judged by the generation this write gave it.
LEMMA DeployReady ==
  ASSUME TypeOK, SpecInv, ReadyInv, NEW s \in Service, PDeploy(s)
  PROVE  ReadyInv'
<1>1. UNCHANGED <<cr, job, db, queued, faults>> /\ par.pc = "deploy" /\ s \in par.todo
  BY DEF PDeploy
<1>2. /\ par.spec \in UserSpec /\ par'.pc = "deploy" /\ par'.spec = par.spec
      /\ par'.todo = par.todo \ {s}
      /\ \A r \in Service \ {s} : child'[r] = child[r]
      /\ TemplateOf(par.spec, s) \in Template
  BY DeployFrame, VisitedTemplate
<1>3. par'.conds["Ready"] = "Unknown" /\ par'.conds["Volume"] = "Unknown"
  <2>1. s \in Volumes \/ (ConditionOf(s) # "Ready" /\ ConditionOf(s) # "Volume")
    BY DEF ConditionOf
  <2>2. "Ready" \in Condition /\ "Volume" \in Condition
    BY DEF Condition
  <2>3. par.conds["Ready"] = "Unknown" /\ par.conds["Volume"] = "Unknown"
    BY <1>1 DEF ReadyInv
  <2> QED BY <2>1, <2>2, <2>3, DeployJudges
<1>4. child[s] \in ChildCR /\ (child[s].phase = "deleting" => ~child[s].seen)
  BY DEF TypeOK, ReadyInv
<1>5. \A r \in Service : child'[r].phase = "deleting" => ~child'[r].seen
  <2>1. child'[s].phase = "deleting" => ~child'[s].seen
    BY <1>2, <1>4, DeployFrame, DeployedReady
  <2> QED BY <1>2, <2>1 DEF ReadyInv
<1>6. ASSUME ~queued PROVE CurrentInv'
  <2>1. par.spec = cr.spec /\ cr.spec # Nil
    BY <1>1, <1>6 DEF ReadyInv, CurrentInv, SpecInv
  <2>2. Counted' = Counted
    BY <1>1 DEF Counted
  <2>3. ASSUME NEW r \in Counted \ par'.todo PROVE Judged(r)'
    <3>1. /\ r \in Service
          /\ r \in Core \/ r = "backup" \/ r \in Volumes
          /\ r = "backup" => LegacyBackup(cr.spec)
          /\ r \in Volumes <=> ConditionOf(r) = "Volume"
          /\ r = "backup" <=> ConditionOf(r) = "Backup"
          /\ ConditionOf(r) \in Condition
      BY <2>1, CountedKinds
    <3>2. CASE r = s
      <4>1. ASSUME child'[s] = Deployed(child[s], TemplateOf(par.spec, s)),
                   Matches(child'[s]), child'[s].ready
            PROVE  RolledOut(s)'
        <5>1. /\ child'[s].phase = "live"
              /\ child'[s].tmpl = TemplateOf(par.spec, s)
          BY <1>2, <1>4, <4>1, DeployedReady
        <5> QED BY <1>1, <2>1, <4>1, <5>1 DEF RolledOut, Matches
      <4>2. CASE r \in Volumes
        BY <3>2, <4>1, <4>2, DeployJudges DEF Judged
      <4>3. CASE r \notin Volumes
        BY <2>1, <3>1, <3>2, <4>1, <4>3, DeployJudges DEF Judged
      <4> QED BY <4>2, <4>3
    <3>3. CASE r # s
      <4>1. Judged(r)
        BY <1>1, <1>2, <1>6, <2>3, <3>3 DEF ReadyInv, CurrentInv
      <4>2. RolledOut(r)' <=> RolledOut(r)
        <5>1. child'[r] = child[r] /\ cr' = cr
          BY <1>1, <1>2, <3>1, <3>3
        <5> QED BY <5>1, Zenon DEF RolledOut, Matches
      <4>3. CASE r \in Volumes
        BY <4>1, <4>2, <4>3, DeployJudges DEF Judged
      <4>4. CASE r \notin Volumes
        <5>1. par'.conds[ConditionOf(r)] = par.conds[ConditionOf(r)]
          <6>1. CASE ConditionOf(s) # ConditionOf(r) \/ s \in Volumes
            BY <3>1, <6>1, DeployJudges
          <6>2. CASE ConditionOf(s) = ConditionOf(r) /\ s \notin Volumes
            <7>1. s \in ListBackups /\ r = "backup"
              <8>1. /\ s = "api" => ConditionOf(s) = "API"
                    /\ s = "scheduler" => ConditionOf(s) = "Scheduler"
                    /\ r = "api" => ConditionOf(r) = "API"
                    /\ r = "scheduler" => ConditionOf(r) = "Scheduler"
                    /\ s = "backup" => ConditionOf(s) = "Backup"
                    /\ s \in ListBackups => ConditionOf(s) = "Backup"
                BY NameAssumption DEF ConditionOf
              <8>2. /\ r \in {"api", "scheduler", "backup"}
                    /\ s \in {"api", "scheduler", "backup"} \cup ListBackups
                BY <3>1, <4>4, <6>2, NameAssumption DEF Service
              <8> QED BY <3>1, <3>3, <6>2, <8>1, <8>2
            <7>2. s \notin Wanted(par.spec)
              <8>1. par.spec.backups = Nil
                BY <2>1, <3>1, <7>1 DEF LegacyBackup
              <8>2. DOMAIN par.spec.volumes \subseteq Volumes
                BY <1>2, SpecFields, NamedDefault
              <8> QED BY <7>1, <8>1, <8>2, NameAssumption DEF Wanted, BackupNames
            <7> QED BY <7>1, <7>2, DeployJudges
          <6> QED BY <6>1, <6>2
        <5> QED BY <4>1, <4>2, <4>4, <5>1 DEF Judged
      <4> QED BY <4>3, <4>4
    <3> QED BY <3>2, <3>3
  <2> QED BY <1>1, <1>2, <2>1, <2>2, <2>3 DEF CurrentInv
<1> QED BY <1>1, <1>2, <1>3, <1>5, <1>6 DEF ReadyInv


\* A reconcile that starts, or is lost, has judged nothing yet.
LEMMA StartReady ==
  ASSUME TypeOK, SpecInv, ReadyInv, PFetch \/ PRequire \/ PRequireFail \/ Crash
  PROVE  ReadyInv'
<1> USE DEF TypeOK
<1>1. UNCHANGED child
  BY DEF PFetch, PRequire, PRequireFail, Crash
<1>2. /\ AllUnknown["Ready"] = "Unknown" /\ AllUnknown["Volume"] = "Unknown"
  BY DEF AllUnknown, Condition
<1>3. CASE PFetch
  <2>1. /\ cr' = cr /\ par'.spec = cr.spec
        /\ par'.pc \in {"require", "patch"} /\ par'.conds = AllUnknown
    <3>1. cr' = cr
      BY <1>3 DEF PFetch
    <3> QED BY <1>3, <3>1, FetchFrame
  <2> QED BY <1>1, <1>2, <2>1 DEF ReadyInv, CurrentInv
<1>4. CASE PRequire
  <2>1. /\ UNCHANGED <<cr, queued>> /\ par.pc = "require"
        /\ par'.spec = par.spec /\ par'.conds = par.conds
        /\ par'.pc \in {"patch", "dbsync"}
    BY <1>4 DEF PRequire, Stopped, Returned, Local
  <2> QED BY <1>1, <2>1 DEF ReadyInv, CurrentInv
<1>5. CASE PRequireFail
  <2>1. /\ UNCHANGED <<cr, queued>> /\ par.pc = "require"
        /\ par'.spec = par.spec /\ par'.conds = par.conds
        /\ par'.pc = "patch"
    BY <1>5 DEF PRequireFail, Stopped, Returned, Local
  <2> QED BY <1>1, <2>1 DEF ReadyInv, CurrentInv
<1>6. CASE Crash
  <2>1. par'.pc = "idle" /\ par'.conds = AllUnknown /\ queued' = TRUE
    BY <1>6 DEF Crash, Idle
  <2> QED BY <1>1, <1>2, <2>1 DEF ReadyInv
<1> QED BY <1>3, <1>4, <1>5, <1>6

\* The deployment starts with every service that counts still to come.
LEMMA JobReady ==
  ASSUME TypeOK, SpecInv, ReadyInv,
         NEW j \in Job, PJobDone(j) \/ PJobStart(j) \/ PJobWait(j)
  PROVE  ReadyInv'
<1> USE DEF TypeOK
<1>1. /\ UNCHANGED <<cr, child, queued>> /\ par.pc = j
      /\ par'.spec = par.spec /\ par'.conds = par.conds
      /\ par'.pc \in {"migrations", "deploy", "patch"}
      /\ par'.pc = "deploy" => par'.todo = Visited(par.spec)
  <2>1. CASE PJobDone(j)
    BY <2>1 DEF PJobDone, JobNext, Job, Local
  <2>2. CASE PJobStart(j) \/ PJobWait(j)
    BY <2>2 DEF PJobStart, PJobWait, Stopped, Returned, Local
  <2> QED BY <2>1, <2>2
<1>2. par.conds["Ready"] = "Unknown" /\ par.conds["Volume"] = "Unknown"
  BY <1>1 DEF ReadyInv, Job
<1>3. ASSUME ~queued PROVE CurrentInv'
  <2>1. par.spec = cr.spec /\ cr.spec # Nil
    BY <1>1, <1>3 DEF ReadyInv, CurrentInv, SpecInv, Job
  <2>2. par'.pc = "deploy" => Counted' \ par'.todo = {}
    BY <1>1, <2>1, CountedKinds DEF Counted
  <2> QED BY <1>1, <1>2, <2>1, <2>2 DEF CurrentInv
<1> QED BY <1>1, <1>2, <1>3 DEF ReadyInv

\* The verdict on the volumes, after the last of them.
LEMMA CleanupReady ==
  ASSUME TypeOK, SpecInv, ReadyInv, PCleanup
  PROVE  ReadyInv'
<1> USE DEF TypeOK
<1> DEFINE v == Combined("Volume", par.waiting, par.bad, par.conds["Volume"])
<1>1. /\ UNCHANGED <<cr, queued>> /\ par.pc = "deploy" /\ par.todo = {}
      /\ par'.pc = "finish" /\ par'.spec = par.spec
      /\ par'.conds = [par.conds EXCEPT !["Volume"] = v]
  BY DEF PCleanup, Local
<1>2. /\ par.spec \in UserSpec
      /\ par.conds["Ready"] = "Unknown" /\ par.conds["Volume"] = "Unknown"
  BY <1>1 DEF SpecInv, ReadyInv, Local
<1>3. \A c \in Condition \ {"Volume"} : par'.conds[c] = par.conds[c]
  BY <1>1 DEF Local
<1>4. par'.conds["Volume"] = "True" => "Volume" \notin par.waiting \cup par.bad
  BY <1>1, <1>2 DEF Combined, Local, Condition
<1>5. \A s \in Service :
        child'[s] = IF s \in Volumes \ DOMAIN par.spec.volumes
                    THEN Removed(child[s]) ELSE child[s]
  BY DEF PCleanup
<1>6. \A s \in Service : child'[s].phase = "deleting" => ~child'[s].seen
  <2>1. \A s \in Service : /\ child[s] \in ChildCR
                           /\ child[s].phase = "deleting" => ~child[s].seen
    BY DEF ReadyInv
  <2>2. \A s \in Service : Removed(child[s]).phase = "deleting" =>
                             ~Removed(child[s]).seen
    BY <2>1 DEF Removed, ChildCR
  <2> QED BY <1>5, <2>1, <2>2
<1>7. ASSUME ~queued PROVE CurrentInv'
  <2>1. par.spec = cr.spec /\ cr.spec # Nil
    BY <1>1, <1>7 DEF ReadyInv, CurrentInv, SpecInv
  <2>2. ASSUME NEW s \in Counted, par'.conds[ConditionOf(s)] = "True"
        PROVE  RolledOut(s)'
    <3>1. /\ s \in Service /\ ConditionOf(s) \in Condition
          /\ s \in Volumes <=> ConditionOf(s) = "Volume"
          /\ s \in Volumes => s \in DOMAIN cr.spec.volumes
      BY <1>2, <2>1, CountedKinds, VisitedTemplate
    <3>2. Judged(s)
      BY <1>1, <1>7 DEF ReadyInv, CurrentInv
    <3>3. RolledOut(s)
      BY <1>3, <1>4, <2>2, <3>1, <3>2 DEF Judged
    <3>4. child'[s] = child[s] /\ cr' = cr
      BY <1>1, <1>5, <2>1, <3>1
    <3> QED BY <3>3, <3>4, Zenon DEF RolledOut, Matches
  <2>3. Counted' = Counted
    BY <1>1 DEF Counted
  <2> QED BY <1>1, <2>1, <2>2, <2>3 DEF CurrentInv
<1>8. "Ready" \in Condition
  BY DEF Condition
<1> QED BY <1>1, <1>2, <1>3, <1>6, <1>7, <1>8 DEF ReadyInv

\* The Ready condition is published only for what the reconcile has judged.
LEMMA EndReady ==
  ASSUME TypeOK, SpecInv, ReadyInv, PFinish \/ PDeployFail \/ PPatch
  PROVE  ReadyInv'
<1> USE DEF TypeOK
<1>1. CASE PFinish
  <2>1. /\ UNCHANGED <<cr, child, queued>> /\ par.pc = "finish"
        /\ par'.pc = "patch" /\ par'.spec = par.spec
        /\ par'.conds = IF IsReady(par) THEN [par.conds EXCEPT !["Ready"] = "True"]
                        ELSE par.conds
    BY <1>1, FinishFrame
  <2>2. par'.conds["Ready"] = "True" => IsReady(par)
    BY <2>1 DEF ReadyInv
  <2>3. ASSUME ~queued, par'.conds["Ready"] = "True", NEW s \in Counted
        PROVE  RolledOut(s)
    <3>1. cr.spec # Nil
      BY <2>1, <2>3 DEF ReadyInv, CurrentInv, SpecInv
    <3>2. ConditionOf(s) \in {ConditionOf(r) : r \in Core} \cup {"Backup", "Volume"}
      BY <3>1, CountedKinds
    <3>3. par.conds[ConditionOf(s)] = "True"
      BY <2>2, <2>3, <3>2 DEF IsReady
    <3> QED BY <2>1, <2>3, <3>3 DEF ReadyInv, CurrentInv
  <2>4. \A s : RolledOut(s)' <=> RolledOut(s)
    BY <2>1, Zenon DEF RolledOut, Matches
  <2>5. Counted' = Counted
    BY <2>1 DEF Counted
  <2> QED BY <2>1, <2>3, <2>4, <2>5 DEF ReadyInv, CurrentInv
<1>2. CASE PDeployFail
  <2>1. /\ UNCHANGED <<cr, child, queued>> /\ par.pc \in {"deploy", "finish"}
        /\ par'.spec = par.spec /\ par'.conds = par.conds
        /\ par'.pc = "patch"
    BY <1>2 DEF PDeployFail, Returned, Local
  <2> QED BY <2>1 DEF ReadyInv, CurrentInv
<1>3. CASE PPatch
  <2>1. /\ UNCHANGED child /\ par.pc = "patch"
        /\ par'.pc = "idle" /\ par'.conds = AllUnknown
        /\ ~queued' => ~queued
        /\ cr'.spec = cr.spec
    BY <1>3 DEF PPatch, Published, Idle, CinderCR
  <2>2. cr'.conds["Ready"] = "True" => par.conds["Ready"] = "True"
    <3>1. cr'.conds = IF par.conds["Ready"] = "Unknown"
                      THEN [par.conds EXCEPT !["Ready"] = Mirrored(par)]
                      ELSE par.conds
      BY <1>3 DEF PPatch, Published, CinderCR
    <3>2. Mirrored(par) # "True"
      BY DEF Mirrored
    <3> QED BY <3>1, <3>2 DEF Local, Condition
  <2>3. AllUnknown["Ready"] = "Unknown" /\ AllUnknown["Volume"] = "Unknown"
    BY DEF AllUnknown, Condition
  <2>4. \A s : RolledOut(s)' <=> RolledOut(s)
    BY <2>1 DEF RolledOut, Matches
  <2>5. Counted' = Counted
    BY <2>1 DEF Counted
  <2>6. ASSUME ~queued', PublishedReady' PROVE \A s \in Counted' : RolledOut(s)'
    BY <2>1, <2>2, <2>4, <2>5, <2>6 DEF ReadyInv, CurrentInv, PublishedReady
  <2> QED BY <2>1, <2>3, <2>6 DEF ReadyInv, CurrentInv
<1> QED BY <1>1, <1>2, <1>3

\* Everyone else leaves a request in the queue.
LEMMA OutsideReady ==
  ASSUME TypeOK, ReadyInv,
         \/ \E raw \in RawSpecs : Submit(raw)
         \/ \E s \in Service : ChildStep(s) \/ ChildUnready(s)
         \/ \E j \in Job : \/ JobFinishes(j) \/ JobRemoved(j)
                           \/ JobFails(j) \/ JobExpires(j)
  PROVE  ReadyInv'
<1> USE DEF TypeOK
<1>1. queued' = TRUE /\ par' = par
  BY DEF Submit, ChildStep, ChildObserves, ChildReady, ChildLate, ChildGone,
         ChildUnready, JobFinishes, JobRemoved, JobFails, JobExpires
<1>2. \A s \in Service : child'[s].phase = "deleting" => ~child'[s].seen
  <2>1. CASE \E r \in Service : ChildStep(r) \/ ChildUnready(r)
    <3>1. PICK r \in Service : ChildStep(r) \/ ChildUnready(r)
      BY <2>1
    <3>2. \A s \in Service \ {r} : child'[s] = child[s]
      BY <3>1 DEF ChildStep, ChildObserves, ChildReady, ChildLate, ChildGone,
                  ChildUnready
    <3>3. child'[r].phase # "deleting"
      BY <3>1 DEF ChildStep, ChildObserves, ChildReady, ChildLate, ChildGone,
                  ChildUnready, NoChild, ChildCR
    <3> QED BY <3>2, <3>3 DEF ReadyInv
  <2>2. CASE UNCHANGED child
    BY <2>2 DEF ReadyInv
  <2> QED
    BY <2>1, <2>2 DEF Submit, JobFinishes, JobRemoved, JobFails, JobExpires
<1> QED BY <1>1, <1>2 DEF ReadyInv

\* The readiness invariant is inductive.
LEMMA StepsReady ==
  ASSUME TypeOK, SpecInv, ReadyInv, [Next]_vars
  PROVE  ReadyInv'
<1>1. CASE UNCHANGED vars
  BY <1>1 DEF vars, ReadyInv, CurrentInv, Counted, Judged, RolledOut, Matches,
              PublishedReady
<1>2. CASE Next
  <2>1. CASE PFetch \/ PRequire \/ PRequireFail \/ Crash
    BY <2>1, StartReady
  <2>2. CASE \E j \in Job : PJobDone(j) \/ PJobStart(j) \/ PJobWait(j)
    BY <2>2, JobReady
  <2>3. CASE \E s \in Service : PDeploy(s)
    BY <2>3, DeployReady
  <2>4. CASE PCleanup
    BY <2>4, CleanupReady
  <2>5. CASE PFinish \/ PDeployFail \/ PPatch
    BY <2>5, EndReady
  <2>6. CASE \/ \E raw \in RawSpecs : Submit(raw)
             \/ \E s \in Service : ChildStep(s) \/ ChildUnready(s)
             \/ \E j \in Job : \/ JobFinishes(j) \/ JobRemoved(j)
                               \/ JobFails(j) \/ JobExpires(j)
    BY <2>6, OutsideReady
  <2> QED
    BY <1>2, <2>1, <2>2, <2>3, <2>4, <2>5, <2>6 DEF Next, ControllerStep, Fault
<1> QED BY <1>1, <1>2

\* Ready can be relied on: with no reconcile running and none queued, the API,
\* the scheduler, the legacy backup and the volumes run the current spec.
THEOREM ReadyIsRolledOut == Spec => []ReadyMeansRolledOut
<1>1. ReadyInv => ReadyMeansRolledOut
  BY DEF ReadyInv, CurrentInv, Counted, ReadyMeansRolledOut, AtRest, PublishedReady
<1>2. TypeOK /\ SpecInv /\ ReadyInv /\ [Next]_vars => ReadyInv'
  BY StepsReady
<1> QED BY <1>1, <1>2, InitReady, AdmittedAlways, PTL DEF Spec

=============================================================================
