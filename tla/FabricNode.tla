------------------------------ MODULE FabricNode ------------------------------
(***************************************************************************)
(* The life of a peer or of an orderer node under the operator: the        *)
(* predicates, Reconcile and SetStatus of controllers/ibppeer and          *)
(* controllers/ibporderer, the Reconcile of the k8s and the openshift      *)
(* offering, initialisation and its updates, the migrations from Fabric    *)
(* 1.4 to 2.x with the migration job of the peer's ledger, the actions,    *)
(* and the pod that runs on what all this has left in the cluster.         *)
(*                                                                         *)
(* A facet of the spec is the number of the event that last changed it.    *)
(* Fabric versions are 1 (1.4), 2 (2.0 to 2.4.0), 3 (2.4.1 on) and         *)
(* 4 (2.5.1 on).  Informer events are immediate here (UpdateStack has the  *)
(* stale caches), the orderer's genesis block is there and its parent      *)
(* left out (OrdererCluster has both), certificates do not age             *)
(* (CertRenewal), and a restart that was queued is done (RestartManager).  *)
(***************************************************************************)
EXTENDS Integers, Sequences, FiniteSets, SequencesExt

CONSTANTS
    Setups,     \* kind of node, offering, version it starts from, "new" or "old"
    Changes     \* Changes[n]: sets of facets an edit may touch, if it is the n-th event

CertActions == {"ecertReenroll", "tlsReenroll", "ecertNewKey", "tlsNewKey",
                "ecertEnroll", "tlsEnroll"}

Actions == CertActions \cup {"upgradeDBs", "restart"}

Facets == {"over", "admin", "msp", "rest", "ou", "warn", "v2", "v24", "v25", "images"} \cup Actions

ASSUME ConstantsOK ==
    /\ Setups \subseteq {"couchdb", "leveldb", "orderer"} \X {"k8s", "openshift"} \X (1..4)
                      \X {"new", "old"}
    /\ Changes \in Seq(SUBSET SUBSET Facets)

\* Bound: edits, crashes, failed calls and misread lists.
MaxEvents == Len(Changes)

VARIABLES
    setup,      \* a member of Setups
    spec,       \* the custom resource's spec
    versioned,  \* its status carries this operator's version
    status,     \* type and reason of the status
    saved,      \* the config map <name>-spec
    stack,      \* r.update[name]
    work,       \* the request is queued
    worker,     \* the running Reconcile
    crypto,     \* the secrets ecert-<name>-... and tls-<name>-...
    cfg,        \* the config map <name>-config
    made,       \* the revision each managed object was made from
    dep,        \* the deployment
    job,        \* the migration job and its pod
    couch,      \* the pod <name>-couchdb, which the migration job uses
    db,         \* the format of the peer's ledger: 0 none yet, 1 of 1.4, 2 of 2.x
    pod,        \* what the running pod has loaded
    restart,    \* restarts asked for, and restarts queued
    up,         \* the operator runs
    events,     \* events so far
    mishaps     \* history: which of the known hazards have happened

crVars == <<spec, versioned, status, saved>>
queueVars == <<stack, work>>
cryptoVars == <<crypto, cfg>>
clusterVars == <<made, dep>>
ledgerVars == <<job, couch, db>>
podVars == <<pod, restart>>
historyVars == <<events, mishaps>>
vars == <<setup, up, crVars, queueVars, worker, cryptoVars, clusterVars, ledgerVars, podVars,
          historyVars>>

-----------------------------------------------------------------------------
Certs == {"ecert", "tls"}
Absent == -1
Revs == 0..MaxEvents
Versions == 1..4

IsPeer == setup[1] # "orderer"
UsingCouchDB == setup[1] = "couchdb"

Objects == {"pvc", "secret", "service", "rbac", "env", "ingress", "routes", "profile"}

\* Update: one member per flag.  An action that was asked for has its own name.
Flags == Actions \cup
    {"specUpdated", "overridesUpdated", "nodeOUUpdated", "mspUpdated", "imagesUpdated",
     "fabricVersionUpdated", "migrateToV2", "migrateToV24", "migrateToV25", "deploymentUpdated",
     "ecertCreated", "tlsCertCreated", "ecertUpdated", "tlsCertUpdated", "statusUpdated"}

CertCreated == {"ecertCreated", "tlsCertCreated"}
CertUpdated == {"ecertUpdated", "tlsCertUpdated"}
Migrations == {"migrateToV2", "migrateToV24", "migrateToV25"}

NewSpec(v) == [over |-> 0, admin |-> 0, msp |-> 0, rest |-> 0, noOU |-> FALSE, warn |-> FALSE,
               version |-> v, images |-> v, launcher |-> v > 1, filled |-> FALSE, actions |-> {}]

Specs == [over : Revs, admin : Revs, msp : Revs, rest : Revs, noOU : BOOLEAN, warn : BOOLEAN,
          version : Versions, images : Versions, launcher : BOOLEAN, filled : BOOLEAN,
          actions : SUBSET Actions]

\* The overrides in core.yaml or orderer.yaml (Absent when there is no such
\* file), the Fabric version it is written for, and the node OUs.
NoConfig == [there |-> FALSE, over |-> Absent, version |-> 0, noOU |-> FALSE]

NoCrypto == [there |-> {}, msp |-> 0, admin |-> 0]
NoDeployment == [rev |-> Absent, version |-> 0, replicas |-> 0]
NoJob == [state |-> "none", version |-> 0]
NoPod == [up |-> FALSE, rev |-> Absent, version |-> 0, cfg |-> NoConfig, stale |-> {}]

Idle == [pc |-> "idle", upd |-> {}, inst |-> NewSpec(1), status |-> "none", orig |-> 0,
         ret |-> "idle", result |-> "ok", rstatus |-> "none"]

\* The calls of the offerings' Reconcile, in order.
K8sPeerSteps == <<"version", "checks", "jobs", "rbac", "init", "admin", "v2", "v24", "v25",
    "pvc", "secret", "service", "deployment", "ingress", "profile", "states",
    "custom", "certs", "msp", "actions", "trigger", "status">>

\* The orderer node has no ledger to migrate, and a config map with its environment.
K8sOrdererSteps == <<"version", "checks", "rbac", "init", "admin", "v2", "v24", "v25",
    "pvc", "service", "env", "deployment", "ingress", "profile", "states",
    "custom", "certs", "msp", "actions", "trigger", "status">>

WithRoutes(steps) == [i \in DOMAIN steps |-> IF steps[i] = "ingress" THEN "routes" ELSE steps[i]]

OpenshiftPeerSteps == WithRoutes(K8sPeerSteps)

OpenshiftOrdererSteps == WithRoutes(K8sOrdererSteps)

Steps ==
    IF IsPeer THEN IF setup[2] = "k8s" THEN K8sPeerSteps ELSE OpenshiftPeerSteps
    ELSE IF setup[2] = "k8s" THEN K8sOrdererSteps ELSE OpenshiftOrdererSteps

\* The steps within Initialize, and within UpgradeDBs.
InitSteps == {"ecert", "tls", "config", "override", "overridden", "ou", "ouchanged", "adminchanged"}
LedgerSteps == {"launcher", "v2config", "scaledown", "podgone", "couchdb", "couchwait", "job",
                "jobactive", "jobwait", "scaleup"}

PCs == {"idle", "couchgone", "reset"} \cup InitSteps \cup LedgerSteps
       \cup UNION {Range(steps) : steps \in {K8sPeerSteps, OpenshiftPeerSteps, K8sOrdererSteps}}

\* Steps whose failure is a PeerInitilizationFailed, OrdererInitilizationFailed
\* or Fabric...MigrationFailed, on which reconciling stops.
IsBreaking(call) ==
    \/ call.pc \in InitSteps \cup {"rbac", "init", "admin", "v2", "v24", "v25"}
    \/ call.pc \in LedgerSteps /\ call.ret = "v24"

Statuses == {"none", "Initializing", "Deploying", "Running", "Deployed", "Error"}

Mishaps == {"failed", "stopped", "misread", "unflagged", "unserved", "pending", "dropped",
            "jobFailed", "conflict", "skipped", "orphan", "late"}

TypeOK ==
    /\ setup \in Setups
    /\ spec \in Specs /\ saved \in Specs
    /\ versioned \in BOOLEAN /\ work \in BOOLEAN /\ up \in BOOLEAN /\ couch \in BOOLEAN
    /\ status \in Statuses
    /\ stack \in Seq(SUBSET Flags)
    /\ worker \in [pc : PCs, upd : SUBSET Flags, inst : Specs, status : Statuses, orig : 0..1,
                   ret : {"idle", "v24", "reset"}, result : {"ok", "requeue", "error", "breaking"},
                   rstatus : Statuses]
    /\ crypto \in [there : SUBSET Certs, msp : Revs, admin : Revs]
    /\ cfg \in [there : BOOLEAN, over : -1..MaxEvents, version : 0..4, noOU : BOOLEAN]
    /\ made \in [Objects -> -1..MaxEvents]
    /\ dep \in [rev : -1..MaxEvents, version : 0..4, replicas : 0..1]
    /\ job \in [state : {"none", "created", "pending", "running", "done", "failed"}, version : 0..4]
    /\ db \in 0..2
    /\ pod.up \in BOOLEAN /\ pod.stale \subseteq Certs \cup {"admin"}
    /\ restart \in SUBSET {"wanted", "queued"}
    /\ events \in 0..MaxEvents
    /\ mishaps \in SUBSET Mishaps

\* A custom resource just created; or a node deployed by an older operator.
Init ==
    /\ setup \in Setups
    /\ LET old == setup[4] = "old" IN
          /\ spec = [NewSpec(setup[3]) EXCEPT !.filled = old]
          /\ saved = spec
          /\ status = IF old THEN "Deployed" ELSE "none"
          /\ crypto = IF old THEN [NoCrypto EXCEPT !.there = Certs] ELSE NoCrypto
          /\ cfg = IF old THEN [there |-> TRUE, over |-> 0, version |-> setup[3], noOU |-> FALSE]
                   ELSE NoConfig
          /\ made = [o \in Objects |-> IF old /\ o \in Range(Steps) THEN 0 ELSE Absent]
          /\ dep = IF old THEN [rev |-> 0, version |-> setup[3], replicas |-> 1] ELSE NoDeployment
          /\ db = IF old /\ IsPeer THEN IF setup[3] = 1 THEN 1 ELSE 2 ELSE 0
          /\ pod = IF old THEN [NoPod EXCEPT !.up = TRUE, !.rev = 0, !.version = setup[3], !.cfg = cfg]
                   ELSE NoPod
          /\ stack = IF old THEN <<{}, {"ecertCreated"}, {"tlsCertCreated"}>> ELSE <<>>
    /\ versioned = FALSE
    /\ work = TRUE
    /\ worker = Idle
    /\ job = NoJob /\ couch = FALSE
    /\ restart = {}
    /\ up = TRUE
    /\ events = 0
    /\ mishaps = {}

Event == events < MaxEvents /\ events' = events + 1

Note(m) == mishaps' = mishaps \cup {m}

NoteIf(m, condition) == mishaps' = mishaps \cup (IF condition THEN {m} ELSE {})

-----------------------------------------------------------------------------
(* Events                                                                  *)

Push(s, update) == IF update \in Range(s) THEN s ELSE Append(s, update)

If(flag, condition) == IF condition THEN {flag} ELSE {}

\* Flags of re-enrolment are set when the spec's flag changes; those of the
\* other actions with every edit while the spec asks for them.
EdgeTriggered == {"ecertReenroll", "tlsReenroll", "ecertNewKey", "tlsNewKey"}

CommonFlags(old, new) ==
    If("specUpdated", old # new)
    \cup If("overridesUpdated", old.over # new.over)
    \cup If("mspUpdated", old.msp # new.msp)
    \cup If("nodeOUUpdated", old.noOU # new.noOU)
    \cup If("imagesUpdated", old.images # new.images)
    \cup If("fabricVersionUpdated", old.version # new.version)
    \cup (IF old.warn # new.warn THEN CertUpdated ELSE {})
    \cup (new.actions \ (old.actions \cap EdgeTriggered))

\* Every edit of a peer below 2.4.1 counts as a migration to 2.4.
PeerMigrationFlags(old, new) ==
    If("migrateToV2", old.version = 1 /\ new.version >= 2)
    \cup If("migrateToV24", old.version = 2 \/ (old.version = 1 /\ new.version >= 3))
    \cup If("migrateToV25", old.version < 4 /\ new.version = 4)

\* The TLS certificate of an orderer needs the admin host name from 2.4.1 on.
OrdererMigrationFlags(old, new) ==
    If("migrateToV2", old.version = 1 /\ new.version >= 2)
    \cup If("migrateToV24", old.version < 3 /\ new.version = 3)
    \cup If("migrateToV25", old.version < 4 /\ new.version = 4)
    \cup If("tlsReenroll", old.version < 3 /\ new.version >= 3)
    \cup If("tlsCertCreated", old.version = 1 /\ new.version >= 2)

DeploymentUpdated(old, new) == old.images # new.images \/ old.rest # new.rest


\* The flags UpdateFunc sets for a spec that has changed.
UpdateFlags(old, new) ==
    CommonFlags(old, new)
    \cup (IF IsPeer THEN PeerMigrationFlags(old, new)
          ELSE OrdererMigrationFlags(old, new)
               \cup If("deploymentUpdated", DeploymentUpdated(old, new)))

\* UpdateFunc is called for a change of the spec, if the operator runs.
UpdateFunc(new, s) ==
    IF up /\ new # spec
    THEN stack' = Push(s, UpdateFlags(spec, new)) /\ work' = TRUE
    ELSE stack' = s /\ work' = (work \/ s # stack)

\* A user edits the spec.
Edit(change) ==
    LET e == events + 1
        Bump(f, old) == IF f \in change THEN e ELSE old
        version == CASE "v25" \in change -> 4 [] "v24" \in change -> 3 [] "v2" \in change -> 2
                     [] OTHER -> spec.version
        new == [spec EXCEPT !.over = Bump("over", @), !.admin = Bump("admin", @),
                            !.msp = Bump("msp", @), !.rest = Bump("rest", @),
                            !.noOU = IF "ou" \in change THEN ~@ ELSE @,
                            !.warn = IF "warn" \in change THEN ~@ ELSE @,
                            !.version = version,
                            !.images = IF "images" \in change THEN version ELSE @,
                            !.actions = @ \cup (change \cap Actions)] IN
    /\ Event
    /\ change \in Changes[e]
    /\ new # spec /\ new.version >= spec.version
    /\ "upgradeDBs" \in change => IsPeer
    /\ spec' = new
    /\ UpdateFunc(new, stack)
    /\ UNCHANGED <<setup, up, versioned, status, saved, worker, cryptoVars, clusterVars, ledgerVars,
                   podVars, mishaps>>

CreatedFlag(c) == IF c = "tls" THEN "tlsCertCreated" ELSE "ecertCreated"
UpdatedFlag(c) == IF c = "tls" THEN "tlsCertUpdated" ELSE "ecertUpdated"

\* The stack after an event of each of these signcert secrets, of which the
\* ones in known are known to the informer.
SecretEvents(certs, known, s) ==
    LET Flag(c) == IF c \in known THEN UpdatedFlag(c) ELSE CreatedFlag(c)
        One(c, t) == IF c \in certs THEN Push(t, {Flag(c)}) ELSE t
    IN  One("tls", One("ecert", s))

\* The stack after the certificates were written: the secrets are new, or
\* their data changes.
Written(certs, s) == SecretEvents(certs, crypto.there, s)

MigrationTo == <<"none", "migrateToV2", "migrateToV24", "migrateToV25">>

\* What is behind the spec, as the flags that would make a reconcile see to it.
Owed ==
    If("overridesUpdated", cfg.over \notin {Absent, spec.over})
    \cup If("nodeOUUpdated", cfg.there /\ cfg.noOU # spec.noOU)
    \cup If("mspUpdated", crypto.there = Certs /\ cfg.there /\ crypto.msp # spec.msp)
    \cup If("specUpdated", \E o \in {"ingress", "routes"} : made[o] \notin {Absent, spec.rest})
    \cup If("migrateToV2", IsPeer /\ spec.images >= 2 /\ dep.rev # Absent
                          /\ (db = 1 \/ (db = 0 /\ dep.version = 1)))
    \cup If(MigrationTo[spec.version], cfg.version \in 1..(spec.version - 1))
    \cup If("fabricVersionUpdated", spec.images < spec.version)
    \cup spec.actions
    \cup If("ecertUpdated", pod.up /\ "ecert" \in pod.stale /\ restart = {})
    \cup If("tlsCertUpdated", pod.up /\ "tls" \in pod.stale /\ restart = {})

\* A pod with an older configuration, and no restart to load the new one.
Unrestarted ==
    pod.up /\ restart = {} /\ pod.rev = dep.rev /\ (pod.cfg # cfg \/ "admin" \in pod.stale)

\* The saved spec as CreateFunc compares it after the operator was down.
PeerCreateFlags ==
    If("specUpdated", spec # saved)
    \cup If("overridesUpdated", spec.over # saved.over)
    \cup If("imagesUpdated", spec.images # saved.images)
    \cup If("fabricVersionUpdated", spec.version # saved.version)

OrdererCreateFlags ==
    PeerCreateFlags \cup If("tlsCertCreated", saved.version = 1 /\ spec.version >= 2)

\* The informers list the node and its secrets when the operator starts.  A
\* node without a status is taken for a new one.
CreateFunc ==
    LET known == status # "none"
        flags == IF ~known THEN {} ELSE IF IsPeer THEN PeerCreateFlags ELSE OrdererCreateFlags
        listed == IF known THEN <<flags>> ELSE <<>> IN
    /\ ~up
    /\ up' = TRUE
    /\ work' = TRUE
    /\ stack' = SecretEvents(crypto.there, {}, listed)
    /\ NoteIf("unflagged", ~(Owed \subseteq flags) \/ Unrestarted)
    /\ UNCHANGED <<setup, crVars, worker, cryptoVars, clusterVars, ledgerVars, podVars, events>>

\* The saved spec cannot be read: reconcile without any update.
CreateFuncUnread ==
    /\ ~up /\ status # "none"
    /\ Event
    /\ up' = TRUE
    /\ work' = TRUE
    /\ NoteIf("unflagged", Owed # {} \/ Unrestarted)
    /\ UNCHANGED <<setup, crVars, stack, worker, cryptoVars, clusterVars, ledgerVars, podVars>>
-----------------------------------------------------------------------------
(* Reconcile: taking the request                                           *)

\* Combinations of actions that PreReconcileChecks refuses.
Conflicting(s) ==
    \E pair \in {{"ecertEnroll", "ecertReenroll"}, {"tlsEnroll", "tlsReenroll"},
                 {"ecertReenroll", "ecertNewKey"}, {"tlsReenroll", "tlsNewKey"}} :
        pair \subseteq s.actions

\* UpdateRequired: a new Fabric version that came without images of its own.
ImagesRequired(update) == "fabricVersionUpdated" \in update /\ "imagesUpdated" \notin update

\* The flag on which the deployment manager updates.
DeploymentFlag(call) == (IF IsPeer THEN "specUpdated" ELSE "deploymentUpdated") \in call.upd

\* The deployment that the custom resource asks for.
Expected(s) == [rev |-> s.rest, version |-> s.images, replicas |-> 1]

\* Whether a step of a call has anything to do; one that has not is passed over.
Needed(step, call) ==
    CASE step = "version" -> ~versioned
      [] step = "checks" -> ~call.inst.filled \/ Conflicting(call.inst) \/ ImagesRequired(call.upd)
      [] step = "jobs" -> job.state # "none"
      [] step \in {"rbac", "pvc", "service", "env"} -> made[step] = Absent
      [] step = "admin" -> crypto.admin # call.inst.admin
      [] step = "v2" -> "migrateToV2" \in call.upd
      [] step = "v24" -> "migrateToV24" \in call.upd
      [] step = "v25" -> "migrateToV25" \in call.upd
      [] step = "secret" -> made[step] # call.inst.msp
      [] step = "profile" -> made[step] # call.inst.rest
      [] step = "deployment" -> dep.rev = Absent \/ DeploymentFlag(call)
      [] step \in {"ingress", "routes"} -> made[step] = Absent \/ "specUpdated" \in call.upd
      [] step = "states" -> dep \notin {NoDeployment, Expected(call.inst)}
      [] step = "certs" -> call.upd \cap CertUpdated # {}
      [] step = "msp" -> "mspUpdated" \in call.upd
      [] step = "actions" -> call.upd \cap Actions # {}
      [] step = "trigger" -> "wanted" \in restart \/ call.upd # {}
      [] OTHER -> TRUE

\* The first step of the call that is needed, from the i-th on.
FirstNeeded(call, i) ==
    Steps[CHOOSE j \in i..Len(Steps) :
             Needed(Steps[j], call) /\ \A k \in i..(j-1) : ~Needed(Steps[k], call)]

Start ==
    /\ up /\ worker.pc = "idle" /\ work
    /\ work' = FALSE
    /\ LET call == [Idle EXCEPT !.inst = spec, !.status = status,
                               !.upd = IF stack = <<>> THEN {} ELSE Head(stack)] IN
          worker' = [call EXCEPT !.pc = FirstNeeded(call, 1)]
    /\ stack' = IF stack = <<>> THEN stack ELSE Tail(stack)
    /\ UNCHANGED <<setup, up, crVars, cryptoVars, clusterVars, ledgerVars, podVars, historyVars>>

At(pc) == worker.pc = pc

\* The next step after pc that has something to do.
After(pc) == FirstNeeded(worker, 1 + CHOOSE i \in DOMAIN Steps : Steps[i] = pc)

Goto(pc) == worker' = [worker EXCEPT !.pc = pc]

Continue == Goto(After(worker.pc))

Leave(result) == worker' = [worker EXCEPT !.pc = "status", !.result = result]

Failure == IF IsBreaking(worker) THEN "breaking" ELSE "error"

\* Reconcile returns an error.  What was popped is gone.
Abandoned == If("failed", worker.upd # {}) \cup If("stopped", IsBreaking(worker))

\* What no step of the offering changes.
frame == <<setup, up, status, saved>>

otherThanSpec == <<frame, versioned, cryptoVars, clusterVars, ledgerVars, podVars>>
otherThanCrypto == <<frame, spec, versioned, clusterVars, ledgerVars, restart, historyVars>>
otherThanLedger == <<frame, spec, versioned, queueVars, cryptoVars, made, podVars>>

\* A call of the offering fails.  A migration job that cannot be started takes
\* its couchdb pod with it.
Fail(step) ==
    /\ At(step) /\ step \notin {"idle", "status", "actions"}
    /\ Event
    /\ Leave(Failure)
    /\ couch' = (couch /\ step # "job")
    /\ mishaps' = mishaps \cup Abandoned
           \cup If("orphan", step \in {"couchwait", "jobactive", "jobwait", "couchgone"})
           \cup If("unflagged", step \in {"overridden", "ouchanged", "adminchanged"})
    /\ UNCHANGED <<frame, spec, versioned, queueVars, cryptoVars, clusterVars, job, db, podVars>>

SetVersion ==
    /\ At("version")
    /\ versioned' = TRUE
    /\ Leave("requeue")
    /\ UNCHANGED <<frame, spec, queueVars, cryptoVars, clusterVars, ledgerVars, podVars, historyVars>>

\* Zone, region, database, external endpoint and hosts of the certificates.
SetSpecDefaults(s) == [s EXCEPT !.filled = TRUE]

\* The images of the version, if they have to follow it.
SetImageDefaults(s) == [s EXCEPT !.images = IF ImagesRequired(worker.upd) THEN s.version ELSE @]

\* Defaults are patched into the custom resource, and the request is requeued.
\* The patch is an update event of its own.  One made of an older copy conflicts
\* each time it is tried; ResilientPatch then returns without an error
\* (client.go:137).  An update with a new version asks for all this every time
\* it comes up: it goes round in a circle.
PreReconcileChecks(rstatus) ==
    LET filled == SetImageDefaults(SetSpecDefaults(worker.inst))
        new == IF spec = worker.inst THEN filled ELSE spec IN
    /\ At("checks") /\ ~Conflicting(worker.inst)
    /\ spec' = new
    /\ UpdateFunc(new, stack)
    /\ worker' = [worker EXCEPT !.pc = "status", !.result = "requeue",
                      !.rstatus = rstatus, !.inst = filled]
    /\ NoteIf("unserved", ImagesRequired(worker.upd))
    /\ UNCHANGED <<otherThanSpec, events>>

PeerPreReconcileChecks == IsPeer /\ PreReconcileChecks("none")

OrdererPreReconcileChecks == ~IsPeer /\ PreReconcileChecks("Initializing")

\* Actions that exclude each other: an error, until the spec is edited.
ChecksRefuse ==
    /\ At("checks") /\ Conflicting(worker.inst)
    /\ Leave("error")
    /\ Note("conflict")
    /\ UNCHANGED <<otherThanSpec, spec, queueVars, events>>

-----------------------------------------------------------------------------
(* The migration job                                                       *)

\* HandleMigrationJobs: a running job is waited for, one that has finished is
\* deleted.  A job counts as finished as long as no container of it is known.
HandleMigrationJobs ==
    /\ At("jobs")
    /\ IF job.state = "running" THEN Leave("requeue") /\ UNCHANGED <<job, mishaps>>
       ELSE /\ job' = NoJob
            /\ NoteIf("dropped", job.state \in {"created", "pending"})
            /\ IF UsingCouchDB THEN Goto("couchgone") ELSE Continue
    /\ UNCHANGED <<otherThanLedger, dep, couch, db, events>>

\* CheckForRunningJobs takes a failed list for an empty one.
JobsMisread ==
    /\ At("jobs")
    /\ Event
    /\ Note("misread")
    /\ Continue
    /\ UNCHANGED <<otherThanLedger, dep, ledgerVars>>

\* The couchdb pod of the job goes too, and has to be there.
DeleteCouchDBPod ==
    /\ At("couchgone")
    /\ couch' = FALSE
    /\ IF couch THEN Goto(After("jobs")) /\ UNCHANGED mishaps
       ELSE Leave("error") /\ mishaps' = mishaps \cup Abandoned
    /\ UNCHANGED <<otherThanLedger, dep, job, db, events>>

\* UpgradeDBs reads the deployment, and takes its pod away.
ScaleDown ==
    /\ At("scaledown")
    /\ IF dep.rev = Absent THEN Leave(Failure) /\ mishaps' = mishaps \cup Abandoned /\ UNCHANGED dep
       ELSE /\ dep' = [dep EXCEPT !.replicas = 0]
            /\ worker' = [worker EXCEPT !.pc = "podgone", !.orig = dep.replicas]
            /\ UNCHANGED mishaps
    /\ UNCHANGED <<otherThanLedger, ledgerVars, events>>

\* Seeded fault: nobody waits for the pods of the node to be gone.
NotWaited ==
    /\ At("podgone")
    /\ Goto(IF UsingCouchDB THEN "couchdb" ELSE "job")
    /\ UNCHANGED <<otherThanLedger, dep, ledgerVars, historyVars>>

\* No pod has the label of the node any more.  The couchdb pod has it too: one
\* that was left over lets the wait run out.
WaitForPodToDelete ==
    /\ At("podgone") /\ ~pod.up
    /\ IF couch THEN Leave(Failure) /\ mishaps' = mishaps \cup Abandoned
       ELSE Goto(IF UsingCouchDB THEN "couchdb" ELSE "job") /\ UNCHANGED mishaps
    /\ UNCHANGED <<otherThanLedger, dep, ledgerVars, events>>

StartCouchDBPod ==
    /\ At("couchdb")
    /\ couch' = TRUE
    /\ Goto("couchwait")
    /\ UNCHANGED <<otherThanLedger, dep, job, db, historyVars>>

WaitForPodToBeRunning ==
    /\ At("couchwait")
    /\ Goto("job")
    /\ UNCHANGED <<otherThanLedger, dep, ledgerVars, historyVars>>

\* The job runs the image of the spec.  Its name is new: one that was left
\* over is forgotten here.
StartJob ==
    /\ At("job")
    /\ job' = [state |-> "created", version |-> worker.inst.images]
    /\ Goto("jobactive")
    /\ UNCHANGED <<otherThanLedger, dep, couch, db, historyVars>>

\* Active or succeeded; a job that has failed by then is waited for in vain.
WaitUntilActive ==
    /\ At("jobactive") /\ job.state \notin {"none", "created"}
    /\ IF job.state = "failed"
       THEN Leave(Failure) /\ mishaps' = mishaps \cup Abandoned \cup {"orphan"}
       ELSE Goto("jobwait") /\ UNCHANGED mishaps
    /\ UNCHANGED <<otherThanLedger, dep, ledgerVars, events>>

\* containerTerminated: no container of the pod is known to run.  How it ended
\* is not asked, nor whether it has begun.
ContainerTerminated == job.state \in {"pending", "done", "failed"}

WaitUntilContainerFinished ==
    /\ At("jobwait") /\ ContainerTerminated
    /\ Goto("scaleup")
    /\ mishaps' = mishaps \cup If("pending", job.state = "pending")
                          \cup If("jobFailed", job.state = "failed")
    /\ UNCHANGED <<otherThanLedger, dep, ledgerVars, events>>

\* The replicas are what they were, which is none after an attempt that broke off.
ScaleUp ==
    /\ At("scaleup")
    /\ dep' = [dep EXCEPT !.replicas = worker.orig]
    /\ Goto(IF worker.ret = "v24" THEN After("v2") ELSE "reset")
    /\ UNCHANGED <<otherThanLedger, ledgerVars, historyVars>>

\* The pod of the job.
JobStep ==
    /\ \/ job.state = "created" /\ job' = [job EXCEPT !.state = "pending"] /\ UNCHANGED db
       \/ job.state = "pending" /\ job' = [job EXCEPT !.state = "running"] /\ UNCHANGED db
       \/ job.state = "running" /\ job.version >= 2
             /\ job' = [job EXCEPT !.state = "done"] /\ db' = 2
       \/ job.state = "running" /\ job.version = 1
             /\ job' = [job EXCEPT !.state = "failed"] /\ UNCHANGED db
    /\ UNCHANGED <<setup, up, crVars, queueVars, worker, cryptoVars, clusterVars, couch, podVars,
                   historyVars>>

JobFails ==
    /\ job.state = "running"
    /\ Event
    /\ job' = [job EXCEPT !.state = "failed"]
    /\ UNCHANGED <<setup, up, crVars, queueVars, worker, cryptoVars, clusterVars, couch, db, podVars,
                   mishaps>>

-----------------------------------------------------------------------------
(* Initialize                                                              *)

\* An update of the overrides or of the node OUs, or else the creation, if
\* there is no config map.  Overrides that meet missing crypto are left to the
\* creation, which does nothing when the config map is there.
Initialize ==
    /\ At("init")
    /\ \/ /\ "overridesUpdated" \in worker.upd /\ crypto.there # Certs
          /\ Goto(IF cfg.there THEN "overridden" ELSE "ecert")
          /\ UNCHANGED mishaps
       \/ /\ "overridesUpdated" \in worker.upd /\ crypto.there = Certs
          /\ IF cfg.there THEN Goto("override") /\ UNCHANGED mishaps
             ELSE Leave("breaking") /\ mishaps' = mishaps \cup Abandoned
       \/ /\ "overridesUpdated" \notin worker.upd
          /\ Goto(IF "nodeOUUpdated" \in worker.upd THEN "ou"
                  ELSE IF cfg.there THEN After("init") ELSE "ecert")
          /\ UNCHANGED mishaps
    /\ UNCHANGED <<otherThanSpec, spec, queueVars, events>>

PeerInitialize == IsPeer /\ Initialize

OrdererInitialize == ~IsPeer /\ Initialize

\* ConfigExists takes any error for a missing config map.
ConfigMisread ==
    /\ At("init")
    /\ cfg.there /\ worker.upd \cap {"overridesUpdated", "nodeOUUpdated"} = {}
    /\ Event
    /\ Note("misread")
    /\ Goto("ecert")
    /\ UNCHANGED <<otherThanSpec, spec, queueVars>>

\* Secrets are written: events, and a pod that has loaded the old ones.
WriteCerts(certs) ==
    /\ stack' = Written(certs, stack)
    /\ work' = TRUE
    /\ pod' = IF pod.up THEN [pod EXCEPT !.stale = @ \cup certs] ELSE pod

\* InitializeCreate enrols, and writes the secrets of the ecert, those of the
\* TLS certificate and, last, the config map.
GenerateEcert ==
    /\ At("ecert")
    /\ crypto' = [there |-> crypto.there \cup {"ecert"}, msp |-> worker.inst.msp,
                  admin |-> worker.inst.admin]
    /\ WriteCerts({"ecert"})
    /\ Goto("tls")
    /\ UNCHANGED <<otherThanCrypto, cfg>>

GenerateTLSCert ==
    /\ At("tls")
    /\ crypto' = [crypto EXCEPT !.there = @ \cup {"tls"}]
    /\ WriteCerts({"tls"})
    /\ Goto("config")
    /\ UNCHANGED <<otherThanCrypto, cfg>>

\* The default file of the version, with the overrides worked in.
ConfigFromFile(s) == [there |-> TRUE, over |-> s.over, version |-> s.version, noOU |-> s.noOU]

CreateConfigMap ==
    /\ At("config")
    /\ cfg' = ConfigFromFile(worker.inst)
    /\ Goto(IF "overridesUpdated" \in worker.upd THEN "overridden" ELSE After("init"))
    /\ UNCHANGED <<otherThanCrypto, queueVars, crypto, pod>>

PeerCreateConfigMap == IsPeer /\ CreateConfigMap

OrdererCreateConfigMap == ~IsPeer /\ CreateConfigMap

\* Overrides are worked into the config map, which keeps its version.
InitializeUpdateConfigOverride ==
    /\ At("override")
    /\ cfg' = [cfg EXCEPT !.over = worker.inst.over, !.noOU = worker.inst.noOU]
    /\ Goto("overridden")
    /\ UNCHANGED <<otherThanCrypto, queueVars, crypto, pod>>

PeerInitializeUpdateConfigOverride == IsPeer /\ InitializeUpdateConfigOverride

OrdererInitializeUpdateConfigOverride == ~IsPeer /\ InitializeUpdateConfigOverride

\* config.yaml alone; the config map may be new.
InitializeUpdateNodeOU ==
    /\ At("ou")
    /\ IF crypto.there = Certs
       THEN /\ cfg' = [cfg EXCEPT !.there = TRUE, !.noOU = worker.inst.noOU]
            /\ Goto("ouchanged")
            /\ UNCHANGED mishaps
       ELSE Leave("breaking") /\ mishaps' = mishaps \cup Abandoned /\ UNCHANGED cfg
    /\ UNCHANGED <<frame, spec, versioned, queueVars, crypto, clusterVars, ledgerVars, podVars, events>>

PeerInitializeUpdateNodeOU == IsPeer /\ InitializeUpdateNodeOU

OrdererInitializeUpdateNodeOU == ~IsPeer /\ InitializeUpdateNodeOU

\* Admin certificates of the spec that differ from the secret's.
UpdateAdminSecret ==
    /\ At("admin")
    /\ crypto' = [crypto EXCEPT !.admin = worker.inst.admin]
    /\ pod' = IF pod.up THEN [pod EXCEPT !.stale = @ \cup {"admin"}] ELSE pod
    /\ Goto("adminchanged")
    /\ UNCHANGED <<otherThanCrypto, queueVars, cfg>>

PeerUpdateAdminSecret == IsPeer /\ UpdateAdminSecret

OrdererUpdateAdminSecret == ~IsPeer /\ UpdateAdminSecret

\* Seeded fault: the configuration changes and no restart is asked for.
NoRestart(pc, next) ==
    /\ At(pc)
    /\ Goto(next)
    /\ UNCHANGED <<frame, spec, versioned, queueVars, cryptoVars, clusterVars, ledgerVars, podVars,
                   historyVars>>

\* Restart.ForConfigOverride, ForNodeOU, ForAdminCertUpdate, ForCertUpdate.
RestartFor(pc, next) ==
    /\ At(pc)
    /\ restart' = restart \cup {"wanted"}
    /\ Goto(next)
    /\ UNCHANGED <<frame, spec, versioned, queueVars, cryptoVars, clusterVars, ledgerVars, pod,
                   historyVars>>

RestartForConfigOverride ==
    RestartFor("overridden", IF "nodeOUUpdated" \in worker.upd THEN "ou" ELSE After("init"))

RestartForNodeOU == RestartFor("ouchanged", After("init"))

RestartForAdminCertUpdate == RestartFor("adminchanged", After("admin"))

RestartForCertUpdate == RestartFor("certs", After("certs"))

-----------------------------------------------------------------------------
(* Migrations                                                              *)

\* A config map changed after the deployment that would have brought a pod
\* with it: an older update has deployed the new images already.
LateMigration(new) ==
    If("late", ~At("v2config") /\ pod.up /\ new # cfg /\ pod.rev = dep.rev /\ dep = Expected(worker.inst))

Migrate(step, new, next) ==
    /\ At(step)
    /\ cfg' = new
    /\ Goto(next)
    /\ mishaps' = mishaps \cup LateMigration(new)
    /\ UNCHANGED <<frame, spec, versioned, queueVars, crypto, clusterVars, ledgerVars, podVars, events>>

\* What UpdateConfig of migrator v2 makes of a configuration.
UpdateConfig(c, v) ==
    LET new == IF v >= 3 THEN 3 ELSE 2 IN
    [c EXCEPT !.version = IF @ > new THEN @ ELSE new, !.noOU = worker.inst.noOU]

\* V2Migrate.  Without a deployment or a config map there is nothing to
\* migrate; whether it was migrated before is not found out.
MigrationNeeded == dep.rev # Absent /\ cfg.there

PeerMigrationV2_0 ==
    /\ IsPeer /\ At("v2")
    /\ IF MigrationNeeded THEN worker' = [worker EXCEPT !.pc = "launcher", !.ret = "v24"] ELSE Continue
    /\ NoteIf("skipped", ~MigrationNeeded)
    /\ UNCHANGED <<otherThanSpec, spec, queueVars, events>>

\* The resources of the chaincode launcher are written with an update of the
\* whole custom resource, which fails if that was edited in the meantime.
SetChaincodeLauncherResourceOnCR ==
    LET new == [spec EXCEPT !.launcher = TRUE] IN
    /\ At("launcher")
    /\ \/ /\ worker.inst.launcher
          /\ Goto("v2config")
          /\ UNCHANGED <<spec, queueVars, mishaps>>
       \/ /\ ~worker.inst.launcher /\ spec = worker.inst
          /\ spec' = new
          /\ UpdateFunc(new, stack)
          /\ worker' = [worker EXCEPT !.pc = "v2config", !.inst = new]
          /\ UNCHANGED mishaps
       \/ /\ ~worker.inst.launcher /\ spec # worker.inst
          /\ Leave("breaking")
          /\ mishaps' = mishaps \cup Abandoned
          /\ UNCHANGED <<spec, queueVars>>
    /\ UNCHANGED <<otherThanSpec, events>>

PeerV2Config == Migrate("v2config", UpdateConfig(cfg, worker.inst.version), "scaledown")

PeerMigrationV2_4 == IsPeer /\ Migrate("v24", UpdateConfig(cfg, worker.inst.version), After("v24"))

PeerMigrationV2_5 ==
    IsPeer /\ Migrate("v25", [cfg EXCEPT !.version = 4, !.noOU = worker.inst.noOU], After("v25"))

\* The orderer's configuration is made anew from the file of the version.
OrdererMigration(step) == ~IsPeer /\ Migrate(step, ConfigFromFile(worker.inst), After(step))

OrdererMigrationV2_0 == OrdererMigration("v2")

OrdererMigrationV2_4 == OrdererMigration("v24")

OrdererMigrationV2_5 == OrdererMigration("v25")

-----------------------------------------------------------------------------
(* Managers                                                                *)

\* A manager's object is made from the instance of this reconcile.
Make(o, rev) ==
    /\ At(o)
    /\ made' = [made EXCEPT ![o] = rev]
    /\ Continue
    /\ UNCHANGED <<frame, spec, versioned, queueVars, cryptoVars, dep, ledgerVars, podVars, historyVars>>

\* These managers only create.
ReconcileRBAC == Make("rbac", worker.inst.rest)

ReconcilePVC == Make("pvc", worker.inst.rest)

ReconcileService == Make("service", worker.inst.rest)

ReconcileEnvConfigMap == Make("env", worker.inst.rest)

\* The secret of the spec's MSP part follows it, whatever the update says.
ReconcileSecret == Make("secret", worker.inst.msp)

ReconcileIngressManager == Make("ingress", worker.inst.rest)

ReconcileRoutes == Make("routes", worker.inst.rest)

PeerUpdateConnectionProfile == IsPeer /\ Make("profile", worker.inst.rest)

OrdererUpdateConnectionProfile == ~IsPeer /\ Make("profile", worker.inst.rest)

WriteDeployment(step) ==
    /\ At(step)
    /\ dep' = Expected(worker.inst)
    /\ work' = (work \/ dep' # dep)
    /\ Continue
    /\ UNCHANGED <<frame, spec, versioned, stack, cryptoVars, made, ledgerVars, podVars, historyVars>>

ReconcileDeployment == WriteDeployment("deployment")

\* CheckState: a deployment that differs from the custom resource is restored,
\* its replicas included.
CheckStates == WriteDeployment("states")

-----------------------------------------------------------------------------
(* After the managers                                                      *)

CertFlags == CertCreated \cup CertUpdated

\* Timers of certificates are set only for a node that is deployed; until then
\* the update comes round again.  Without crypto their expiry cannot be read.
CustomLogic ==
    /\ At("custom")
    /\ \/ /\ worker.upd \cap CertFlags # {} /\ worker.status \notin {"Deployed", "Running"}
          /\ Leave("requeue")
          /\ UNCHANGED mishaps
       \/ /\ worker.upd \cap CertFlags = {} \/ worker.status \in {"Deployed", "Running"}
          /\ IF crypto.there = Certs
             THEN /\ worker' = [worker EXCEPT !.pc = After(@), !.rstatus = "Deployed"]
                  /\ UNCHANGED mishaps
             ELSE Leave("error") /\ mishaps' = mishaps \cup Abandoned
    /\ UNCHANGED <<otherThanSpec, spec, queueVars, events>>

PeerCustomLogic == IsPeer /\ CustomLogic

OrdererCustomLogic == ~IsPeer /\ CustomLogic

\* Certificates given in the spec replace those of the secrets.
UpdateMSPCertificates ==
    /\ At("msp")
    /\ crypto' = [crypto EXCEPT !.msp = worker.inst.msp]
    /\ WriteCerts(Certs)
    /\ Continue
    /\ UNCHANGED <<otherThanCrypto, cfg>>

PeerUpdateMSPCertificates == IsPeer /\ UpdateMSPCertificates

OrdererUpdateMSPCertificates == ~IsPeer /\ UpdateMSPCertificates

\* The order in which HandleActions takes them.
CertActionOrder == <<"ecertReenroll", "tlsReenroll", "ecertNewKey", "tlsNewKey",
                     "ecertEnroll", "tlsEnroll">>

CertOf(a) == IF a \in {"tlsReenroll", "tlsNewKey", "tlsEnroll"} THEN "tls" ELSE "ecert"

\* ResetEcertReenroll and ResetTLSReenroll reset two flags each.
ResetWith(a) ==
    CASE a \in {"ecertReenroll", "ecertNewKey"} -> {"ecertReenroll", "ecertNewKey"}
      [] a \in {"tlsReenroll", "tlsNewKey"} -> {"tlsReenroll", "tlsNewKey"}
      [] OTHER -> {a}

ResetActions(s, done) == [s EXCEPT !.actions = @ \ UNION {ResetWith(a) : a \in done}]

\* The actions on certificates, and then that on the ledger.
HandleActions ==
    /\ At("actions")
    /\ WriteCerts({CertOf(a) : a \in worker.upd \cap CertActions})
    /\ worker' = [worker EXCEPT !.ret = "reset",
                      !.pc = IF "upgradeDBs" \in worker.upd THEN "scaledown" ELSE "reset"]
    /\ UNCHANGED <<otherThanCrypto, cryptoVars>>

PeerHandleActions == IsPeer /\ HandleActions

OrdererHandleActions == ~IsPeer /\ HandleActions

\* An action fails after those before it were done: the flags are reset in
\* memory only, where they are saved from.
HandleActionsFails ==
    /\ At("actions")
    /\ Event
    /\ \E i \in DOMAIN CertActionOrder :
          LET before == worker.upd \cap {CertActionOrder[j] : j \in 1..(i-1)} IN
          /\ CertActionOrder[i] \in worker.upd
          /\ WriteCerts({CertOf(a) : a \in before})
          /\ worker' = [worker EXCEPT !.pc = "status", !.result = "error",
                            !.inst = ResetActions(@, before \cup {CertActionOrder[i]})]
    /\ mishaps' = mishaps \cup Abandoned
    /\ UNCHANGED <<frame, spec, versioned, cryptoVars, clusterVars, ledgerVars, restart>>

\* RestartAction, unless the ledger was upgraded; the flags of the actions that
\* were taken are then reset by a patch of the custom resource.
ResetActionFlags ==
    LET upgraded == "upgradeDBs" \in worker.upd
        done == (worker.upd \cap Actions) \ (IF upgraded THEN {"restart"} ELSE {})
        new == ResetActions(spec, done) IN
    /\ At("reset")
    /\ restart' = restart \cup If("wanted", "restart" \in done)
    /\ spec' = new
    /\ UpdateFunc(new, stack)
    /\ worker' = [worker EXCEPT !.pc = After("actions"), !.inst = new]
    /\ UNCHANGED <<frame, versioned, cryptoVars, clusterVars, ledgerVars, pod, historyVars>>

\* TriggerIfNeeded hands the restart over to the staggered queue.
HandleRestart ==
    /\ At("trigger")
    /\ restart' = IF "wanted" \in restart THEN {"queued"} ELSE restart
    /\ Continue
    /\ UNCHANGED <<frame, spec, versioned, queueVars, cryptoVars, clusterVars, ledgerVars, pod,
                   historyVars>>

-----------------------------------------------------------------------------
(* Reconcile: the status, and the end                                      *)

\* What the offering says of the certificates comes before the pods, and only
\* then the pods.
PeerStatus ==
    IF worker.rstatus \notin {"none", status} THEN worker.rstatus
    ELSE IF ~pod.up THEN "Deploying"
    ELSE IF status = "Deployed" THEN status ELSE "Running"

\* PreReconcileChecks' "Initializing" is taken as it is; a node without pods
\* keeps its status.
OrdererStatus ==
    IF worker.rstatus # "none" THEN worker.rstatus
    ELSE IF pod.up THEN "Running" ELSE IF dep.replicas = 1 THEN "Deploying" ELSE status

NextStatus ==
    IF worker.result \in {"error", "breaking"} THEN "Error"
    ELSE IF IsPeer THEN PeerStatus ELSE OrdererStatus


\* Reconcile's result: again after an error that does not stop the loop, and
\* until the stack is empty.
QueuedAgain(pushed) == worker.result = "error" \/ (worker.result # "breaking" /\ pushed # <<>>)

\* The spec is saved, the status set, and a request that asked for it requeued
\* with the update put back.  A change of the status of an orderer node is an
\* update of its own.
SetStatus ==
    LET changed == IF IsPeer \/ NextStatus = status THEN stack ELSE Push(stack, {"statusUpdated"})
        pushed == IF worker.result = "requeue" THEN Push(changed, worker.upd) ELSE changed IN
    /\ At("status")
    /\ saved' = worker.inst
    /\ status' = NextStatus
    /\ stack' = pushed
    /\ work' = (work \/ changed # stack \/ QueuedAgain(pushed))
    /\ worker' = Idle
    /\ UNCHANGED <<setup, up, spec, versioned, cryptoVars, clusterVars, ledgerVars, podVars, historyVars>>

\* Saving or patching fails; an update to be put back is not.
SetStatusError ==
    /\ At("status")
    /\ Event
    /\ saved' \in {saved, worker.inst}
    /\ work' = TRUE
    /\ worker' = Idle
    /\ NoteIf("failed", worker.result = "requeue" /\ worker.upd # {})
    /\ UNCHANGED <<setup, up, spec, versioned, status, stack, cryptoVars, clusterVars, ledgerVars,
                   podVars>>

\* The operator's pod goes; the stack and the call in progress are gone.
Crash ==
    /\ up /\ Event
    /\ up' = FALSE
    /\ stack' = <<>> /\ work' = FALSE /\ worker' = Idle
    /\ NoteIf("orphan", couch)
    /\ UNCHANGED <<setup, crVars, cryptoVars, clusterVars, ledgerVars, podVars>>

-----------------------------------------------------------------------------
(* The node's pod                                                          *)

\* A ledger of the other format stops the peer.
LedgerFits == IsPeer => db = 0 \/ (dep.version >= 2) = (db = 2)

Startable ==
    /\ dep.rev # Absent /\ dep.replicas = 1
    /\ cfg.there /\ cfg.over # Absent /\ crypto.there = Certs
    /\ made["pvc"] # Absent /\ made["rbac"] # Absent
    /\ LedgerFits

\* A pod is replaced, or is gone.  Its phase is in the deployment's status, so
\* that the request is queued.
PodLoads(new) ==
    /\ pod' = new
    /\ db' = IF new.up /\ IsPeer /\ db = 0 THEN IF dep.version = 1 THEN 1 ELSE 2 ELSE db
    /\ work' = (work \/ up)
    /\ UNCHANGED <<setup, up, crVars, stack, worker, cryptoVars, clusterVars, job, couch, historyVars>>

Loaded == [up |-> TRUE, rev |-> dep.rev, version |-> dep.version, cfg |-> cfg, stale |-> {}]

Outdated == <<pod.rev, pod.version>> # <<dep.rev, dep.version>>

PodStarts == (~pod.up \/ Outdated) /\ Startable /\ PodLoads(Loaded) /\ UNCHANGED restart

\* The staggered restart queue has the pod replaced.
PodRestarts ==
    /\ "queued" \in restart
    /\ Startable
    /\ PodLoads(Loaded)
    /\ restart' = restart \ {"queued"}

PodStops ==
    /\ pod.up
    /\ dep.replicas = 0 \/ (Outdated /\ ~Startable)
    /\ PodLoads(NoPod)
    /\ UNCHANGED restart

-----------------------------------------------------------------------------
WorkerStep ==
    \/ Start \/ SetVersion \/ PeerPreReconcileChecks \/ OrdererPreReconcileChecks \/ ChecksRefuse
    \/ HandleMigrationJobs \/ DeleteCouchDBPod
    \/ ScaleDown \/ WaitForPodToDelete \/ StartCouchDBPod \/ WaitForPodToBeRunning
    \/ StartJob \/ WaitUntilActive \/ WaitUntilContainerFinished \/ ScaleUp
    \/ PeerInitialize \/ PeerInitializeUpdateConfigOverride \/ PeerInitializeUpdateNodeOU
    \/ OrdererInitialize \/ OrdererInitializeUpdateConfigOverride \/ OrdererInitializeUpdateNodeOU
    \/ GenerateEcert \/ GenerateTLSCert \/ PeerCreateConfigMap \/ OrdererCreateConfigMap
    \/ PeerUpdateAdminSecret \/ OrdererUpdateAdminSecret
    \/ RestartForConfigOverride \/ RestartForNodeOU \/ RestartForAdminCertUpdate
    \/ RestartForCertUpdate
    \/ PeerMigrationV2_0 \/ SetChaincodeLauncherResourceOnCR \/ PeerV2Config
    \/ PeerMigrationV2_4 \/ PeerMigrationV2_5
    \/ OrdererMigrationV2_0 \/ OrdererMigrationV2_4 \/ OrdererMigrationV2_5
    \/ ReconcileRBAC \/ ReconcilePVC \/ ReconcileService \/ ReconcileEnvConfigMap
    \/ ReconcileSecret \/ ReconcileIngressManager \/ ReconcileRoutes
    \/ PeerUpdateConnectionProfile \/ OrdererUpdateConnectionProfile
    \/ ReconcileDeployment \/ CheckStates
    \/ PeerCustomLogic \/ PeerUpdateMSPCertificates \/ PeerHandleActions
    \/ OrdererCustomLogic \/ OrdererUpdateMSPCertificates \/ OrdererHandleActions
    \/ ResetActionFlags \/ HandleRestart \/ SetStatus

Next ==
    \/ WorkerStep
    \/ \E change \in UNION Range(Changes) : Edit(change)
    \/ \E step \in PCs : Fail(step)
    \/ JobsMisread \/ ConfigMisread \/ HandleActionsFails \/ SetStatusError
    \/ Crash \/ CreateFunc \/ CreateFuncUnread
    \/ JobStep \/ JobFails
    \/ PodStarts \/ PodRestarts \/ PodStops

Spec == Init /\ [][Next]_vars

\* The controller's worker runs, the operator is started again, and the
\* cluster runs jobs and pods.
Fairness ==
    /\ WF_vars(WorkerStep) /\ WF_vars(CreateFunc) /\ WF_vars(JobStep)
    /\ WF_vars(PodStarts) /\ WF_vars(PodRestarts) /\ WF_vars(PodStops)

FairSpec == Spec /\ Fairness

-----------------------------------------------------------------------------
(* Properties                                                              *)

\* The flags on their way to a reconcile.
Coming == (UNION Range(stack)) \cup worker.upd

\* Whatever of the cluster is behind the spec (a config map without the
\* current override or node OUs, certificates of an older spec, a ledger of
\* the old format, an action asked for, a pod with an old certificate), the
\* flag that makes a reconcile see to it is in the stack or in the reconcile
\* under way, unless one of the mishaps has happened.
NothingForgotten == up /\ mishaps \subseteq {"late"} => Owed \subseteq Coming

\* The node's pod and the migration job never have the ledger open at the same
\* time, unless the list of the jobs could not be read, or the job's pod was
\* taken as finished before it began (containerTerminated).
LedgerExclusive ==
    mishaps \cap {"misread", "pending"} = {} => ~(pod.up /\ job.state = "running")

AtRest == up /\ worker.pc = "idle" /\ ~work /\ stack = <<>> /\ restart = {}

\* When nothing is queued any more the deployment is the spec's and its pod
\* runs the configuration and the certificates that are in the cluster, unless
\* one of the mishaps has happened.
PodRunsLatest ==
    AtRest /\ mishaps = {} =>
        /\ dep = Expected(spec)
        /\ pod.up /\ ~Outdated => pod.cfg = cfg /\ pod.stale = {}

=============================================================================
