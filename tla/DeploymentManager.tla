--------------------------- MODULE DeploymentManager ---------------------------
(***************************************************************************)
(* One deployment of a CA, a peer or an orderer node: the Reconcile,       *)
(* CheckState and RestoreState of pkg/manager/resources/deployment, the    *)
(* Create and Update overrides of pkg/offering/base/*/override, and the    *)
(* patches of pkg/k8s/controllerclient that carry them to the API server.  *)
(*                                                                         *)
(* The operator reads deployments from its cache, which follows the API    *)
(* server with a delay; restarts, the deployment controller and users with *)
(* kubectl write the same object.  A field of the deployment has the       *)
(* number of the revision it was made from.  A version of the object is    *)
(* known by its age: how many writes came after it.                        *)
(***************************************************************************)
EXTENDS Integers, FiniteSets

CONSTANTS
    Setups,     \* what there is at first: kind, spec and number of TLS root certificates
    Edits,      \* Edits[kind]: the fields of the spec that an edit may touch
    MaxEvents   \* bound: most edits, kubectl commands, restarts and shuffles

Kinds == {"ca", "peer", "orderer"}
Absent == -1

\* The parts of the deployment, by the way the overrides treat them.  credentials: of the state
\* database, in the peer's container; couchdb: in the database's own.  pvc and shared: where
\* /data is mounted from.
Fields == {"image", "replicas", "pull", "affinity", "address", "endpoint", "hsm", "launcher",
           "runtimes", "https", "couchdb", "credentials", "rootcerts", "pvc", "shared", "restart"}

\* A merge patch replaces a list as a whole: these are in the list of containers.
Containers == {"image", "address", "endpoint", "launcher", "runtimes", "https", "couchdb",
               "credentials", "rootcerts", "pvc", "shared"}

\* The spec.  endpoint: PKCS11Endpoint, hsm: HSM image, if PKCS11 is configured; launcher: image
\* of the chaincode launcher; version: Fabric 1.4 (1), 2.x (2), 2.4.1 on (3); external: the CA is
\* on Postgres, the peer on CouchDB; wrong: what the overrides refuse.
Revs == 0..MaxEvents
Specs == [image : Revs, replicas : Revs, pull : Revs, affinity : Revs, address : Revs,
          endpoint : Revs \cup {Absent}, hsm : Revs \cup {Absent}, launcher : Revs \cup {Absent},
          version : 1..3, external : BOOLEAN, wrong : {"nothing", "license", "replicas"}]

ASSUME ConstantsOK ==
    /\ \A s \in Setups : /\ s.kind \in Kinds /\ s.spec \in Specs /\ s.certs \in 1..2
                          /\ \A f \in {"endpoint", "hsm", "launcher"} : s.spec[f] <= 0
    /\ Edits \in [Kinds -> SUBSET {"image", "pull", "affinity", "address", "endpoint", "hsm",
                                   "launcher", "version", "external", "wrong"}]
    /\ MaxEvents \in Nat

VARIABLES
    setup,      \* a member of Setups
    spec,       \* the custom resource's spec
    dep,        \* the deployment (Nothing if there is none)
    cache,      \* the operator's copy of it, and its age
    rollout,    \* the deployment controller has not yet seen the last change
    update,     \* an update of the spec waits for a reconcile
    queue,      \* the custom resource is in the work queue
    worker,     \* the reconcile under way
    events,     \* events that may still come
    mishaps     \* history: which of the known hazards have happened

operatorVars == <<update, queue, worker>>
historyVars == <<events, mishaps>>
vars == <<setup, spec, dep, cache, rollout, operatorVars, historyVars>>

Nothing == [f \in Fields |-> Absent]
Idle == [pc |-> "idle"]
Mishaps == {"conflict", "overwritten", "exists", "hidden", "removed", "todatabase", "tohsm",
            "database", "panicked"}

\* A reconcile under way: the spec it has read, whether an update of it was flagged, the object
\* to be patched and its age, the tries left for it, where it goes on and if a try has succeeded.
Reconciling == [pc : {"deployment", "patch", "check", "restore"}, inst : Specs, upd : BOOLEAN,
                obj : [Fields -> Int], age : Nat, tries : 0..3, then : {"check", "idle"},
                written : BOOLEAN]

Kind == setup.kind

TypeOK ==
    /\ setup \in Setups /\ spec \in Specs
    /\ dep \in [Fields -> Int] /\ cache \in [obj : [Fields -> Int], age : Nat]
    /\ rollout \in BOOLEAN /\ update \in BOOLEAN /\ queue \in BOOLEAN
    /\ worker = Idle \/ worker \in Reconciling
    /\ events \in 0..MaxEvents /\ mishaps \subseteq Mishaps

If(name, condition) == IF condition THEN {name} ELSE {}
Note(new) == mishaps' = mishaps \cup new
Event == events > 0 /\ events' = events - 1

-----------------------------------------------------------------------------
(* Containers and deployments (pkg/manager/resources/{container,deployment}) *)

\* AppendEnvIfMissing, AppendVolumeIfMissing, AppendContainerIfMissing: what is there stays.
AppendIfMissing(d, f, value) == IF d[f] = Absent THEN [d EXCEPT ![f] = value] ELSE d

\* SetImage, SetReplicas, SetImagePullSecrets, AppendEnvIfMissingOverrideIfPresent
Set(d, f, value) == [d EXCEPT ![f] = value]

\* UpdateEnv
UpdateEnv(d, f, value) == [d EXCEPT ![f] = value]

\* DeleteEnv
DeleteEnv(d, f) == [d EXCEPT ![f] = Absent]

-----------------------------------------------------------------------------
(* The overrides                                                           *)

UsingHSMProxy(s) == s.endpoint # Absent
IsHSMEnabled(s) == s.hsm # Absent
UsingCouchDB(s) == Kind = "peer" /\ s.external
IsPostgres(s) == Kind = "ca" /\ s.external

\* CommonDeployment of the CA, CommonDeploymentOverrides of the orderer and of the peer
CACommonDeployment(d, s) == Set(Set(d, "image", s.image), "replicas", s.replicas)
OrdererCommonDeployment(d, s) == Set(Set(d, "image", s.image), "replicas", s.replicas)
PeerCommonDeployment(d, s) ==
    AppendIfMissing(Set(Set(d, "image", s.image), "replicas", s.replicas), "address", s.address)

\* hsmSettings: the init container is added, not changed.
hsmSettings(d, s) == AppendIfMissing(d, "hsm", s.hsm)

CreateHSM(d, s) ==
    IF UsingHSMProxy(s) THEN AppendIfMissing(d, "endpoint", s.endpoint)
    ELSE IF IsHSMEnabled(s) THEN hsmSettings(d, s) ELSE d

UpdateHSM(d, s) ==
    IF UsingHSMProxy(s) THEN UpdateEnv(d, "endpoint", s.endpoint)
    ELSE IF IsHSMEnabled(s) THEN Set(d, "hsm", s.hsm) ELSE d

\* GetAffinity, SetAffinity
SetAffinity(d, s) == Set(d, "affinity", s.affinity)

\* The CA's data is on a volume claim, or in memory if its database is elsewhere.
CACreateDeployment(d, s) ==
    CreateHSM(SetAffinity(AppendIfMissing(Set(CACommonDeployment(d, s), "pull", s.pull),
                                          IF IsPostgres(s) THEN "shared" ELSE "pvc", 0), s), s)

CAUpdateDeployment(d, s) == UpdateHSM(CACommonDeployment(d, s), s)

OrdererCreateDeployment(d, s) ==
    CreateHSM(SetAffinity(AppendIfMissing(Set(OrdererCommonDeployment(d, s), "pull", s.pull),
                                          "address", s.address), s), s)

OrdererUpdateDeployment(d, s) == UpdateHSM(OrdererCommonDeployment(d, s), s)

\* Random credentials, for the database and for the peer
CreateCouchDBContainers(d, fresh) ==
    IF d.couchdb # Absent THEN d
    ELSE AppendIfMissing(AppendIfMissing(d, "couchdb", fresh), "credentials", fresh)

\* The environment of Fabric 1.4 has the chaincode runtimes.
V1Deployment(d) == AppendIfMissing(d, "runtimes", 0)

\* CreateCCLauncherContainer: added, not changed
CreateCCLauncherContainer(d, s) == AppendIfMissing(d, "launcher", s.launcher)

V2Deployment(d, s) ==
    IF s.launcher = Absent THEN d ELSE DeleteEnv(CreateCCLauncherContainer(d, s), "runtimes")

\* The probes of the launcher are on HTTPS.
V24Deployment(d, s) == IF s.version = 3 /\ s.launcher # Absent THEN Set(d, "https", 0) ELSE d

\* Seeded fault: an existing launcher is left alone.
V2DeploymentKept(d, s) == V2Deployment(d, s)

V2DeploymentUpdate(d, s) ==
    IF s.launcher = Absent \/ d.launcher = Absent THEN V2Deployment(d, s)
    ELSE Set(d, "launcher", s.launcher)

\* order: of the keys of the secret with the TLS root certificates
PeerCreateDeployment(d, s, fresh, order) ==
    LET couch == IF UsingCouchDB(s) THEN CreateCouchDBContainers(d, fresh) ELSE d
        base == SetAffinity(Set(PeerCommonDeployment(couch, s), "pull", s.pull), s)
        certs == CreateHSM(Set(base, "rootcerts", order), s)
    IN IF s.version = 1 THEN V1Deployment(certs) ELSE V24Deployment(V2Deployment(certs, s), s)

PeerUpdateDeployment(d, s) ==
    LET common == PeerCommonDeployment(d, s) IN
    UpdateHSM(IF s.version = 1 THEN V1Deployment(common)
              ELSE V24Deployment(V2DeploymentUpdate(common, s), s), s)

\* Override.Deployment
Create(d, s, fresh, order) ==
    CASE Kind = "ca" -> CACreateDeployment(d, s)
      [] Kind = "peer" -> PeerCreateDeployment(d, s, fresh, order)
      [] Kind = "orderer" -> OrdererCreateDeployment(d, s)

Update(d, s) ==
    CASE Kind = "ca" -> CAUpdateDeployment(d, s)
      [] Kind = "peer" -> PeerUpdateDeployment(d, s)
      [] Kind = "orderer" -> OrdererUpdateDeployment(d, s)

\* Only CreateDeployment wants the licence accepted; both refuse too many replicas.
CreateRefuses(s) == s.wrong # "nothing"
UpdateRefuses(s) == s.wrong = "replicas"

\* MustGetContainer has no container, and its image is set.
UpdatePanics(d, s) ==
    \/ UsingCouchDB(s) /\ d.couchdb = Absent
    \/ ~UsingHSMProxy(s) /\ IsHSMEnabled(s) /\ d.hsm = Absent

\* GenerateRandomString: credentials that are not in use
Random ==
    CHOOSE n \in 1..7 : \A d \in {dep, cache.obj} \cup (IF worker = Idle THEN {} ELSE {worker.obj}) :
        n \notin {d.couchdb, d.credentials}

\* A map has no order: the keys of the secret come in any.
Orders == IF Kind = "peer" THEN 0..(setup.certs - 1) ELSE {Absent}

-----------------------------------------------------------------------------
(* The API server, the cache and others who write the deployment           *)

Init ==
    /\ setup \in Setups
    /\ spec = setup.spec
    /\ dep = Nothing /\ cache = [obj |-> Nothing, age |-> 0] /\ rollout = FALSE
    /\ update = FALSE /\ queue = TRUE /\ worker = Idle
    /\ events = MaxEvents /\ mishaps = {}

\* Every write makes the copies older: the operator's cache, and the object a reconcile holds.
Older(w) == IF w = Idle THEN w ELSE [w EXCEPT !.age = @ + 1]
Store(new) ==
    /\ dep' = new
    /\ cache' = [cache EXCEPT !.age = @ + 1]
    /\ rollout' = (new # Nothing)

\* The number of the next event is the revision that it makes.
Rev == MaxEvents - events + 1

EditedTo(f) ==
    CASE f = "version" -> {v \in {spec.version + 1} : v <= 3}
      [] f = "external" -> {~spec.external}
      [] f = "wrong" -> {"nothing", "license", "replicas"} \ {spec.wrong}
      [] OTHER -> {Rev}

\* An edit of the custom resource: the predicates flag it and enqueue the resource.
Edit(f) ==
    /\ f \in Edits[Kind]
    /\ Event
    /\ \E v \in EditedTo(f) : spec' = [spec EXCEPT ![f] = v]
    /\ update' = TRUE /\ queue' = TRUE
    /\ Note(If("database", Kind = "ca" /\ f = "external")
            \cup If("todatabase", Kind = "peer" /\ f = "external" /\ ~spec.external)
            \cup If("tohsm", f = "hsm" /\ spec.hsm = Absent))
    /\ UNCHANGED <<setup, dep, cache, rollout, worker>>

\* Someone edits the deployment itself.  The launcher is compared with nothing later.
Kubectl(f) ==
    /\ dep[f] # Absent
    /\ Event
    /\ Store([dep EXCEPT ![f] = IF f = "couchdb" THEN Absent ELSE Rev])
    /\ worker' = Older(worker)
    /\ Note(If("hidden", f = "launcher") \cup If("removed", f = "couchdb"))
    /\ UNCHANGED <<setup, spec, update, queue>>

KubectlDelete ==
    /\ dep # Nothing
    /\ Event
    /\ Store(Nothing)
    /\ worker' = Older(worker)
    /\ UNCHANGED <<setup, spec, update, queue, mishaps>>

\* A restart: the annotation of the pod template, in a goroutine of its own.
Restart ==
    /\ dep # Nothing
    /\ Event
    /\ Store([dep EXCEPT !.restart = Rev])
    /\ worker' = Older(worker)
    /\ UNCHANGED <<setup, spec, update, queue, mishaps>>

\* The deployment controller writes the status: another version with the same spec.
RolloutStatus ==
    /\ rollout
    /\ rollout' = FALSE
    /\ cache' = [cache EXCEPT !.age = @ + 1]
    /\ worker' = Older(worker)
    /\ UNCHANGED <<setup, spec, dep, update, queue, historyVars>>

\* The watch delivers the deployment; its event enqueues the owner.
CacheSync ==
    /\ cache.age > 0
    /\ cache' = [obj |-> dep, age |-> 0]
    /\ queue' = TRUE
    /\ UNCHANGED <<setup, spec, dep, rollout, update, worker, historyVars>>

-----------------------------------------------------------------------------
(* The reconcile                                                           *)

At(pc) == worker.pc = pc
Goto(pc) == worker' = [worker EXCEPT !.pc = pc]
outside == <<setup, spec, dep, cache, rollout>>

Start ==
    /\ worker = Idle /\ queue
    /\ queue' = FALSE /\ update' = FALSE
    /\ worker' = [pc |-> "deployment", inst |-> spec, upd |-> update, obj |-> Nothing, age |-> 0,
                  tries |-> 0, then |-> "check", written |-> FALSE]
    /\ UNCHANGED <<outside, historyVars>>

\* The override refuses the spec: a breaking error, which is not tried again.
Refused ==
    /\ \/ At("deployment") /\ cache.obj = Nothing /\ CreateRefuses(worker.inst)
       \/ At("deployment") /\ cache.obj # Nothing /\ worker.upd /\ UpdateRefuses(worker.inst)
       \/ At("check") /\ cache.obj # Nothing /\ CreateRefuses(worker.inst)
    /\ worker' = Idle
    /\ UNCHANGED <<outside, update, queue, historyVars>>

\* Reconcile finds no deployment and makes one; that there is one after all is not an error.
ReconcileCreate ==
    /\ At("deployment") /\ cache.obj = Nothing /\ ~CreateRefuses(worker.inst)
    /\ IF dep = Nothing
       THEN \E order \in Orders : Store(Create(Nothing, worker.inst, Random, order))
       ELSE UNCHANGED <<dep, cache, rollout>>
    /\ Goto("check")
    /\ Note(If("exists", dep # Nothing /\ worker.upd))
    /\ UNCHANGED <<setup, spec, update, queue, events>>

\* The object that is to be patched, made from the one in the cache
Hold(obj, tries, then) ==
    worker' = [worker EXCEPT !.pc = "patch", !.obj = obj, !.age = cache.age, !.tries = tries,
                             !.then = then, !.written = FALSE]

ReconcileUpdate ==
    LET s == worker.inst IN
    /\ At("deployment") /\ cache.obj # Nothing
    /\ IF worker.upd
       THEN ~UpdateRefuses(s) /\ ~UpdatePanics(cache.obj, s) /\ Hold(Update(cache.obj, s), 3, "check")
       ELSE Goto("check")
    /\ UNCHANGED <<outside, update, queue, historyVars>>

\* The operator's process ends and is started anew; the edit is found again.
Panic ==
    /\ At("deployment") /\ cache.obj # Nothing /\ worker.upd
    /\ ~UpdateRefuses(worker.inst) /\ UpdatePanics(cache.obj, worker.inst)
    /\ worker' = Idle /\ update' = TRUE /\ queue' = TRUE
    /\ cache' = [obj |-> dep, age |-> 0]
    /\ Note({"panicked"})
    /\ UNCHANGED <<setup, spec, dep, rollout, events>>

\* The parts of the specs that differ, without the ones that are not looked at
ignoreDifferences(old, new) == \E f \in Fields \ {"affinity", "restart"} : old[f] # new[f]

\* CheckState: what CreateDeployment would make of the deployment in the cache
CheckState ==
    /\ At("check")
    /\ IF cache.obj = Nothing THEN worker' = Idle /\ UNCHANGED historyVars
       ELSE /\ ~CreateRefuses(worker.inst)
            /\ \E order \in Orders :
                  /\ IF order = cache.obj.rootcerts THEN UNCHANGED historyVars
                     ELSE Event /\ UNCHANGED mishaps
                  /\ IF ignoreDifferences(cache.obj, Create(cache.obj, worker.inst, Random, order))
                     THEN Goto("restore") ELSE worker' = Idle
    /\ UNCHANGED <<outside, update, queue>>

\* RestoreState: CreateDeployment once more, and a patch
RestoreState ==
    /\ At("restore")
    /\ IF cache.obj = Nothing THEN worker' = Idle
       ELSE \E order \in Orders : Hold(Create(cache.obj, worker.inst, Random, order), 2, "idle")
    /\ UNCHANGED <<outside, update, queue, historyVars>>

-----------------------------------------------------------------------------
(* The patch                                                               *)

\* Seeded fault: the version is left out of the patch.
LockedNever == FALSE

\* The patch is the difference between the cached object (Into) and the one that is held.  If
\* their versions differ it names the version that is held, which then must be the current one.
Locked == worker.age # cache.age

\* The merge patch, applied to what the API server has
Patched(into, obj) ==
    LET differs == {f \in Fields : into[f] # obj[f]}
        list == IF differs \cap Containers # {} THEN Containers ELSE {}
    IN [f \in Fields |-> IF f \in differs \cup list THEN obj[f] ELSE dep[f]]

\* The API server refuses two mounts on one path.
Invalid(d) == d.pvc # Absent /\ d.shared # Absent

\* Seeded fault: the tries are not counted.
TriedAgain(w) == w

\* One try is over: the loop goes on after a success, too.
Tried(w) == IF w.tries = 1 THEN (IF w.then = "idle" THEN Idle ELSE [w EXCEPT !.pc = w.then, !.tries = 0])
            ELSE [w EXCEPT !.tries = @ - 1]

PatchError ==
    /\ At("patch")
    /\ \/ dep = Nothing \/ cache.obj = Nothing
       \/ ~(Locked /\ worker.age # 0) /\ Invalid(Patched(cache.obj, worker.obj))
    /\ worker' = Idle /\ queue' = TRUE
    /\ UNCHANGED <<outside, update, historyVars>>

\* A conflict is tried again, with the same object; the last one is not reported.
PatchConflict ==
    /\ At("patch") /\ dep # Nothing /\ cache.obj # Nothing
    /\ Locked /\ worker.age # 0
    /\ worker' = Tried(worker)
    /\ Note(If("conflict", worker.tries = 1 /\ ~worker.written))
    /\ UNCHANGED <<outside, update, queue, events>>

ResilientPatch ==
    LET new == Patched(cache.obj, worker.obj) IN
    /\ At("patch") /\ dep # Nothing /\ cache.obj # Nothing
    /\ ~(Locked /\ worker.age # 0) /\ ~Invalid(new)
    /\ IF new = dep THEN UNCHANGED <<dep, cache, rollout>> ELSE Store(new)
    /\ worker' = Tried([worker EXCEPT !.obj = new, !.age = 0, !.written = TRUE])
    /\ Note(If("overwritten", worker.age # 0 /\ new # dep))
    /\ UNCHANGED <<setup, spec, update, queue, events>>

Work ==
    \/ Start \/ Refused \/ ReconcileCreate \/ ReconcileUpdate \/ Panic
    \/ CheckState \/ RestoreState \/ PatchError \/ PatchConflict \/ ResilientPatch

Next ==
    \/ Work \/ CacheSync \/ RolloutStatus
    \/ \E f \in Edits[Kind] : Edit(f)
    \/ \E f \in {"replicas", "affinity", "launcher", "couchdb"} : Kubectl(f)
    \/ KubectlDelete \/ Restart

Spec == Init /\ [][Next]_vars

\* The queue is served, the watch is delivered and the deployment controller runs.
FairSpec == Spec /\ WF_vars(Work) /\ WF_vars(CacheSync) /\ WF_vars(RolloutStatus)

-----------------------------------------------------------------------------
(* Properties                                                              *)

\* Nothing is left to do.
Quiet == worker = Idle /\ ~queue /\ cache.age = 0 /\ ~rollout

\* SpecReached: when the operator has nothing left to do, the deployment is what the spec asks,
\* and what others have made of it is undone - although each override sets only a part of it,
\* reads come from a cache and a patch may be lost.  The exceptions: a patch that met conflicts
\* only, one that was made from an old copy and replaced a list, an update that found no
\* deployment in the cache, a part that CheckState does not compare, and a database of the CA
\* that has changed.
SpecReached ==
    Quiet /\ spec.wrong = "nothing"
    /\ mishaps \cap {"conflict", "overwritten", "exists", "hidden", "database"} = {} =>
        /\ \A f \in {"image", "replicas", "pull"} : dep[f] = spec[f]
        /\ UsingHSMProxy(spec) => dep.endpoint = spec.endpoint
        /\ IsHSMEnabled(spec) /\ ~UsingHSMProxy(spec) => dep.hsm = spec.hsm
        /\ Kind = "peer" /\ spec.version > 1 /\ spec.launcher # Absent =>
              dep.launcher = spec.launcher /\ dep.runtimes = Absent
              /\ (spec.version = 3 => dep.https # Absent)

\* RestartsKept: no patch takes back a restart that another goroutine has asked for while the
\* operator held an older copy of the deployment, with or without conflicts and retries.
RestartsKept == [][dep' # Nothing => dep'.restart >= dep.restart]_vars

\* Settles: CheckState and RestoreState agree on what they want, so that patches, the events
\* they cause and the reconciles those cause come to an end, unless the API server refuses the
\* deployment (a CA that changes its database) or the operator panics, again after every start,
\* because UpdateDeployment expects a container that only CreateDeployment adds: the spec has
\* begun to ask for CouchDB or for an HSM, or the container was removed.
Settles ==
    <>[](\/ Quiet \/ "database" \in mishaps
         \/ "panicked" \in mishaps /\ mishaps \cap {"todatabase", "tohsm", "removed"} # {})
=============================================================================
