----------------------------- MODULE CAReconcile -----------------------------
(***************************************************************************)
(* The life of a certificate authority under the operator: the predicates  *)
(* and Reconcile of controllers/ibpca, the offering's Reconcile (base, k8s *)
(* and openshift), the initialisation of the enrolment CA and the TLS CA   *)
(* in process or by an HSM job, the actions, the status and the pod that   *)
(* runs on what all this has left in the cluster.                          *)
(*                                                                         *)
(* An override, and the rest of the spec, is the number of the event that  *)
(* made it; 0 is an override that is not there.  Informer events are       *)
(* immediate here: stale caches and the race of the update stack are the   *)
(* subject of UpdateStack, the restart queue that of RestartManager; what   *)
(* imagesUpdated and fabricVersionUpdated do is in FabricNode.             *)
(***************************************************************************)
EXTENDS Integers, Sequences, FiniteSets, SequencesExt

CONSTANTS
    Setups,     \* how a CA is initialised, and the offering that does it
    Changes,    \* sets of facets one edit of the spec may touch
    MaxEvents   \* bound: edits, ageing, crashes, failed calls and misread objects

Facets == {"ca", "tls", "noca", "none", "rest", "tag", "renew", "restart"}

ASSUME ConstantsOK ==
    /\ Setups \subseteq {"SW", "HSM", "HSMDaemon"} \X {"k8s", "openshift", "base"}
    /\ Changes \subseteq SUBSET Facets
    /\ MaxEvents \in Nat

VARIABLES
    setup,      \* a member of Setups
    spec,       \* the custom resource's spec
    versioned,  \* its status carries this operator's version
    status,     \* type and reason of the status
    saved,      \* the config map <name>-spec
    stack,      \* r.update[name]
    work,       \* the request is queued
    worker,     \* the running Reconcile
    secret,     \* <name>-ca-crypto and <name>-tlsca-crypto
    cfg,        \* <name>-ca-config and <name>-tlsca-config
    made,       \* the revision each managed object was made from
    profile,    \* the TLS certificate in <name>-connection-profile
    job,        \* the HSM initialisation jobs
    pod,        \* what the running pod has loaded
    restart,    \* restarts asked for, and restarts queued
    up,         \* the operator runs
    events,     \* events so far
    mishaps     \* history: which of the known hazards have happened

crVars == <<spec, versioned, status, saved>>
queueVars == <<stack, work>>
clusterVars == <<secret, cfg, made, profile, job>>
podVars == <<pod, restart>>
historyVars == <<events, mishaps>>
vars == <<setup, up, crVars, queueVars, worker, clusterVars, podVars, historyVars>>

-----------------------------------------------------------------------------
CAs == {"ca", "tls"}
Absent == -1
Revs == 0..MaxEvents

Objects == {"pvc", "service", "rbac", "deployment", "ingress", "caroute", "opsroute"}

\* Update: one member per flag.
Flags == {"specUpdated", "caOverrides", "tlscaOverrides", "caTag", "restartNeeded",
          "renewTLSCert", "caCryptoUpdated", "caCryptoCreated"}

NewSpec == [ca |-> 0, tls |-> 0, over |-> FALSE, rest |-> 0, tag |-> 0, gen |-> FALSE,
            filled |-> FALSE, renew |-> FALSE, restart |-> FALSE]

Specs == [ca : Revs, tls : Revs, over : BOOLEAN, rest : Revs, tag : Revs, gen : BOOLEAN,
          filled : BOOLEAN, renew : BOOLEAN, restart : BOOLEAN]

\* ConfigOverride != nil.  gen marks a TLS certificate generated into it.
Overridden(s) == s.over \/ s.gen

\* The database an override of the CA asks for; without one it is sqlite.
IsPostgres(s) == s.ca % 2 = 1

\* Configs: the overrides they carry, the TLS CA's database, the CA's list of
\* further CAs, and ReenrollIgnoreCertExpiry.
Configs == [ca : -1..MaxEvents, tls : -1..MaxEvents, db : BOOLEAN, files : BOOLEAN, expiry : BOOLEAN]

NoConfig == [ca |-> Absent, tls |-> Absent, db |-> FALSE, files |-> FALSE, expiry |-> FALSE]

\* The root certificates by number (0 for a secret without one), and how old
\* the CA's TLS certificate is.
NoSecrets == [root |-> [c \in CAs |-> Absent], age |-> "fresh"]

NoPod == [up |-> FALSE, cfg |-> NoConfig, tls |-> FALSE, rev |-> Absent]

Idle == [pc |-> "idle", which |-> "ca", upd |-> {}, inst |-> NewSpec, resp |-> "none",
         result |-> "ok", rstatus |-> "none"]

\* The calls of the offering's Reconcile, in order: pkg/offering/k8s/ca.
K8sSteps == <<"version", "checks", "tlscrypto", "rbac", "daemonpvc", "init", "overrides",
    "pvc", "service", "managersrbac", "deployment", "ingress", "migration", "profile",
    "states", "certificates", "crypto", "actions", "trigger", "status">>

\* pkg/offering/openshift/ca: two routes for the ingress.
OpenshiftSteps == <<"version", "checks", "tlscrypto", "rbac", "daemonpvc", "init", "overrides",
    "pvc", "service", "managersrbac", "deployment", "caroute", "opsroute", "migration", "profile",
    "states", "certificates", "crypto", "actions", "trigger", "status">>

\* The base offering neither migrates nor looks at certificates.
BaseSteps == <<"version", "checks", "tlscrypto", "rbac", "daemonpvc", "init", "overrides",
    "pvc", "service", "managersrbac", "deployment", "profile",
    "states", "crypto", "actions", "trigger", "status">>

kind == setup[1]

Steps == CASE setup[2] = "k8s" -> K8sSteps
           [] setup[2] = "openshift" -> OpenshiftSteps
           [] setup[2] = "base" -> BaseSteps

\* The steps within Initialize's handling of one CA.
InitSteps == {"secret", "config", "hsmsecret", "hsmconfig", "hsmjob", "hsmwait"}

PCs == {"idle"} \cup InitSteps \cup Range(K8sSteps) \cup Range(OpenshiftSteps)

\* Steps whose failure is a CAInitilizationFailed, on which reconciling stops.
Breaking == InitSteps \cup {"rbac", "daemonpvc", "init", "overrides"}

Statuses == {"none", "Deploying", "Running", "Deployed", "Warning", "Expired", "Error"}

\* A running Reconcile: its step, the CA at hand, the update and the instance
\* it was given, what Initialize does and what it will return.
Calls == [pc : PCs, which : CAs, upd : SUBSET Flags, inst : Specs,
          resp : {"none", "create", "update"},
          result : {"ok", "requeue", "error", "breaking"}, rstatus : Statuses]

Mishaps == {"failed", "stopped", "halfway", "misread", "unflagged", "lateMigration"}

TypeOK ==
    /\ setup \in Setups
    /\ spec \in Specs /\ ~spec.gen /\ saved \in Specs
    /\ versioned \in BOOLEAN /\ work \in BOOLEAN /\ up \in BOOLEAN
    /\ status \in Statuses
    /\ stack \in Seq(SUBSET Flags)
    /\ worker \in Calls
    /\ secret \in [root : [CAs -> Nat \cup {Absent}], age : {"fresh", "expiring", "expired"}]
    /\ cfg \in Configs
    /\ made \in [Objects -> -1..MaxEvents]
    /\ profile \in {"none", "stale", "current"}
    /\ job \in [CAs -> {"none", "active", "succeeded", "failed"}]
    /\ pod \in [up : BOOLEAN, cfg : Configs, tls : BOOLEAN, rev : -1..MaxEvents]
    /\ restart \in SUBSET {"wanted", "queued"}
    /\ events \in 0..MaxEvents
    /\ mishaps \in SUBSET Mishaps

\* A custom resource just created; or a CA deployed by an older operator.
Init ==
    /\ setup \in Setups
    /\ \E old \in BOOLEAN :
          /\ spec = [NewSpec EXCEPT !.filled = old]
          /\ saved = [NewSpec EXCEPT !.filled = old]
          /\ status = IF old THEN "Deployed" ELSE "none"
          /\ secret = IF old THEN [NoSecrets EXCEPT !.root = [c \in CAs |-> 1]] ELSE NoSecrets
          /\ cfg = IF old THEN [NoConfig EXCEPT !.ca = 0, !.tls = 0, !.files = TRUE] ELSE NoConfig
          /\ made = [o \in Objects |->
                IF old /\ o \in Range(Steps) \cup {"rbac"} THEN 0 ELSE Absent]
          /\ profile = IF old THEN "current" ELSE "none"
          /\ pod = IF old THEN [up |-> TRUE, cfg |-> cfg, tls |-> TRUE, rev |-> 0] ELSE NoPod
          /\ stack = IF old THEN <<{}>> ELSE <<>>
    /\ versioned = FALSE
    /\ work = TRUE
    /\ worker = Idle
    /\ job = [c \in CAs |-> "none"]
    /\ restart = {}
    /\ up = TRUE
    /\ events = 0
    /\ mishaps = {}

Event == events < MaxEvents /\ events' = events + 1

NoteIf(m, condition) == mishaps' = mishaps \cup (IF condition THEN {m} ELSE {})

-----------------------------------------------------------------------------
(* Events                                                                  *)

Push(s, update) == IF update \in Range(s) THEN s ELSE Append(s, update)

If(flag, condition) == IF condition THEN {flag} ELSE {}

ConfigOverridesUpdated(update) == update \cap {"caOverrides", "tlscaOverrides"} # {}

\* Seeded fault: an override of the TLS CA is not compared.
UpdateFlagsNoTLS(old, new) ==
    {"specUpdated"} \cup If("caTag", old.tag # new.tag) \cup If("caOverrides", old.ca # new.ca)
    \cup If("restartNeeded", new.restart) \cup If("renewTLSCert", new.renew)

\* The flags UpdateFunc sets for a spec that has changed.
UpdateFlags(old, new) ==
    {"specUpdated"}
    \cup If("caTag", old.tag # new.tag)
    \cup (IF ~Overridden(old)
          THEN IF Overridden(new) THEN {"caOverrides", "tlscaOverrides"} ELSE {}
          ELSE If("caOverrides", old.ca # new.ca) \cup If("tlscaOverrides", old.tls # new.tls))
    \cup If("restartNeeded", new.restart)
    \cup If("renewTLSCert", new.renew)

\* UpdateFunc is called for a change of the spec, if the operator runs.
UpdateFunc(new) ==
    IF up /\ new # spec
    THEN stack' = Push(stack, UpdateFlags(spec, new)) /\ work' = TRUE
    ELSE UNCHANGED queueVars

\* The stack and the call in progress are gone.
OperatorDies ==
    /\ up' = FALSE
    /\ stack' = <<>> /\ work' = FALSE /\ worker' = Idle
    /\ NoteIf("halfway", worker.pc \in InitSteps)

\* A user edits the spec.  UpdateFunc follows a nil pointer when the overrides
\* are removed as a whole, and takes the operator down.
Edit(change) ==
    LET e == events + 1
        Bump(f, old) == IF f \in change THEN e ELSE old
        new == [spec EXCEPT !.ca = IF change \cap {"noca", "none"} # {} THEN 0 ELSE Bump("ca", @),
                            !.tls = IF "none" \in change THEN 0 ELSE Bump("tls", @),
                            !.over = "none" \notin change /\ (@ \/ change \cap CAs # {}),
                            !.rest = IF change \cap {"rest", "tag"} # {} THEN e ELSE @,
                            !.tag = Bump("tag", @),
                            !.renew = @ \/ "renew" \in change,
                            !.restart = @ \/ "restart" \in change] IN
    /\ Event
    /\ new # spec
    /\ spec' = new
    /\ IF up /\ spec.over /\ ~new.over
       THEN OperatorDies
       ELSE UpdateFunc(new) /\ UNCHANGED <<up, worker, mishaps>>
    /\ UNCHANGED <<setup, versioned, status, saved, clusterVars, podVars>>

\* The crypto secret of the CA is created, or its data changes: CreateFunc and
\* UpdateFunc of a secret.
SecretEvent(c, old, new, s) ==
    IF c # "ca" \/ old = new THEN s
    ELSE Push(s, {IF old = Absent THEN "caCryptoCreated" ELSE "caCryptoUpdated"})

\* What is behind the spec, as the flags that would make a reconcile see to it.
Owed ==
    If("caOverrides", spec.ca # 0 /\ cfg.ca \notin {Absent, spec.ca})
    \cup If("tlscaOverrides", spec.tls # 0 /\ cfg.tls \notin {Absent, spec.tls})
    \cup If("specUpdated", \E o \in {"ingress", "caroute", "opsroute"} :
                              made[o] \notin {Absent, spec.rest})
    \cup If("restartNeeded", spec.restart)
    \cup If("renewTLSCert", spec.renew)
    \cup If("caCryptoUpdated", pod.up /\ ~pod.tls /\ restart = {})

\* A pod with an older configuration, and no restart to load the new one.
Unrestarted == pod.up /\ pod.cfg # cfg /\ restart = {}

\* The saved spec as CreateFunc compares it after the operator was down.
CreateFlags ==
    If("specUpdated", spec # saved)
    \cup (IF ~Overridden(spec) /\ Overridden(saved) THEN {"caOverrides", "tlscaOverrides"} ELSE {})
    \cup (IF Overridden(spec) /\ Overridden(saved)
          THEN If("caOverrides", spec.ca # 0 /\ (saved.ca # 0 \/ saved.gen)
                                 /\ (spec.ca # saved.ca \/ saved.gen))
               \cup If("tlscaOverrides", spec.tls # 0 /\ saved.tls # 0 /\ spec.tls # saved.tls)
          ELSE {})

\* The informer lists the CA when the operator starts.  A CA without a status
\* is taken for a new one.
CreateFunc ==
    LET flags == IF status = "none" THEN {} ELSE CreateFlags IN
    /\ ~up
    /\ up' = TRUE
    /\ work' = TRUE
    /\ stack' = IF status = "none" THEN <<>> ELSE <<flags>>
    /\ NoteIf("unflagged", \/ ~(Owed \subseteq flags)
                           \/ Unrestarted /\ ~ConfigOverridesUpdated(flags))
    /\ UNCHANGED <<setup, crVars, worker, clusterVars, podVars, events>>

\* The saved spec cannot be read: reconcile without any update.
CreateFuncUnread ==
    /\ ~up /\ status # "none"
    /\ Event
    /\ up' = TRUE
    /\ work' = TRUE
    /\ NoteIf("unflagged", Owed # {} \/ Unrestarted)
    /\ UNCHANGED <<setup, crVars, stack, worker, clusterVars, podVars>>

-----------------------------------------------------------------------------
(* Reconcile: taking the request                                           *)

\* Whether a step of a call has anything to do; one that has not is passed over.
Needed(step, call) ==
    CASE step = "version" -> ~versioned
      [] step = "checks" -> ~call.inst.filled
      [] step = "tlscrypto" -> secret.root["tls"] = Absent
      [] step \in {"rbac", "managersrbac"} -> made["rbac"] = Absent
      [] step = "daemonpvc" -> kind = "HSMDaemon" /\ made["pvc"] = Absent
      [] step = "overrides" -> ConfigOverridesUpdated(call.upd)
      [] step = "pvc" -> ~IsPostgres(call.inst) /\ made["pvc"] = Absent
      [] step = "service" -> made["service"] = Absent
      [] step \in {"deployment", "ingress", "caroute", "opsroute"} ->
            made[step] = Absent \/ "specUpdated" \in call.upd
      [] step = "migration" -> "caTag" \in call.upd
      [] step = "profile" -> profile # "current"
      [] step = "states" -> made["deployment"] \notin {Absent, call.inst.rest}
      [] step = "crypto" -> "caCryptoUpdated" \in call.upd
      [] step = "actions" -> call.upd \cap {"renewTLSCert", "restartNeeded"} # {}
      [] step = "trigger" ->
            \/ "wanted" \in restart
            \/ call.upd \cap {"caCryptoUpdated", "restartNeeded", "caOverrides", "tlscaOverrides"} # {}
      [] OTHER -> TRUE

\* The first step of the call that is needed, from the i-th on.
FirstNeeded(call, i) ==
    Steps[CHOOSE j \in i..Len(Steps) :
             Needed(Steps[j], call) /\ \A k \in i..(j-1) : ~Needed(Steps[k], call)]

Start ==
    /\ up /\ worker.pc = "idle" /\ work
    /\ work' = FALSE
    /\ LET call == [Idle EXCEPT !.inst = spec, !.upd = IF stack = <<>> THEN {} ELSE Head(stack)] IN
          worker' = [call EXCEPT !.pc = FirstNeeded(call, 1)]
    /\ stack' = IF stack = <<>> THEN stack ELSE Tail(stack)
    /\ UNCHANGED <<setup, up, crVars, clusterVars, podVars, historyVars>>

At(pc) == worker.pc = pc

\* The next step after pc that has something to do.
After(pc) == FirstNeeded(worker, 1 + CHOOSE i \in DOMAIN Steps : Steps[i] = pc)

Continue == worker' = [worker EXCEPT !.pc = After(@)]

Leave(result) == worker' = [worker EXCEPT !.pc = "status", !.result = result]

\* What no step of the offering changes.
frame == <<setup, up, status, saved>>

\* A call of the offering fails.  What was popped is gone.
Fail(step) ==
    /\ At(step) /\ step # "status"
    /\ Event
    /\ Leave(IF step \in Breaking THEN "breaking" ELSE "error")
    /\ mishaps' = mishaps \cup If("failed", worker.upd # {})
                          \cup If("halfway", step \in InitSteps)
                          \cup If("stopped", step \in Breaking)
    /\ UNCHANGED <<frame, spec, versioned, queueVars, clusterVars, podVars>>

SetVersion ==
    /\ At("version")
    /\ versioned' = TRUE
    /\ Leave("requeue")
    /\ UNCHANGED <<frame, spec, queueVars, clusterVars, podVars, historyVars>>

\* Defaults are filled in (zone, region, HSM image, replicas, images), patched
\* into the custom resource, and the request is requeued.  The patch is an
\* update event of its own.  One made of an older copy conflicts each time it
\* is tried; ResilientPatch then returns without an error (client.go:137).
PreReconcileChecks ==
    LET new == IF spec = worker.inst THEN [spec EXCEPT !.filled = TRUE] ELSE spec IN
    /\ At("checks")
    /\ spec' = new
    /\ UpdateFunc(new)
    /\ worker' = [worker EXCEPT !.pc = "status", !.result = "requeue", !.inst.filled = TRUE]
    /\ UNCHANGED <<frame, versioned, clusterVars, podVars, historyVars>>

\* Only the instance in memory gets the generated certificate; it is saved with it.
AddTLSCryptoIfMissing ==
    /\ At("tlscrypto")
    /\ worker' = [worker EXCEPT !.pc = After(@), !.inst.gen = TRUE]
    /\ UNCHANGED <<frame, spec, versioned, queueVars, clusterVars, podVars, historyVars>>

-----------------------------------------------------------------------------
(* Managers                                                                *)

managerFrame == <<frame, spec, versioned, stack, secret, cfg, profile, job, podVars, historyVars>>

\* PVC, service and RBAC managers only create.
CreateIfMissing(o, pc) ==
    /\ At(pc)
    /\ made' = [made EXCEPT ![o] = IF @ = Absent THEN worker.inst.rest ELSE @]
    /\ Continue
    /\ UNCHANGED <<managerFrame, work>>

\* Ingress and route managers also update, if told that the spec was updated.
CreateOrUpdate(o) ==
    /\ At(o)
    /\ made' = [made EXCEPT ![o] =
          IF @ = Absent \/ "specUpdated" \in worker.upd THEN worker.inst.rest ELSE @]
    /\ Continue
    /\ UNCHANGED <<managerFrame, work>>

\* Role, role binding and service account, in Initialize and with the managers.
ReconcileRBAC == CreateIfMissing("rbac", "rbac") \/ CreateIfMissing("rbac", "managersrbac")

\* A CA on postgres has no volume; the HSM daemon needs it before the job.
ReconcilePVC == CreateIfMissing("pvc", "pvc") \/ CreateIfMissing("pvc", "daemonpvc")

ReconcileService == CreateIfMissing("service", "service")

\* The deployment's own events reach the controller without a predicate.
WriteDeployment(rev) ==
    /\ made' = [made EXCEPT !["deployment"] = rev]
    /\ work' = (work \/ made' # made)

ReconcileDeployment ==
    /\ At("deployment")
    /\ WriteDeployment(worker.inst.rest)
    /\ Continue
    /\ UNCHANGED managerFrame

ReconcileIngressManager == CreateOrUpdate("ingress")

ReconcileRoutes == CreateOrUpdate("caroute") \/ CreateOrUpdate("opsroute")

\* CheckState and RestoreState: the deployment is what the spec says.
CheckStates ==
    /\ At("states")
    /\ WriteDeployment(worker.inst.rest)
    /\ Continue
    /\ UNCHANGED managerFrame

-----------------------------------------------------------------------------
(* Initialize                                                              *)

initFrame == <<frame, spec, versioned, podVars>>

HasFlag(c) == (IF c = "ca" THEN "caOverrides" ELSE "tlscaOverrides") \in worker.upd

\* On to the TLS CA, or to the rest of Initialize.
NextCA == IF worker.which = "ca"
          THEN worker' = [worker EXCEPT !.pc = "init", !.which = "tls", !.resp = "none"]
          ELSE worker' = [worker EXCEPT !.pc = After("init"), !.resp = "none"]

Respond(resp) ==
    worker' = [worker EXCEPT !.resp = resp,
                  !.pc = IF resp = "update" \/ kind = "SW" THEN "secret" ELSE "hsmsecret"]

\* A crypto secret means that the CA has been initialised: only a changed
\* override is then worked in, on top of the config map, which has to be there.
HandleCAInit(c) ==
    /\ At("init") /\ worker.which = c
    /\ IF secret.root[c] = Absent THEN Respond("create")
       ELSE IF ~HasFlag(c) THEN NextCA
       ELSE IF cfg[c] # Absent THEN Respond("update")
       ELSE Leave("breaking")
    /\ UNCHANGED <<initFrame, queueVars, clusterVars, historyVars>>

\* Seeded fault: the CA is initialised again when its override has changed.
InitAgain ==
    /\ At("init") /\ worker.which = "ca"
    /\ IF secret.root["ca"] = Absent \/ HasFlag("ca") THEN Respond("create") ELSE NextCA
    /\ UNCHANGED <<initFrame, queueVars, clusterVars, historyVars>>

HandleEnrollmentCAInit == HandleCAInit("ca")

HandleTLSCAInit == HandleCAInit("tls")

\* SecretExists takes any error for a missing secret.
SecretMisread ==
    /\ At("init") /\ secret.root[worker.which] # Absent
    /\ Event
    /\ NoteIf("misread", TRUE)
    /\ Respond("create")
    /\ UNCHANGED <<initFrame, queueVars, clusterVars>>

\* A new root certificate.
NewRoot(r) == IF r < 1 THEN 1 ELSE r + 1

WriteRoot(c, new) ==
    /\ secret' = [secret EXCEPT !.root[c] = new]
    /\ stack' = SecretEvent(c, secret.root[c], new, stack)
    /\ work' = (work \/ stack' # stack)

\* What HandleConfigResources writes.  An update is merged with the secret by
\* MergeCryptoMaterial: it brings no root certificate, so that the old one stays.
RootWritten == IF worker.resp = "update" THEN secret.root[worker.which]
               ELSE NewRoot(secret.root[worker.which])

\* HandleConfigResources, first half: the secret.  With a flag the existing
\* secret is merged with what was made, and has to be there: overrides edited
\* before the first initialisation stop it.
ConfigResourcesSecret ==
    /\ At("secret")
    /\ IF ConfigOverridesUpdated(worker.upd) /\ secret.root[worker.which] = Absent
       THEN Leave("breaking") /\ NoteIf("stopped", TRUE) /\ UNCHANGED <<secret, queueVars>>
       ELSE /\ WriteRoot(worker.which, RootWritten)
            /\ worker' = [worker EXCEPT !.pc = "config"]
            /\ UNCHANGED mishaps
    /\ UNCHANGED <<initFrame, cfg, made, profile, job, events>>

\* The configuration from the defaults and the overrides.
CreateEnrollmentCAConfig ==
    [cfg EXCEPT !.ca = worker.inst.ca, !.files = TRUE, !.expiry = TRUE]

\* The database is the CA's: SyncDBConfig.
CreateTLSCAConfig ==
    [cfg EXCEPT !.tls = worker.inst.tls, !.db = IsPostgres(worker.inst)]

\* Overrides are merged onto the config map: one that was removed stays.
UpdateEnrollmentCAConfig ==
    [cfg EXCEPT !.ca = IF worker.inst.ca = 0 THEN @ ELSE worker.inst.ca, !.expiry = TRUE]

UpdateTLSCAConfig ==
    [cfg EXCEPT !.tls = IF worker.inst.tls = 0 THEN @ ELSE worker.inst.tls,
                !.db = IF worker.inst.ca = 0 THEN @ ELSE IsPostgres(worker.inst)]

NewConfig ==
    CASE worker.resp = "create" /\ worker.which = "ca" -> CreateEnrollmentCAConfig
      [] worker.resp = "create" /\ worker.which = "tls" -> CreateTLSCAConfig
      [] worker.resp = "update" /\ worker.which = "ca" -> UpdateEnrollmentCAConfig
      [] worker.resp = "update" /\ worker.which = "tls" -> UpdateTLSCAConfig

\* HandleConfigResources, second half: the config map.
ConfigResourcesConfig ==
    /\ At("config")
    /\ cfg' = NewConfig
    /\ NextCA
    /\ UNCHANGED <<initFrame, queueVars, secret, made, profile, job, historyVars>>

\* With an HSM the secret is there before the certificate that goes into it.
HSMSecret ==
    /\ At("hsmsecret")
    /\ WriteRoot(worker.which, IF secret.root[worker.which] = Absent THEN 0
                               ELSE secret.root[worker.which])
    /\ worker' = [worker EXCEPT !.pc = "hsmconfig"]
    /\ UNCHANGED <<initFrame, cfg, made, profile, job, historyVars>>

\* Create leaves a config map that is there alone.  The CA's further CAs are
\* listed only once the job is done.
HSMConfig ==
    /\ At("hsmconfig")
    /\ cfg' = IF cfg[worker.which] # Absent THEN cfg ELSE [NewConfig EXCEPT !.files = cfg.files]
    /\ worker' = [worker EXCEPT !.pc = "hsmjob"]
    /\ UNCHANGED <<initFrame, queueVars, secret, made, profile, job, historyVars>>

CreateJob ==
    /\ At("hsmjob")
    /\ job' = [job EXCEPT ![worker.which] = IF @ = "none" THEN "active" ELSE @]
    /\ worker' = [worker EXCEPT !.pc = "hsmwait"]
    /\ UNCHANGED <<initFrame, queueVars, secret, cfg, made, profile, historyVars>>

\* A job whose one container makes the certificate.
HSMJob == kind = "HSM" /\ CreateJob

\* A job with the HSM's client daemon beside that container.
HSMDaemonJob == kind = "HSMDaemon" /\ CreateJob

\* Seeded fault: the further CAs are not listed.
NotUpdated(c) == cfg

\* Only once the job is done the CA's config map lists the TLS CA.
UpdateCAConfigMap(c) == [cfg EXCEPT !.files = @ \/ c = "ca"]

\* The job is deleted, with its pods.
JobSucceeded ==
    /\ At("hsmwait") /\ job[worker.which] = "succeeded"
    /\ job' = [job EXCEPT ![worker.which] = "none"]
    /\ cfg' = UpdateCAConfigMap(worker.which)
    /\ NextCA
    /\ UNCHANGED <<initFrame, queueVars, secret, made, profile, historyVars>>

\* A failed job stays for its logs to be read.
JobFailed ==
    /\ At("hsmwait") /\ job[worker.which] = "failed"
    /\ Leave("breaking")
    /\ mishaps' = mishaps \cup {"halfway", "stopped"}
    /\ UNCHANGED <<initFrame, queueVars, clusterVars, events>>

\* The pod of the job is done.
WaitForJobPodToFinish == kind = "HSM" /\ (JobSucceeded \/ JobFailed)

\* The container certgen is done; the daemon beside it never is.
WaitUntilContainerFinished == kind = "HSMDaemon" /\ (JobSucceeded \/ JobFailed)

\* The job's pod writes the certificate into the secret.
JobRuns(c) ==
    /\ job[c] = "active"
    /\ job' = [job EXCEPT ![c] = "succeeded"]
    /\ secret' = [secret EXCEPT !.root[c] = NewRoot(@)]
    /\ stack' = IF up THEN SecretEvent(c, secret.root[c], secret'.root[c], stack) ELSE stack
    /\ work' = (work \/ stack' # stack)
    /\ UNCHANGED <<setup, up, crVars, worker, cfg, made, profile, podVars, historyVars>>

JobFails(c) ==
    /\ job[c] = "active"
    /\ Event
    /\ job' = [job EXCEPT ![c] = "failed"]
    /\ UNCHANGED <<setup, up, crVars, queueVars, worker, secret, cfg, made, profile, podVars, mishaps>>

\* Seeded fault: the configuration changes and nobody asks for a restart.
NoRestart ==
    /\ At("overrides")
    /\ Continue
    /\ UNCHANGED <<initFrame, queueVars, clusterVars, historyVars>>

\* Restart.ForConfigOverride, if there is a deployment to restart.
RestartForConfigOverride ==
    /\ At("overrides")
    /\ restart' = restart \cup If("wanted", made["deployment"] # Absent)
    /\ Continue
    /\ UNCHANGED <<frame, spec, versioned, queueVars, clusterVars, pod, historyVars>>

-----------------------------------------------------------------------------
(* After the managers                                                      *)

\* A new tag: the config map is rewritten after the deployment has changed,
\* and without a restart.
ReconcileFabricCAMigration ==
    /\ At("migration")
    /\ IF cfg.ca = Absent THEN Leave("error") /\ UNCHANGED <<cfg, mishaps>>
       ELSE /\ cfg' = [cfg EXCEPT !.expiry = TRUE]
            /\ NoteIf("lateMigration", pod.up /\ cfg' # cfg /\ pod.rev = made["deployment"])
            /\ Continue
    /\ UNCHANGED <<frame, spec, versioned, queueVars, secret, made, profile, job, podVars, events>>

UpdateConnectionProfile ==
    /\ At("profile")
    /\ profile' = "current"
    /\ Continue
    /\ UNCHANGED <<frame, spec, versioned, queueVars, secret, cfg, made, job, podVars, historyVars>>

CheckCertificates ==
    /\ At("certificates")
    /\ worker' = [worker EXCEPT !.pc = After(@), !.rstatus =
          CASE secret.age = "fresh" -> "Deployed"
            [] secret.age = "expiring" -> "Warning"
            [] secret.age = "expired" -> "Expired"]
    /\ UNCHANGED <<frame, spec, versioned, queueVars, clusterVars, podVars, historyVars>>

RestartForTLSReenroll ==
    /\ At("crypto")
    /\ restart' = restart \cup {"wanted"}
    /\ Continue
    /\ UNCHANGED <<frame, spec, versioned, queueVars, clusterVars, pod, historyVars>>

\* The flags of the actions that were taken, reset by a patch of the spec.
ResetFlags(s) == [s EXCEPT !.renew = @ /\ "renewTLSCert" \notin worker.upd,
                           !.restart = @ /\ "restartNeeded" \notin worker.upd]

\* RenewCert, if asked for: a new TLS certificate that neither the pod nor the
\* connection profile has, and an event of the secret.
Renew(renews) ==
    /\ secret' = IF renews THEN [secret EXCEPT !.age = "fresh"] ELSE secret
    /\ profile' = IF renews THEN "stale" ELSE profile
    /\ pod' = IF renews THEN [pod EXCEPT !.tls = FALSE] ELSE pod

\* Renewing writes the secret, restarting asks the restart manager; then the
\* flags are patched.
HandleActions ==
    LET renews == "renewTLSCert" \in worker.upd
        reset == ResetFlags(spec)
        pushed == IF renews THEN Push(stack, {"caCryptoUpdated"}) ELSE stack IN
    /\ At("actions")
    /\ Renew(renews)
    /\ restart' = restart \cup If("wanted", "restartNeeded" \in worker.upd)
    /\ spec' = reset
    /\ stack' = IF reset # spec THEN Push(pushed, UpdateFlags(spec, reset)) ELSE pushed
    /\ work' = (work \/ stack' # stack)
    /\ worker' = [worker EXCEPT !.pc = After(@), !.inst = [reset EXCEPT !.gen = worker.inst.gen]]
    /\ UNCHANGED <<frame, versioned, cfg, made, job, historyVars>>

\* Renewed, and then the restart or the patch fails: the flags are reset in
\* memory only, where they are saved from.
HandleActionsFails ==
    /\ At("actions") /\ "renewTLSCert" \in worker.upd
    /\ Event
    /\ Renew(TRUE)
    /\ stack' = Push(stack, {"caCryptoUpdated"})
    /\ work' = TRUE
    /\ worker' = [worker EXCEPT !.pc = "status", !.result = "error", !.inst = ResetFlags(@)]
    /\ NoteIf("failed", TRUE)
    /\ UNCHANGED <<frame, spec, versioned, cfg, made, job, restart>>

\* Seeded fault: the restart that was asked for is never triggered.
NotTriggered ==
    /\ At("trigger")
    /\ Continue
    /\ UNCHANGED <<frame, spec, versioned, queueVars, clusterVars, podVars, historyVars>>

\* TriggerIfNeeded hands the restart over to the staggered queue.
HandleRestart ==
    /\ At("trigger")
    /\ restart' = IF "wanted" \in restart THEN {"queued"} ELSE restart
    /\ Continue
    /\ UNCHANGED <<frame, spec, versioned, queueVars, clusterVars, pod, historyVars>>

-----------------------------------------------------------------------------
(* Reconcile: the status, and the end                                      *)

\* What the offering says of the certificate comes before the pods.
NextStatus ==
    IF worker.result \in {"error", "breaking"} THEN "Error"
    ELSE IF worker.rstatus \notin {"none", status} THEN worker.rstatus
    ELSE IF pod.up THEN IF status = "Deployed" THEN status ELSE "Running"
    ELSE "Deploying"

\* The spec is saved, the status set, and a request that asked for it requeued
\* with the update put back.
SetStatus ==
    LET pushed == IF worker.result = "requeue" THEN Push(stack, worker.upd) ELSE stack IN
    /\ At("status")
    /\ saved' = worker.inst
    /\ status' = NextStatus
    /\ stack' = pushed
    /\ work' = \/ work
               \/ worker.result = "error"
               \/ worker.result # "breaking" /\ pushed # <<>>
    /\ worker' = Idle
    /\ UNCHANGED <<setup, up, spec, versioned, clusterVars, podVars, historyVars>>

\* Saving or patching fails; an update to be put back is not.
SetStatusError ==
    /\ At("status")
    /\ Event
    /\ saved' \in {saved, worker.inst}
    /\ work' = TRUE
    /\ worker' = Idle
    /\ NoteIf("failed", worker.result = "requeue" /\ worker.upd # {})
    /\ UNCHANGED <<setup, up, spec, versioned, status, stack, clusterVars, podVars>>

Crash ==
    /\ up /\ Event
    /\ OperatorDies
    /\ UNCHANGED <<setup, crVars, clusterVars, podVars>>

-----------------------------------------------------------------------------
(* The cluster                                                             *)

\* What the pod mounts is there: for sqlite a volume, secrets with
\* certificates in them, configuration.
Mountable ==
    /\ made["deployment"] # Absent /\ made["rbac"] # Absent
    /\ \A c \in CAs : secret.root[c] >= 1 /\ cfg[c] # Absent
    /\ cfg.files
    /\ made["pvc"] # Absent \/ cfg.ca % 2 = 1

\* The pod is created or replaced.  Its phase is in the deployment's status,
\* so that the request is queued.
PodLoads ==
    /\ Mountable
    /\ pod' = [up |-> TRUE, cfg |-> cfg, tls |-> TRUE, rev |-> made["deployment"]]
    /\ work' = (work \/ up)
    /\ UNCHANGED <<setup, up, crVars, stack, worker, clusterVars, historyVars>>

\* There is no pod, or the deployment has changed.
PodStarts ==
    /\ ~pod.up \/ pod.rev # made["deployment"]
    /\ PodLoads
    /\ UNCHANGED restart

\* The staggered restart queue has the pod replaced.
PodRestarts ==
    /\ "queued" \in restart
    /\ PodLoads
    /\ restart' = restart \ {"queued"}

\* The TLS certificate nears its end.
CertAges ==
    /\ pod.up /\ secret.age # "expired"
    /\ Event
    /\ secret' = [secret EXCEPT !.age = IF @ = "fresh" THEN "expiring" ELSE "expired"]
    /\ UNCHANGED <<setup, up, crVars, queueVars, worker, cfg, made, profile, job, podVars, mishaps>>

-----------------------------------------------------------------------------
WorkerStep ==
    \/ Start \/ SetVersion \/ PreReconcileChecks \/ AddTLSCryptoIfMissing
    \/ ReconcileRBAC \/ ReconcilePVC \/ ReconcileService \/ ReconcileDeployment
    \/ ReconcileIngressManager \/ ReconcileRoutes
    \/ HandleEnrollmentCAInit \/ HandleTLSCAInit
    \/ ConfigResourcesSecret \/ ConfigResourcesConfig
    \/ HSMSecret \/ HSMConfig \/ HSMJob \/ HSMDaemonJob
    \/ WaitForJobPodToFinish \/ WaitUntilContainerFinished
    \/ RestartForConfigOverride
    \/ ReconcileFabricCAMigration \/ UpdateConnectionProfile \/ CheckStates
    \/ CheckCertificates \/ RestartForTLSReenroll \/ HandleActions \/ HandleRestart
    \/ SetStatus

Next ==
    \/ WorkerStep
    \/ \E change \in Changes : Edit(change)
    \/ \E step \in PCs \ {"idle"} : Fail(step)
    \/ \E c \in CAs : JobRuns(c) \/ JobFails(c)
    \/ SecretMisread \/ HandleActionsFails \/ SetStatusError
    \/ Crash \/ CreateFunc \/ CreateFuncUnread
    \/ PodStarts \/ PodRestarts \/ CertAges

Spec == Init /\ [][Next]_vars

\* The controller's worker runs, the operator is started again, and the
\* cluster runs jobs and pods.
Fairness ==
    /\ WF_vars(WorkerStep) /\ WF_vars(CreateFunc)
    /\ WF_vars(PodStarts) /\ WF_vars(PodRestarts)
    /\ \A c \in CAs : WF_vars(JobRuns(c))

FairSpec == Spec /\ Fairness

-----------------------------------------------------------------------------
(* Properties                                                              *)

\* The flags on their way to a reconcile.
Coming == (UNION Range(stack)) \cup worker.upd

\* Whatever of the cluster is behind the spec (a config map without the
\* current override, an ingress of an older revision, an action asked for, a
\* pod with an old certificate), the flag that makes a reconcile see to it is
\* in the stack or in the reconcile under way, unless a call failed, the
\* reconcile loop was stopped or the comparison with the saved spec missed it.
NothingForgotten ==
    up /\ mishaps \subseteq {"lateMigration"} => Owed \subseteq Coming

\* A root certificate that identities may have been issued from is never
\* replaced, unless the existence of its secret was misread.
RootKept ==
    [][\A c \in CAs : secret.root[c] >= 1 =>
          secret'.root[c] = secret.root[c] \/ "misread" \in mishaps]_vars

\* A deployment is made only when what its pod mounts is there, unless an
\* initialisation was cut off between its writes: the secret alone makes later
\* reconciles believe that the CA is initialised (initialize.go:77).
DeploymentMountable ==
    made["deployment"] # Absent /\ mishaps \cap {"halfway", "misread"} = {} =>
        \A c \in CAs : secret.root[c] >= 1 /\ cfg[c] # Absent /\ cfg.files

AtRest == up /\ worker.pc = "idle" /\ ~work /\ stack = <<>> /\ restart = {}

\* When nothing is queued any more the deployment is the spec's, its pod runs
\* the configuration and the certificate that are in the cluster and the
\* connection profile shows that certificate, unless the migration of the
\* config map came after the pod's start or a call failed.
PodRunsLatest ==
    AtRest /\ mishaps = {} =>
        /\ made["deployment"] = spec.rest
        /\ profile = "current"
        /\ pod.up /\ pod.rev = made["deployment"] => pod.cfg = cfg /\ pod.tls

\* In the end the CA is deployed with its overrides and every action it was
\* asked for has been taken, unless a mishap happened.
CASettles ==
    <>(mishaps # {}) \/ <>[](/\ AtRest /\ pod.up /\ pod.rev = spec.rest
                             /\ pod.cfg.ca = spec.ca \/ spec.ca = 0
                             /\ pod.cfg.tls = spec.tls \/ spec.tls = 0
                             /\ ~spec.renew /\ ~spec.restart
                             /\ secret.age = "fresh" => status \in {"Deployed", "Running"})
=============================================================================
