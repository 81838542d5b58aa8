---------------------------- MODULE ConsoleReconcile ----------------------------
(***************************************************************************)
(* The controller of the consoles: its predicates, the one record of flags *)
(* that all consoles share, and the reconcile of a console                 *)
(* (controllers/ibpconsole, pkg/offering/{base,k8s,openshift}/console and  *)
(* the overrides of its config maps and its deployment).                   *)
(*                                                                         *)
(* The predicates run in a goroutine of their own, in the order of the     *)
(* watch; they write r.update while the worker reads it.  A spec is        *)
(* abstracted to what the controller tells apart: the parts that each      *)
(* object is made from have revisions.                                     *)
(***************************************************************************)
EXTENDS Integers, Sequences, FiniteSets, SequencesExt

CONSTANTS
    Consoles,
    Starts,             \* what there is at first: consoles, and events to come (a bound)
    Offering,           \* "k8s" or "openshift"
    RestartDisabled,    \* Config.Operator.Restart.Disable.Components
    MaxWatch,           \* bound: events of the watch that wait
    MaxEvents           \* bound: most edits, failures, crashes and failing pods

\* Fields that only the deployer's config map, only the console's, or only the deployment has.
Parts == {"deployer", "console", "pod"}

\* ConnectionString: a remote database, the default, or a local one with credentials (positive).
Remote == -1
Default == 0
Local(conn) == conn >= 0
Connections == {Remote} \cup Nat

\* inline: a password or a kubeconfig in clear; bare: RegistryURL has no "/" at its end.
Specs == [conn : Connections, inline : BOOLEAN, network : BOOLEAN, bare : BOOLEAN,
          restart : BOOLEAN, rev : [Parts -> Nat]]

NoSpec == [conn |-> -2]

\* A new console (was: NoSpec) does not ask for a restart.  One that has been deployed has had
\* its spec saved, validated and patched, and may have been edited since.
StartOK(new, was) ==
    /\ new \in Specs
    /\ was = NoSpec => ~new.restart
    /\ was # NoSpec =>
          /\ was \in Specs /\ was.conn # Default /\ was.network /\ ~was.restart
          /\ new.conn \in {was.conn, Remote} /\ new.network

ASSUME ConstantsOK ==
    /\ IsFiniteSet(Consoles)
    /\ \A s \in Starts :
          /\ DOMAIN s.con \subseteq Consoles /\ s.events \in 0..MaxEvents
          /\ \A c \in DOMAIN s.con : StartOK(s.con[c].spec, s.con[c].was) /\ s.con[c].taken \in BOOLEAN
    /\ Offering \in {"k8s", "openshift"}
    /\ RestartDisabled \in BOOLEAN
    /\ MaxWatch \in Nat /\ MaxWatch >= Cardinality(Consoles)
    /\ MaxEvents \in Nat

VARIABLES
    spec,       \* the spec of each custom resource
    there,      \* the consoles
    taken,      \* those with the name of another component
    versioned,  \* Status.Version is the operator's
    status,     \* Status.Type
    saved,      \* the spec in the config map <name>-spec
    objs,       \* what the managers have made
    pods,       \* of the deployment
    pending,    \* the restart manager has a request for the console
    watch,      \* events of the custom resources that wait for the predicates
    queue,      \* the work queue
    update,     \* ReconcileIBPConsole.update
    worker,     \* the reconcile under way
    up,         \* the operator runs
    generated,  \* database credentials made up so far
    events,     \* events that may still come
    due,        \* history: flags that a predicate has set for a console and it has not read
    wanted,     \* history: consoles with a reason to restart: a request, or a change their pods have not read
    owner,      \* history: the console whose flags are set, and the ones that have been read
    mishaps     \* history: which of the known hazards have happened

resourceVars == <<spec, versioned, status, saved>>
names == <<there, taken>>
clusterVars == <<objs, pods, pending>>
historyVars == <<due, wanted, owner>>
vars == <<resourceVars, names, clusterVars, watch, queue, update, worker, up, generated, events,
          historyVars, mishaps>>

-----------------------------------------------------------------------------
(* Specs and objects                                                       *)

\* An object that has not been made
Absent == -2

\* UsingRemoteDB
UsingRemoteDB(s) == ~Local(s.conn)

Simple == {"secret", "pvc", "service", "rbac", "ingress", "route", "policy"}

\* env: connection string in the config map; dep: revision in the deployment, db: credentials
\* of its database container (Default: it has no such container).
NoObjects == [made |-> {}, env |-> Absent, deployer |-> Absent, console |-> Absent,
              dep |-> Absent, db |-> Default]

Flags == {"spec", "restart", "deployer", "console", "env"}
NoUpdate == [f \in Flags |-> FALSE]
Nobody == [con |-> {}, read |-> {}]

Idle == [pc |-> "idle"]

Mishaps == {"wiped", "borrowed", "reread", "outdated", "normalised", "skipped", "refused", "down", "crashed",
            "failed", "conflict", "reset", "tolocal", "nonetwork", "late", "panicked",
            "unsaved"}

PCs == {"version", "checks", "patch", "managers", "env", "configs", "deployment", "access", "states",
        "cmupdates", "actions", "restart", "save", "status"}

\* Every object of console c is as spec s asks.
Applied(c, s) ==
    /\ objs[c].env = s.conn
    /\ objs[c].deployer = s.rev["deployer"] /\ objs[c].console = s.rev["console"]
    /\ objs[c].dep = s.rev["pod"]

\* What there is is as spec s asks.
MadeFrom(c, s) ==
    /\ objs[c].env \in {Absent, s.conn}
    /\ objs[c].deployer \in {Absent, s.rev["deployer"]} /\ objs[c].console \in {Absent, s.rev["console"]}
    /\ objs[c].dep \in {Absent, s.rev["pod"]}

Objects == [made : SUBSET Simple, env : Connections \cup {Absent}, deployer : Nat \cup {Absent},
            console : Nat \cup {Absent}, dep : Nat \cup {Absent}, db : Nat]

Events == [con : Consoles, kind : {"create", "spec", "zone", "status"}, restart : BOOLEAN,
           obj : Specs \cup {NoSpec}]

Reconciles == [pc : PCs, con : Consoles, base : Specs, inst : Specs, upd : BOOLEAN,
               took : SUBSET (Consoles \X {"spec"}), result : {"done", "requeue", "error"}]

TypeOK ==
    /\ taken \subseteq there /\ there \subseteq Consoles
    /\ spec \in [Consoles -> Specs \cup {NoSpec}] /\ \A c \in there : spec[c] \in Specs
    /\ versioned \in [Consoles -> BOOLEAN]
    /\ status \in [Consoles -> {"none", "Deploying", "Deployed", "Error"}]
    /\ saved \in [Consoles -> Specs \cup {NoSpec}]
    /\ objs \in [Consoles -> Objects]
    /\ pods \in [Consoles -> {"none", "starting", "running"}]
    /\ pending \in [Consoles -> BOOLEAN]
    /\ watch \in Seq(Events)
    /\ \A i \in DOMAIN watch :
          watch[i].con \in there /\ (watch[i].kind = "create" => watch[i].obj \in Specs)
    /\ queue \subseteq Consoles
    /\ update \in [Flags -> BOOLEAN]
    /\ worker # Idle => worker \in Reconciles /\ worker.con \in there /\ up
    /\ up \in BOOLEAN
    /\ generated \in Nat /\ events \in 0..MaxEvents
    /\ due \subseteq Consoles \X {"spec", "restart"} /\ wanted \subseteq Consoles
    /\ mishaps \subseteq Mishaps

\* Events of the watch: an update, with Action.Restart of the new spec, and a creation.
Changed(c, kind, restart) == [con |-> c, kind |-> kind, restart |-> restart, obj |-> NoSpec]
Created(c) == [con |-> c, kind |-> "create", restart |-> FALSE, obj |-> spec[c]]

\* The orders in which a list of all consoles can arrive.
Listings == {[i \in DOMAIN o |-> Created(o[i])] : o \in SetToSeqs(there)}

\* The objects of a console that has been deployed.
Deployment(s) ==
    [made |-> Simple, env |-> s.conn, deployer |-> s.rev["deployer"], console |-> s.rev["console"],
     dep |-> s.rev["pod"], db |-> IF UsingRemoteDB(s) THEN Default ELSE s.conn]

\* Consoles that are just created (was: NoSpec), and others that have been deployed; some of those
\* have just been edited.
Init ==
    \E start \in Starts :
        LET new == {c \in DOMAIN start.con : start.con[c].was = NoSpec}
            edited == {c \in DOMAIN start.con : start.con[c].was # start.con[c].spec} \ new
            waits == SetToSeq(new \cup edited)
            first == [c \in Consoles |-> IF c \in DOMAIN start.con THEN start.con[c].spec ELSE NoSpec]
            old == [c \in Consoles |-> IF c \in DOMAIN start.con THEN start.con[c].was ELSE NoSpec]
        IN
        /\ spec = first
        /\ there = DOMAIN start.con
        /\ taken = {c \in there : start.con[c].taken}
        /\ versioned = [c \in Consoles |-> old[c] # NoSpec]
        /\ status = [c \in Consoles |-> IF old[c] # NoSpec THEN "Deployed" ELSE "none"]
        /\ saved = old
        /\ objs = [c \in Consoles |-> IF old[c] # NoSpec THEN Deployment(old[c]) ELSE NoObjects]
        /\ pods = [c \in Consoles |-> IF old[c] # NoSpec THEN "running" ELSE "none"]
        /\ pending = [c \in Consoles |-> FALSE]
        /\ watch = [i \in DOMAIN waits |-> IF waits[i] \in new THEN Created(waits[i])
                                            ELSE Changed(waits[i], "spec", spec[waits[i]].restart)]
        /\ queue = {} /\ update = NoUpdate /\ worker = Idle /\ up = TRUE
        /\ generated = Max({0} \cup {first[c].conn : c \in there})
        /\ events = start.events
        /\ due = {} /\ wanted = edited /\ owner = Nobody
        /\ mishaps = IF \A c \in there : first[c].network THEN {} ELSE {"nonetwork"}

Event == events > 0 /\ events' = events - 1

Note(new) == mishaps' = mishaps \cup new
If(name, condition) == IF condition THEN {name} ELSE {}

Con == worker.con
Inst == worker.inst
At(pc) == up /\ worker # Idle /\ worker.pc = pc
Goto(pc) == worker' = [worker EXCEPT !.pc = pc]

\* A step that writes the custom resource waits for room in the watch (MaxWatch).
Room == Len(watch) < MaxWatch
Notify(c, kind, restart) == watch' = Append(watch, Changed(c, kind, restart))

\* The reconcile ends with an error: SetStatus is next.  What it was to serve is due again.
Fail(new) ==
    /\ worker' = [worker EXCEPT !.pc = "save", !.result = "error"]
    /\ due' = due \cup worker.took
    /\ Note(new)

-----------------------------------------------------------------------------
(* The user                                                                *)

\* The specs that an edit of s makes: some parts, another database, a request to restart, or what
\* was missing.
Revise(s, parts) == [s EXCEPT !.rev = [p \in Parts |-> IF p \in parts THEN @[p] + 1 ELSE @[p]]]

Edits(s) ==
    {Revise(s, {"deployer", "console"}), [Revise(s, {"deployer"}) EXCEPT !.bare = TRUE],
     Revise(s, {"pod"}), [s EXCEPT !.conn = Default], [s EXCEPT !.conn = Remote],
     [s EXCEPT !.restart = TRUE], [s EXCEPT !.network = TRUE]} \ {s}

\* An edit; with zone it also changes the zone or the region, which is refused.
Edit(c, new, zone) ==
    /\ Event
    /\ Room
    /\ spec' = [spec EXCEPT ![c] = new]
    /\ IF up THEN Notify(c, IF zone THEN "zone" ELSE "spec", new.restart) ELSE UNCHANGED watch
    /\ wanted' = wanted \cup If(c, new.restart \/ [new EXCEPT !.rev["pod"] = spec[c].rev["pod"]] # spec[c])
    /\ Note(If("refused", zone) \cup If("down", ~up) \cup If("late", c \in taken)
            \cup If("reset", new.conn = Default /\ spec[c].conn # Default)
            \cup If("tolocal", Local(new.conn) /\ ~Local(spec[c].conn)))
    /\ UNCHANGED <<versioned, status, saved, names, clusterVars, queue, update, worker, up, generated,
                   due, owner>>

-----------------------------------------------------------------------------
(* The predicates                                                          *)

\* The operator panics: everything in memory is lost.
Down ==
    /\ up' = FALSE
    /\ watch' = <<>> /\ queue' = {} /\ update' = NoUpdate /\ worker' = Idle
    /\ due' = {} /\ owner' = Nobody

\* What happens when that is between the restart and SetStatus.
Unsaved == If("unsaved", At("save") /\ worker.result = "done" /\ saved[Con] # Inst)

\* The next event, and the flags it leaves: r.update is new at every event.
Next1 == Head(watch)
Delivered(kinds) == up /\ watch # <<>> /\ Next1.kind \in kinds
Take(flags, enqueue) ==
    LET c == Next1.con IN
    /\ watch' = Tail(watch)
    /\ update' = [f \in Flags |-> f \in flags]
    /\ queue' = queue \cup If(c, enqueue)
    /\ due' = due \cup {<<c, f>> : f \in flags \cap {"spec", "restart"}}
    /\ owner' = [con |-> If(c, flags # {}), read |-> {}]
    /\ UNCHANGED <<worker, up>>

\* DeployerCMUpdated, ConsoleCMUpdated and EnvCMUpdated
DeployerCMUpdated(old, new) == old.rev["deployer"] # new.rev["deployer"] \/ old.bare # new.bare
ConsoleCMUpdated(old, new) == old.rev["console"] # new.rev["console"]
EnvCMUpdated(old, new) == old.conn # new.conn

\* CreateFunc for a console without a status: it is new, its name is checked.  It may have objects
\* all the same, from an earlier spec, if the operator has stopped since it made them.
CreateFuncNew ==
    /\ Delivered({"create"}) /\ status[Next1.con] = "none"
    /\ Next1.con \notin taken
    /\ Take({}, TRUE)
    /\ Note(If("skipped", ~MadeFrom(Next1.con, Next1.obj)))
    /\ UNCHANGED <<resourceVars, names, clusterVars, generated, events, wanted>>

\* The name is in use: SetStatus, in the predicate.
CreateFuncRefused ==
    LET c == Next1.con IN
    /\ Delivered({"create"}) /\ status[c] = "none"
    /\ c \in taken
    /\ saved' = [saved EXCEPT ![c] = Next1.obj]
    /\ status' = [status EXCEPT ![c] = "Error"]
    /\ watch' = Append(Tail(watch), Changed(c, "status", FALSE))
    /\ update' = NoUpdate
    /\ owner' = Nobody
    /\ UNCHANGED <<spec, versioned, names, clusterVars, queue, worker, up, generated, events, due, wanted,
                   mishaps>>

\* CreateFunc after a start of the operator: compared with the saved spec.  Without NetworkInfo
\* in one of the two the comparison panics.
CreateFuncSeen ==
    LET c == Next1.con
        new == Next1.obj
        old == saved[c]
        flags == {"spec"} \cup If("deployer", DeployerCMUpdated(new, old))
                          \cup If("console", ConsoleCMUpdated(new, old))
                          \cup If("env", EnvCMUpdated(new, old))
    IN
    /\ Delivered({"create"}) /\ status[c] # "none" /\ old # NoSpec
    /\ IF new = old THEN Take({}, FALSE) /\ Note(If("skipped", ~Applied(c, new)))
       ELSE IF new.network /\ old.network THEN Take(flags, TRUE) /\ Note({})
       ELSE Down /\ Note({"panicked"} \cup Unsaved)
    /\ UNCHANGED <<resourceVars, names, clusterVars, generated, events, wanted>>

\* The saved spec cannot be read: no flags.
CreateFuncUnread ==
    /\ Delivered({"create"}) /\ status[Next1.con] # "none"
    /\ IF saved[Next1.con] = NoSpec THEN UNCHANGED events ELSE Event
    /\ Take({}, TRUE)
    /\ Note({"failed"})
    /\ UNCHANGED <<resourceVars, names, clusterVars, generated, wanted>>

\* UpdateFunc: the zone may not change; a spec that does not change is of no interest.
UpdateFuncIgnored ==
    /\ Delivered({"zone", "status"})
    /\ Take({}, FALSE)
    /\ UNCHANGED <<resourceVars, names, clusterVars, generated, events, wanted, mishaps>>

\* Seeded fault: specUpdated is not set.
UpdateFuncNoFlag ==
    /\ Delivered({"spec"})
    /\ Take(If("restart", Next1.restart), TRUE)
    /\ UNCHANGED <<resourceVars, names, clusterVars, generated, events, wanted, mishaps>>

\* Seeded fault: restartNeeded is set whatever the action says.
UpdateFuncRestarts ==
    /\ Delivered({"spec"})
    /\ Take({"spec", "restart"}, TRUE)
    /\ UNCHANGED <<resourceVars, names, clusterVars, generated, events, wanted, mishaps>>

UpdateFunc ==
    /\ Delivered({"spec"})
    /\ Take({"spec"} \cup If("restart", Next1.restart), TRUE)
    /\ Note(If("outdated", Next1.restart /\ ~spec[Next1.con].restart))
    /\ UNCHANGED <<resourceVars, names, clusterVars, generated, events, wanted>>

-----------------------------------------------------------------------------
(* Reconcile: the custom resource                                          *)

\* Reconcile reads the custom resource.
Get(c) ==
    /\ up /\ worker = Idle /\ c \in queue
    /\ queue' = queue \ {c}
    /\ worker' = [pc |-> "version", con |-> c, base |-> spec[c], inst |-> spec[c], upd |-> FALSE,
                  took |-> {}, result |-> "done"]
    /\ UNCHANGED <<resourceVars, names, clusterVars, watch, update, up, generated, events, historyVars,
                   mishaps>>

\* A patch of the custom resource refreshes the reconcile's copy with the spec s of its response.
\* A default connection string may be an empty one, which the response leaves out.
Refresh(pc, s, result) ==
    \E conn \in {s.conn} \cup (IF s.conn = Default THEN {Inst.conn} ELSE {}) :
        worker' = [worker EXCEPT !.pc = pc, !.inst = [s EXCEPT !.conn = conn], !.result = result]

\* SetVersion
SetVersion ==
    /\ At("version")
    /\ IF versioned[Con]
       THEN Goto("checks") /\ UNCHANGED <<versioned, watch>>
       ELSE /\ Room
            /\ versioned' = [versioned EXCEPT ![Con] = TRUE]
            /\ Notify(Con, "status", FALSE)
            /\ Refresh("save", spec[Con], "requeue")
    /\ UNCHANGED <<spec, status, saved, names, clusterVars, queue, update, up, generated, events,
                   historyVars, mishaps>>

\* ValidateSpec completes RegistryURL in memory.
ValidateSpec(s) == [s EXCEPT !.bare = FALSE]

\* CreatePasswordSecretIfRequired and CreateKubernetesSecretIfRequired: the secret is created
\* unless it exists, and the spec names it instead.
CreateSecretsIfRequired(s) == [s EXCEPT !.inline = FALSE]

\* CreateCouchdbCredentials
CreateCouchdbCredentials(s) == IF s.conn = Default THEN [s EXCEPT !.conn = generated + 1] ELSE s

PreReconcileChecks ==
    LET valid == ValidateSpec(Inst)
        new == CreateCouchdbCredentials(CreateSecretsIfRequired(valid))
    IN
    /\ At("checks")
    /\ IF ~Inst.network
       THEN Fail({}) /\ UNCHANGED <<objs, generated>>
       ELSE /\ worker' = [worker EXCEPT !.inst = new, !.pc = IF new # valid THEN "patch" ELSE "managers"]
            /\ objs' = [objs EXCEPT ![Con].made = @ \cup If("secret", Inst.inline)]
            /\ generated' = IF new.conn # Inst.conn THEN generated + 1 ELSE generated
            /\ UNCHANGED <<due, mishaps>>
    /\ UNCHANGED <<resourceVars, names, pods, pending, watch, queue, update, up, events, wanted, owner>>

\* Seeded fault: the reconcile goes on after the patch.
PatchInstanceGoesOn ==
    LET merged == [spec[Con] EXCEPT !.conn = IF Inst.conn # worker.base.conn THEN Inst.conn ELSE @,
                                    !.inline = FALSE,
                                    !.bare = IF worker.base.bare THEN FALSE ELSE @]
    IN
    /\ At("patch")
    /\ Room
    /\ \/ /\ spec' = [spec EXCEPT ![Con] = merged]
          /\ Notify(Con, "spec", merged.restart)
          /\ Refresh("managers", merged, worker.result)
       \/ /\ spec[Con] # worker.base
          /\ Goto("managers")
          /\ UNCHANGED <<spec, watch>>
    /\ wanted' = wanted \cup If(Con, Inst.conn # worker.base.conn \/ worker.base.bare)
    /\ UNCHANGED <<versioned, status, saved, names, clusterVars, queue, update, up, generated, events, due,
                   owner, mishaps>>

\* The custom resource is patched and the request requeued.  If it has been edited meanwhile
\* either only the fields that differ are patched, or every try meets a conflict, which is not
\* reported (ResilientPatch).
PatchInstance ==
    LET merged == [spec[Con] EXCEPT !.conn = IF Inst.conn # worker.base.conn THEN Inst.conn ELSE @,
                                    !.inline = FALSE,
                                    !.bare = IF worker.base.bare THEN FALSE ELSE @]
    IN
    /\ At("patch")
    /\ Room
    /\ \/ /\ spec' = [spec EXCEPT ![Con] = merged]
          /\ Notify(Con, "spec", merged.restart)
          /\ Refresh("save", merged, "requeue")
       \/ /\ spec[Con] # worker.base
          /\ worker' = [worker EXCEPT !.pc = "save", !.result = "requeue"]
          /\ UNCHANGED <<spec, watch>>
    /\ wanted' = wanted \cup If(Con, Inst.conn # worker.base.conn \/ worker.base.bare)
    /\ UNCHANGED <<versioned, status, saved, names, clusterVars, queue, update, up, generated, events, due,
                   owner, mishaps>>

-----------------------------------------------------------------------------
(* Reconcile: the managers                                                 *)

\* The worker reads flags f of r.update for its console: they may be another console's, or read
\* before, or the one it needs may be gone.  A spec read before the last edit serves nothing.
Serves(need) == IF worker.base = spec[Con] THEN due \cap {<<Con, need>>} ELSE {}

Read(f, need) ==
    /\ due' = due \ Serves(need)
    /\ owner' = [owner EXCEPT !.read = @ \cup {g \in f \ {"spec"} : update[g]}]
    /\ Note(If("wiped", Serves(need) # {} /\ ~update[need])
            \cup If("borrowed", owner.con \notin {{}, {Con}})
            \cup If("reread", \E g \in f : update[g] /\ g \in owner.read))

\* What these managers make does not depend on the parts of the spec: the volume claim of a local
\* database, the services, and roles, role bindings and service account.
Make(o, what) == [o EXCEPT !.made = @ \cup {what}]
PVC(o, s) == IF UsingRemoteDB(s) THEN o ELSE Make(o, "pvc")
Service(o) == Make(o, "service")
ReconcileRBAC(o) == Make(o, "rbac")

\* ReconcileManagers begins: update.SpecUpdated() is read once for all managers.
ReconcileManagers ==
    /\ At("managers")
    /\ Read({"spec"}, "spec")
    /\ worker' = [worker EXCEPT !.pc = "env", !.upd = update.spec, !.took = Serves("spec")]
    /\ objs' = [objs EXCEPT ![Con] = ReconcileRBAC(Service(PVC(@, Inst)))]
    /\ UNCHANGED <<resourceVars, names, pods, pending, watch, queue, update, up, generated, events,
                   wanted>>

\* A manager creates what is missing, and writes what is there if the spec was updated.
Manage(m, objects, next) ==
    /\ At(m)
    /\ objs' = [objs EXCEPT ![Con] = objects]
    /\ Goto(next)
    /\ UNCHANGED <<resourceVars, names, pending, watch, update, up, generated, events, historyVars,
                   mishaps>>

Write(o, object, content) == IF o[object] = Absent \/ worker.upd THEN [o EXCEPT ![object] = content] ELSE o

\* The config map of the environment: CreateCM, UpdateCM
EnvCM(o, s) == Write(o, "env", s.conn)

\* UpdateDeployerCM and UpdateConsoleCM (the offerings' Create... are like them)
DeployerCM(o, s) == Write(o, "deployer", s.rev["deployer"])
ConsoleCM(o, s) == Write(o, "console", s.rev["console"])

ReconcileEnvCM ==
    /\ Manage("env", EnvCM(objs[Con], Inst), "configs")
    /\ UNCHANGED <<pods, queue>>

ReconcileConfigCMs ==
    /\ Manage("configs", ConsoleCM(DeployerCM(objs[Con], Inst), Inst), "deployment")
    /\ UNCHANGED <<pods, queue>>

\* ReconcileIngressManager, or the routes of the console and of its proxy
Ingress(o) == Make(o, "ingress")
Routes(o) == Make(o, "route")

\* NetworkPolicyReconcile: it never fails.
NetworkPolicy(o) == Make(o, "policy")

ReconcileAccess ==
    /\ Manage("access", NetworkPolicy(IF Offering = "k8s" THEN Ingress(objs[Con]) ELSE Routes(objs[Con])),
              "states")
    /\ UNCHANGED <<pods, queue>>

\* The deployment's pods are replaced when it changes, and its events enqueue the console.
Rollout(changed) ==
    /\ pods' = IF changed THEN [pods EXCEPT ![Con] = "none"] ELSE pods
    /\ queue' = IF changed THEN queue \cup {Con} ELSE queue

\* CreateDeployment: a container for a local database, and the credentials unless it has some.
CreateDeployment(o, s) ==
    [o EXCEPT !.dep = s.rev["pod"],
              !.db = IF ~UsingRemoteDB(s) /\ @ = Default THEN s.conn ELSE @]

\* CommonDeployment dereferences the container of a local database: there must be one.
UpdateDeploymentPanics(o, s) == ~UsingRemoteDB(s) /\ o.db = Default

\* UpdateDeployment: credentials that are set stay.
UpdateDeployment(o, s) == [o EXCEPT !.dep = s.rev["pod"]]

ReconcileDeployment ==
    LET old == objs[Con]
        new == IF old.dep = Absent THEN CreateDeployment(old, Inst)
               ELSE IF worker.upd THEN UpdateDeployment(old, Inst) ELSE old
    IN
    /\ At("deployment")
    /\ ~(old.dep # Absent /\ worker.upd /\ UpdateDeploymentPanics(old, Inst))
    /\ Manage("deployment", new, "access")
    /\ Rollout(new # old)

\* The operator panics in UpdateDeployment.
DeploymentPanic ==
    /\ At("deployment")
    /\ objs[Con].dep # Absent /\ worker.upd /\ UpdateDeploymentPanics(objs[Con], Inst)
    /\ Down
    /\ Note({"panicked"})
    /\ UNCHANGED <<resourceVars, names, clusterVars, generated, events, wanted>>

\* CheckStates: what CreateDeployment makes of the deployment, whatever the flags.
CheckStates ==
    LET new == CreateDeployment(objs[Con], Inst) IN
    /\ At("states")
    /\ objs' = [objs EXCEPT ![Con] = new]
    /\ Rollout(new # objs[Con])
    /\ Goto("cmupdates")
    /\ UNCHANGED <<resourceVars, names, pending, watch, update, up, generated, events, historyVars,
                   mishaps>>

-----------------------------------------------------------------------------
(* Reconcile: restarts and status                                          *)

\* CheckForConfigMapUpdates: Restart.ForConfigMapUpdate
CheckForConfigMapUpdates ==
    /\ At("cmupdates")
    /\ pending' = [pending EXCEPT ![Con] = @ \/ update.deployer \/ update.console \/ update.env]
    /\ Read({"deployer", "console", "env"}, "env")
    /\ Goto("actions")
    /\ UNCHANGED <<resourceVars, names, objs, pods, watch, queue, update, up, generated, events,
                   wanted>>

\* Seeded fault: restartNeeded is read and forgotten.
HandleActionsForgets ==
    /\ At("actions")
    /\ Read({"restart"}, "restart")
    /\ Refresh("restart", spec[Con], worker.result)
    /\ UNCHANGED <<resourceVars, names, clusterVars, watch, queue, update, up, generated, events, wanted>>

\* HandleActions: Restart.ForRestartAction, and a patch that takes the request back.  The patch
\* is sent also when it is empty, and what it returns is the spec that is saved.
HandleActions ==
    /\ At("actions")
    /\ Read({"restart"}, "restart")
    /\ pending' = [pending EXCEPT ![Con] = @ \/ update.restart]
    /\ IF update.restart /\ Inst.restart
       THEN /\ Room
            /\ spec' = [spec EXCEPT ![Con].restart = FALSE]
            /\ Notify(Con, "spec", FALSE)
       ELSE UNCHANGED <<spec, watch>>
    /\ Refresh("restart", spec'[Con], worker.result)
    /\ UNCHANGED <<versioned, status, saved, names, objs, pods, queue, update, up, generated, events,
                   wanted>>

\* Pods that start now read all that the user has asked for, the reconcile knows of nothing else,
\* and nothing still to come says so again.
Served(c) ==
    /\ objs[c].env = spec[c].conn /\ ~spec[c].restart
    /\ objs[c].deployer = spec[c].rev["deployer"] /\ objs[c].console = spec[c].rev["console"]
    /\ ~EnvCMUpdated(Inst, spec[c])
    /\ ~DeployerCMUpdated(Inst, spec[c]) /\ ~ConsoleCMUpdated(Inst, spec[c])
    /\ owner.con = {c} => \A f \in Flags \ {"spec"} : update[f] => f \in owner.read
    /\ \A i \in DOMAIN watch : watch[i].con = c => watch[i].kind # "create"

\* HandleRestart: TriggerIfNeeded, at once (its timers are in RestartManager).
HandleRestart ==
    LET restarts == pending[Con] /\ ~RestartDisabled IN
    /\ At("restart")
    /\ Goto("save")
    /\ pending' = [pending EXCEPT ![Con] = @ /\ RestartDisabled]
    /\ Rollout(restarts)
    /\ wanted' = IF restarts /\ Served(Con) THEN wanted \ {Con} ELSE wanted
    /\ UNCHANGED <<resourceVars, names, objs, watch, update, up, generated, events, due, owner, mishaps>>

\* A call of the reconcile fails.
StepFails ==
    /\ up /\ worker # Idle /\ worker.pc \notin {"managers", "save", "status"}
    /\ Event
    /\ Fail({"failed"})
    /\ UNCHANGED <<resourceVars, names, clusterVars, watch, queue, update, up, generated, wanted, owner>>

\* SetStatus: the spec is saved first, as the reconcile or a patch left it, also after
\* an error.
SaveSpecState ==
    /\ At("save")
    /\ saved' = [saved EXCEPT ![Con] = Inst]
    /\ Goto("status")
    /\ Note(If("normalised", Inst # spec[Con]))
    /\ UNCHANGED <<spec, versioned, status, names, clusterVars, watch, queue, update, up, generated,
                   events, historyVars>>

\* Seeded fault: the phase is compared the wrong way round.
GetPodStatusInverted(c) == pods[c] = "starting"

\* GetPodStatus: no pod is not running (also when there is none).
GetPodStatus(c) == pods[c] # "starting"

NewStatus(c) ==
    IF worker.result = "error" THEN "Error"
    ELSE IF GetPodStatus(c) THEN "Deployed" ELSE "Deploying"

Finish ==
    /\ worker' = Idle
    /\ queue' = queue \cup If(Con, worker.result # "done")

SetStatus ==
    /\ At("status")
    /\ IF NewStatus(Con) = status[Con] /\ worker.result # "error"
       THEN UNCHANGED <<status, watch>>
       ELSE /\ Room
            /\ status' = [status EXCEPT ![Con] = NewStatus(Con)]
            /\ Notify(Con, "status", FALSE)
    /\ Finish
    /\ UNCHANGED <<spec, versioned, saved, names, clusterVars, update, up, generated, events, historyVars,
                   mishaps>>

\* Every try to patch the status meets a conflict, which is not reported.
SetStatusConflict ==
    /\ At("status")
    /\ NewStatus(Con) # status[Con]
    /\ Event
    /\ Note({"conflict"})
    /\ Finish
    /\ UNCHANGED <<resourceVars, names, clusterVars, watch, update, up, generated, historyVars>>

-----------------------------------------------------------------------------
(* The cluster and the operator's process                                  *)

\* Every change of the deployment's status enqueues its console.
PodsChange(c, to) ==
    /\ pods' = [pods EXCEPT ![c] = to]
    /\ queue' = queue \cup If(c, up)
    /\ UNCHANGED <<resourceVars, names, objs, pending, watch, update, worker, up, generated, historyVars>>

PodsStart(c) ==
    /\ objs[c].dep # Absent /\ pods[c] = "none"
    /\ PodsChange(c, "starting")
    /\ UNCHANGED <<events, mishaps>>

PodsRun(c) ==
    /\ pods[c] = "starting"
    /\ PodsChange(c, "running")
    /\ UNCHANGED <<events, mishaps>>

PodsFail(c) ==
    /\ pods[c] = "running"
    /\ Event
    /\ PodsChange(c, "starting")
    /\ UNCHANGED mishaps

Crash ==
    /\ up
    /\ Event
    /\ Down
    /\ Note({"crashed"} \cup Unsaved)
    /\ UNCHANGED <<resourceVars, names, clusterVars, generated, wanted>>

\* newReconciler and add: both kinds are listed; every deployment enqueues its console.  The
\* operator may be of another version.
OperatorStart(upgrade) ==
    /\ ~up
    /\ up' = TRUE
    /\ watch' \in Listings
    /\ queue' = {c \in Consoles : objs[c].dep # Absent}
    /\ versioned' = IF upgrade THEN [c \in Consoles |-> FALSE] ELSE versioned
    /\ UNCHANGED <<spec, status, saved, names, clusterVars, update, worker, generated, events, historyVars,
                   mishaps>>

Predicates ==
    CreateFuncNew \/ CreateFuncRefused \/ CreateFuncSeen \/ CreateFuncUnread \/ UpdateFuncIgnored
    \/ UpdateFunc

Reconcile ==
    \/ SetVersion \/ PreReconcileChecks \/ PatchInstance
    \/ ReconcileManagers \/ ReconcileEnvCM \/ ReconcileConfigCMs \/ ReconcileDeployment
    \/ DeploymentPanic \/ ReconcileAccess
    \/ CheckStates \/ CheckForConfigMapUpdates \/ HandleActions \/ HandleRestart
    \/ SaveSpecState \/ SetStatus

Next ==
    \/ Predicates \/ Reconcile \/ StepFails \/ SetStatusConflict \/ Crash
    \/ \E upgrade \in BOOLEAN : OperatorStart(upgrade)
    \/ \E c \in there :
          \/ Get(c) \/ PodsStart(c) \/ PodsRun(c) \/ PodsFail(c)
          \/ \E new \in Edits(spec[c]) : \E zone \in {FALSE, new.restart} : Edit(c, new, zone)

Spec == Init /\ [][Next]_vars

\* The queue is served in turn, the watch is delivered, pods start, the operator is started again.
FairSpec ==
    /\ Spec
    /\ WF_vars(Predicates) /\ WF_vars(Reconcile) /\ WF_vars(\E u \in BOOLEAN : OperatorStart(u))
    /\ \A c \in Consoles : SF_vars(Get(c)) /\ WF_vars(PodsStart(c) \/ PodsRun(c))

-----------------------------------------------------------------------------
(* Properties                                                              *)

\* Nothing is left to do.
Quiet ==
    /\ up /\ worker = Idle /\ queue = {} /\ watch = <<>>
    /\ \A c \in Consoles : objs[c].dep # Absent => pods[c] = "running"

\* A console that can be deployed.
Fit(c) == c \in there \ taken /\ spec[c].network

Panicked == "panicked" \in mishaps /\ mishaps \cap {"tolocal", "nonetwork"} # {}

\* EditsApplied: when the operator has nothing left to do every config map and every deployment
\* has the content of the spec, although the flag that says so is shared by all consoles and
\* reset at every event - unless one of these has lost it: the flag was reset before the
\* reconcile read it, the operator stopped before the spec it had saved was applied, its saved
\* copy could not be read, the edit also changed the zone, or the operator panicked, which it
\* does only where a console goes from a remote to a local database or had no NetworkInfo.
EditsApplied ==
    Quiet /\ ~Panicked /\ mishaps \cap {"wiped", "skipped", "refused", "failed"} = {} =>
        \A c \in Consoles : Fit(c) => Applied(c, spec[c])

\* RequestsServed: no request to restart stays in a spec when the operator has nothing left to
\* do, although the worker may read another console's flag - unless it was made while the
\* operator was down or was lost with it, the edit also changed the zone, its flag was reset
\* before it was read, or a call failed.
RequestsServed ==
    Quiet /\ mishaps \cap {"wiped", "refused", "down", "crashed", "panicked", "failed"} = {} =>
        \A c \in Consoles : Fit(c) => ~spec[c].restart

\* RestartsWanted: the operator restarts a console only if its user has asked for that, or has
\* changed what its pods read at their start, since the last restart that left nothing of this
\* to do - unless flags were another console's, were read twice, the saved spec was not the one
\* in the custom resource, or the operator stopped between a restart and the save that follows.
RestartsWanted ==
    [][\A c \in Consoles : pending[c] /\ ~pending'[c] =>
          c \in wanted \/ mishaps \cap {"borrowed", "reread", "outdated", "normalised", "unsaved"} # {}]_vars

\* DatabaseReachable: the credentials in the console's configuration are those its database was
\* started with, whatever failed, crashed or met a conflict in between, as long as nobody resets
\* the connection string.
DatabaseReachable ==
    \A c \in Consoles :
        objs[c].dep # Absent /\ objs[c].db # Default /\ objs[c].env > 0 /\ "reset" \notin mishaps =>
            objs[c].env = objs[c].db

\* ConsolesSettle: whatever is edited, restarted or rolled out, every console that can be
\* deployed is, with its spec applied, for good in the end, unless a hazard has struck.
ConsolesSettle ==
    <>[](mishaps # {} \/ \A c \in Consoles : Fit(c) => status[c] = "Deployed" /\ Applied(c, spec[c]))
=============================================================================
