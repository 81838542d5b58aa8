# TLA+ models of the fabric operator

The fabric operator deploys and looks after the parts of a Hyperledger Fabric
network (certificate authorities, peers, ordering services, consoles) as
Kubernetes custom resources. This directory holds TLA+ specifications of the
parts of it whose correctness depends on the order of events, the TLC
configurations that check them on small instances, and TLAPS proofs of the most
important invariants. `PROJECT.json` lists components, runs, mutants, hazards,
findings and theorems, and maps every definition to the lines it models.

## 1. The system

All of the program is callbacks of one library, controller-runtime. For each
kind of custom resource there is

* an *informer*: it watches objects, keeps a cached copy of them, and calls the
  controller's *predicates* (`CreateFunc`, `UpdateFunc`, `DeleteFunc`) from its
  own goroutine for every change;
* a *work queue* of names, in which a name is at most once;
* one *worker* that takes a name and calls `Reconcile`. An error or
  `Requeue: true` puts the name back.

Every read of the program goes to the cache and may be outdated; every write
goes to the API server. Writes are whole-object updates without a resource
version (`CreateOrUpdate`), merge patches, or, in one place, updates that the
server refuses when the copy was outdated (`UpdateStatus` of an orderer's
parent). Timers (`time.AfterFunc`) run code in goroutines of their own. The
process can stop at any point and everything in memory is then gone.

| part | state it keeps | operations | what makes it correct |
| --- | --- | --- | --- |
| staggered restart queue, `pkg/restart/staggerrestarts` | a config map per kind: a queue of restarts per organisation and a log | `AddToQueue` (from reconciles and timers), `Reconcile` with `optimizeRestart` | one deployment of an organisation restarts at a time; no request is lost; no queue stands still |
| restart manager, `pkg/restart` | config map `operator-config`: per instance and reason, last restart, pending request; timers in memory | `For...` (record), `TriggerIfNeeded`, `SetTimer`, timer callback, `RestartDeployment` | a recorded reason leads to a restart; restarts of one instance are spaced by the wait time |
| peer, orderer and CA controllers, `controllers/ibp{peer,orderer,ca}` | a stack of `Update`s per resource in memory; config map `<name>-spec` | predicates push, `Reconcile` pops, `SetStatus` saves the spec | every edit of the spec is acted on |
| console controller, `controllers/ibpconsole` | ONE record of flags for all consoles | the same, without a stack | the same; no console is restarted for another's edit |
| peer and orderer offerings, `pkg/offering/{base,k8s,openshift}/{peer,orderer}` | secrets, config map, deployment, statuses of parent and nodes, genesis secrets | pre-reconcile checks, initialisation, managers, migrations, actions; `ReconcileCluster`, genesis block, `UpdateParentStatus` | the pod ends with what the spec asks; one genesis block for all nodes; the ledger is opened by one process |
| CA offering | crypto secrets, config maps, deployment, connection profile | initialisation in process or by HSM jobs, overrides, renewal of the TLS certificate | a root certificate is never replaced; what a deployment mounts is there |
| console offering | config maps, deployment with a database | pre-reconcile checks, managers, actions | the console knows its database's credentials |
| certificate renewal and enrolment, `pkg/certificate`, `pkg/initializer/common/enroller` | timers in memory; certificate, key and backup secrets; jobs | expiry checks, timers, re-enrolment, backup | renewed before expiry; key and certificate fit; nothing is left behind |
| deployment manager and overrides, `pkg/manager/resources/deployment`, `pkg/offering/base/*/override` | deployments | `Reconcile`, `CheckState`, `RestoreState` | the deployment becomes what the spec asks, and comes to rest |
| client wrapper, `pkg/k8s/controllerclient` | none | cached `Get`, `Create`, `CreateOrUpdate`, resilient patches | a patch takes nothing back that others wrote |
| actions, jobs and migrations, `pkg/action`, `pkg/migrator` | jobs, deployments | restart, database upgrade, version migrations | repeatable |
| node configuration, types, start-up | none of their own | files and templates | - |

The parts meet in Kubernetes objects and in calls: an offering calls the restart
manager when a certificate or an override has changed; the restart manager calls
`AddToQueue`; the controller's worker serves the restart config map under a
reserved name; nodes of an ordering service write the status of their parent,
whose events are handled by the same controller. The goroutine of a renewal
timer patches the status and writes the secrets that the controller watches. A
restart annotates the deployment that a reconcile may just be patching.

What is hard here, and the reason for these models:

* two goroutines read, change and replace the same config map (restart queue,
  `operator-config`);
* a cache that lags behind what the same process wrote a moment ago;
* an update that was taken off the stack before the work it asks for failed;
* flags in memory that a predicate resets while the worker still has to read them;
* several writes that belong together, with a crash or an error in between
  (genesis secrets; restart and its entry; clearing and queueing a request;
  certificate and key; crypto secret and config map of a CA);
* one object that stands for "this was done" (`SecretExists`, `ConfigExists`, the
  saved spec), and a read of it that fails;
* jobs that are taken for finished, or tried again beside what they left;
* progress that rests on some event arriving, or on a requeue nobody forgets.

The most important of these places are the hazards in `PROJECT.json`, each with
its line and the properties that would show it going wrong.

## 2. Modules

| module | models |
| --- | --- |
| `StaggerRestarts` | the restart queue and the cluster's pods |
| `RestartService` | what the queue promises its callers: the abstract specification that `StaggerRestarts` implements |
| `StaggerRestartsProofs` | proofs about `StaggerRestarts`: types, fronts, wake-ups, and on top of these requests, turns and the refinement of `RestartService` |
| `RestartManager` | the restart manager |
| `UpdateStack` | informer, update stack, worker and saved spec of a controller, with every interleaving |
| `OrdererCluster` | the coming up of an ordering service: parent, nodes, genesis block |
| `CAReconcile` | a certificate authority from creation on: controller, offering, initialisation, actions, pod |
| `FabricNode` | the same for a peer or an orderer node, with the migrations from Fabric 1.4 to 2.x |
| `ConsoleReconcile` | the console controller with the flags its consoles share, and the console offering |
| `CertRenewal` | expiry, timers, re-enrolment and enrolment, HSM jobs and backups of a node's certificates |
| `DeploymentManager` | one deployment: overrides, manager, resilient patches, cache, other writers |
| `RestartManagerProofs`, `UpdateStackProofs`, `OrdererClusterProofs`, `DeploymentManagerProofs`, `CertRenewalProofs`, `CAReconcileProofs`, `ConsoleReconcileProofs` | proofs about these modules |

Each has an `MC...` module with the values of its constants. The modules divide the
program so that each hazard is met in the module that has the other party to it:
`CAReconcile` and `FabricNode` have every step of a reconcile and let informer
events arrive at once; `UpdateStack` has the delays and races of those events, with
the offering reduced to its result; what the deployment manager does inside one
step of an offering is `DeploymentManager`; what happens to a restart once it was
asked for is `RestartManager` and then `StaggerRestarts`.

Conventions shared by all of them:

* An action stands for the code between two points at which something else can
  come in: a cache read, an API write, a call of another component. The actions
  carry the names of the Go functions.
* Data is abstracted to revisions: a facet of a spec, a field of a deployment or an
  override is the number of the event that last changed it; -1 (`Absent`) where there
  is none.
* `mishaps` is a history variable: the set of known hazards that have happened.
  Properties that hold only in their absence say so with it, so that a proviso
  is never wider than the events it names.
* `faults` or `events` bounds crashes, failed calls and edits.
* Definitions marked *Seeded fault* are used by no specification. They are
  wrong versions of the definition below them, for checking that the properties
  notice.

### StaggerRestarts

`cm` is the stored config map, `cache` what reads return, `dirty` that the watch
has not delivered the last write. `adder[r]` is the call of `AddToQueue` for
request `r` (read in `AddGetConfig`, write in `AddUpdateConfig`, three-second
limit in `AddTimeout`). `worker` is the call of `Reconcile`: `ReconcileStart`
reads the map, `ReconcileOptimize` merges and writes, the `Front...` actions are
the cases for the first entry of one organisation's queue (restart it, find its
deployment deleted, find a new pod running, expired, or look again later), and
`ReconcileEnd` writes once for all of them or asks for a requeue.
`ReconcileError` and `OperatorRestart` may come anywhere; what the call had
changed in its copy is then gone, what it restarted is not.

Abstractions. Timestamps: whether `CheckUntilTimestamp` has passed is a choice of
the step that asks. The order of merged entries is arbitrary, because the code
iterates over a Go map. A pod that is created after a restart patch has the
patched template; deployments use the strategy Recreate, so there is at most one
pod; the pod list is read as it is, not from a lagging copy. The pod names in
`PodNames` bound how many names can be told apart at one time.

`RestartService` knows requests only (new, queued, restarting, done, gone): one
component of an organisation at a time has its turn, nothing that was accepted is
lost or taken up again. `ServiceProvided` is the refinement: a request's stage is
read off the stored map, so merging, the copies in goroutines' hands, failed calls
and crashes must all be stutters or turns. The promise is void after a copy that
was outdated has been written back.

### RestartManager

Each instance has two goroutines, its reconcile and its timer callback. Recording
a reason is `UpdateConfigForRead` and `UpdateConfigForWrite`; `TriggerIfNeeded`
decides between an immediate restart and a timer; `SetTimer` (or `SetTimerPanic`,
when its second read does not find the instance) arms it; `TimerFires` starts the
callback; `ClearRead`, `ClearWrite` and `Queue` are `RestartDeployment`. The clock
`now` stops at `MaxTime`, so that requests late in a behaviour are still covered.
Each instance is of a component type of its own, whose queue is not shared here:
`Queue` is a call of `AddToQueue` that succeeds; `Fails` one that does not.
`MapDeleted` is somebody deleting `operator-config`, which the code then reads as
an empty map; for more than one instance the module also has the write of another
controller that takes an instance's entry away (`Erased`).

### UpdateStack

A peer's spec is a function from *facets* (config override, images, node OU,
zone ...) to the number of the edit that last changed it. The informer stores
(`Informed`) and hands on (`UpdateFunc`) every version; `stack` is
`r.update[name]`; `worker` goes through `GetInstance`, `Peek`, `PopUpdate`, the
offering, `SetStatus` and `Finish...`. The offering is abstracted to its result
(done, requeue, error) and to the facets it has dealt with. `saved` is the
config map `<name>-spec` that `CreateFunc` compares with after a restart; it
compares the facets in `Recovered` only.

### OrdererCluster

Requests are the parent (0) and the nodes. `cached` is the informer's copy of the
custom resources and `cachedGenesis` that of the genesis secrets; the two
informers catch up independently. The parent's reconcile is one of `ParentIgnored`,
`ParentWaits`, `ParentDone`, `ParentCreates`, `ParentCreatesNone` and
`GenerateGenesisBlock`; the loops over the nodes go one node at a time
(`CreateNodeCR`, `UpdateNodeWithGenesisBlock`, `GenerateGenesisSecretForNode`). A
node's reconcile is `SetDefaults` the first time, then `ReconcileNode`
(crypto, deployment), `UpdateParentStatus` or `ParentUpToDate`, and `NodeDone` or
`TimerWaits`, which contain `SetStatus`.

Abstractions. A genesis block is a number that differs for every block in use
(the code puts a random nonce into each). An informer may jump over versions.
Updates are told apart only as far as `CustomLogic` does: a created certificate,
or something else. The first reconcile of a node, which only stores the
operator's version, is left out, and so is certificate expiry: all
certificates are valid. A conflict on the parent's status counts as a fault;
when none is left, the write waits for the cache. An error of `Initialize` is a
breaking one and is not retried; other errors are.

### CAReconcile

The worker goes through `Reconcile` of the offering in its order: version,
`PreReconcileChecks`, `AddTLSCryptoIfMissing`, `Initialize` for the enrolment CA and
the TLS CA (in process, by an HSM job, by an HSM daemon job), managers, migration
of the config map, connection profile, `CheckStates`, certificates, `HandleActions`,
restarts, `SetStatus`. `secret` and `cfg` are what initialisation writes, one write
per step; `made` is the revision each managed object was made from; `pod` what the
running pod has loaded, so that a property can compare it with what is in the
cluster. `Fail(step)` is the failure of any call; whether it is breaking (not
retried) depends on the step. `SecretMisread` is the error that `SecretExists`
takes for absence. `CreateFunc` compares with the saved spec after a restart, with
the code's inverted test for overrides that were first given meanwhile.

### FabricNode

The same for a peer (CouchDB or LevelDB) or an orderer node. Beside the steps
above there are the node OUs, the MSP and admin certificates of the spec, the
actions with their flags and the migrations: `PeerMigrationV2_0` scales the
deployment to zero, waits for its pod, starts a CouchDB pod and the migration job
on the same volume, waits for the job's container, and scales up again. `db` is the
format of the ledger. Job and pods belong to the cluster and move by themselves.
`OrdererMigration...` only change the config map. The parent of an orderer node and
its genesis block are in `OrdererCluster`.

### ConsoleReconcile

`update` is the one record `r.update`, written by the predicates of all consoles
and read, several times, by the worker. `watch` is the sequence of events the
informer still has to deliver; every patch of a spec or status adds one. The spec
has the connection string of the database (remote, default, local with
credentials), passwords in clear, the network section, the registry URL that
`ValidateSpec` completes, the request to restart, and a revision for each of
deployer config, console config and pod. `due`, `wanted` and `owner` are history:
which flags were set for whom, and who has a reason to restart: a request or a
change since the last restart whose pods read all there was, with no flag and no
event of the watch still to say so again. `StartOK` is what the consoles of the initial
states have in common: one that has been deployed was validated and patched, so it has a
network section, credentials and no request in its saved spec, and an edit may since have
replaced its connection string by a remote one, not by credentials of its own; a new one
does not ask for a restart. A patch of the custom resource (the
status in `SetVersion`, the spec in `PatchInstance`, and in `HandleActions` also when
nothing changes) returns the resource as it then is, and that is the spec the reconcile
goes on with and `SaveSpecState` saves: an edit made meanwhile and a registry URL
without its `/` get into it (`Refresh`); an empty connection string is left out of the
response, so the one in memory may stay. Cached reads are
treated as current; `zone: select`, replicas and the deployer's development mode
are folded away. (The code sets `options["userid"]` for the deployer and reads
`"username"`, so that the random name it makes up is not used; the model has no
such name.)

### CertRenewal

Three processes: the controller's worker and the goroutines of two timers that have
fired. Each goes through backup, reading, the request to the CA, the write of the
certificate and the write of the key (the one that was found when the answer came),
or through the HSM's secret, config map and job. The timers are set when a
certificate's event is reconciled, and a callback that fails sets none. A day passes only when all calls are done. The CA's answer
is success or failure. An orderer is a node without a parent here.

### DeploymentManager

`dep` is the deployment in the API server, `cache` the operator's copy with its age,
`worker.obj` the object a reconcile holds. `Create...` and `Update...` are the
overrides, field by field: what is set, what is only added when missing
(`AppendIfMissing`), what is only changed. `Patched` is the merge patch computed
from the cached object, which replaces the list of containers as a whole;
`ResilientPatch`, `PatchConflict` and `PatchError` are one try of the loop, which
goes on after a success, repeats a conflict with the same object and does not report
the last one. `CheckState` and `RestoreState` each apply `CreateDeployment` to a
cached copy, with new random credentials and the keys of a Go map in any order.
`Kubectl`, `KubectlDelete`, `Restart` and `RolloutStatus` are the others who write.
`CacheSync` brings the cache to the present in one step. `CheckForSecretChange` is
called by nobody and left out.

## 3. Runs

Each run is a `.cfg` for one of the `MC` modules. `CHECK_DEADLOCK FALSE`
everywhere: when there are no more requests or edits the operator rests.

| run | question | result |
| --- | --- | --- |
| `stagger_hazards` | two components of one organisation, one fault of any kind: does anything but the front of a queue wait, can a queue stand still, do two restarts overlap, and is the stored map a restart service? | as promised, except after the named mishaps |
| `stagger_live` | one component requested twice, entries merged, one fault, fairness: is every request in exactly one place, does a restart begin during another, do the queues drain? | yes |
| `restart_races` | one instance, two reasons, reconcile and timer callback interleaved, one fault: are reasons kept, restarts due, reasons acted on, and when does `SetTimer` panic? | yes, up to the named mishaps; it panics only when the map was deleted |
| `update_stack` | two edits, two faults: is every edit covered by event, stack, worker or saved spec, and dealt with in the end? Is the stack served? | yes, up to the named mishaps |
| `orderer_cluster` | two nodes, one fault: one genesis block for all, and all have it when the parent is Deployed; Deployed is final | yes; two blocks if the loop over the secrets is cut |
| `orderer_deploys` | fairness, no fault: does the cluster come up whatever the order of events? | yes |
| `ca_reconcile` | three ways to initialise in three offerings, two events: is a flag forgotten, a root replaced, a deployment made that cannot start, does the pod end with the latest configuration, does the CA settle? | correct, up to the named mishaps |
| `node_reconcile` | a CouchDB peer from 1.4, a new peer, an orderer node; two events: the same questions, and is the ledger ever open twice? | correct, up to the named mishaps |
| `console_reconcile` | nine starting points with one or two consoles and up to two events: are edits applied, requests served, restarts wanted, the database reachable, do consoles settle? | correct, up to the named mishaps |
| `cert_renewal` | four kinds of node; both timers fire and one event happens, or two events happen: are keys paired, certificates renewed in time, is nothing left behind, does the node settle? | correct, up to the named mishaps |
| `certs_together` | two certificates enrolled together, no event at all: does the TLS certificate stay valid while the operator runs? | **no**: the finding |
| `deployment` | six deployments, two events: is the spec reached, no restart taken back, do patches come to an end? | correct, up to the named mishaps |

**The finding.** The timers of ecert and TLS certificate fire together when the
certificates were enrolled together. Both callbacks back the crypto up first, in
one secret; the one that meets the conflict logs it and returns, and no timer is
set again. With no other event that certificate expires, while `src/README.md:34`
says that TLS certificates are re-enrolled automatically.

**Other disagreements met.** Each of these was found when a property was checked or
proved without its proviso; the mishap that names it is in brackets.

* A restart request that was accepted is lost when a copy of the map that was
  outdated is written back [`outdated`], and one that was recorded is lost when
  queueing fails after clearing [`dropped`].
* A peer's update can be spent on an instance that was read before the edit, without
  any fault [`stale`].
* An orderer node is reported Deployed, reason "allPodsRunning", before its pod runs:
  the certificates' status replaces the pods'.
* CA overrides first given while the operator is down raise no flag: the test at
  `ibpca_controller.go:524` is inverted [`unflagged`].
* A new Fabric version without images asks for a requeue for ever: `fabricversion.go:136`
  requeues although nothing was changed [`unserved`].
* A migration job whose pod is pending is taken as finished (`job.go:326`), and the
  peer is scaled up beside it [`pending`].
* The console is Deployed before its deployment exists, because no pod is "all
  running" (`ibpconsole_controller.go:233`).
* The console is restarted before its spec is saved (`console.go:255`,
  `ibpconsole_controller.go:192`): an operator that ends in between finds the same
  edit again and restarts it a second time [`unsaved`].
* A console whose first status was lost in conflicts counts as new after a restart of the
  operator (`ibpconsole_controller.go:332`): an edit made meanwhile raises no flag, and the
  objects that are there are not updated [`skipped`].
* `CheckState` reports "edited manually" because the order of a Go map changed, with
  two TLS root certificates (peer override `deployment.go:176`).
* A CA whose database changes to Postgres gets two mounts on `/data`, which the API
  server refuses for ever [`database`].
* `MustGetContainer` returns an empty container and `UpdateDeployment` dereferences
  it, when a spec begins to ask for CouchDB or an HSM [`todatabase`, `tohsm`]; the
  console does the same when it goes to a local database [`tolocal`].

**Why the bounds are enough.** Two components of one organisation are the least
for which restarts can overlap; two requests for one component the least for which
entries merge. One fault suffices for every hazard of the list that needs one;
`update_stack` has two so that a crash can follow a failed call. `RestartManager.cfg`
has three requests for two reasons, so that a reason is requested again while it is
pending and after it was cleared; `WaitTime = 2` separates "before", "at" and "after"
the end of the wait. Two orderer nodes let one be ahead of the other in every
respect; one certificate per node instead of two makes one failed reconcile, not
two, enough to end a node's polling. In the modules with `events`, two events are an
edit met by a second edit, a crash or a failed call during its handling; more of
them repeat what one has shown, since each reconcile begins with what is in the
cluster. `FabricNode` lists which facets the first and the second edit touch: each
action, migration and kind of configuration is there, alone or with what it has to
be kept apart from. Two consoles are the least for which flags are shared. With
`Iterations = 1` the list of backups is full after the first. `SYMMETRY` is used
for pod names in a run without liveness only.

**Fairness.** The worker and every goroutine keep running, watches deliver, the
operator is started again after a crash, and in the modules with pods and jobs the
cluster runs them (weak fairness). Strong fairness is assumed of five things. A
waiting entry that is looked at again and again is found expired, because
`CheckUntilTimestamp` is a fixed instant. The offering in `UpdateStack` does not ask
for a requeue for ever. A peer or orderer with a recorded reason keeps being
reconciled, as its status changes and resyncs see to. A request in the orderer's
work queue, and a console in its queue, gets its turn, because the queue is first
in, first out. Nothing is assumed of pods in `StaggerRestarts`; in `OrdererCluster`
a pod whose volumes exist starts. Users, failures and crashes are never fair.

**Mishaps**, that is, what the provisos stand for:

| module | mishap | what has happened |
| --- | --- | --- |
| `StaggerRestarts` | `outdated` | a copy that was not the stored map was written back |
| | `undone` | a call ended between a restart and the write that records it |
| | `blind` | a deployment was restarted while its entry did not name the pod there |
| | `unseen` | the list call missed a deployment that exists; its entry was logged as deleted |
| `RestartManager` | `outdated`, `erased` | as above, for `operator-config`; an instance's entry was taken away, or the map deleted |
| | `raced` | reconcile and callback cleared at the same time |
| | `dropped` | ended between clearing and queueing |
| | `panicked` | `SetTimer` dereferenced a missing entry |
| `UpdateStack` | `stale`, `unpaired` | update spent on an older instance; looked at one update and popped another |
| | `failed`, `broken` | update lost with a failed call; breaking error with updates left |
| | `refused` | edit of zone or region ignored, with what else it changed |
| | `cutoff`, `unsaved` | crash after the spec was saved but not acted on; edit of a facet that is not compared |
| `OrdererCluster` | `cut`, `outdated` | loop over the genesis secrets ended early; block generated for nodes that have one |
| | `uncreated` | parent reconciled with a status and a node missing |
| | `forgot`, `broken` | certificate update lost; breaking error that is not news |
| `CAReconcile` | `failed`, `stopped` | update lost with a failed call; breaking error, not retried |
| | `halfway`, `misread` | initialisation cut between its writes; a secret that exists was taken as missing |
| | `unflagged`, `lateMigration` | start-up comparison missed a difference; config map migrated after the pod had loaded it |
| `FabricNode` | `failed`, `stopped`, `misread`, `unflagged` | as for the CA; also: the list of jobs or the config map was misread |
| | `unserved`, `conflict` | requeued for missing images; actions that exclude each other were refused |
| | `pending`, `jobFailed`, `dropped`, `orphan` | job taken as finished too early, or although it failed; deleted before it ran; its CouchDB pod left behind |
| | `skipped`, `late` | migration judged not needed; config map migrated after the pod had loaded it |
| `ConsoleReconcile` | `wiped`, `borrowed`, `reread` | flag reset before it was read; another console's flag read; a flag read twice |
| | `outdated`, `normalised` | event older than the spec; saved spec differs from the custom resource |
| | `skipped`, `refused`, `down`, `crashed` | saved but not applied, or applied from an older spec without a status, before a restart; zone edited; edited while down; crash |
| | `unsaved` | ended between a restart and the save of the spec it was for |
| | `failed`, `conflict` | saved spec could not be read, or a call failed; status patch met a conflict |
| | `reset`, `tolocal`, `nonetwork`, `late`, `panicked` | connection string reset; remote to local database; no network section; refused console edited; panic |
| `CertRenewal` | `failed`, `refused`, `crashed`, `down` | a call failed; the CA or the key directory refused; crash; time passed while down |
| | `conflict`, `raced`, `split` | backups written at once; two renewals of one certificate; ended between certificate and key |
| | `pending`, `jobFailed`, `collided`, `leftover` | job taken as finished too early; job failed; two re-enrolments shared their objects; old secret reused |
| `DeploymentManager` | `conflict`, `overwritten` | every try met a conflict; a list replaced from an old copy |
| | `exists`, `hidden` | update forgotten because the deployment was not in the cache; edit that `CheckState` cannot see |
| | `removed`, `todatabase`, `tohsm`, `database`, `panicked` | container removed by hand; spec begins to ask for CouchDB, for an HSM; CA changes its database; panic |

`ClusterDeploys` has been found to fail after `uncreated` and after `forgot`, which
the run without faults does not show: an operator that restarts after it has
created one node of a channel-less cluster may reconcile this node first; the
node sets the parent to Deployed, and the other node is never created.

## 4. Proofs

Properties of eight modules are proved for every value of the constants: any
number of components, organisations, requests, nodes, consoles, edits, days, events and faults. The only
assumptions are the modules' `ConstantsOK`, which TLC evaluates in every run. Each proof
has one inductive invariant (`IInv`, a conjunction of named parts), a lemma per group of
actions that it is preserved, and the theorems at the end of the module.

| module | theorem | states |
| --- | --- | --- |
| `StaggerRestartsProofs` | `FrontOnly`, `WakeUpsKept` | `[]OnlyFrontWaits`, `[]NoStall` |
| | `NoRequestLost`, `OneAtATime`, `RestartsApart` | `[]RequestsKept`, `[]Staggered`, `NoRestartWhileRolling` |
| | `ServiceImplemented` | `ServiceProvided`: `StaggerRestarts` implements `RestartService` |
| `RestartManagerProofs` | `ReasonsKept`, `NoPanic`, `DueRestarts` | `[]WantedKept`, `[]PanicNeedsLostEntry`, `RestartIsDue` |
| `UpdateStackProofs` | `EditsCovered`, `UpdatesServed` | `[]SpecCovered`, `[]StackServed` |
| `OrdererClusterProofs` | `OneGenesisBlock`, `DeployedIsComplete`, `DeployedStays` | `[]SecretsAgree`, `[]DeployedHasGenesis`, `DeployedIsFinal` |
| `DeploymentManagerProofs` | `Reached`, `RestartKept` | `[]SpecReached`, `RestartsKept` |
| `CertRenewalProofs` | `KeysMatch`, `NoneExpires`, `CleanedUp` | `[]KeysPaired`, `[]RenewedInTime`, `[]NothingLeftBehind` |
| `CAReconcileProofs` | `RootsKept`, `Mounted` | `RootKept`, `[]DeploymentMountable` |
| | `NothingIsForgotten`, `LatestRuns` | `[]NothingForgotten`, `[]PodRunsLatest` |
| `ConsoleReconcileProofs` | `EditsAreApplied`, `RequestsAreServed` | `[]EditsApplied`, `[]RequestsServed` |
| | `RestartsHaveReasons`, `ReachesItsDatabase` | `RestartsWanted`, `[]DatabaseReachable` |

Each module also has `TypeCorrect`: `Spec => []TypeOK`.

**The restart queue.** `IInv == TypeOK /\ AllGood /\ Scheduling`:

* `AllGood` says that *every* copy of the map (stored, cached, in the worker's
  and the callers' hands) is well typed and has waiting entries at the front
  only. The stored map alone would not be inductive: any copy can become the
  stored one by a late write. Its preservation rests on lemmas about the
  operations on a copy: appending, moving the front to the log, changing the
  front, and `optimizeRestart` (`OptimizedQueueIsGood`: at most one entry waits,
  so putting waiting entries in front of merged ones keeps it at the front).
* `Scheduling` is why no wake-up is lost. `NoStall` needs to know that a running
  `Reconcile` will write or ask for a requeue if a stored queue holds an entry:
  `CacheFresh` (no event is due only if the cache is the stored map),
  `TodoNonEmpty`, `SeesAll` (what the worker does not see will be announced by
  the watch) and `SkipsNone` (every non-empty queue has been handled, is still
  to be, or has caused a write or a requeue).

For the requests there are two more invariants on top of it.

* `RequestsInv` says where the requests are. `Keeps(cfg, A)`: the copy `cfg`
  answers for exactly the requests in `A`, in one place each. The stored map keeps
  what was accepted, and so does the worker's copy while nobody has written over it
  (`MapKeeps`, `WorkerKeeps`); a caller's copy that is current *is* the stored map
  (`AddersCurrent`). `Progress` is what the refinement needs: compared with the
  stored map, the worker's copy is ahead by at most one turn of each organisation
  that the loop is done with. The lemmas `AddKeeps`, `WithFrontKeeps`, `MoveKeeps`
  and `OptimizeKeeps` say what each operation on a copy does to the stages of the
  requests; merging changes none (`OptimizedQueueKeeps`, for every order in which Go
  may iterate over its map).
* `TurnsInv` says whose turn it is: a component that is being restarted waits at the
  front of its queue, in the stored map or in the copy that is about to be written,
  and its pod is the old one, none, or one that is not ready yet (`TurnsKept`).
  Therefore no other component of the organisation is restarted, and the wait does not end
  before the new pod is ready. `Staggered` does not follow from that alone: with an
  outdated copy in the worker's hands, it is kept because no restart begins.

The refinement maps the stage of a request to what the stored map says of it
(`StageOf`). `StepServes` has the correspondence: `AddUpdateConfig` is `Accept`, the write
at the end of `Reconcile` is `Serve`, a write from an outdated copy is `Void`, and all
other steps, among them the write of the merged queues, leave the service unchanged.

**The restart manager.** `WantedKept` and `RestartIsDue` need the order of the
reads and writes of two goroutines: `RecordIsCurrent` (a fresh copy is the stored map),
`OneBusy` (unless they have raced, one of the two decides or clears at a time, and one
that is about to write has stopped the timer), `DatesOK` (a request is pending if and only
if it has a date, which is not in the future, in every copy) and `DecisionsAreDue` (a
decision to restart, and a timer that leads to one, is about a request whose wait time is
over when it is carried out). `EntriesStay` is why `SetTimer` finds the entry again.

**The update stack.** `SpecCovered` says that what the offering has not dealt with is
on its way to it. To be preserved by the arrival of an event it needs `EventsReachCache`
and `EventsTellAll` (the events that are left lead from the spec last handed to `UpdateFunc`
to the informer's copy, and tell of every difference); by the end of the offering's work,
`OldWorkComesAgain` (what was worked on with an old value will come again); by a requeue,
`PutBackIsPopped`; by a crash, `StoppedIsEmpty`; and `CopiesAreOld`, because a facet's
copies are old values of it.

**The ordering service.** For a cluster of any size, the genesis secrets are none, all
the same, or those of the loop in progress up to the node it has come to
(`SecretsInOrder`). A second block is not generated by a worker with an old cache, because
it is generated only when all nodes are listed and have started (`GenesisIsLate`) and what
the caches say of a node or a secret stays true (`CopiesLag`, `SecretsSeen`).
`DeployedIsFinal` rests on the resource version (`FreshIsEqual`).

**The deployment.** `SpecReached` needs that revisions only grow, from cache to
deployment to spec (`RevisionsGrow`); that an update which was flagged is in the queue,
under way or has arrived (`UpdateIsQueued`, `ReadIsCurrent`, `UpdatesArrive`); that the
object in the worker's hands is what the spec asks, and differs from what was read only
where the operator may change it (`HeldObject`, `HeldIsWanted`, `VolumesAgree`); and that
an idle operator has found or made a deployment and checked it (`FoundOrMade`, `Checked`).
Whether a revision grows can be said only if those of the initial specs are not above the
numbers of the events: `ConstantsOK` has the initial revisions of endpoint, HSM and
launcher at most 0. `RestartsKept` follows from `HeldObject`: the annotation is not in the
patch when the object that is held and the cached one are of one version, and when they are
not the patch names the version, which the server compares.

**Certificate renewal.** `IInv == TypeOK /\ Course /\ KeyInv /\ OwnInv /\ TimeInv`.
`Course` is what a process knows at a point of its way: a timer's goroutine never asks for a
new key, only an ecert goes to a job.

* `KeyInv`: the key in a process's hands is that of the certificate it got (`InHand`), and
  at most one process is between the two writes, about to make the pair whole (`Pair`).
  `KeysPaired` alone does not say what the second write will store.
* `OwnInv`: the secret and the config map of a job belong to the one process that is between
  their creation and their deletion, a job to the process that waits for it, a key file to
  the one that will read it. `NothingLeftBehind` speaks of the end only.
* `TimeInv`: every certificate the operator renews has a timer, an event that will set one,
  or a callback that is renewing it (`Attended`), and a timer that has not fired is not later
  than the expiry minus the warning period. A day passes only when the timers of the day
  have fired and the calls are done, so that one day of warning is enough. `ConstantsOK` has a
  warning period of at least one, because a zero in the spec stands for 30 days, and below the
  lifetime.

**The certificate authority.** A reconcile is a walk through the offering's list of steps
that passes over what has nothing to do (`FirstNeeded`). `Rank` numbers the steps of all
three offerings; `StepsInOrder` says that each list is ascending, `GoesOn` what is known of
a step that was passed over (proved with the least element of a set of numbers, `Least`,
because `FirstNeeded` is a `CHOOSE` over an index). `Done(step)` is then "the call is past
that step". The invariant has

* `OverridesServed` and `Served`: what is behind the spec has its flag on the stack, or in a
  call that is not past the step that serves it. `NothingForgotten` alone is not kept by a
  call that goes on; `EditsStacked` is why a call that writes an old revision is no loss.
* `RootInv`: without a misread secret a root certificate is made only where there is none.
  The step in which it is checked that there is none and the one that writes it are apart;
  nobody else writes in between, because a job exists only while its call waits for it.
* `InitInv`: a CA has its secret and its configuration or neither, but while one call is
  between the two (`Creating`), and no deployment is made before both CAs are past.
* `RestInv`: a deployment, profile or pod that is not the latest keeps the operator busy.

The lemmas `Onward...` do for every step of the list at once what does not depend on the
step; each action then has a lemma `...Keeps` with what it writes.

**The console.** All consoles share one record of flags, which every event of the watch
replaces, and only a saved copy of the spec survives a crash. So `IInv` says for each
console where what it still has to do is kept; `Course` is what the worker knows at a point
of its way, up to the patch that refreshes its copy of the spec.

* `DatabaseInv`: of a console's connection strings (spec, config map, database, the spec in
  the worker's hands) those with credentials agree. The default string can be replaced by
  credentials only while nothing has been made from others, so that a conflict, a crash or a
  second reconcile between making them up and patching the spec makes no second pair.
* `EditInv`: an edit is in an event that waits, in a flag whose console is to be reconciled
  (`Ahead`), in a creation event still to be compared (`Listed`), or in the hands of the
  worker (`InHand`), which for every object has written it or will (`Written`: it is missing,
  or the flag was read and the worker is not past it); or the console comes again and
  what there is was made from this spec (`MadeFrom`). `EditsApplied` speaks of the end only,
  when of all these nothing but `Applied` can hold. Two more facts make it inductive:
  a console that was listed as it was before an edit has the edit behind it in the watch
  (`Behind`), and a worker with an old spec has an event or a flag ahead (`Looks`).
* `RequestInv` is the same for a request to restart: it waits in an event or is in a flag
  whose console is to be reconciled. It needs no proviso for flags of another console:
  whoever's flag it was, the worker has read a flag that is set.
* `RestInv`: a console that nobody wants to restart is `AtRest`: no request is pending, its
  flags are read, and neither the saved spec nor a creation event differs from the spec in
  what a pod reads; between a restart and the save that follows the worker has that spec in
  its hands, which is where a crash makes the difference [`unsaved`]. `OwnerInv` has the
  flags belong to one console or nobody.
* `PanicInv` is why `EditsApplied` need not exclude every panic: `CreateFunc` meets a spec
  without a network section only if there was one (`NetworkInv`), `UpdateDeployment` a
  deployment without a database only if its console went from a remote to a local one
  (`RemoteInv`).

The proof has one lemma per action that says what it does to each part of the state
(`...Effects`), and for edits and requests one per way in which the worker goes on
(`...Onward`, `...Again`, `...Written`, `...Taken`).

**Only model-checked.** The safety properties of `FabricNode`: its reconcile has the form of
the certificate authority's, so that an invariant like the one above should do for
`NothingForgotten` and `PodRunsLatest`, but nothing is proved of it. And liveness (`QueuesDrain`, `WantedIsQueued`, `SpecSettles`,
`ClusterDeploys`, `Settles`, and `...Settle(s)` of the others), which is out of reach of the
installed provers, as is `ENABLED`.

## 5. Not modelled

* Configuration files, templates, certificates, blocks and the merging of overrides
  into them; the generated copying code of the types; the operator's start-up:
  layout, cryptography and I/O without an order of events.
* The managers of services, volumes, roles, routes and ingresses, beyond "create what
  is missing, may fail": they have one write each and no retry of their own.
* Two goroutines in the Go map of update stacks (`ibppeer_controller.go:279`, read
  without the mutex): the outcome is the end of the process, that is, the crash
  the models already have; what matters after it is in `UpdateStack`.
* Deletion: `DeleteFunc` of the orderer controller deletes the nodes of a deleted
  parent, and the parent with its last node; that of the peer controller a config
  map of earlier releases. `OrdererCluster` takes parent and nodes as there to stay.
* Two controllers that write `operator-config` at once, and two organisations in one
  call of the restart queue: the modules have them, the instances are too large for
  a run with faults.
* Stale caches in `CAReconcile`, `FabricNode` and `ConsoleReconcile`; they are in
  `UpdateStack`, `OrdererCluster` and `DeploymentManager`.

Within TLC's reach but not stated as properties of a run: that the stack holds no
update twice, that a key is backed up before it is overwritten, that a console whose name
is in use gets no objects until it is edited, that credentials of the peer and of its
database agree as long as nobody removes the container, and the type invariants (`TypeOK`)
of the modules other than `StaggerRestarts`, all but that of `FabricNode` proved instead.

## 6. Plan

1. Proofs: `FabricNode`: `LedgerExclusive`, and `NothingForgotten` along the lines of
   `CAReconcileProofs`.
2. The composition of `RestartManager` with `RestartService`, from a recorded reason
   to a restarted pod.
