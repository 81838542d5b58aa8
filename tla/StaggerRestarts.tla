--------------------------- MODULE StaggerRestarts ---------------------------
(***************************************************************************)
(* The queue service behind every operator-initiated restart               *)
(* (pkg/restart/staggerrestarts): one config map per component type,       *)
(* "<ca|peer|orderer>-restart-config", holding a queue of restart requests *)
(* per MSPID and a log of finished ones.  Two kinds of goroutine rewrite   *)
(* that one map: AddToQueue, called from instance reconciles and from      *)
(* restart timers, and Reconcile, run by the controller's only worker.     *)
(* Both read the map from the informer cache, change their own copy, and   *)
(* write the whole copy back without a resource version.                   *)
(*                                                                         *)
(* Timestamps are abstracted: that CheckUntilTimestamp has passed, or that *)
(* the random 10-30s check interval has, is a choice made by the step that *)
(* asks.  Kubernetes (deployments, pods, the cache) is external.           *)
(***************************************************************************)
EXTENDS Naturals, Sequences, FiniteSets

CONSTANTS
    CRs,        \* names of custom resources of one component type
    MSPIDs,     \* organisations: one restart queue each
    MSPOf,      \* the MSPID of a custom resource
    Requests,   \* calls of AddToQueue; each one is a distinct restart reason
    CROf,       \* the custom resource a request is for
    PodNames,   \* bound: pod names that can be told apart at one time
    NoPod,      \* the empty pod name
    MaxFaults   \* bound: crashes, failed API calls and pod failures

ASSUME ConstantsOK ==
    /\ MSPOf \in [CRs -> MSPIDs]
    /\ CROf \in [Requests -> CRs]
    /\ NoPod \notin PodNames
    /\ MaxFaults \in Nat

VARIABLES
    cm,         \* the stored config map
    cache,      \* the informer's copy of it, which every read returns
    dirty,      \* the watch has not yet delivered the last write
    work,       \* a reconcile request for the map is in the work queue
    worker,     \* the Reconcile call in progress
    adder,      \* the addToQueue call of each request
    dep,        \* which deployments exist
    pod,        \* the one pod of each deployment (strategy Recreate)
    accepted,   \* history: requests whose AddToQueue returned success
    rolling,    \* history: restarted, and no pod of the new template was
                \* ready since, and the restart did not expire
    mishaps,    \* history: which of the known hazards have happened
    faults      \* crashes, failed API calls and pod failures so far

clusterVars == <<dep, pod>>
vars == <<cm, cache, dirty, work, worker, adder, dep, pod,
          accepted, rolling, mishaps, faults>>

-----------------------------------------------------------------------------
(* Data: RestartConfig and Component                                       *)

Statuses == {"pending", "waiting", "completed", "expired", "deleted"}

\* Reason is the set of requests an entry stands for: optimizeRestart joins
\* the reasons of the entries it merges.
Component == [CRName : CRs, Reason : SUBSET Requests,
              Status : Statuses, PodName : PodNames \cup {NoPod}]

RestartConfig == [Queues : [MSPIDs -> Seq(Component)], Log : SUBSET Component]

EmptyConfig == [Queues |-> [m \in MSPIDs |-> <<>>], Log |-> {}]

\* Seeded fault: the new entry jumps the queue.
AddToQueueInFront(cfg, m, component) ==
    [cfg EXCEPT !.Queues[m] = <<component>> \o @]

AddToQueue(cfg, m, component) ==
    [cfg EXCEPT !.Queues[m] = Append(@, component)]

PopFromQueue(cfg, m) == [cfg EXCEPT !.Queues[m] = Tail(@)]

AddToLog(cfg, component) == [cfg EXCEPT !.Log = @ \cup {component}]

\* The front entry of queue m leaves it for the log with a final status.
MoveToLog(cfg, m, status) ==
    PopFromQueue(AddToLog(cfg, [Head(cfg.Queues[m]) EXCEPT !.Status = status]), m)

\* Seeded fault: the status is left empty.
NewComponentNoStatus(r) == [CRName |-> CROf[r], Reason |-> {r},
                            Status |-> "", PodName |-> NoPod]

NewComponent(r) == [CRName |-> CROf[r], Reason |-> {r},
                    Status |-> "pending", PodName |-> NoPod]

-----------------------------------------------------------------------------
(* isOptimizePossible and optimizeRestart                                  *)

Waits(q, i) == q[i].Status = "waiting"

isOptimizePossible(queues) ==
    \E m \in MSPIDs : \E i, j \in 1..Len(queues[m]) :
        /\ i < j
        /\ ~Waits(queues[m], i) /\ ~Waits(queues[m], j)
        /\ queues[m][i].CRName = queues[m][j].CRName

\* Entries that wait keep their fields (for one name, the last one wins).
WaitingEntries(q) ==
    {q[i] : i \in {k \in 1..Len(q) :
                     /\ Waits(q, k)
                     /\ \A j \in (k+1)..Len(q) :
                            ~(Waits(q, j) /\ q[j].CRName = q[k].CRName)}}

\* Seeded fault: the merged entry keeps the reason of the first one only.
MergedEntryFirstReason(q, c) ==
    [CRName |-> c,
     Reason |-> q[CHOOSE i \in 1..Len(q) :
                    /\ ~Waits(q, i) /\ q[i].CRName = c
                    /\ \A j \in 1..(i-1) : Waits(q, j) \/ q[j].CRName # c].Reason,
     Status |-> "pending", PodName |-> NoPod]

\* The others become one pending entry per name, with all their reasons.
MergedEntry(q, c) ==
    [CRName |-> c,
     Reason |-> UNION {q[i].Reason : i \in {k \in 1..Len(q) :
                          ~Waits(q, k) /\ q[k].CRName = c}},
     Status |-> "pending", PodName |-> NoPod]

MergedEntries(q) ==
    {MergedEntry(q, q[i].CRName) : i \in {k \in 1..Len(q) : ~Waits(q, k)}}

\* All sequences that hold each element of S once (Go map iteration order).
Orderings(S) ==
    {s \in [1..Cardinality(S) -> S] :
        \A i, j \in 1..Cardinality(S) : i # j => s[i] # s[j]}

\* What optimizeRestart may turn a queue into: waiting entries are put in
\* front of the merged ones.
OptimizedQueues(q) ==
    {w \o p : w \in Orderings(WaitingEntries(q)), p \in Orderings(MergedEntries(q))}

optimizeRestart(cfg) ==
    {[cfg EXCEPT !.Queues = qs] :
        qs \in {f \in [MSPIDs -> UNION {OptimizedQueues(cfg.Queues[m]) : m \in MSPIDs}] :
                   \A m \in MSPIDs : f[m] \in OptimizedQueues(cfg.Queues[m])}}

-----------------------------------------------------------------------------
(* State                                                                   *)

IdleWorker == [pc |-> "idle", cfg |-> EmptyConfig, fresh |-> TRUE, todo |-> {},
               looked |-> {}, updated |-> FALSE, requeue |-> FALSE, patched |-> FALSE]

Worker == [pc : {"idle", "optimize", "loop"}, cfg : RestartConfig,
           fresh : BOOLEAN,      \* nobody wrote the map since cfg was read
           todo : SUBSET MSPIDs, \* queues the range loop is not done with
           looked : SUBSET MSPIDs, \* pods were listed, the restart comes next
           updated : BOOLEAN, requeue : BOOLEAN,
           patched : BOOLEAN]    \* some deployment was restarted in this call

NotStarted == [pc |-> "idle", cfg |-> EmptyConfig, fresh |-> TRUE]
Ended      == [pc |-> "ended", cfg |-> EmptyConfig, fresh |-> TRUE]

Adder == [pc : {"idle", "got", "ended"}, cfg : RestartConfig, fresh : BOOLEAN]

Pod == [name : PodNames, ready : BOOLEAN, current : BOOLEAN]

Mishaps == {"outdated", "undone", "blind", "unseen"}

TypeOK ==
    /\ cm \in RestartConfig
    /\ cache \in RestartConfig
    /\ dirty \in BOOLEAN
    /\ work \in BOOLEAN
    /\ worker \in Worker
    /\ adder \in [Requests -> Adder]
    /\ dep \in [CRs -> BOOLEAN]
    /\ pod \in [CRs -> Pod \cup {NoPod}]
    /\ accepted \in SUBSET Requests
    /\ rolling \in [CRs -> BOOLEAN]
    /\ mishaps \in SUBSET Mishaps
    /\ faults \in 0..MaxFaults

Init ==
    /\ cm = EmptyConfig
    /\ cache = EmptyConfig
    /\ dirty = FALSE
    /\ work = FALSE
    /\ worker = IdleWorker
    /\ adder = [r \in Requests |-> NotStarted]
    /\ dep = [c \in CRs |-> TRUE]
    /\ pod \in [CRs -> [name : PodNames, ready : {TRUE}, current : {TRUE}]]
    /\ accepted = {}
    /\ rolling = [c \in CRs |-> FALSE]
    /\ mishaps = {}
    /\ faults = 0

\* A step that needs something to go wrong takes one of MaxFaults.
Fault(failing) ==
    /\ failing => faults < MaxFaults
    /\ faults' = IF failing THEN faults + 1 ELSE faults

-----------------------------------------------------------------------------
(* Writing the config map: UpdateConfig -> CreateOrUpdate                  *)

\* Acting on a copy of the map that somebody has replaced meanwhile.  A write
\* is unconditional, so it also undoes what was written since.
Blame(fresh) == IF fresh THEN {} ELSE {"outdated"}

OtherAddersOutdated(rs) ==
    [r \in Requests |-> IF adder[r].pc = "got" /\ r \notin rs
                        THEN [adder[r] EXCEPT !.fresh = FALSE]
                        ELSE adder[r]]

-----------------------------------------------------------------------------
(* AddToQueue: up to three attempts of addToQueue, one second apart        *)

\* addToQueue reads the map; a repeated attempt reads it again.
AddGetConfig(r) ==
    /\ adder[r].pc \in {"idle", "got"}
    /\ adder' = [adder EXCEPT ![r] = [pc |-> "got", cfg |-> cache, fresh |-> ~dirty]]
    /\ UNCHANGED <<cm, cache, dirty, work, worker, clusterVars,
                   accepted, rolling, mishaps, faults>>

AddUpdateConfig(r) ==
    /\ adder[r].pc = "got"
    /\ cm' = AddToQueue(adder[r].cfg, MSPOf[CROf[r]], NewComponent(r))
    /\ dirty' = TRUE
    /\ adder' = [OtherAddersOutdated({r}) EXCEPT ![r] = Ended]
    /\ worker' = [worker EXCEPT !.fresh = (worker.pc = "idle")]
    /\ accepted' = accepted \cup {r}
    /\ mishaps' = mishaps \cup Blame(adder[r].fresh)
    /\ UNCHANGED <<cache, work, clusterVars, rolling, faults>>

\* The poll timed out: AddToQueue returns an error, nothing was written.
AddTimeout(r) ==
    /\ adder[r].pc = "got"
    /\ adder' = [adder EXCEPT ![r] = Ended]
    /\ UNCHANGED <<cm, cache, dirty, work, worker, clusterVars,
                   accepted, rolling, mishaps, faults>>

-----------------------------------------------------------------------------
(* Reconcile, called by the controller for the restart config map          *)

NonEmpty(cfg) == {m \in MSPIDs : cfg.Queues[m] # <<>>}

ReconcileStart ==
    /\ worker.pc = "idle" /\ work
    /\ work' = FALSE
    /\ worker' = [pc |-> IF isOptimizePossible(cache.Queues) THEN "optimize" ELSE "loop",
                  cfg |-> cache, fresh |-> ~dirty, todo |-> NonEmpty(cache),
                  looked |-> {}, updated |-> FALSE, requeue |-> FALSE, patched |-> FALSE]
    /\ UNCHANGED <<cm, cache, dirty, adder, clusterVars,
                   accepted, rolling, mishaps, faults>>

\* Restarts that can be clubbed are merged and written at once.
ReconcileOptimize ==
    /\ worker.pc = "optimize"
    /\ \E cfg \in optimizeRestart(worker.cfg) :
          /\ cm' = cfg
          /\ worker' = [worker EXCEPT !.pc = "loop", !.cfg = cfg,
                                      !.todo = NonEmpty(cfg), !.fresh = TRUE]
    /\ dirty' = TRUE
    /\ adder' = OtherAddersOutdated({})
    /\ mishaps' = mishaps \cup Blame(worker.fresh)
    /\ UNCHANGED <<cache, work, clusterVars, accepted, rolling, faults>>

Front(m) == Head(worker.cfg.Queues[m])

AtFront(m, status) ==
    /\ worker.pc = "loop" /\ m \in worker.todo
    /\ Front(m).Status = status

\* The next queue is handled: cfg is the worker's copy afterwards.
Handled(m, cfg) ==
    [worker EXCEPT !.cfg = cfg, !.todo = @ \ {m}, !.looked = {}, !.updated = TRUE]

\* GetRunningPods: the ready pod of c, if any.  A failed list call returns no
\* pods, so a caller may also see none when there is one.
RunningPod(c) == IF pod[c] # NoPod /\ pod[c].ready THEN pod[c].name ELSE NoPod

\* The front entry of queue m is replaced.
WithFront(cfg, m, component) ==
    [cfg EXCEPT !.Queues[m] = [@ EXCEPT ![1] = component]]

\* Pending: the name of the running pod, if one is listed, is remembered.
FrontPendingLook(m) ==
    /\ AtFront(m, "pending") /\ worker.looked = {}
    /\ \E seen \in {NoPod, RunningPod(Front(m).CRName)} :
          /\ Fault(seen # RunningPod(Front(m).CRName))
          /\ worker' = [worker EXCEPT !.looked = {m},
                !.cfg = IF seen = NoPod THEN @
                        ELSE WithFront(@, m, [Front(m) EXCEPT !.PodName = seen])]
    /\ UNCHANGED <<cm, cache, dirty, work, adder, clusterVars,
                   accepted, rolling, mishaps>>

\* A restart whose entry does not name the pod that is to be replaced.
Blind(m, c) == IF pod[c] # NoPod /\ pod[c].name # Front(m).PodName THEN {"blind"} ELSE {}

\* Then, if the deployment exists: restart it and wait for it.
FrontPendingRestart(m) ==
    LET c == Front(m).CRName IN
    /\ AtFront(m, "pending") /\ worker.looked = {m}
    /\ dep[c]
    /\ worker' = [Handled(m, WithFront(worker.cfg, m, [Front(m) EXCEPT !.Status = "waiting"]))
                     EXCEPT !.patched = TRUE]
    /\ mishaps' = mishaps \cup Blame(worker.fresh) \cup Blind(m, c)
    /\ pod' = [pod EXCEPT ![c] = IF @ = NoPod THEN @ ELSE [@ EXCEPT !.current = FALSE]]
    /\ rolling' = [rolling EXCEPT ![c] = TRUE]
    /\ UNCHANGED <<cm, cache, dirty, work, adder, dep, accepted, faults>>

\* Or, if no deployment was listed or the list call failed: the custom
\* resource is taken to be deleted.
FrontPendingDeleted(m) ==
    /\ AtFront(m, "pending") /\ worker.looked = {m}
    /\ Fault(dep[Front(m).CRName])
    /\ worker' = Handled(m, MoveToLog(worker.cfg, m, "deleted"))
    /\ mishaps' = mishaps \cup (IF dep[Front(m).CRName] THEN {"unseen"} ELSE {})
    /\ UNCHANGED <<cm, cache, dirty, work, adder, clusterVars, accepted, rolling>>

\* Waiting, scenario 1: exactly one running pod, and not the old one.
\* Seeded fault: any running pod will do.
HasRunningPod(m) == RunningPod(Front(m).CRName) # NoPod

HasRestarted(m) ==
    RunningPod(Front(m).CRName) \notin {NoPod, Front(m).PodName}

FrontWaitingCompleted(m) ==
    /\ AtFront(m, "waiting") /\ worker.looked = {}
    /\ HasRestarted(m)
    /\ worker' = Handled(m, MoveToLog(worker.cfg, m, "completed"))
    /\ UNCHANGED <<cm, cache, dirty, work, adder, clusterVars,
                   accepted, rolling, mishaps, faults>>

\* Seeded fault: a restart that has expired is put off to be tried once more.
FrontWaitingRetried(m) ==
    /\ AtFront(m, "waiting") /\ worker.looked = {}
    /\ Fault(HasRestarted(m))
    /\ worker' = Handled(m, WithFront(worker.cfg, m, [Front(m) EXCEPT !.Status = "pending"]))
    /\ rolling' = [rolling EXCEPT ![Front(m).CRName] = FALSE]
    /\ UNCHANGED <<cm, cache, dirty, work, adder, clusterVars, accepted, mishaps>>

\* Waiting, scenario 2: not restarted (as far as the list shows), and
\* CheckUntilTimestamp has passed.
FrontWaitingExpired(m) ==
    /\ AtFront(m, "waiting") /\ worker.looked = {}
    /\ Fault(HasRestarted(m))
    /\ worker' = Handled(m, MoveToLog(worker.cfg, m, "expired"))
    /\ rolling' = [rolling EXCEPT ![Front(m).CRName] = FALSE]
    /\ UNCHANGED <<cm, cache, dirty, work, adder, clusterVars, accepted, mishaps>>

\* Seeded fault: neither a write nor a requeue when it is too early to write.
FrontWaitingNoRequeue(m) ==
    /\ AtFront(m, "waiting") /\ worker.looked = {}
    /\ Fault(HasRestarted(m))
    /\ \/ worker' = Handled(m, worker.cfg)
       \/ worker' = [worker EXCEPT !.todo = @ \ {m}]
    /\ UNCHANGED <<cm, cache, dirty, work, adder, clusterVars,
                   accepted, rolling, mishaps>>

\* Waiting, scenario 3: there is time left.  Every 10-30 seconds the
\* LastCheckedTimestamp is written, otherwise the request is requeued.
FrontWaitingRecheck(m) ==
    /\ AtFront(m, "waiting") /\ worker.looked = {}
    /\ Fault(HasRestarted(m))
    /\ \/ worker' = Handled(m, worker.cfg)
       \/ worker' = [worker EXCEPT !.todo = @ \ {m}, !.requeue = TRUE]
    /\ UNCHANGED <<cm, cache, dirty, work, adder, clusterVars,
                   accepted, rolling, mishaps>>

\* Seeded fault: a requeue requested for one queue suppresses the write for all.
ReconcileEndRequeueFirst ==
    /\ worker.pc = "loop" /\ worker.todo = {}
    /\ IF worker.updated /\ ~worker.requeue
       THEN /\ cm' = worker.cfg
            /\ dirty' = TRUE
            /\ adder' = OtherAddersOutdated({})
            /\ mishaps' = mishaps \cup Blame(worker.fresh)
       ELSE UNCHANGED <<cm, dirty, adder, mishaps>>
    /\ work' = (work \/ worker.requeue)
    /\ worker' = IdleWorker
    /\ UNCHANGED <<cache, clusterVars, accepted, rolling, faults>>

\* The loop is over: one write for all queues if any was updated, and the
\* controller requeues the request if asked to.
ReconcileEnd ==
    /\ worker.pc = "loop" /\ worker.todo = {}
    /\ IF worker.updated
       THEN /\ cm' = worker.cfg
            /\ dirty' = TRUE
            /\ adder' = OtherAddersOutdated({})
            /\ mishaps' = mishaps \cup Blame(worker.fresh)
       ELSE UNCHANGED <<cm, dirty, adder, mishaps>>
    /\ work' = (work \/ worker.requeue)
    /\ worker' = IdleWorker
    /\ UNCHANGED <<cache, clusterVars, accepted, rolling, faults>>

\* What a call loses when it ends before its write.
Undone == IF worker.patched THEN {"undone"} ELSE {}

\* Seeded fault: the error is swallowed and the request not requeued.
ReconcileErrorDropped ==
    /\ Fault(TRUE)
    /\ \/ worker.pc = "optimize"
       \/ \E m \in worker.looked : dep[Front(m).CRName]
       \/ worker.pc = "loop" /\ worker.todo = {} /\ worker.updated
    /\ worker' = IdleWorker
    /\ mishaps' = mishaps \cup Undone
    /\ UNCHANGED <<cm, cache, dirty, work, adder, clusterVars, accepted, rolling>>

\* The optimized map could not be written, a deployment could not be
\* restarted, or the final write failed: Reconcile returns the error, the
\* changed copy is dropped and the controller requeues the request.
ReconcileError ==
    /\ Fault(TRUE)
    /\ \/ worker.pc = "optimize"
       \/ \E m \in worker.looked : dep[Front(m).CRName]
       \/ worker.pc = "loop" /\ worker.todo = {} /\ worker.updated
    /\ worker' = IdleWorker
    /\ work' = TRUE
    /\ mishaps' = mishaps \cup Undone
    /\ UNCHANGED <<cm, cache, dirty, adder, clusterVars, accepted, rolling>>

\* The operator stops and starts again: calls in progress are gone, the
\* informer lists the map afresh and its create event triggers a reconcile.
OperatorRestart ==
    /\ Fault(TRUE)
    /\ worker' = IdleWorker
    /\ adder' = [r \in Requests |-> IF adder[r].pc = "got" THEN Ended ELSE adder[r]]
    /\ cache' = cm
    /\ dirty' = FALSE
    /\ work' = TRUE
    /\ mishaps' = mishaps \cup Undone
    /\ UNCHANGED <<cm, clusterVars, accepted, rolling>>

-----------------------------------------------------------------------------
(* Kubernetes                                                              *)

\* The watch delivers the last write: the cache catches up, and the create
\* or update event passes the controller's predicate.
WatchEvent ==
    /\ dirty
    /\ cache' = cm
    /\ dirty' = FALSE
    /\ work' = TRUE
    /\ UNCHANGED <<cm, worker, adder, clusterVars, accepted, rolling, mishaps, faults>>

\* Pod names some copy of the map still mentions for c.
NamesIn(cfg, c) ==
    {cfg.Queues[MSPOf[c]][i].PodName :
        i \in {k \in 1..Len(cfg.Queues[MSPOf[c]]) : cfg.Queues[MSPOf[c]][k].CRName = c}}

NamesInUse(c) ==
    NamesIn(cm, c) \cup NamesIn(cache, c) \cup NamesIn(worker.cfg, c)
        \cup UNION {NamesIn(adder[r].cfg, c) : r \in Requests}

\* Recreate: a pod of an old template goes away before a new one is created.
\* Any other pod goes away when its node fails.
PodStopped(c) ==
    /\ pod[c] # NoPod
    /\ Fault(pod[c].current)
    /\ pod' = [pod EXCEPT ![c] = NoPod]
    /\ UNCHANGED <<cm, cache, dirty, work, worker, adder, dep,
                   accepted, rolling, mishaps>>

\* The replacement has a name of its own and the current template.
PodCreated(c) ==
    /\ dep[c] /\ pod[c] = NoPod
    /\ \E n \in PodNames \ NamesInUse(c) :
          pod' = [pod EXCEPT ![c] = [name |-> n, ready |-> FALSE, current |-> TRUE]]
    /\ UNCHANGED <<cm, cache, dirty, work, worker, adder, dep,
                   accepted, rolling, mishaps, faults>>

PodReady(c) ==
    /\ pod[c] # NoPod /\ ~pod[c].ready
    /\ pod' = [pod EXCEPT ![c].ready = TRUE]
    /\ rolling' = [rolling EXCEPT ![c] = @ /\ ~pod[c].current]
    /\ UNCHANGED <<cm, cache, dirty, work, worker, adder, dep,
                   accepted, mishaps, faults>>

PodUnready(c) ==
    /\ pod[c] # NoPod /\ pod[c].ready
    /\ Fault(TRUE)
    /\ pod' = [pod EXCEPT ![c].ready = FALSE]
    /\ UNCHANGED <<cm, cache, dirty, work, worker, adder, dep,
                   accepted, rolling, mishaps>>

\* The custom resource is deleted and its deployment collected.
DeploymentDeleted(c) ==
    /\ dep[c]
    /\ dep' = [dep EXCEPT ![c] = FALSE]
    /\ pod' = [pod EXCEPT ![c] = NoPod]
    /\ UNCHANGED <<cm, cache, dirty, work, worker, adder,
                   accepted, rolling, mishaps, faults>>

-----------------------------------------------------------------------------
AddStep == \E r \in Requests : AddGetConfig(r) \/ AddUpdateConfig(r) \/ AddTimeout(r)

FrontStep(m) ==
    \/ FrontPendingLook(m) \/ FrontPendingRestart(m) \/ FrontPendingDeleted(m)
    \/ FrontWaitingCompleted(m) \/ FrontWaitingExpired(m) \/ FrontWaitingRecheck(m)

WorkerStep ==
    \/ ReconcileStart \/ ReconcileOptimize \/ ReconcileEnd
    \/ \E m \in MSPIDs : FrontStep(m)

ClusterStep ==
    \E c \in CRs : PodStopped(c) \/ PodCreated(c) \/ PodReady(c)
                     \/ PodUnready(c) \/ DeploymentDeleted(c)

Next == AddStep \/ WorkerStep \/ ReconcileError \/ OperatorRestart
          \/ WatchEvent \/ ClusterStep

Spec == Init /\ [][Next]_vars

\* The worker, the callers of AddToQueue and the watch keep running; a pod is
\* replaced and becomes ready eventually only if the cluster allows it, so no
\* fairness is assumed of it.  CheckUntilTimestamp is a fixed instant, so a
\* waiting entry that is looked at again and again is found expired.
Fairness ==
    /\ WF_vars(WorkerStep)
    /\ WF_vars(WatchEvent)
    /\ \A r \in Requests : WF_vars(AddUpdateConfig(r) \/ AddTimeout(r))
    /\ \A m \in MSPIDs : SF_vars(FrontWaitingExpired(m))

FairSpec == Spec /\ Fairness

-----------------------------------------------------------------------------
(* Properties                                                              *)

Copies == {cm, cache, worker.cfg} \cup {adder[r].cfg : r \in Requests}

OnlyFrontWaitsIn(q) ==
    \A i \in 1..Len(q) :
        \/ q[i].Status = "pending"
        \/ i = 1 /\ q[i].Status = "waiting"

\* In every copy of the map, stored, cached or in a goroutine's hands, only
\* the first entry of a queue can be waiting and the others are pending.
\* Reconcile looks at the front alone and its default case says of any other
\* status that it "should not reach this case" (staggerrestarts.go:432).
OnlyFrontWaits ==
    \A cfg \in Copies : \A m \in MSPIDs : OnlyFrontWaitsIn(cfg.Queues[m])

\* No lost wake-up: while a stored queue holds an entry, a reconcile is
\* running, is in the work queue, or will be put there by the watch.  It
\* rests on Reconcile either writing the map or asking for a requeue for
\* every queue that is not empty, however stale the copy it worked on.
NoStall ==
    NonEmpty(cm) # {} => dirty \/ work \/ worker.pc # "idle"

\* Restarts are staggered: as long as no copy was outdated when used, no call
\* was cut off between restart and write, and the old pod was known, at most
\* one deployment of an organisation is being restarted at a time.
Rolling(m) == {c \in CRs : MSPOf[c] = m /\ dep[c] /\ rolling[c]}

Staggered ==
    mishaps \subseteq {"unseen"} =>
        \A m \in MSPIDs : \A c, d \in Rolling(m) : c = d

\* Places of the stored map that answer for request r.
QueuedAt(r) ==
    LET q == cm.Queues[MSPOf[CROf[r]]] IN {i \in 1..Len(q) : r \in q[i].Reason}
LoggedAs(r) == {e \in cm.Log : r \in e.Reason}

\* Every request whose AddToQueue succeeded is in exactly one place, a queue
\* entry or a log entry, through merging, restarting, expiry, errors and
\* crashes, as long as no outdated copy was written back.
RequestsKept ==
    "outdated" \notin mishaps =>
        \A r \in accepted : Cardinality(QueuedAt(r)) + Cardinality(LoggedAs(r)) = 1

\* A deployment whose restart is still under way is not restarted again, not
\* even for a request that came meanwhile, as long as no call was cut off
\* between restart and write, no copy was outdated and the pod to be replaced
\* was known (one that was not lets the wait end at once).
NoRestartWhileRolling ==
    [][\A m \in MSPIDs :
         FrontPendingRestart(m) /\ mishaps' \subseteq {"unseen"}
            => ~rolling[Front(m).CRName]]_vars

\* Every queue entry is eventually dealt with: the queues run empty once no
\* more requests come, whatever the pods do and across errors and crashes.
\* (Copies that stay outdated can undo each other's progress for ever.)
QueuesDrain == []<>(NonEmpty(cm) = {} \/ "outdated" \in mishaps)

-----------------------------------------------------------------------------
(* What the queue promises                                                 *)

StageOf(r) ==
    IF r \notin accepted THEN "new"
    ELSE IF \E e \in LoggedAs(r) : e.Status = "deleted" THEN "gone"
    ELSE IF LoggedAs(r) # {} THEN "done"
    ELSE IF \E i \in QueuedAt(r) : cm.Queues[MSPOf[CROf[r]]][i].Status = "waiting" THEN "restarting"
    ELSE IF QueuedAt(r) # {} THEN "queued" ELSE "lost"

Service == INSTANCE RestartService
           WITH stage <- [r \in Requests |-> StageOf(r)], void <- "outdated" \in mishaps

\* The stored map implements the service: whoever writes it, from whichever
\* copy that is not outdated, each write is one turn of some organisations
\* or a request that joins, and changes nothing else - merging, failed
\* calls and crashes are not to be seen.
ServiceProvided == Service!Spec
=============================================================================
