--------------------------- MODULE OrdererCluster ---------------------------
(***************************************************************************)
(* How an ordering service of several nodes comes up                       *)
(* (controllers/ibporderer, pkg/offering/{base,k8s}/orderer).  The user    *)
(* creates one IBPOrderer, the parent.  Its reconcile creates a custom     *)
(* resource per node, waits until every node is Precreated, generates the  *)
(* genesis block and stores it in a secret per node.  A node's reconcile   *)
(* creates its crypto and its deployment, derives its own status, and      *)
(* computes the parent's status from the statuses of all nodes.            *)
(*                                                                         *)
(* All requests are served by one worker.  It reads through informer       *)
(* caches that lag behind the cluster, one for the custom resources and    *)
(* one for the secrets.                                                    *)
(***************************************************************************)
EXTENDS Naturals, Sequences, SequencesExt, FiniteSetsExt

CONSTANTS
    ClusterSize,    \* Spec.ClusterSize of the parent
    Certs,          \* the certificates of a node: ecert and TLS
    MaxFaults       \* bound: crashes, failed calls and write conflicts

ASSUME ConstantsOK == ClusterSize \in Nat \ {0} /\ MaxFaults \in Nat

VARIABLES
    channelLess,    \* Spec.UseChannelLess: no genesis block
    parent,         \* the parent's status: its type and the nodes its reason names
    node,           \* the nodes' custom resources
    genesis,        \* the secrets <node>-genesis: the block, 0 for none
    crypto,         \* nodes with TLS and ecert secrets and a config map
    pod,            \* the pod of a node's deployment
    cached,         \* the informer's copy of the custom resources
    parentFresh,    \* that copy has the parent's resource version
    cachedGenesis,  \* the nodes whose genesis secret the cache holds
    certEvents,     \* created certificates CreateFunc has not been told of
    stack,          \* r.update
    work,           \* the work queue
    worker,         \* the Reconcile call in progress
    mishaps,        \* history: which of the known hazards have happened
    faults          \* crashes, failed calls and conflicts so far

vars == <<channelLess, parent, node, genesis, crypto, pod, cached, parentFresh,
          cachedGenesis, certEvents, stack, work, worker, mishaps, faults>>

cacheVars == <<cached, parentFresh, cachedGenesis>>
queueVars == <<certEvents, stack, work>>
history == <<mishaps, faults>>

-----------------------------------------------------------------------------
Nodes == 1..ClusterSize

Parent == 0     \* as a request: the parent rather than a node

Requests == Nodes \cup {Parent}

\* Genesis blocks are told apart, no more: Block puts a new nonce into each.
Blocks == 1..(ClusterSize + 1)

Statuses == {"", "initializing", "precreated", "deploying", "deployed", "error"}

ParentStatus == [type : Statuses, nodes : SUBSET Nodes]

\* defaults: PreReconcileChecks has put its defaults into the spec;
\* block: so has the parent the genesis block.
NodeCR == [exists : BOOLEAN, defaults : BOOLEAN, status : Statuses, block : BOOLEAN]

NoNode == [exists |-> FALSE, defaults |-> FALSE, status |-> "", block |-> FALSE]

\* Updates that are not about a certificate make no difference here.
Updates == Certs \cup {"other"}

IdleWorker == [pc |-> "idle", request |-> Parent, update |-> "other", next |-> 1,
               block |-> 0, empty |-> {}]

\* next: the loops' counter; block: the one generated; empty: the nodes whose
\* listed spec had no block.
Worker == [pc : {"idle", "create", "patch", "secrets", "parent", "status"},
           request : Requests, update : Updates, next : 1..ClusterSize,
           block : Blocks \cup {0}, empty : SUBSET Nodes]

Mishaps == {"uncreated", "cut", "outdated", "forgot", "broken"}

TypeOK ==
    /\ channelLess \in BOOLEAN
    /\ parent \in ParentStatus
    /\ node \in [Nodes -> NodeCR]
    /\ genesis \in [Nodes -> Blocks \cup {0}]
    /\ crypto \in SUBSET Nodes
    /\ pod \in [Nodes -> {"none", "waiting", "running"}]
    /\ cached.parent \in ParentStatus
    /\ cached.node \in [Nodes -> NodeCR]
    /\ parentFresh \in BOOLEAN
    /\ cachedGenesis \in SUBSET Nodes
    /\ certEvents \in [Nodes -> SUBSET Certs]
    /\ stack \in [Requests -> Seq(Updates)]
    /\ work \in SUBSET Requests
    /\ worker \in Worker
    /\ mishaps \in SUBSET Mishaps
    /\ faults \in 0..MaxFaults

\* The user has created the parent, and its version has been set.
Init ==
    /\ channelLess \in BOOLEAN
    /\ parent = [type |-> "", nodes |-> {}]
    /\ node = [n \in Nodes |-> NoNode]
    /\ genesis = [n \in Nodes |-> 0]
    /\ crypto = {}
    /\ pod = [n \in Nodes |-> "none"]
    /\ cached = [parent |-> parent, node |-> node]
    /\ parentFresh = TRUE
    /\ cachedGenesis = {}
    /\ certEvents = [n \in Nodes |-> {}]
    /\ stack = [r \in Requests |-> <<>>]
    /\ work = {Parent}
    /\ worker = IdleWorker
    /\ mishaps = {}
    /\ faults = 0

Fault == faults < MaxFaults /\ faults' = faults + 1

\* m is remembered if the condition holds.
NoteIf(m, condition) == mishaps' = mishaps \cup (IF condition THEN {m} ELSE {})

-----------------------------------------------------------------------------
(* The stack of updates and the work queue                                 *)

AppendUpdateIfMissing(updates, update) ==
    IF update \in Range(updates) THEN updates ELSE Append(updates, update)

GetUpdateStatus(r) == IF stack[r] = <<>> THEN "other" ELSE Head(stack[r])

Popped(r) == IF stack[r] = <<>> THEN <<>> ELSE Tail(stack[r])

\* Reconcile takes a request and returns at once: asking to be requeued it
\* pushes the update back, and a request with updates left is requeued.
TakeAndReturn(r, requeue) ==
    /\ stack' = [stack EXCEPT ![r] =
                    IF requeue THEN AppendUpdateIfMissing(Popped(r), GetUpdateStatus(r))
                               ELSE Popped(r)]
    /\ work' = IF stack'[r] # <<>> THEN work ELSE work \ {r}
    /\ UNCHANGED <<certEvents, worker>>

\* Reconcile takes a request and has more to do.
TakeAndGoOn(r, next) ==
    /\ stack' = [stack EXCEPT ![r] = Popped(r)]
    /\ work' = work \ {r}
    /\ worker' = next
    /\ UNCHANGED certEvents

\* A Reconcile call that went on returns.
Return(r, requeue) ==
    /\ worker' = IdleWorker
    /\ stack' = IF requeue
                  THEN [stack EXCEPT ![r] = AppendUpdateIfMissing(@, worker.update)]
                  ELSE stack
    /\ work' = IF stack'[r] # <<>> THEN work \cup {r} ELSE work
    /\ UNCHANGED certEvents

-----------------------------------------------------------------------------
(* The parent's reconcile                                                  *)

ParentTaken == worker.pc = "idle" /\ Parent \in work

AllListed == \A n \in Nodes : cached.node[n].exists

\* Spec updates of a deployed cluster are not supported.
ParentIgnored ==
    /\ ParentTaken
    /\ cached.parent.type = "deployed"
    /\ work' = work \ {Parent}
    /\ NoteIf("uncreated", ~AllListed)
    /\ UNCHANGED <<channelLess, parent, node, genesis, crypto, pod, cacheVars,
                   certEvents, stack, worker, faults>>

Precreated(n) == cached.node[n].status \in {"precreated", "deployed"}

\* ReconcileCluster comes to the part that is about the genesis block.
GenesisStage ==
    /\ ParentTaken
    /\ cached.parent.type # "deployed"
    /\ AllListed /\ ~channelLess

\* ReconcileCluster waits for all nodes.
ParentWaits ==
    /\ GenesisStage
    /\ \E n \in Nodes : ~Precreated(n)
    /\ TakeAndReturn(Parent, TRUE)
    /\ UNCHANGED <<channelLess, parent, node, genesis, crypto, pod, cacheVars, history>>

\* ReconcileCluster finds all genesis secrets.
ParentDone ==
    /\ GenesisStage
    /\ \A n \in Nodes : Precreated(n)
    /\ cachedGenesis = Nodes
    /\ TakeAndReturn(Parent, FALSE)
    /\ UNCHANGED <<channelLess, parent, node, genesis, crypto, pod, cacheVars, history>>

\* All nodes are ready for the genesis block and some lack it.
GenesisMissing ==
    /\ GenesisStage
    /\ \A n \in Nodes : Precreated(n)
    /\ cachedGenesis # Nodes

NewBlock == Min({b \in Blocks : \A n \in Nodes : b # genesis[n]})

GenerateGenesisBlock ==
    /\ GenesisMissing
    /\ TakeAndGoOn(Parent, [IdleWorker EXCEPT !.pc = "patch", !.block = NewBlock,
                               !.empty = {n \in Nodes : ~cached.node[n].block}])
    /\ NoteIf("outdated", \E n \in Nodes \ cachedGenesis : genesis[n] # 0)
    /\ UNCHANGED <<channelLess, parent, node, genesis, crypto, pod, cacheVars, faults>>

\* UpdateNodesWithGenesisBlock, one node.
UpdateNodeWithGenesisBlock ==
    LET n == worker.next IN
    /\ worker.pc = "patch"
    /\ node' = [node EXCEPT ![n].block = @ \/ n \in worker.empty]
    /\ worker' = IF n < ClusterSize THEN [worker EXCEPT !.next = n + 1]
                  ELSE [worker EXCEPT !.pc = "secrets", !.next = 1]
    /\ UNCHANGED <<channelLess, parent, genesis, crypto, pod, cacheVars, queueVars, history>>

\* Seeded fault: an existing secret is updated.
UpdatedSecret(n) == worker.block

\* Create ignores that the secret exists already.
CreatedSecret(n) == IF genesis[n] = 0 THEN worker.block ELSE genesis[n]

\* GenerateGenesisSecretForNodes, one node.
GenerateGenesisSecretForNode ==
    LET n == worker.next IN
    /\ worker.pc = "secrets"
    /\ genesis' = [genesis EXCEPT ![n] = CreatedSecret(n)]
    /\ IF n < ClusterSize
         THEN worker' = [worker EXCEPT !.next = n + 1] /\ UNCHANGED queueVars
         ELSE Return(Parent, FALSE)
    /\ UNCHANGED <<channelLess, parent, node, crypto, pod, cacheVars, history>>

\* ReconcileCluster before all nodes are listed, or in channel-less mode.
CreationStage ==
    /\ ParentTaken
    /\ cached.parent.type # "deployed"
    /\ ~AllListed \/ channelLess

\* The nodes are created, once more if need be, while no status has been set.
ParentCreates ==
    /\ CreationStage
    /\ cached.parent.type \in {"", "deploying"}
    /\ TakeAndGoOn(Parent, [IdleWorker EXCEPT !.pc = "create"])
    /\ UNCHANGED <<channelLess, parent, node, genesis, crypto, pod, cacheVars, history>>

\* Later nothing is created, also if nodes are missing.
ParentCreatesNone ==
    /\ CreationStage
    /\ cached.parent.type \notin {"", "deploying"}
    /\ TakeAndReturn(Parent, FALSE)
    /\ NoteIf("uncreated", ~AllListed)
    /\ UNCHANGED <<channelLess, parent, node, genesis, crypto, pod, cacheVars, faults>>

\* CreateNodeCR; Create ignores that the node exists already.
CreateNodeCR ==
    LET n == worker.next IN
    /\ worker.pc = "create"
    /\ node' = [node EXCEPT ![n].exists = TRUE]
    /\ IF n < ClusterSize
         THEN worker' = [worker EXCEPT !.next = n + 1] /\ UNCHANGED queueVars
         ELSE Return(Parent, FALSE)
    /\ UNCHANGED <<channelLess, parent, genesis, crypto, pod, cacheVars, history>>

\* Some secrets are there and some are not.
SomeSecrets == {genesis[n] = 0 : n \in Nodes} = BOOLEAN

\* A call of ReconcileCluster fails: SetStatus stores the error, unless the
\* status it reads has it already, and the request is retried.
ParentFails ==
    /\ worker.pc \in {"create", "patch", "secrets"} \/ GenesisMissing
    /\ Fault
    /\ LET failed == [type |-> "error", nodes |-> {}] IN
         parent' = IF cached.parent = failed THEN parent ELSE failed
    /\ parentFresh' = FALSE
    /\ worker' = IdleWorker
    /\ work' = work \cup {Parent}
    /\ stack' = IF worker.pc = "idle" THEN [stack EXCEPT ![Parent] = Popped(Parent)] ELSE stack
    /\ NoteIf("cut", worker.pc = "secrets" /\ SomeSecrets)
    /\ UNCHANGED <<channelLess, node, genesis, crypto, pod, cached, cachedGenesis, certEvents>>

-----------------------------------------------------------------------------
(* A node's reconcile                                                      *)

NodeTaken(n) == worker.pc = "idle" /\ n \in work

\* The status is patched unless the copy read has it already.
WithStatus(n, status) ==
    IF cached.node[n].status = status THEN node[n] ELSE [node[n] EXCEPT !.status = status]

\* The first reconcile stores the spec's defaults.  (The one before it, which
\* stores the operator's version, changes nothing the others look at.)
SetDefaults(n) ==
    /\ NodeTaken(n)
    /\ ~cached.node[n].defaults
    /\ node' = [node EXCEPT ![n] = [WithStatus(n, "initializing") EXCEPT !.defaults = TRUE]]
    /\ TakeAndReturn(n, TRUE)
    /\ UNCHANGED <<channelLess, parent, genesis, crypto, pod, cacheVars, history>>

\* Crypto and configuration are created once.
Initialize(n) ==
    /\ crypto' = crypto \cup {n}
    /\ certEvents' = IF n \in crypto THEN certEvents ELSE [certEvents EXCEPT ![n] = Certs]

\* The deployment is created, and with it the pod.
ReconcileManagers(n) == pod' = [pod EXCEPT ![n] = IF @ = "none" THEN "waiting" ELSE @]

\* A node's reconcile up to UpdateParentStatus.  The new deployment is an event.
ReconcileNode(n) ==
    /\ NodeTaken(n)
    /\ cached.node[n].defaults
    /\ Initialize(n)
    /\ ReconcileManagers(n)
    /\ stack' = [stack EXCEPT ![n] = Popped(n)]
    /\ work' = IF pod[n] = "none" THEN work ELSE work \ {n}
    /\ worker' = [IdleWorker EXCEPT !.pc = "parent", !.request = n, !.update = GetUpdateStatus(n)]
    /\ UNCHANGED <<channelLess, parent, node, genesis, cacheVars, history>>

Listed(status) == {n \in Nodes : cached.node[n].exists /\ cached.node[n].status = status}

\* Seeded fault: one deployed node is enough.
FirstDerivedType ==
    IF Listed("deployed") # {} THEN "deployed"
    ELSE IF Listed("error") # {} THEN "error"
    ELSE IF Listed("precreated") # {} THEN "precreated"
    ELSE ""

\* The type UpdateParentStatus derives from the listed nodes; "" is none.
DerivedType ==
    IF Listed("deploying") # {} THEN ""
    ELSE IF Listed("error") # {} THEN "error"
    ELSE IF Listed("precreated") # {} THEN "precreated"
    ELSE IF Listed("deployed") # {} THEN "deployed"
    ELSE ""

\* Seeded fault: a deployed parent is updated as well.
ParentUpdateAlwaysDue == DerivedType # ""

ParentUpdateDue == cached.parent.type # "deployed" /\ DerivedType # ""

\* UpdateParentStatus leaves the parent alone.
ParentUpToDate ==
    /\ worker.pc = "parent"
    /\ ~ParentUpdateDue
    /\ worker' = [worker EXCEPT !.pc = "status"]
    /\ UNCHANGED <<channelLess, parent, node, genesis, crypto, pod, cacheVars, queueVars, history>>

\* It writes with UpdateStatus, which compares resource versions.
UpdateParentStatus ==
    /\ worker.pc = "parent"
    /\ ParentUpdateDue
    /\ parentFresh
    /\ parent' = [type |-> DerivedType,
                   nodes |-> IF DerivedType = "deployed" THEN {} ELSE Listed(DerivedType)]
    /\ parentFresh' = FALSE
    /\ worker' = [worker EXCEPT !.pc = "status"]
    /\ UNCHANGED <<channelLess, node, genesis, crypto, pod, cached, cachedGenesis, queueVars, history>>

\* A node's reconcile fails: the error is stored as the node's status and the
\* update popped is gone.  A breaking error is not retried.
NodeError(n, update, breaking) ==
    /\ Fault
    /\ node' = [node EXCEPT ![n] = WithStatus(n, "error")]
    /\ worker' = IdleWorker
    /\ work' = IF breaking THEN work \ {n} ELSE work \cup {n}
    /\ mishaps' = mishaps
         \cup (IF update \in Certs THEN {"forgot"} ELSE {})
         \cup (IF breaking /\ cached.node[n].status = "error" THEN {"broken"} ELSE {})
    /\ UNCHANGED <<channelLess, parent, genesis, crypto, pod, cacheVars, certEvents>>

\* Errors of Initialize are breaking ones.
InitializeFails(n) ==
    /\ NodeTaken(n)
    /\ cached.node[n].defaults
    /\ NodeError(n, GetUpdateStatus(n), TRUE)
    /\ stack' = [stack EXCEPT ![n] = Popped(n)]

NodeFails ==
    /\ worker.pc = "status"
    /\ NodeError(worker.request, worker.update, FALSE)
    /\ UNCHANGED stack

\* UpdateStatus of the parent is refused.
ParentConflict ==
    /\ worker.pc = "parent"
    /\ ParentUpdateDue
    /\ ~parentFresh
    /\ NodeError(worker.request, worker.update, FALSE)
    /\ UNCHANGED stack

AwaitsGenesis(n) == ~channelLess /\ n \notin cachedGenesis

\* SetStatus without a status from the offering.
StatusByPod(n) ==
    CASE AwaitsGenesis(n) -> "precreated"
      [] ~AwaitsGenesis(n) /\ pod[n] = "running" -> "deployed"
      [] ~AwaitsGenesis(n) /\ pod[n] = "waiting" -> "deploying"

\* SetStatus with the one CheckCertificates returns for valid certificates:
\* Deployed.
StatusByCertificates(n) ==
    IF cached.node[n].status # "deployed" /\ AwaitsGenesis(n) THEN "precreated" ELSE "deployed"

\* CanSetCertificateTimer: renewal timers wait for the parent.
CanSetCertificateTimer == worker.update \in Certs => cached.parent.type = "deployed"

\* Seeded fault: CustomLogic gives up.
TimerForgotten ==
    LET n == worker.request IN
    /\ worker.pc = "status"
    /\ ~CanSetCertificateTimer
    /\ node' = [node EXCEPT ![n] = WithStatus(n, StatusByPod(n))]
    /\ Return(n, FALSE)
    /\ UNCHANGED <<channelLess, parent, genesis, crypto, pod, cacheVars, history>>

\* CustomLogic requeues the update until the parent is deployed.
TimerWaits ==
    LET n == worker.request IN
    /\ worker.pc = "status"
    /\ ~CanSetCertificateTimer
    /\ node' = [node EXCEPT ![n] = WithStatus(n, StatusByPod(n))]
    /\ Return(n, TRUE)
    /\ UNCHANGED <<channelLess, parent, genesis, crypto, pod, cacheVars, history>>

\* CustomLogic and the rest of the node's reconcile, then SetStatus.
NodeDone ==
    LET n == worker.request IN
    /\ worker.pc = "status"
    /\ CanSetCertificateTimer
    /\ node' = [node EXCEPT ![n] = WithStatus(n, StatusByCertificates(n))]
    /\ Return(n, FALSE)
    /\ UNCHANGED <<channelLess, parent, genesis, crypto, pod, cacheVars, history>>

-----------------------------------------------------------------------------
(* Informers, pods and the operator's process                              *)

\* The differences UpdateFunc reports for a node: its status or its spec.
NodeChanged(n) ==
    \/ cached.node[n].status # node[n].status
    \/ cached.node[n].block # node[n].block
    \/ cached.node[n].defaults # node[n].defaults

\* UpdateFunc ignores the parent after it has been deployed or in error.
ParentChanged == cached.parent.type \notin {"deployed", "error"} /\ cached.parent # parent

\* The custom resources' informer catches up: CreateFunc and UpdateFunc.
InformCR ==
    LET created == {n \in Nodes : node[n].exists /\ ~cached.node[n].exists}
        updated == {n \in Nodes \ created : NodeChanged(n)}
                     \cup (IF ParentChanged THEN {Parent} ELSE {}) IN
    /\ ~parentFresh \/ cached # [parent |-> parent, node |-> node]
    /\ cached' = [parent |-> parent, node |-> node]
    /\ parentFresh' = TRUE
    /\ stack' = [r \in Requests |->
                    IF r \in updated THEN AppendUpdateIfMissing(stack[r], "other") ELSE stack[r]]
    /\ work' = work \cup created \cup updated
    /\ UNCHANGED <<channelLess, parent, node, genesis, crypto, pod, cachedGenesis,
                   certEvents, worker, history>>

\* The secrets' informer catches up; genesis secrets cause no request.
InformSecrets ==
    /\ cachedGenesis # {n \in Nodes : genesis[n] # 0}
    /\ cachedGenesis' = {n \in Nodes : genesis[n] # 0}
    /\ UNCHANGED <<channelLess, parent, node, genesis, crypto, pod, cached, parentFresh,
                   queueVars, worker, history>>

\* CreateFunc for a certificate's secret.
CertificateCreated(n, c) ==
    /\ c \in certEvents[n]
    /\ certEvents' = [certEvents EXCEPT ![n] = @ \ {c}]
    /\ stack' = [stack EXCEPT ![n] = AppendUpdateIfMissing(@, c)]
    /\ work' = work \cup {n}
    /\ UNCHANGED <<channelLess, parent, node, genesis, crypto, pod, cacheVars, worker, history>>

\* A pod starts once the volumes it mounts exist; the deployment's status
\* changes, which is watched.
PodStarts(n) ==
    /\ pod[n] = "waiting"
    /\ channelLess \/ genesis[n] # 0
    /\ pod' = [pod EXCEPT ![n] = "running"]
    /\ work' = work \cup {n}
    /\ UNCHANGED <<channelLess, parent, node, genesis, crypto, cacheVars, certEvents,
                   stack, worker, history>>

PodStops(n) ==
    /\ pod[n] = "running"
    /\ Fault
    /\ pod' = [pod EXCEPT ![n] = "waiting"]
    /\ work' = work \cup {n}
    /\ UNCHANGED <<channelLess, parent, node, genesis, crypto, cacheVars, certEvents,
                   stack, worker, mishaps>>

\* The operator restarts: its caches are filled from the cluster, and
\* CreateFunc sees every object.
Crash ==
    LET existing == {Parent} \cup {n \in Nodes : node[n].exists}
        typed == (IF parent.type # "" THEN {Parent} ELSE {})
                    \cup {n \in Nodes : node[n].status # ""} IN
    /\ Fault
    /\ cached' = [parent |-> parent, node |-> node]
    /\ parentFresh' = TRUE
    /\ cachedGenesis' = {n \in Nodes : genesis[n] # 0}
    /\ certEvents' = [n \in Nodes |-> IF n \in crypto THEN Certs ELSE {}]
    /\ stack' = [r \in Requests |-> IF r \in typed THEN <<"other">> ELSE <<>>]
    /\ work' = existing
    /\ worker' = IdleWorker
    /\ NoteIf("cut", worker.pc = "secrets" /\ SomeSecrets)
    /\ UNCHANGED <<channelLess, parent, node, genesis, crypto, pod>>

-----------------------------------------------------------------------------
ParentStep ==
    \/ ParentIgnored \/ ParentWaits \/ ParentDone \/ GenerateGenesisBlock
    \/ UpdateNodeWithGenesisBlock \/ GenerateGenesisSecretForNode
    \/ ParentCreates \/ ParentCreatesNone \/ CreateNodeCR

NodeStarts(n) == SetDefaults(n) \/ ReconcileNode(n)

NodeStep ==
    \/ ParentUpToDate \/ UpdateParentStatus \/ TimerWaits \/ NodeDone

Failure ==
    \/ ParentFails \/ NodeFails \/ ParentConflict \/ Crash
    \/ \E n \in Nodes : InitializeFails(n)

Next ==
    \/ ParentStep
    \/ \E n \in Nodes : NodeStarts(n)
    \/ NodeStep
    \/ InformCR
    \/ InformSecrets
    \/ \E n \in Nodes, c \in Certs : CertificateCreated(n, c)
    \/ \E n \in Nodes : PodStarts(n)
    \/ \E n \in Nodes : PodStops(n)
    \/ Failure

Spec == Init /\ [][Next]_vars

\* The worker serves every request in the queue, the informers catch up and
\* pods that can start do.
Fairness ==
    /\ WF_vars(NodeStep)
    /\ SF_vars(ParentStep)
    /\ \A n \in Nodes : SF_vars(NodeStarts(n)) /\ WF_vars(PodStarts(n))
    /\ \A n \in Nodes, c \in Certs : WF_vars(CertificateCreated(n, c))
    /\ WF_vars(InformCR) /\ WF_vars(InformSecrets)

FairSpec == Spec /\ Fairness

-----------------------------------------------------------------------------
(* Properties                                                              *)

\* The nodes are given one genesis block, or they could never form a channel:
\* GenerateGenesisSecretForNodes is not atomic and a later reconcile generates
\* another block.  Outdated caches alone do no harm, because Create keeps the
\* secret there is; a loop that is cut does.
SecretsAgree ==
    \/ "cut" \in mishaps
    \/ \A m, n \in Nodes : genesis[m] # 0 /\ genesis[n] # 0 => genesis[m] = genesis[n]

\* What UpdateParentStatus reports, from copies of the nodes that may be
\* outdated and leaving out nodes without a telling status, holds at least
\* for the genesis blocks: a deployed cluster has them all.
DeployedHasGenesis ==
    parent.type = "deployed" /\ ~channelLess => \A n \in Nodes : genesis[n] # 0

\* Deployed is the parent's last status: the statuses its nodes take later do
\* not take it back, nor do copies that are outdated; only a failing reconcile
\* of the parent itself, still at work on an outdated copy, does.
DeployedIsFinal ==
    [][parent.type = "deployed" => parent'.type = "deployed" \/ faults' > faults]_vars

\* The ordering service comes up, whatever the order of events and however
\* far the caches lag: the parent is Deployed and the pods run.  Three things
\* prevent it: nodes that are not created because the parent has a status, a
\* failed reconcile that has lost the update that keeps a node polling, and a
\* breaking error that is not news.
ClusterDeploys ==
    <>(mishaps \cap {"uncreated", "forgot", "broken"} # {}
         \/ (parent.type = "deployed" /\ \A n \in Nodes : pod[n] = "running"))
=============================================================================
