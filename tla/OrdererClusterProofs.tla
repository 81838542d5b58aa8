------------------------- MODULE OrdererClusterProofs -------------------------
(***************************************************************************)
(* Machine-checked proofs about OrdererCluster, for ordering services of   *)
(* any size and any number of crashes, failed calls and conflicts.         *)
(***************************************************************************)
EXTENDS OrdererCluster, FiniteSetTheorems, SequenceTheorems, WellFoundedInduction, TLAPS

\* Steps of the loops that hand out a genesis block.
HasBlock == worker.pc \in {"patch", "secrets"}

\* Steps of a node's reconcile after its deployment has been created.
AtNode == worker.pc \in {"parent", "status"}

\* No node has a genesis block; all have the same.
NoSecrets == \A n \in Nodes : genesis[n] = 0

SameSecrets == \A m, n \in Nodes : genesis[m] # 0 /\ genesis[m] = genesis[n]

\* The loop over the secrets has come to worker.next.
SecretsSoFar ==
    \A n \in Nodes : genesis[n] = IF n < worker.next THEN worker.block ELSE 0

\* Secrets are none or all the same, but for those of a loop in progress,
\* unless a loop has been cut.
SecretsInOrder ==
    \/ "cut" \in mishaps
    \/ SameSecrets
    \/ worker.pc # "secrets" /\ NoSecrets
    \/ worker.pc = "secrets" /\ SecretsSoFar

BlockGenerated == HasBlock => worker.block # 0

\* A parent with the resource version of the cluster is the cluster's.
FreshIsEqual == parentFresh => cached.parent = parent

\* A node that has left the first two statuses.
Started(cr) == cr.status \notin {"", "initializing"}

\* What is true of a copy stays true of the node, and only a node whose spec
\* has its defaults has left the first two statuses.
CopiesLag ==
    \A n \in Nodes :
        /\ cached.node[n].exists => node[n].exists
        /\ cached.node[n].defaults => node[n].defaults
        /\ Started(cached.node[n]) => cached.node[n].defaults /\ Started(node[n])
        /\ Started(node[n]) => node[n].defaults

\* A node's reconcile works on a node with defaults and a deployment.
AtNodeIsStarted ==
    AtNode => /\ worker.request \in Nodes
              /\ cached.node[worker.request].defaults
              /\ pod[worker.request] # "none"

\* The genesis block is generated when all nodes are listed and have started.
GenesisIsLate ==
    HasBlock \/ (\E n \in Nodes : genesis[n] # 0)
        => \A n \in Nodes : cached.node[n].exists /\ Started(cached.node[n])

\* Whoever has seen or needs a secret: there is one.
SecretsSeen ==
    \A n \in Nodes :
        /\ n \in cachedGenesis => genesis[n] # 0
        /\ ~channelLess /\ cached.node[n].status = "deployed" => genesis[n] # 0
        /\ ~channelLess /\ node[n].status = "deployed" => genesis[n] # 0

\* The inductive invariant.
IInv ==
    /\ TypeOK
    /\ BlockGenerated
    /\ SecretsInOrder
    /\ FreshIsEqual
    /\ CopiesLag
    /\ AtNodeIsStarted
    /\ GenesisIsLate
    /\ SecretsSeen
    /\ DeployedHasGenesis

-----------------------------------------------------------------------------
(* Operators                                                               *)

\* The least element of a set of numbers is one of them.
LEMMA MinIsElement ==
    ASSUME NEW S \in SUBSET Nat, S # {}
    PROVE  Min(S) \in S
  <1>1. PICK x \in S : \A y \in S : <<y, x>> \notin OpToRel(<, Nat)
    BY NatLessThanWellFounded, WFMin
  <1>2. ASSUME NEW y \in S, y < x
        PROVE  <<y, x>> \in OpToRel(<, Nat)
    <2>1. <<y, x>> \in Nat \X Nat /\ <<y, x>>[1] < <<y, x>>[2]
      BY <1>2
    <2>2. <<y, x>> \in {ss \in Nat \X Nat : ss[1] < ss[2]}
      BY <2>1
    <2> QED BY <2>2 DEF OpToRel
  <1>3. \A y \in S : ~(y < x)
    BY <1>1, <1>2, Zenon
  <1>4. \A y \in S : x <= y
    BY <1>3
  <1> QED BY <1>4 DEF Min

\* There is always a block that no node has: there are more blocks than nodes.
LEMMA NewBlockExists ==
    ASSUME genesis \in [Nodes -> Blocks \cup {0}]
    PROVE  NewBlock \in Blocks
  <1> DEFINE image == {genesis[n] : n \in Nodes}
             free == {b \in Blocks : \A n \in Nodes : b # genesis[n]}
  <1>1. IsFiniteSet(Nodes) /\ Cardinality(Nodes) = ClusterSize
    BY FS_Interval, ConstantsOK DEF Nodes
  <1>2. Cardinality(Blocks) = ClusterSize + 1
    BY FS_Interval, ConstantsOK DEF Blocks
  <1>3. genesis \in Surjection(Nodes, image)
    BY DEF Surjection
  <1>4. IsFiniteSet(image) /\ Cardinality(image) <= ClusterSize
    <2> HIDE DEF image
    <2> QED BY <1>1, <1>3, FS_Surjection
  <1>5. ~(Blocks \subseteq image)
    <2>1. ASSUME Blocks \subseteq image PROVE FALSE
      <3> HIDE DEF image
      <3>1. Cardinality(Blocks) <= Cardinality(image) /\ Cardinality(image) \in Nat
        BY <1>4, <2>1, FS_Subset, FS_CardinalityType
      <3> QED BY <1>2, <1>4, <3>1, ConstantsOK
    <2> QED BY <2>1
  <1>6. free # {} /\ free \in SUBSET Nat /\ free \subseteq Blocks
    <2>1. PICK b \in Blocks : b \notin image
      BY <1>5
    <2>2. b \in free
      BY <2>1
    <2>3. Blocks \subseteq Nat
      BY ConstantsOK DEF Blocks
    <2> QED BY <2>2, <2>3
  <1>7. NewBlock = Min(free)
    BY DEF NewBlock
  <1> HIDE DEF free
  <1> QED BY <1>6, <1>7, MinIsElement

\* If not some secrets are there and some are not, it is none or all.
LEMMA NoneOrAll ==
    ASSUME ~SomeSecrets
    PROVE  NoSecrets \/ \A n \in Nodes : genesis[n] # 0
  <1> SUFFICES ASSUME NEW m \in Nodes, NEW n \in Nodes, genesis[m] # 0, genesis[n] = 0
               PROVE  SomeSecrets
    BY DEF NoSecrets
  <1> DEFINE found == {genesis[k] = 0 : k \in Nodes}
  <1>1. (genesis[n] = 0) = TRUE /\ (genesis[m] = 0) = FALSE
    OBVIOUS
  <1>2. TRUE \in found /\ FALSE \in found
    BY <1>1, Zenon
  <1>3. found \subseteq BOOLEAN /\ BOOLEAN = {TRUE, FALSE}
    BY Zenon
  <1>4. found = BOOLEAN
    BY <1>2, <1>3, Zenon
  <1> QED BY <1>4 DEF SomeSecrets

\* The values at rest.
LEMMA IdleFacts ==
    /\ ClusterSize \in Nat /\ 1 \in Nodes /\ Nodes \subseteq Requests /\ Parent \in Requests
    /\ Parent \notin Nodes /\ 0 \notin Blocks
    /\ IdleWorker \in Worker
    /\ IdleWorker.pc = "idle"
    /\ NoNode \in NodeCR
    /\ "other" \in Updates /\ Certs \subseteq Updates
  BY ConstantsOK
  DEF Nodes, Parent, Requests, Blocks, IdleWorker, Worker, NoNode, NodeCR, Updates, Statuses

\* AppendUpdateIfMissing makes a stack of updates.
LEMMA AppendType ==
    ASSUME NEW updates \in Seq(Updates), NEW update \in Updates
    PROVE  AppendUpdateIfMissing(updates, update) \in Seq(Updates)
  BY AppendProperties DEF AppendUpdateIfMissing

\* Looking at a stack and popping it.
LEMMA StackTypes ==
    ASSUME TypeOK, NEW r \in Requests
    PROVE  GetUpdateStatus(r) \in Updates /\ Popped(r) \in Seq(Updates)
  <1>1. stack[r] \in Seq(Updates)
    BY DEF TypeOK
  <1>2. CASE stack[r] = <<>>
    BY <1>2, IdleFacts DEF GetUpdateStatus, Popped
  <1>3. CASE stack[r] # <<>>
    <2>1. Head(stack[r]) \in Updates /\ Tail(stack[r]) \in Seq(Updates)
      BY <1>1, <1>3, HeadTailProperties
    <2> QED BY <1>3, <2>1 DEF GetUpdateStatus, Popped
  <1> QED BY <1>2, <1>3

\* Taking and returning a request keep the types of the queue.
LEMMA QueueTypes ==
    ASSUME TypeOK, NEW r \in Requests
    PROVE  /\ \A requeue \in BOOLEAN : TakeAndReturn(r, requeue) =>
                /\ stack' \in [Requests -> Seq(Updates)] /\ work' \in SUBSET Requests
                /\ UNCHANGED <<certEvents, worker>>
           /\ \A next \in Worker : TakeAndGoOn(r, next) =>
                /\ stack' \in [Requests -> Seq(Updates)] /\ work' \in SUBSET Requests
                /\ worker' \in Worker /\ UNCHANGED certEvents
           /\ \A requeue \in BOOLEAN : Return(r, requeue) =>
                /\ stack' \in [Requests -> Seq(Updates)] /\ work' \in SUBSET Requests
                /\ worker' \in Worker /\ UNCHANGED certEvents
           /\ [stack EXCEPT ![r] = Popped(r)] \in [Requests -> Seq(Updates)]
  <1>1. GetUpdateStatus(r) \in Updates /\ Popped(r) \in Seq(Updates)
    BY StackTypes
  <1>2. AppendUpdateIfMissing(Popped(r), GetUpdateStatus(r)) \in Seq(Updates)
    BY <1>1, AppendType
  <1>3. AppendUpdateIfMissing(stack[r], worker.update) \in Seq(Updates)
    BY AppendType DEF TypeOK, Worker
  <1>4. ASSUME NEW requeue \in BOOLEAN, TakeAndReturn(r, requeue)
        PROVE  stack' \in [Requests -> Seq(Updates)] /\ work' \in SUBSET Requests
    BY <1>1, <1>2, <1>4 DEF TakeAndReturn, TypeOK
  <1>5. ASSUME NEW requeue \in BOOLEAN, Return(r, requeue)
        PROVE  stack' \in [Requests -> Seq(Updates)] /\ work' \in SUBSET Requests
    BY <1>3, <1>5 DEF Return, TypeOK
  <1>6. ASSUME NEW next \in Worker, TakeAndGoOn(r, next)
        PROVE  stack' \in [Requests -> Seq(Updates)] /\ work' \in SUBSET Requests
    BY <1>1, <1>6 DEF TakeAndGoOn, TypeOK
  <1>7. [stack EXCEPT ![r] = Popped(r)] \in [Requests -> Seq(Updates)]
    BY <1>1 DEF TypeOK
  <1>8. \A requeue \in BOOLEAN : TakeAndReturn(r, requeue) => UNCHANGED <<certEvents, worker>>
    BY DEF TakeAndReturn
  <1>9. \A next \in Worker : TakeAndGoOn(r, next) => worker' \in Worker /\ UNCHANGED certEvents
    BY DEF TakeAndGoOn
  <1>10. \A requeue \in BOOLEAN : Return(r, requeue) => worker' \in Worker /\ UNCHANGED certEvents
    BY IdleFacts DEF Return
  <1> QED BY <1>4, <1>5, <1>6, <1>7, <1>8, <1>9, <1>10

-----------------------------------------------------------------------------
(* The type invariant                                                      *)

\* The statuses a node's reconcile sets.
LEMMA StatusTypes ==
    ASSUME IInv, NEW n \in Nodes
    PROVE  /\ pod[n] # "none" => StatusByPod(n) \in {"precreated", "deploying", "deployed"}
           /\ StatusByCertificates(n) \in {"precreated", "deployed"}
           /\ \A status \in Statuses : WithStatus(n, status) \in NodeCR
  <1>1. pod[n] \in {"none", "waiting", "running"} /\ node[n] \in NodeCR
    BY DEF IInv, TypeOK
  <1>2. ASSUME pod[n] # "none"
        PROVE  StatusByPod(n) \in {"precreated", "deploying", "deployed"}
    <2>1. CASE AwaitsGenesis(n)
      BY <2>1 DEF StatusByPod
    <2>2. CASE ~AwaitsGenesis(n) /\ pod[n] = "running"
      BY <2>2 DEF StatusByPod
    <2>3. CASE ~AwaitsGenesis(n) /\ pod[n] = "waiting"
      BY <2>3 DEF StatusByPod
    <2> QED BY <1>1, <1>2, <2>1, <2>2, <2>3
  <1>3. \A status \in Statuses : WithStatus(n, status) \in NodeCR
    BY <1>1 DEF WithStatus, NodeCR
  <1> QED BY <1>2, <1>3 DEF StatusByCertificates

\* The steps of the parent's reconcile keep the types.
LEMMA ParentStepType ==
    ASSUME IInv, ParentStep \/ ParentFails
    PROVE  TypeOK'
  <1> USE IdleFacts DEF IInv
  <1>1. CASE ParentIgnored
    <2>1. mishaps' \in SUBSET Mishaps
      BY <1>1 DEF ParentIgnored, NoteIf, TypeOK, Mishaps
    <2> QED BY <1>1, <2>1 DEF ParentIgnored, TypeOK, cacheVars
  <1>2. CASE ParentWaits
    BY <1>2, QueueTypes DEF ParentWaits, TypeOK, cacheVars, history
  <1>3. CASE ParentDone
    BY <1>3, QueueTypes DEF ParentDone, TypeOK, cacheVars, history
  <1>4. CASE GenerateGenesisBlock
    <2> DEFINE next == [IdleWorker EXCEPT !.pc = "patch", !.block = NewBlock,
                           !.empty = {n \in Nodes : ~cached.node[n].block}]
    <2>1. NewBlock \in Blocks
      BY NewBlockExists DEF TypeOK
    <2>2. next \in Worker
      BY <2>1 DEF IdleWorker, Worker, Nodes
    <2>3. /\ stack' \in [Requests -> Seq(Updates)] /\ work' \in SUBSET Requests
          /\ worker' \in Worker /\ UNCHANGED certEvents
      BY <1>4, <2>2, QueueTypes DEF GenerateGenesisBlock
    <2>4. mishaps' \in SUBSET Mishaps
      BY <1>4 DEF GenerateGenesisBlock, NoteIf, TypeOK, Mishaps
    <2> QED BY <1>4, <2>3, <2>4 DEF GenerateGenesisBlock, TypeOK, cacheVars
  <1>5. CASE UpdateNodeWithGenesisBlock
    <2>1. worker.next \in Nodes /\ node[worker.next] \in NodeCR
      BY DEF TypeOK, Worker, Nodes
    <2>2. (node[worker.next].block \/ worker.next \in worker.empty) \in BOOLEAN
      BY Zenon
    <2>3. node' \in [Nodes -> NodeCR]
      BY <1>5, <2>1, <2>2 DEF UpdateNodeWithGenesisBlock, TypeOK, NodeCR
    <2>4. worker' \in Worker
      <3>1. worker.next < ClusterSize => worker.next + 1 \in 1..ClusterSize
        BY <2>1 DEF Nodes
      <3>2. 1 \in 1..ClusterSize
        BY DEF Nodes
      <3> QED BY <1>5, <3>1, <3>2 DEF UpdateNodeWithGenesisBlock, TypeOK, Worker
    <2> QED
      BY <1>5, <2>3, <2>4
      DEF UpdateNodeWithGenesisBlock, TypeOK, cacheVars, queueVars, history
  <1>6. CASE GenerateGenesisSecretForNode
    <2>1. worker.next \in Nodes
      BY DEF TypeOK, Worker, Nodes
    <2>2. genesis' \in [Nodes -> Blocks \cup {0}]
      BY <1>6, <2>1 DEF GenerateGenesisSecretForNode, CreatedSecret, TypeOK, Worker
    <2>3. /\ stack' \in [Requests -> Seq(Updates)] /\ work' \in SUBSET Requests
          /\ worker' \in Worker /\ UNCHANGED certEvents
      <3>1. CASE worker.next < ClusterSize
        <4>1. worker.next + 1 \in 1..ClusterSize
          BY <2>1, <3>1 DEF Nodes
        <4>2. worker' = [worker EXCEPT !.next = worker.next + 1] /\ UNCHANGED queueVars
          BY <1>6, <3>1 DEF GenerateGenesisSecretForNode
        <4>3. worker' \in Worker
          BY <4>1, <4>2 DEF TypeOK, Worker
        <4> QED BY <4>2, <4>3 DEF TypeOK, queueVars
      <3>2. CASE ~(worker.next < ClusterSize)
        BY <1>6, <3>2, QueueTypes DEF GenerateGenesisSecretForNode
      <3> QED BY <3>1, <3>2
    <2> QED
      BY <1>6, <2>2, <2>3 DEF GenerateGenesisSecretForNode, TypeOK, cacheVars, history
  <1>7. CASE ParentCreates
    <2>1. [IdleWorker EXCEPT !.pc = "create"] \in Worker
      BY DEF Worker
    <2> QED BY <1>7, <2>1, QueueTypes DEF ParentCreates, TypeOK, cacheVars, history
  <1>8. CASE ParentCreatesNone
    <2>1. mishaps' \in SUBSET Mishaps
      BY <1>8 DEF ParentCreatesNone, NoteIf, TypeOK, Mishaps
    <2> QED BY <1>8, <2>1, QueueTypes DEF ParentCreatesNone, TypeOK, cacheVars
  <1>9. CASE CreateNodeCR
    <2>1. worker.next \in Nodes /\ node[worker.next] \in NodeCR
      BY DEF TypeOK, Worker, Nodes
    <2>2. node' \in [Nodes -> NodeCR]
      BY <1>9, <2>1 DEF CreateNodeCR, TypeOK, NodeCR
    <2>3. /\ stack' \in [Requests -> Seq(Updates)] /\ work' \in SUBSET Requests
          /\ worker' \in Worker /\ UNCHANGED certEvents
      <3>1. CASE worker.next < ClusterSize
        <4>1. worker.next + 1 \in 1..ClusterSize
          BY <2>1, <3>1 DEF Nodes
        <4>2. worker' = [worker EXCEPT !.next = worker.next + 1] /\ UNCHANGED queueVars
          BY <1>9, <3>1 DEF CreateNodeCR
        <4>3. worker' \in Worker
          BY <4>1, <4>2 DEF TypeOK, Worker
        <4> QED BY <4>2, <4>3 DEF TypeOK, queueVars
      <3>2. CASE ~(worker.next < ClusterSize)
        BY <1>9, <3>2, QueueTypes DEF CreateNodeCR
      <3> QED BY <3>1, <3>2
    <2> QED BY <1>9, <2>2, <2>3 DEF CreateNodeCR, TypeOK, cacheVars, history
  <1>10. CASE ParentFails
    <2>1. parent' \in ParentStatus
      BY <1>10 DEF ParentFails, TypeOK, ParentStatus, Statuses
    <2>2. stack' \in [Requests -> Seq(Updates)] /\ work' \in SUBSET Requests
      BY <1>10, QueueTypes DEF ParentFails, TypeOK
    <2>3. mishaps' \in SUBSET Mishaps
      BY <1>10 DEF ParentFails, NoteIf, TypeOK, Mishaps
    <2>4. parentFresh' \in BOOLEAN
      BY <1>10, Zenon DEF ParentFails
    <2>5. worker' \in Worker /\ faults' \in 0..MaxFaults
      BY <1>10, ConstantsOK DEF ParentFails, Fault, TypeOK
    <2>6. UNCHANGED <<channelLess, node, genesis, crypto, pod, cached, cachedGenesis, certEvents>>
      BY <1>10 DEF ParentFails
    <2> QED BY <2>1, <2>2, <2>3, <2>4, <2>5, <2>6 DEF TypeOK
  <1> QED
    BY <1>1, <1>2, <1>3, <1>4, <1>5, <1>6, <1>7, <1>8, <1>9, <1>10 DEF ParentStep

\* The steps of a node's reconcile keep the types.
LEMMA NodeStepType ==
    ASSUME IInv
    PROVE  /\ \A n \in Nodes : NodeStarts(n) \/ InitializeFails(n) => TypeOK'
           /\ NodeStep \/ NodeFails \/ ParentConflict => TypeOK'
  <1> USE IdleFacts DEF IInv
  <1>1. ASSUME NEW n \in Nodes, SetDefaults(n)
        PROVE  TypeOK'
    <2>1. WithStatus(n, "initializing") \in NodeCR
      BY StatusTypes DEF Statuses
    <2>2. node' \in [Nodes -> NodeCR]
      BY <1>1, <2>1 DEF SetDefaults, TypeOK, NodeCR
    <2>3. /\ stack' \in [Requests -> Seq(Updates)] /\ work' \in SUBSET Requests
          /\ UNCHANGED <<certEvents, worker>>
      BY <1>1, QueueTypes DEF SetDefaults
    <2> QED BY <1>1, <2>2, <2>3 DEF SetDefaults, TypeOK, cacheVars, history
  <1>2. ASSUME NEW n \in Nodes, ReconcileNode(n)
        PROVE  TypeOK'
    <2>1. certEvents' \in [Nodes -> SUBSET Certs] /\ crypto' \in SUBSET Nodes
      BY <1>2 DEF ReconcileNode, Initialize, TypeOK
    <2>2. pod' \in [Nodes -> {"none", "waiting", "running"}]
      BY <1>2 DEF ReconcileNode, ReconcileManagers, TypeOK
    <2>3. stack' \in [Requests -> Seq(Updates)] /\ work' \in SUBSET Requests
      BY <1>2, QueueTypes DEF ReconcileNode, TypeOK
    <2>4. worker' \in Worker
      BY <1>2, StackTypes DEF ReconcileNode, Worker
    <2> QED BY <1>2, <2>1, <2>2, <2>3, <2>4 DEF ReconcileNode, TypeOK, cacheVars, history
  <1>3. ASSUME NEW n \in Nodes, NEW update, NEW breaking \in BOOLEAN,
               NodeError(n, update, breaking), stack' \in [Requests -> Seq(Updates)]
        PROVE  TypeOK'
    <2>1. WithStatus(n, "error") \in NodeCR
      BY StatusTypes DEF Statuses
    <2>2. node' \in [Nodes -> NodeCR]
      BY <1>3, <2>1 DEF NodeError, TypeOK
    <2>3. work' \in SUBSET Requests /\ worker' \in Worker
      BY <1>3 DEF NodeError, TypeOK
    <2>4. mishaps' \in SUBSET Mishaps
      BY <1>3 DEF NodeError, TypeOK, Mishaps
    <2>5. faults' \in 0..MaxFaults
      BY <1>3, ConstantsOK DEF NodeError, Fault, TypeOK
    <2> QED BY <1>3, <2>2, <2>3, <2>4, <2>5 DEF NodeError, TypeOK, cacheVars
  <1>4. ASSUME NEW n \in Nodes, InitializeFails(n)
        PROVE  TypeOK'
    BY <1>3, <1>4, QueueTypes DEF InitializeFails
  <1>5. CASE NodeFails \/ ParentConflict
    <2>1. worker.request \in Nodes /\ stack' \in [Requests -> Seq(Updates)]
      BY <1>5 DEF NodeFails, ParentConflict, AtNodeIsStarted, AtNode, TypeOK
    <2>2. NodeError(worker.request, worker.update, FALSE)
      BY <1>5 DEF NodeFails, ParentConflict
    <2> QED BY <1>3, <2>1, <2>2
  <1>6. CASE ParentUpToDate
    <2>1. worker' \in Worker
      BY <1>6 DEF ParentUpToDate, TypeOK, Worker
    <2> QED BY <1>6, <2>1 DEF ParentUpToDate, TypeOK, cacheVars, queueVars, history
  <1>7. CASE UpdateParentStatus
    <2>1. DerivedType \in Statuses
      BY DEF DerivedType, Statuses
    <2>2. parent' \in ParentStatus
      BY <1>7, <2>1 DEF UpdateParentStatus, ParentStatus, Listed
    <2>3. worker' \in Worker
      BY <1>7 DEF UpdateParentStatus, TypeOK, Worker
    <2>4. parentFresh' \in BOOLEAN
      BY <1>7, Zenon DEF UpdateParentStatus
    <2>5. UNCHANGED <<channelLess, node, genesis, crypto, pod, cached, cachedGenesis, certEvents,
                      stack, work, mishaps, faults>>
      BY <1>7 DEF UpdateParentStatus, queueVars, history
    <2> QED BY <2>2, <2>3, <2>4, <2>5 DEF TypeOK
  <1>8. ASSUME NEW n \in Nodes, NEW status \in Statuses, NEW requeue \in BOOLEAN,
               node' = [node EXCEPT ![n] = WithStatus(n, status)], Return(n, requeue),
               UNCHANGED <<channelLess, parent, genesis, crypto, pod, cacheVars, history>>
        PROVE  TypeOK'
    <2>1. node' \in [Nodes -> NodeCR]
      BY <1>8, StatusTypes DEF TypeOK
    <2>2. /\ stack' \in [Requests -> Seq(Updates)] /\ work' \in SUBSET Requests
          /\ worker' \in Worker /\ UNCHANGED certEvents
      BY <1>8, QueueTypes
    <2> QED BY <1>8, <2>1, <2>2 DEF TypeOK, cacheVars, history
  <1>9. CASE TimerWaits \/ NodeDone
    <2>1. worker.request \in Nodes /\ pod[worker.request] # "none"
      BY <1>9 DEF TimerWaits, NodeDone, AtNodeIsStarted, AtNode
    <2>2. /\ StatusByPod(worker.request) \in Statuses
          /\ StatusByCertificates(worker.request) \in Statuses
      BY <2>1, StatusTypes DEF Statuses
    <2> QED BY <1>8, <1>9, <2>1, <2>2 DEF TimerWaits, NodeDone
  <1> QED
    BY <1>1, <1>2, <1>4, <1>5, <1>6, <1>7, <1>9 DEF NodeStarts, NodeStep

\* The other steps keep the types.
LEMMA OutsideStepType ==
    ASSUME IInv
    PROVE  /\ InformCR \/ InformSecrets \/ Crash => TypeOK'
           /\ \A n \in Nodes : PodStarts(n) \/ PodStops(n) => TypeOK'
           /\ \A n \in Nodes, c \in Certs : CertificateCreated(n, c) => TypeOK'
  <1> USE IdleFacts DEF IInv
  <1>1. CASE InformCR
    <2>1. cached'.parent \in ParentStatus /\ cached'.node \in [Nodes -> NodeCR]
      BY <1>1 DEF InformCR, TypeOK
    <2>2. \A r \in Requests : AppendUpdateIfMissing(stack[r], "other") \in Seq(Updates)
      BY AppendType DEF TypeOK
    <2>3. stack' \in [Requests -> Seq(Updates)]
      BY <1>1, <2>2 DEF InformCR, TypeOK
    <2>4. work' \in SUBSET Requests
      BY <1>1 DEF InformCR, TypeOK
    <2>5. parentFresh' \in BOOLEAN
      BY <1>1, Zenon DEF InformCR
    <2>6. UNCHANGED <<channelLess, parent, node, genesis, crypto, pod, cachedGenesis,
                      certEvents, worker, mishaps, faults>>
      BY <1>1 DEF InformCR, history
    <2> QED BY <2>1, <2>3, <2>4, <2>5, <2>6 DEF TypeOK
  <1>2. CASE InformSecrets
    BY <1>2 DEF InformSecrets, TypeOK, queueVars, history
  <1>3. CASE Crash
    <2>1. /\ cached'.parent \in ParentStatus /\ cached'.node \in [Nodes -> NodeCR]
          /\ cachedGenesis' \in SUBSET Nodes /\ certEvents' \in [Nodes -> SUBSET Certs]
          /\ worker' \in Worker
      BY <1>3 DEF Crash, TypeOK
    <2>2. work' \in SUBSET Requests
      BY <1>3 DEF Crash
    <2>3. <<>> \in Seq(Updates) /\ <<"other">> \in Seq(Updates)
      OBVIOUS
    <2>4. stack' \in [Requests -> Seq(Updates)]
      BY <1>3, <2>3 DEF Crash
    <2>5. mishaps' \in SUBSET Mishaps
      BY <1>3 DEF Crash, NoteIf, TypeOK, Mishaps
    <2>6. parentFresh' \in BOOLEAN
      BY <1>3, Zenon DEF Crash
    <2>7. faults' \in 0..MaxFaults
      <3>1. Fault
        BY <1>3 DEF Crash
      <3> QED BY <3>1, ConstantsOK DEF Fault, TypeOK
    <2>8. UNCHANGED <<channelLess, parent, node, genesis, crypto, pod>>
      BY <1>3 DEF Crash
    <2> QED BY <2>1, <2>2, <2>4, <2>5, <2>6, <2>7, <2>8 DEF TypeOK
  <1>4. ASSUME NEW n \in Nodes, PodStarts(n) \/ PodStops(n)
        PROVE  TypeOK'
    <2>1. pod' \in [Nodes -> {"none", "waiting", "running"}] /\ work' \in SUBSET Requests
      BY <1>4 DEF PodStarts, PodStops, TypeOK
    <2>2. faults' \in 0..MaxFaults
      BY <1>4, ConstantsOK DEF PodStarts, PodStops, Fault, history, TypeOK
    <2> QED BY <1>4, <2>1, <2>2 DEF PodStarts, PodStops, TypeOK, cacheVars, history
  <1>5. ASSUME NEW n \in Nodes, NEW c \in Certs, CertificateCreated(n, c)
        PROVE  TypeOK'
    <2>1. AppendUpdateIfMissing(stack[n], c) \in Seq(Updates)
      BY AppendType DEF TypeOK
    <2>2. stack' \in [Requests -> Seq(Updates)]
      BY <1>5, <2>1 DEF CertificateCreated, TypeOK
    <2>3. certEvents' \in [Nodes -> SUBSET Certs] /\ work' \in SUBSET Requests
      BY <1>5 DEF CertificateCreated, TypeOK
    <2> QED BY <1>5, <2>2, <2>3 DEF CertificateCreated, TypeOK, cacheVars, history
  <1> QED BY <1>1, <1>2, <1>3, <1>4, <1>5

\* A step keeps the types.
LEMMA TypeStep ==
    ASSUME IInv, [Next]_vars
    PROVE  TypeOK'
  <1>1. CASE UNCHANGED vars
    BY <1>1 DEF vars, IInv, TypeOK
  <1> QED BY <1>1, ParentStepType, NodeStepType, OutsideStepType DEF Next, Failure

-----------------------------------------------------------------------------
(* What a step can do                                                      *)

\* What a step leaves of a node's custom resource.
NodesAdvance ==
    \A n \in Nodes :
        /\ node[n].exists => node'[n].exists
        /\ node[n].defaults => node'[n].defaults
        /\ Started(cached.node[n]) => Started(node'[n])
        /\ Started(node'[n]) => node'[n].defaults
        /\ ~channelLess /\ node'[n].status = "deployed" => genesis[n] # 0

\* A step that leaves the nodes alone.
LEMMA NodesStay ==
    ASSUME IInv, UNCHANGED node
    PROVE  NodesAdvance
  BY DEF IInv, CopiesLag, SecretsSeen, NodesAdvance

\* A status is set on a node with defaults.
LEMMA SetStatusAdvances ==
    ASSUME IInv, NEW n \in Nodes, cached.node[n].defaults,
           NEW status \in {"precreated", "deploying", "deployed", "error"},
           ~channelLess /\ status = "deployed" => genesis[n] # 0,
           node' = [node EXCEPT ![n] = WithStatus(n, status)]
    PROVE  NodesAdvance
  <1>1. /\ node \in [Nodes -> NodeCR] /\ node[n].defaults
        /\ Started(cached.node[n]) => Started(node[n])
    BY DEF IInv, TypeOK, CopiesLag
  <1>2. /\ node'[n].exists = node[n].exists /\ node'[n].defaults = node[n].defaults
        /\ node'[n].status \in {node[n].status, status}
        /\ Started(cached.node[n]) => Started(node'[n])
    <2>1. CASE cached.node[n].status = status
      BY <1>1, <2>1 DEF WithStatus
    <2>2. CASE cached.node[n].status # status
      BY <1>1, <2>2 DEF WithStatus, NodeCR, Started
    <2> QED BY <2>1, <2>2
  <1>3. \A m \in Nodes \ {n} : node'[m] = node[m]
    BY <1>1
  <1> QED BY <1>1, <1>2, <1>3 DEF IInv, CopiesLag, SecretsSeen, NodesAdvance

\* A node's custom resource only advances.
LEMMA NodesAdvanceStep ==
    ASSUME IInv, [Next]_vars
    PROVE  NodesAdvance
  <1> USE IdleFacts
  <1>1. node \in [Nodes -> NodeCR] /\ worker \in Worker /\ worker.next \in Nodes
    BY DEF IInv, TypeOK, Worker, Nodes
  <1>2. CASE UpdateNodeWithGenesisBlock
    <2>1. \A m \in Nodes : /\ node'[m].exists = node[m].exists
                           /\ node'[m].defaults = node[m].defaults
                           /\ node'[m].status = node[m].status
      BY <1>1, <1>2 DEF UpdateNodeWithGenesisBlock, NodeCR
    <2> QED BY <2>1 DEF IInv, CopiesLag, SecretsSeen, NodesAdvance, Started
  <1>3. CASE CreateNodeCR
    <2>1. \A m \in Nodes : /\ node'[m].exists = node[m].exists \/ node'[m].exists
                           /\ node'[m].defaults = node[m].defaults
                           /\ node'[m].status = node[m].status
      BY <1>1, <1>3 DEF CreateNodeCR, NodeCR
    <2> QED BY <2>1 DEF IInv, CopiesLag, SecretsSeen, NodesAdvance, Started
  <1>4. ASSUME NEW n \in Nodes, SetDefaults(n)
        PROVE  NodesAdvance
    <2>1. ~Started(cached.node[n])
      BY <1>4 DEF SetDefaults, IInv, CopiesLag
    <2>2. /\ node'[n].exists = node[n].exists /\ node'[n].defaults
          /\ node'[n].status \in {node[n].status, "initializing"}
      BY <1>1, <1>4 DEF SetDefaults, WithStatus, NodeCR
    <2>3. \A m \in Nodes \ {n} : node'[m] = node[m]
      BY <1>1, <1>4 DEF SetDefaults
    <2> QED BY <2>1, <2>2, <2>3 DEF IInv, CopiesLag, SecretsSeen, NodesAdvance, Started
  <1>5. ASSUME NEW n \in Nodes, InitializeFails(n)
        PROVE  NodesAdvance
    BY <1>5, SetStatusAdvances DEF InitializeFails, NodeError
  <1>6. CASE NodeFails \/ ParentConflict
    <2>1. worker.request \in Nodes /\ cached.node[worker.request].defaults
      BY <1>6 DEF NodeFails, ParentConflict, IInv, AtNodeIsStarted, AtNode
    <2> QED BY <1>6, <2>1, SetStatusAdvances DEF NodeFails, ParentConflict, NodeError
  <1>7. CASE TimerWaits \/ NodeDone
    <2> DEFINE n == worker.request
    <2>1. n \in Nodes /\ cached.node[n].defaults /\ pod[n] # "none"
      BY <1>7 DEF TimerWaits, NodeDone, IInv, AtNodeIsStarted, AtNode
    <2>2. ~channelLess /\ ~AwaitsGenesis(n) => genesis[n] # 0
      BY <2>1 DEF AwaitsGenesis, IInv, SecretsSeen
    <2>3. ~channelLess /\ StatusByPod(n) = "deployed" => genesis[n] # 0
      <3>1. CASE AwaitsGenesis(n)
        BY <3>1 DEF StatusByPod
      <3>2. CASE ~AwaitsGenesis(n)
        BY <2>2, <3>2
      <3> QED BY <3>1, <3>2
    <2>4. ~channelLess /\ StatusByCertificates(n) = "deployed" => genesis[n] # 0
      BY <2>1, <2>2 DEF StatusByCertificates, IInv, SecretsSeen
    <2>5. /\ StatusByPod(n) \in {"precreated", "deploying", "deployed"}
          /\ StatusByCertificates(n) \in {"precreated", "deployed"}
      BY <2>1, StatusTypes
    <2> QED
      BY <1>7, <2>1, <2>3, <2>4, <2>5, SetStatusAdvances DEF TimerWaits, NodeDone
  <1>8. CASE UNCHANGED node
    BY <1>8, NodesStay
  <1>9. CASE ParentStep \/ ParentFails
    BY <1>2, <1>3, <1>8, <1>9
    DEF ParentStep, ParentFails, ParentIgnored, ParentWaits, ParentDone, GenerateGenesisBlock,
        GenerateGenesisSecretForNode, ParentCreates, ParentCreatesNone
  <1>10. ASSUME NEW n \in Nodes, NodeStarts(n)
         PROVE  NodesAdvance
    BY <1>4, <1>8, <1>10 DEF NodeStarts, ReconcileNode
  <1>11. CASE NodeStep
    BY <1>7, <1>8, <1>11 DEF NodeStep, ParentUpToDate, UpdateParentStatus
  <1>12. CASE InformCR \/ InformSecrets \/ Crash
    BY <1>8, <1>12 DEF InformCR, InformSecrets, Crash
  <1>13. ASSUME NEW n \in Nodes, PodStarts(n) \/ PodStops(n)
         PROVE  NodesAdvance
    BY <1>8, <1>13 DEF PodStarts, PodStops
  <1>14. ASSUME NEW n \in Nodes, NEW c \in Certs, CertificateCreated(n, c)
         PROVE  NodesAdvance
    BY <1>8, <1>14 DEF CertificateCreated
  <1>15. CASE UNCHANGED vars
    BY <1>8, <1>15 DEF vars
  <1> QED
    BY <1>5, <1>6, <1>9, <1>10, <1>11, <1>12, <1>13, <1>14, <1>15 DEF Next, Failure

\* What a step leaves of the secrets, the caches, the pods, the parent's
\* status and the worker.
ControlAdvances ==
    /\ channelLess' = channelLess
    /\ \A n \in Nodes : genesis[n] # 0 => genesis'[n] # 0
    /\ worker.pc # "secrets" => genesis' = genesis
    /\ \/ cached' = cached
       \/ cached'.parent = parent /\ cached'.node = node /\ UNCHANGED <<parent, node>>
    /\ cachedGenesis' \in {cachedGenesis, {n \in Nodes : genesis[n] # 0}}
    /\ HasBlock' => HasBlock \/ \A n \in Nodes : cached.node[n].exists /\ Precreated(n)
    /\ AtNode' => \/ AtNode /\ worker'.request = worker.request
                  \/ /\ worker'.request \in Nodes
                     /\ cached.node[worker'.request].defaults
                     /\ pod'[worker'.request] # "none"
    /\ \A n \in Nodes : pod[n] # "none" => pod'[n] # "none"
    /\ parent'.type = "deployed" => parent.type = "deployed" \/ DerivedType = "deployed"
    /\ parentFresh' => \/ parentFresh /\ UNCHANGED <<parent, cached>>
                       \/ cached'.parent = parent'
    /\ mishaps \subseteq mishaps'

\* How the worker goes on.
WorkerGoesOn ==
    \/ worker' = worker
    \/ worker' = IdleWorker
    \/ worker'.pc = "create"
    \/ worker'.pc = "patch" /\ \A n \in Nodes : cached.node[n].exists /\ Precreated(n)
    \/ worker'.pc \in {"patch", "secrets"} /\ HasBlock
    \/ worker'.pc = "status" /\ worker.pc = "parent" /\ worker'.request = worker.request
    \/ /\ worker'.pc = "parent" /\ worker'.request \in Nodes
       /\ cached.node[worker'.request].defaults /\ pod'[worker'.request] # "none"

\* The caches are left alone, or one of them is filled.
CachesGoOn ==
    \/ UNCHANGED <<parent, cached, parentFresh, cachedGenesis>>
    \/ /\ cached'.parent = parent /\ cached'.node = node /\ UNCHANGED <<parent, node>>
       /\ cachedGenesis' \in {cachedGenesis, {n \in Nodes : genesis[n] # 0}}
    \/ /\ UNCHANGED <<parent, cached, parentFresh>>
       /\ cachedGenesis' = {n \in Nodes : genesis[n] # 0}
    \/ /\ UNCHANGED <<cached, cachedGenesis>> /\ ~parentFresh'
       /\ \/ parent'.type \in {"error", parent.type}
          \/ parent'.type = DerivedType

\* ControlAdvances from the parts.
LEMMA ControlParts ==
    ASSUME IInv, WorkerGoesOn, CachesGoOn, UNCHANGED <<channelLess, genesis>>,
           mishaps \subseteq mishaps', \A n \in Nodes : pod[n] # "none" => pod'[n] # "none"
    PROVE  ControlAdvances
  <1>1. HasBlock' => HasBlock \/ \A n \in Nodes : cached.node[n].exists /\ Precreated(n)
    BY IdleFacts DEF WorkerGoesOn, HasBlock
  <1>2. AtNode' => \/ AtNode /\ worker'.request = worker.request
                   \/ /\ worker'.request \in Nodes
                      /\ cached.node[worker'.request].defaults
                      /\ pod'[worker'.request] # "none"
    BY IdleFacts DEF WorkerGoesOn, AtNode
  <1>3. /\ \/ cached' = cached
           \/ cached'.parent = parent /\ cached'.node = node /\ UNCHANGED <<parent, node>>
        /\ cachedGenesis' \in {cachedGenesis, {n \in Nodes : genesis[n] # 0}}
        /\ parentFresh' => \/ parentFresh /\ UNCHANGED <<parent, cached>>
                           \/ cached'.parent = parent'
        /\ parent'.type = "deployed" => parent.type = "deployed" \/ DerivedType = "deployed"
    BY DEF CachesGoOn
  <1> QED BY <1>1, <1>2, <1>3 DEF ControlAdvances

\* The parent's reconcile.
LEMMA ParentStepControl ==
    ASSUME IInv, ParentStep \/ ParentFails
    PROVE  ControlAdvances
  <1> USE IdleFacts DEF cacheVars, history
  <1>1. worker \in Worker /\ worker.next \in Nodes
    BY DEF IInv, TypeOK, Worker, Nodes
  <1>2. CASE ParentIgnored
    BY <1>2, ControlParts DEF ParentIgnored, NoteIf, WorkerGoesOn, CachesGoOn
  <1>3. CASE ParentWaits \/ ParentDone
    BY <1>3, ControlParts DEF ParentWaits, ParentDone, TakeAndReturn, WorkerGoesOn, CachesGoOn
  <1>4. CASE GenerateGenesisBlock
    <2>1. worker'.pc = "patch" /\ \A n \in Nodes : cached.node[n].exists /\ Precreated(n)
      BY <1>4
      DEF GenerateGenesisBlock, TakeAndGoOn, IdleWorker, GenesisMissing, GenesisStage, AllListed
    <2> QED
      BY <1>4, <2>1, ControlParts DEF GenerateGenesisBlock, NoteIf, WorkerGoesOn, CachesGoOn
  <1>5. CASE UpdateNodeWithGenesisBlock
    <2>1. worker'.pc \in {"patch", "secrets"} /\ HasBlock
      BY <1>1, <1>5 DEF UpdateNodeWithGenesisBlock, HasBlock, Worker
    <2> QED
      BY <1>5, <2>1, ControlParts DEF UpdateNodeWithGenesisBlock, WorkerGoesOn, CachesGoOn
  <1>6. CASE GenerateGenesisSecretForNode
    <2>1. \A n \in Nodes : genesis[n] # 0 => genesis'[n] # 0
      BY <1>1, <1>6 DEF GenerateGenesisSecretForNode, CreatedSecret, IInv, TypeOK
    <2>2. HasBlock /\ worker'.pc \in {"idle", "secrets"}
      BY <1>1, <1>6 DEF GenerateGenesisSecretForNode, Return, HasBlock, Worker
    <2> QED BY <1>6, <2>1, <2>2 DEF GenerateGenesisSecretForNode, ControlAdvances, AtNode
  <1>7. CASE ParentCreates
    <2>1. worker'.pc = "create"
      BY <1>7 DEF ParentCreates, TakeAndGoOn, IdleWorker
    <2> QED BY <1>7, <2>1, ControlParts DEF ParentCreates, WorkerGoesOn, CachesGoOn
  <1>8. CASE ParentCreatesNone
    BY <1>8, ControlParts
    DEF ParentCreatesNone, TakeAndReturn, NoteIf, WorkerGoesOn, CachesGoOn
  <1>9. CASE CreateNodeCR
    <2>1. worker'.pc = "create" \/ worker' = IdleWorker
      BY <1>1, <1>9 DEF CreateNodeCR, Return, Worker
    <2> QED BY <1>9, <2>1, ControlParts DEF CreateNodeCR, WorkerGoesOn, CachesGoOn
  <1>10. CASE ParentFails
    <2>1. parent'.type \in {"error", parent.type} /\ ~parentFresh'
      BY <1>10 DEF ParentFails
    <2> QED BY <1>10, <2>1, ControlParts DEF ParentFails, NoteIf, WorkerGoesOn, CachesGoOn
  <1> QED
    BY <1>2, <1>3, <1>4, <1>5, <1>6, <1>7, <1>8, <1>9, <1>10 DEF ParentStep

\* Every other step.
LEMMA OtherStepControl ==
    ASSUME IInv
    PROVE  /\ \A n \in Nodes : NodeStarts(n) \/ InitializeFails(n) => ControlAdvances
           /\ NodeStep \/ NodeFails \/ ParentConflict => ControlAdvances
           /\ InformCR \/ InformSecrets \/ Crash => ControlAdvances
           /\ \A n \in Nodes : PodStarts(n) \/ PodStops(n) => ControlAdvances
           /\ \A n \in Nodes, c \in Certs : CertificateCreated(n, c) => ControlAdvances
           /\ UNCHANGED vars => ControlAdvances
  <1> USE IdleFacts DEF cacheVars, history
  <1>1. worker \in Worker /\ pod \in [Nodes -> {"none", "waiting", "running"}]
    BY DEF IInv, TypeOK
  <1>2. ASSUME NEW n \in Nodes, SetDefaults(n)
        PROVE  ControlAdvances
    BY <1>2, ControlParts DEF SetDefaults, TakeAndReturn, WorkerGoesOn, CachesGoOn
  <1>3. ASSUME NEW n \in Nodes, ReconcileNode(n)
        PROVE  ControlAdvances
    <2>1. \A m \in Nodes : pod'[m] = IF m = n /\ pod[n] = "none" THEN "waiting" ELSE pod[m]
      BY <1>1, <1>3 DEF ReconcileNode, ReconcileManagers
    <2>2. pod'[n] # "none" /\ \A m \in Nodes : pod[m] # "none" => pod'[m] # "none"
      BY <2>1
    <2>3. worker'.pc = "parent" /\ worker'.request = n /\ cached.node[n].defaults
      BY <1>3 DEF ReconcileNode, IdleWorker
    <2> QED BY <1>3, <2>2, <2>3, ControlParts DEF ReconcileNode, WorkerGoesOn, CachesGoOn
  <1>4. ASSUME NEW n, NEW update, NEW breaking, NodeError(n, update, breaking)
        PROVE  ControlAdvances
    BY <1>4, ControlParts DEF NodeError, WorkerGoesOn, CachesGoOn
  <1>5. ASSUME NEW n \in Nodes, InitializeFails(n)
        PROVE  ControlAdvances
    BY <1>4, <1>5 DEF InitializeFails
  <1>6. CASE NodeFails \/ ParentConflict
    BY <1>4, <1>6 DEF NodeFails, ParentConflict
  <1>7. CASE ParentUpToDate
    <2>1. worker.pc = "parent" /\ worker'.pc = "status" /\ worker'.request = worker.request
      BY <1>1, <1>7 DEF ParentUpToDate, Worker
    <2> QED BY <1>7, <2>1, ControlParts DEF ParentUpToDate, WorkerGoesOn, CachesGoOn
  <1>8. CASE UpdateParentStatus
    <2>1. worker.pc = "parent" /\ worker'.pc = "status" /\ worker'.request = worker.request
      BY <1>1, <1>8 DEF UpdateParentStatus, Worker
    <2>2. parent'.type = DerivedType /\ ~parentFresh'
      BY <1>8 DEF UpdateParentStatus
    <2> QED BY <1>8, <2>1, <2>2, ControlParts DEF UpdateParentStatus, WorkerGoesOn, CachesGoOn
  <1>9. CASE TimerWaits \/ NodeDone
    BY <1>9, ControlParts DEF TimerWaits, NodeDone, Return, WorkerGoesOn, CachesGoOn
  <1>10. CASE InformCR
    BY <1>10, ControlParts DEF InformCR, WorkerGoesOn, CachesGoOn
  <1>11. CASE InformSecrets
    BY <1>11, ControlParts DEF InformSecrets, WorkerGoesOn, CachesGoOn
  <1>12. CASE Crash
    BY <1>12, ControlParts DEF Crash, NoteIf, WorkerGoesOn, CachesGoOn
  <1>13. ASSUME NEW n \in Nodes, PodStarts(n) \/ PodStops(n)
         PROVE  ControlAdvances
    <2>1. \A m \in Nodes : pod[m] # "none" => pod'[m] # "none"
      BY <1>1, <1>13 DEF PodStarts, PodStops
    <2> QED BY <1>13, <2>1, ControlParts DEF PodStarts, PodStops, WorkerGoesOn, CachesGoOn
  <1>14. ASSUME NEW n \in Nodes, NEW c \in Certs, CertificateCreated(n, c)
         PROVE  ControlAdvances
    BY <1>14, ControlParts DEF CertificateCreated, WorkerGoesOn, CachesGoOn
  <1>15. CASE UNCHANGED vars
    BY <1>15, ControlParts DEF vars, WorkerGoesOn, CachesGoOn
  <1> QED
    BY <1>2, <1>3, <1>5, <1>6, <1>7, <1>8, <1>9, <1>10, <1>11, <1>12, <1>13, <1>14, <1>15
    DEF NodeStarts, NodeStep

\* ControlAdvances holds of every step.
LEMMA ControlStep ==
    ASSUME IInv, [Next]_vars
    PROVE  ControlAdvances
  BY ParentStepControl, OtherStepControl DEF Next, Failure

-----------------------------------------------------------------------------
(* The secrets                                                             *)

\* A step that is not one of the loop over the secrets.
LEMMA SecretsStay ==
    ASSUME IInv, genesis' = genesis, mishaps \subseteq mishaps',
           worker' = worker \/ (worker.pc # "secrets" /\ ~HasBlock')
    PROVE  (BlockGenerated /\ SecretsInOrder)'
  <1>1. CASE worker' = worker
    BY <1>1
    DEF IInv, BlockGenerated, SecretsInOrder, HasBlock, SameSecrets, NoSecrets, SecretsSoFar
  <1>2. CASE worker.pc # "secrets" /\ ~HasBlock'
    BY <1>2 DEF IInv, BlockGenerated, SecretsInOrder, HasBlock, SameSecrets, NoSecrets
  <1> QED BY <1>1, <1>2

\* A loop over the secrets that ends before its time has been seen to be cut,
\* or has created none or all.
LEMMA SecretsCut ==
    ASSUME IInv, genesis' = genesis, worker' = IdleWorker,
           NoteIf("cut", worker.pc = "secrets" /\ SomeSecrets)
    PROVE  (BlockGenerated /\ SecretsInOrder)'
  <1>1. ~HasBlock' /\ mishaps \subseteq mishaps'
    BY IdleFacts DEF HasBlock, NoteIf
  <1>2. CASE worker.pc # "secrets"
    BY <1>1, <1>2, SecretsStay
  <1>3. CASE worker.pc = "secrets" /\ SomeSecrets
    BY <1>1, <1>3 DEF NoteIf, BlockGenerated, SecretsInOrder
  <1>4. CASE worker.pc = "secrets" /\ ~SomeSecrets
    <2>1. NoSecrets \/ \A n \in Nodes : genesis[n] # 0
      BY <1>4, NoneOrAll
    <2>2. worker.next \in Nodes /\ ~(worker.next < worker.next)
      BY DEF IInv, TypeOK, Worker, Nodes
    <2>3. SecretsSoFar => genesis[worker.next] = 0
      BY <2>2 DEF SecretsSoFar
    <2>4. "cut" \in mishaps \/ SameSecrets \/ NoSecrets
      BY <1>4, <2>1, <2>2, <2>3 DEF IInv, SecretsInOrder
    <2> QED
      BY <1>1, <2>4, IdleFacts
      DEF BlockGenerated, SecretsInOrder, SameSecrets, NoSecrets
  <1> QED BY <1>2, <1>3, <1>4

\* One turn of the loop over the secrets.
LEMMA SecretsTurn ==
    ASSUME IInv, GenerateGenesisSecretForNode
    PROVE  (BlockGenerated /\ SecretsInOrder)'
  <1> DEFINE n == worker.next
  <1>1. /\ n \in Nodes /\ Nodes = 1..ClusterSize /\ ClusterSize \in Nat
        /\ genesis \in [Nodes -> Blocks \cup {0}] /\ worker \in Worker
    BY ConstantsOK DEF IInv, TypeOK, Worker, Nodes
  <1>2. /\ worker.pc = "secrets" /\ worker.block # 0
        /\ genesis' = [genesis EXCEPT ![n] = IF genesis[n] = 0 THEN worker.block ELSE genesis[n]]
        /\ mishaps' = mishaps
    BY DEF GenerateGenesisSecretForNode, CreatedSecret, history, IInv, BlockGenerated, HasBlock
  <1>3. CASE "cut" \in mishaps \/ SameSecrets
    <2>1. "cut" \in mishaps' \/ SameSecrets'
      BY <1>1, <1>2, <1>3 DEF SameSecrets
    <2>2. BlockGenerated'
      BY <1>1, <1>2, IdleFacts
      DEF GenerateGenesisSecretForNode, Return, BlockGenerated, HasBlock, Worker
    <2> QED BY <2>1, <2>2 DEF SecretsInOrder
  <1>4. CASE SecretsSoFar
    <2>1. \A m \in Nodes : genesis'[m] = IF m <= n THEN worker.block ELSE 0
      <3>1. genesis[n] = 0
        BY <1>1, <1>4 DEF SecretsSoFar
      <3>2. \A m \in Nodes : m # n => genesis'[m] = genesis[m]
        BY <1>1, <1>2
      <3>3. genesis'[n] = worker.block
        BY <1>1, <1>2, <3>1
      <3>4. \A m \in Nodes : m # n => (m <= n <=> m < n)
        BY <1>1
      <3>5. n <= n
        BY <1>1
      <3> QED BY <1>4, <3>2, <3>3, <3>4, <3>5 DEF SecretsSoFar
    <2>2. CASE n < ClusterSize
      <3>1. worker' = [worker EXCEPT !.next = n + 1]
        BY <2>2 DEF GenerateGenesisSecretForNode
      <3>2. worker'.pc = "secrets" /\ worker'.block = worker.block /\ worker'.next = n + 1
        BY <1>1, <1>2, <3>1 DEF Worker
      <3>3. \A m \in Nodes : (m <= n <=> m < n + 1)
        BY <1>1
      <3> QED
        BY <1>2, <2>1, <3>2, <3>3 DEF BlockGenerated, SecretsInOrder, SecretsSoFar, HasBlock
    <2>3. CASE ~(n < ClusterSize)
      <3>1. worker' = IdleWorker
        BY <2>3 DEF GenerateGenesisSecretForNode, Return
      <3>2. \A m \in Nodes : genesis'[m] = worker.block
        BY <1>1, <2>1, <2>3
      <3>3. SameSecrets'
        BY <1>2, <3>2 DEF SameSecrets
      <3> QED BY <3>1, <3>3, IdleFacts DEF BlockGenerated, SecretsInOrder, HasBlock
    <2> QED BY <2>2, <2>3
  <1> QED BY <1>2, <1>3, <1>4 DEF IInv, SecretsInOrder

\* No step gives the nodes different blocks, unless the loop is cut.
LEMMA SecretsStep ==
    ASSUME IInv, [Next]_vars
    PROVE  (BlockGenerated /\ SecretsInOrder)'
  <1> USE IdleFacts DEF history
  <1>1. worker \in Worker /\ worker.next \in Nodes /\ mishaps \subseteq mishaps'
    BY ControlStep DEF IInv, TypeOK, Worker, Nodes, ControlAdvances
  <1>2. CASE ParentIgnored \/ ParentWaits \/ ParentDone \/ ParentCreatesNone
    BY <1>1, <1>2, SecretsStay
    DEF ParentIgnored, ParentWaits, ParentDone, ParentCreatesNone, TakeAndReturn
  <1>3. CASE GenerateGenesisBlock
    <2>1. /\ worker.pc = "idle" /\ worker'.pc = "patch" /\ worker'.block = NewBlock
          /\ genesis' = genesis
      BY <1>3
      DEF GenerateGenesisBlock, TakeAndGoOn, IdleWorker, GenesisMissing, GenesisStage, ParentTaken
    <2>2. NewBlock \in Blocks
      BY NewBlockExists DEF IInv, TypeOK
    <2> QED
      BY <1>1, <2>1, <2>2
      DEF IInv, BlockGenerated, SecretsInOrder, HasBlock, SameSecrets, NoSecrets
  <1>4. CASE UpdateNodeWithGenesisBlock
    <2>1. /\ worker.pc = "patch" /\ worker'.pc \in {"patch", "secrets"}
          /\ worker'.block = worker.block /\ UNCHANGED <<genesis, mishaps>>
          /\ worker'.pc = "secrets" => worker'.next = 1
      BY <1>1, <1>4 DEF UpdateNodeWithGenesisBlock, Worker
    <2>2. \A n \in Nodes : ~(n < 1)
      BY DEF Nodes
    <2> QED
      BY <2>1, <2>2
      DEF IInv, BlockGenerated, SecretsInOrder, HasBlock, SameSecrets, NoSecrets, SecretsSoFar
  <1>5. CASE GenerateGenesisSecretForNode
    BY <1>5, SecretsTurn
  <1>6. CASE ParentCreates
    <2>1. worker.pc = "idle" /\ worker'.pc = "create" /\ genesis' = genesis
      BY <1>6 DEF ParentCreates, TakeAndGoOn, IdleWorker, CreationStage, ParentTaken
    <2> QED BY <1>1, <2>1, SecretsStay DEF HasBlock
  <1>7. CASE CreateNodeCR
    <2>1. worker.pc = "create" /\ worker'.pc \in {"create", "idle"} /\ genesis' = genesis
      BY <1>1, <1>7 DEF CreateNodeCR, Return, Worker
    <2> QED BY <1>1, <2>1, SecretsStay DEF HasBlock
  <1>8. CASE ParentFails \/ Crash
    BY <1>8, SecretsCut DEF ParentFails, Crash
  <1>9. ASSUME NEW n \in Nodes, NodeStarts(n) \/ InitializeFails(n)
        PROVE  (BlockGenerated /\ SecretsInOrder)'
    <2>1. worker.pc = "idle" /\ worker'.pc \in {"idle", "parent"} /\ genesis' = genesis
      BY <1>9
      DEF NodeStarts, SetDefaults, ReconcileNode, InitializeFails, NodeError, TakeAndReturn,
          NodeTaken, IdleWorker
    <2> QED BY <1>1, <2>1, SecretsStay DEF HasBlock
  <1>10. CASE NodeStep \/ NodeFails \/ ParentConflict
    <2>1. /\ worker.pc \in {"parent", "status"} /\ worker'.pc \in {"idle", "status"}
          /\ genesis' = genesis
      BY <1>1, <1>10
      DEF NodeStep, ParentUpToDate, UpdateParentStatus, TimerWaits, NodeDone, NodeFails,
          ParentConflict, NodeError, Return, Worker
    <2> QED BY <1>1, <2>1, SecretsStay DEF HasBlock
  <1>11. CASE InformCR \/ InformSecrets
    BY <1>1, <1>11, SecretsStay DEF InformCR, InformSecrets
  <1>12. ASSUME NEW n \in Nodes, PodStarts(n) \/ PodStops(n)
         PROVE  (BlockGenerated /\ SecretsInOrder)'
    BY <1>1, <1>12, SecretsStay DEF PodStarts, PodStops
  <1>13. ASSUME NEW n \in Nodes, NEW c \in Certs, CertificateCreated(n, c)
         PROVE  (BlockGenerated /\ SecretsInOrder)'
    BY <1>1, <1>13, SecretsStay DEF CertificateCreated
  <1>14. CASE UNCHANGED vars
    BY <1>1, <1>14, SecretsStay DEF vars
  <1> QED
    BY <1>2, <1>3, <1>4, <1>5, <1>6, <1>7, <1>8, <1>9, <1>10, <1>11, <1>12, <1>13, <1>14
    DEF Next, ParentStep, Failure

-----------------------------------------------------------------------------
(* The inductive invariant                                                 *)

\* A parent that is about to be reported Deployed: all its nodes are listed
\* with a telling status, so all of them are Deployed, and have their secrets.
LEMMA DerivedDeployed ==
    ASSUME IInv, ~channelLess, DerivedType = "deployed"
    PROVE  \A n \in Nodes : genesis[n] # 0
  <1>1. /\ Listed("deploying") = {} /\ Listed("error") = {} /\ Listed("precreated") = {}
        /\ Listed("deployed") # {}
    BY DEF DerivedType
  <1>2. PICK d \in Nodes : cached.node[d].status = "deployed"
    BY <1>1 DEF Listed
  <1>3. genesis[d] # 0
    BY <1>2 DEF IInv, SecretsSeen
  <1>4. \A n \in Nodes : cached.node[n].exists /\ Started(cached.node[n])
    BY <1>3 DEF IInv, GenesisIsLate
  <1>5. ASSUME NEW n \in Nodes
        PROVE  cached.node[n].status = "deployed"
    <2>1. cached.node[n].status \in Statuses
      BY DEF IInv, TypeOK, NodeCR
    <2>2. cached.node[n].status \notin {"deploying", "error", "precreated"}
      BY <1>1, <1>4 DEF Listed
    <2> QED BY <1>4, <2>1, <2>2 DEF Started, Statuses
  <1> QED BY <1>5 DEF IInv, SecretsSeen

\* The parts about copies and statuses.
LEMMA CopiesStep ==
    ASSUME IInv, TypeOK', NodesAdvance, ControlAdvances
    PROVE  /\ FreshIsEqual' /\ CopiesLag' /\ AtNodeIsStarted' /\ GenesisIsLate'
           /\ SecretsSeen' /\ DeployedHasGenesis'
  <1>1. FreshIsEqual'
    BY DEF IInv, FreshIsEqual, ControlAdvances
  <1>2. DeployedHasGenesis'
    <2> SUFFICES ASSUME parent'.type = "deployed", ~channelLess, NEW n \in Nodes
                 PROVE  genesis[n] # 0
      BY DEF DeployedHasGenesis, ControlAdvances
    <2>1. CASE parent.type = "deployed"
      BY <2>1 DEF IInv, DeployedHasGenesis
    <2>2. CASE DerivedType = "deployed"
      BY <2>2, DerivedDeployed
    <2> QED BY <2>1, <2>2 DEF ControlAdvances
  <1>3. CASE cached' = cached
    <2>1. CopiesLag'
      BY <1>3 DEF IInv, CopiesLag, NodesAdvance
    <2>2. AtNodeIsStarted'
      BY <1>3 DEF IInv, AtNodeIsStarted, ControlAdvances
    <2>3. GenesisIsLate'
      <3> SUFFICES ASSUME HasBlock' \/ \E n \in Nodes : genesis'[n] # 0
                   PROVE  \A n \in Nodes : cached.node[n].exists /\ Started(cached.node[n])
        BY <1>3 DEF GenesisIsLate
      <3>1. \/ HasBlock \/ \E n \in Nodes : genesis[n] # 0
            \/ \A n \in Nodes : cached.node[n].exists /\ Precreated(n)
        BY DEF ControlAdvances, HasBlock
      <3>2. \A n \in Nodes : Precreated(n) => Started(cached.node[n])
        BY DEF Precreated, Started
      <3> QED BY <3>1, <3>2 DEF IInv, GenesisIsLate
    <2>4. SecretsSeen'
      BY <1>3 DEF IInv, SecretsSeen, NodesAdvance, ControlAdvances
    <2> QED BY <1>1, <1>2, <2>1, <2>2, <2>3, <2>4
  <1>4. CASE cached' # cached
    <2>1. cached'.node = node /\ node' = node
      BY <1>4 DEF ControlAdvances
    <2>2. CopiesLag'
      BY <2>1 DEF IInv, CopiesLag
    <2>3. AtNodeIsStarted'
      BY <2>1 DEF IInv, AtNodeIsStarted, CopiesLag, ControlAdvances
    <2>4. GenesisIsLate'
      <3> SUFFICES ASSUME HasBlock' \/ \E n \in Nodes : genesis'[n] # 0
                   PROVE  \A n \in Nodes : node[n].exists /\ Started(node[n])
        BY <2>1 DEF GenesisIsLate
      <3>1. \/ HasBlock \/ \E n \in Nodes : genesis[n] # 0
            \/ \A n \in Nodes : cached.node[n].exists /\ Precreated(n)
        BY DEF ControlAdvances, HasBlock
      <3>2. \A n \in Nodes : Precreated(n) => Started(cached.node[n])
        BY DEF Precreated, Started
      <3>3. \A n \in Nodes : cached.node[n].exists /\ Started(cached.node[n])
        BY <3>1, <3>2 DEF IInv, GenesisIsLate
      <3> QED BY <3>3 DEF IInv, CopiesLag
    <2>5. SecretsSeen'
      BY <2>1 DEF IInv, SecretsSeen, ControlAdvances
    <2> QED BY <1>1, <1>2, <2>2, <2>3, <2>4, <2>5
  <1> QED BY <1>3, <1>4

\* The initial states.
LEMMA InitIInv ==
    ASSUME Init
    PROVE  IInv
  <1> USE IdleFacts
  <1>1. cached.parent = parent /\ cached.node = node /\ worker.pc = "idle"
    BY DEF Init
  <1>2. \A n \in Nodes : node[n] = NoNode /\ genesis[n] = 0
    BY DEF Init
  <1>3. \A n \in Nodes : ~Started(node[n]) /\ node[n].status # "deployed"
    <2>1. NoNode.status = ""
      BY DEF NoNode
    <2> QED BY <1>2, <2>1 DEF Started
  <1>4. TypeOK
    <2>1. stack \in [Requests -> Seq(Updates)]
      <3>1. <<>> \in Seq(Updates)
        OBVIOUS
      <3> QED BY <3>1 DEF Init
    <2>2. parent \in ParentStatus
      BY DEF Init, ParentStatus, Statuses
    <2>3. channelLess \in BOOLEAN /\ parentFresh \in BOOLEAN
      BY Zenon DEF Init
    <2>4. /\ node \in [Nodes -> NodeCR] /\ genesis \in [Nodes -> Blocks \cup {0}]
          /\ pod \in [Nodes -> {"none", "waiting", "running"}]
          /\ certEvents \in [Nodes -> SUBSET Certs]
      BY DEF Init
    <2>5. /\ crypto \in SUBSET Nodes /\ cachedGenesis \in SUBSET Nodes
          /\ work \in SUBSET Requests /\ worker \in Worker /\ mishaps \in SUBSET Mishaps
      <3>1. /\ crypto = {} /\ cachedGenesis = {} /\ work = {Parent} /\ worker = IdleWorker
            /\ mishaps = {}
        BY DEF Init
      <3> QED BY <3>1
    <2>6. faults \in 0..MaxFaults
      <3>1. faults = 0
        BY DEF Init
      <3> QED BY <3>1, ConstantsOK
    <2> QED BY <1>1, <2>1, <2>2, <2>3, <2>4, <2>5, <2>6 DEF TypeOK
  <1>5. BlockGenerated /\ SecretsInOrder /\ AtNodeIsStarted
    BY <1>1, <1>2 DEF BlockGenerated, SecretsInOrder, AtNodeIsStarted, HasBlock, AtNode, NoSecrets
  <1>6. FreshIsEqual /\ CopiesLag
    BY <1>1, <1>3 DEF FreshIsEqual, CopiesLag
  <1>7. cachedGenesis = {} /\ parent.type = ""
    BY DEF Init
  <1>8. GenesisIsLate /\ SecretsSeen /\ DeployedHasGenesis
    BY <1>1, <1>2, <1>3, <1>7 DEF GenesisIsLate, SecretsSeen, DeployedHasGenesis, HasBlock
  <1> QED BY <1>4, <1>5, <1>6, <1>8 DEF IInv

\* The inductive invariant holds of every reachable state.
THEOREM Inductive == Spec => []IInv
  <1>1. Init => IInv
    BY InitIInv
  <1>2. IInv /\ [Next]_vars => IInv'
    <2> SUFFICES ASSUME IInv, [Next]_vars PROVE IInv'
      OBVIOUS
    <2>1. TypeOK'
      BY TypeStep
    <2>2. (BlockGenerated /\ SecretsInOrder)'
      BY SecretsStep
    <2>3. /\ FreshIsEqual' /\ CopiesLag' /\ AtNodeIsStarted' /\ GenesisIsLate'
          /\ SecretsSeen' /\ DeployedHasGenesis'
      BY <2>1, NodesAdvanceStep, ControlStep, CopiesStep
    <2> QED BY <2>1, <2>2, <2>3 DEF IInv
  <1> QED BY <1>1, <1>2, PTL DEF Spec

\* The state of the ordering service and of the worker is well typed; in
\* particular there is always a new block to generate.
THEOREM TypeCorrect == Spec => []TypeOK
  <1>1. IInv => TypeOK
    BY DEF IInv
  <1> QED BY <1>1, Inductive, PTL

\* Nodes of an ordering service of any size never hold different genesis
\* blocks, unless GenerateGenesisSecretForNodes has been cut: caches that lag
\* and reconciles that are repeated do no harm.
THEOREM OneGenesisBlock == Spec => []SecretsAgree
  <1>1. IInv => SecretsAgree
    <2> SUFFICES ASSUME IInv, "cut" \notin mishaps, NEW m \in Nodes, NEW n \in Nodes,
                        genesis[m] # 0, genesis[n] # 0
                 PROVE  genesis[m] = genesis[n]
      BY DEF SecretsAgree
    <2>1. CASE SameSecrets
      BY <2>1 DEF SameSecrets
    <2>2. CASE SecretsSoFar
      BY <2>2 DEF SecretsSoFar
    <2>3. ~NoSecrets
      BY DEF NoSecrets
    <2> QED BY <2>1, <2>2, <2>3 DEF IInv, SecretsInOrder
  <1> QED BY <1>1, Inductive, PTL

\* A parent that UpdateParentStatus has reported Deployed has a genesis block
\* on every node, however outdated the copies it was derived from.
THEOREM DeployedIsComplete == Spec => []DeployedHasGenesis
  <1>1. IInv => DeployedHasGenesis
    BY DEF IInv
  <1> QED BY <1>1, Inductive, PTL

\* Without a failing reconcile of the parent nothing takes Deployed back: the
\* resource version guards UpdateParentStatus against an outdated copy.
THEOREM DeployedStays == Spec => DeployedIsFinal
  <1>1. IInv /\ [Next]_vars =>
            [parent.type = "deployed" => parent'.type = "deployed" \/ faults' > faults]_vars
    <2> SUFFICES ASSUME IInv, Next, parent.type = "deployed", parent'.type # "deployed"
                 PROVE  faults' > faults
      BY DEF vars
    <2>1. CASE ParentFails
      <3>1. faults \in Nat /\ faults' = faults + 1
        BY <2>1, ConstantsOK DEF ParentFails, Fault, IInv, TypeOK
      <3> QED BY <3>1
    <2>2. CASE UpdateParentStatus
      BY <2>2 DEF UpdateParentStatus, ParentUpdateDue, IInv, FreshIsEqual
    <2>3. CASE ParentStep
      BY <2>3
      DEF ParentStep, ParentIgnored, ParentWaits, ParentDone, GenerateGenesisBlock,
          UpdateNodeWithGenesisBlock, GenerateGenesisSecretForNode, ParentCreates,
          ParentCreatesNone, CreateNodeCR
    <2>4. ASSUME NEW n \in Nodes, NodeStarts(n) \/ InitializeFails(n) \/ PodStarts(n) \/ PodStops(n)
          PROVE  FALSE
      BY <2>4
      DEF NodeStarts, SetDefaults, ReconcileNode, InitializeFails, NodeError, PodStarts, PodStops
    <2>5. CASE ParentUpToDate \/ TimerWaits \/ NodeDone \/ NodeFails \/ ParentConflict
      BY <2>5 DEF ParentUpToDate, TimerWaits, NodeDone, NodeFails, ParentConflict, NodeError
    <2>6. CASE InformCR \/ InformSecrets \/ Crash
      BY <2>6 DEF InformCR, InformSecrets, Crash
    <2>7. ASSUME NEW n \in Nodes, NEW c \in Certs, CertificateCreated(n, c)
          PROVE  FALSE
      BY <2>7 DEF CertificateCreated
    <2> QED
      BY <2>1, <2>2, <2>3, <2>4, <2>5, <2>6, <2>7 DEF Next, NodeStep, Failure
  <1> QED BY <1>1, Inductive, PTL DEF Spec, DeployedIsFinal
==============================================================================
