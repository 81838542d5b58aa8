------------------------ MODULE StaggerRestartsProofs ------------------------
(***************************************************************************)
(* Machine-checked proofs about StaggerRestarts, for any set of custom     *)
(* resources, organisations and requests and any number of faults: first   *)
(* its types and its queues, then what the staggered restart queue is for: *)
(* no request is lost or served twice, one component of an organisation is *)
(* restarted at a time, and the stored map implements RestartService.      *)
(***************************************************************************)
EXTENDS StaggerRestarts, FiniteSetTheorems, FunctionTheorems, SequenceTheorems, TLAPS

\* A copy of the map that is well typed and whose queues wait at the front only.
Good(cfg) ==
    /\ cfg \in RestartConfig
    /\ \A m \in MSPIDs : OnlyFrontWaitsIn(cfg.Queues[m])

-----------------------------------------------------------------------------
(* The operations on a copy of the map                                     *)

\* The set of the elements of q at some of its positions is finite, and is
\* counted at most once per position (optimizeRestart builds its map so).
LEMMA ImageOfPositions ==
    ASSUME NEW n \in Nat, NEW I \in SUBSET (1..n), NEW T, NEW f \in [I -> T]
    PROVE  /\ IsFiniteSet({f[x] : x \in I})
           /\ Cardinality({f[x] : x \in I}) \in Nat
           /\ Cardinality({f[x] : x \in I}) <= Cardinality(I)
  <1>1. IsFiniteSet(1..n)
    BY FS_Interval
  <1>2. IsFiniteSet(I)
    BY <1>1, FS_Subset
  <1>3. f \in Surjection(I, {f[x] : x \in I})
    BY DEF Surjection
  <1>4. QED
    BY <1>2, <1>3, FS_Surjection, FS_CardinalityType

\* An ordering of a finite set of components is a queue of that length.
LEMMA OrderingsAreQueues ==
    ASSUME NEW S, IsFiniteSet(S), S \subseteq Component, NEW s \in Orderings(S)
    PROVE  /\ s \in Seq(Component)
           /\ Len(s) = Cardinality(S)
           /\ \A i \in 1..Len(s) : s[i] \in S
  <1>1. Cardinality(S) \in Nat
    BY FS_CardinalityType
  <1>2. s \in [1..Cardinality(S) -> S]
    BY DEF Orderings
  <1>3. s \in Seq(S)
    BY <1>1, <1>2, SeqDef
  <1>4. s \in Seq(Component)
    BY <1>3, SeqMonotonic
  <1>5. Len(s) = Cardinality(S)
    BY <1>1, <1>2, <1>3
  <1>6. QED
    BY <1>2, <1>4, <1>5

\* The entries optimizeRestart leaves waiting are components that wait, and
\* at most one of them when only the front of the queue waits.
LEMMA WaitingEntriesFacts ==
    ASSUME NEW q \in Seq(Component), OnlyFrontWaitsIn(q)
    PROVE  /\ IsFiniteSet(WaitingEntries(q))
           /\ WaitingEntries(q) \subseteq {e \in Component : e.Status = "waiting"}
           /\ Cardinality(WaitingEntries(q)) <= 1
  <1> DEFINE I == {k \in 1..Len(q) :
                     /\ Waits(q, k)
                     /\ \A j \in (k+1)..Len(q) :
                            ~(Waits(q, j) /\ q[j].CRName = q[k].CRName)}
             f == [i \in I |-> q[i]]
  <1>1. Len(q) \in Nat /\ \A i \in 1..Len(q) : q[i] \in Component
    BY LenProperties, ElementOfSeq
  <1>2. I \in SUBSET (1..Len(q))
    OBVIOUS
  <1>3. WaitingEntries(q) = {f[i] : i \in I}
    BY DEF WaitingEntries
  <1>4. f \in [I -> Component]
    BY <1>1
  <1>5. /\ IsFiniteSet({f[i] : i \in I})
        /\ Cardinality({f[i] : i \in I}) \in Nat
        /\ Cardinality({f[i] : i \in I}) <= Cardinality(I)
    <2> HIDE DEF I, f
    <2> QED BY <1>1, <1>2, <1>4, ImageOfPositions
  <1>6. I \subseteq {1}
    BY <1>1 DEF OnlyFrontWaitsIn, Waits
  <1>7. Cardinality(I) \in Nat /\ Cardinality(I) <= 1
    <2> HIDE DEF I
    <2>1. IsFiniteSet({1}) /\ Cardinality({1}) = 1
      BY FS_Singleton
    <2> QED BY <1>6, <2>1, FS_Subset, FS_CardinalityType
  <1>8. Cardinality(WaitingEntries(q)) <= 1
    <2> HIDE DEF I, f
    <2> QED BY <1>3, <1>5, <1>7
  <1>9. \A i \in I : q[i] \in Component /\ q[i].Status = "waiting"
    BY <1>1 DEF Waits
  <1> QED
    BY <1>3, <1>5, <1>8, <1>9

\* The merged entries are finitely many pending components.
LEMMA MergedEntriesFacts ==
    ASSUME NEW q \in Seq(Component)
    PROVE  /\ IsFiniteSet(MergedEntries(q))
           /\ MergedEntries(q) \subseteq {e \in Component : e.Status = "pending"}
  <1> DEFINE I == {k \in 1..Len(q) : ~Waits(q, k)}
             f == [i \in I |-> MergedEntry(q, q[i].CRName)]
  <1>1. Len(q) \in Nat /\ \A i \in 1..Len(q) : q[i] \in Component
    BY LenProperties, ElementOfSeq
  <1>2. I \in SUBSET (1..Len(q)) /\ f \in [I -> {MergedEntry(q, q[i].CRName) : i \in I}]
    OBVIOUS
  <1>3. MergedEntries(q) = {f[i] : i \in I}
    BY DEF MergedEntries
  <1>4. IsFiniteSet({f[i] : i \in I})
    <2> HIDE DEF I, f
    <2> QED BY <1>1, <1>2, ImageOfPositions
  <1>5. ASSUME NEW c \in CRs
        PROVE  MergedEntry(q, c) \in Component /\ MergedEntry(q, c).Status = "pending"
    <2>1. UNION {q[i].Reason : i \in {k \in 1..Len(q) : ~Waits(q, k) /\ q[k].CRName = c}}
            \in SUBSET Requests
      BY <1>1 DEF Component
    <2> QED BY <2>1 DEF MergedEntry, Component, Statuses
  <1>6. \A i \in I : q[i].CRName \in CRs
    BY <1>1 DEF Component
  <1>7. \A i \in I : f[i] \in Component /\ f[i].Status = "pending"
    BY <1>5, <1>6
  <1> QED
    BY <1>3, <1>4, <1>7

\* One queue, merged: still well typed, still waiting at the front only.
LEMMA OptimizedQueueIsGood ==
    ASSUME NEW q \in Seq(Component), OnlyFrontWaitsIn(q), NEW s \in OptimizedQueues(q)
    PROVE  s \in Seq(Component) /\ OnlyFrontWaitsIn(s)
  <1>1. PICK w \in Orderings(WaitingEntries(q)), p \in Orderings(MergedEntries(q)) : s = w \o p
    BY DEF OptimizedQueues
  <1>2. /\ w \in Seq(Component) /\ Len(w) <= 1
        /\ \A i \in 1..Len(w) : w[i].Status = "waiting"
    <2>1. WaitingEntries(q) \subseteq Component
      BY WaitingEntriesFacts
    <2> QED BY <2>1, WaitingEntriesFacts, OrderingsAreQueues
  <1>3. /\ p \in Seq(Component)
        /\ \A i \in 1..Len(p) : p[i].Status = "pending"
    <2>1. MergedEntries(q) \subseteq Component
      BY MergedEntriesFacts
    <2> QED BY <2>1, MergedEntriesFacts, OrderingsAreQueues
  <1>4. /\ s \in Seq(Component)
        /\ Len(s) = Len(w) + Len(p)
        /\ \A i \in 1..Len(s) : s[i] = IF i <= Len(w) THEN w[i] ELSE p[i - Len(w)]
    BY <1>1, <1>2, <1>3, ConcatProperties
  <1>5. Len(w) \in Nat /\ Len(p) \in Nat
    BY <1>2, <1>3, LenProperties
  <1>6. ASSUME NEW i \in 1..Len(s)
        PROVE  s[i].Status = "pending" \/ (i = 1 /\ s[i].Status = "waiting")
    <2>1. CASE i <= Len(w)
      BY <1>2, <1>4, <1>5, <2>1
    <2>2. CASE ~(i <= Len(w))
      <3>1. i - Len(w) \in 1..Len(p) /\ s[i] = p[i - Len(w)]
        BY <1>4, <1>5, <2>2
      <3> QED BY <1>3, <3>1
    <2> QED BY <2>1, <2>2
  <1> QED
    BY <1>4, <1>6 DEF OnlyFrontWaitsIn

\* optimizeRestart keeps the map good.
LEMMA OptimizeIsGood ==
    ASSUME NEW cfg, Good(cfg), NEW new \in optimizeRestart(cfg)
    PROVE  Good(new)
  <1>1. PICK qs \in [MSPIDs -> UNION {OptimizedQueues(cfg.Queues[m]) : m \in MSPIDs}] :
            /\ new = [cfg EXCEPT !.Queues = qs]
            /\ \A m \in MSPIDs : qs[m] \in OptimizedQueues(cfg.Queues[m])
    BY DEF optimizeRestart
  <1>2. \A m \in MSPIDs : cfg.Queues[m] \in Seq(Component) /\ OnlyFrontWaitsIn(cfg.Queues[m])
    BY DEF Good, RestartConfig
  <1>3. \A m \in MSPIDs : qs[m] \in Seq(Component) /\ OnlyFrontWaitsIn(qs[m])
    BY <1>1, <1>2, OptimizedQueueIsGood
  <1>4. qs \in [MSPIDs -> Seq(Component)]
    BY <1>3
  <1> QED
    BY <1>1, <1>3, <1>4 DEF Good, RestartConfig

\* addToQueue keeps the map good.
LEMMA AddIsGood ==
    ASSUME NEW cfg, Good(cfg), NEW r \in Requests
    PROVE  Good(AddToQueue(cfg, MSPOf[CROf[r]], NewComponent(r)))
  <1> DEFINE e == NewComponent(r)
             m == MSPOf[CROf[r]]
             q == cfg.Queues[m]
  <1>1. e \in Component /\ e.Status = "pending" /\ m \in MSPIDs
    BY ConstantsOK DEF NewComponent, Component, Statuses
  <1>2. q \in Seq(Component) /\ OnlyFrontWaitsIn(q)
    BY <1>1 DEF Good, RestartConfig
  <1>3. Append(q, e) \in Seq(Component) /\ OnlyFrontWaitsIn(Append(q, e))
    <2> HIDE DEF e, q
    <2> QED BY <1>1, <1>2, AppendProperties, LenProperties DEF OnlyFrontWaitsIn
  <1>4. AddToQueue(cfg, m, e) = [cfg EXCEPT !.Queues = [cfg.Queues EXCEPT ![m] = Append(q, e)]]
    BY DEF AddToQueue
  <1>5. Good(AddToQueue(cfg, m, e))
    <2> HIDE DEF e, m
    <2> QED BY <1>1, <1>3, <1>4 DEF Good, RestartConfig
  <1> QED
    BY <1>5

\* Finishing the front entry keeps the map good and touches one queue only.
LEMMA MoveIsGood ==
    ASSUME NEW cfg, Good(cfg), NEW m \in MSPIDs, cfg.Queues[m] # <<>>,
           NEW status \in Statuses
    PROVE  /\ Good(MoveToLog(cfg, m, status))
           /\ \A n \in MSPIDs \ {m} : MoveToLog(cfg, m, status).Queues[n] = cfg.Queues[n]
  <1> DEFINE q == cfg.Queues[m]
             e == [Head(q) EXCEPT !.Status = status]
  <1>1. q \in Seq(Component) /\ q # <<>> /\ OnlyFrontWaitsIn(q)
    BY DEF Good, RestartConfig
  <1>2. Head(q) \in Component /\ Tail(q) \in Seq(Component)
    BY <1>1, HeadTailProperties
  <1>3. e \in Component
    BY <1>2 DEF Component
  <1>4. OnlyFrontWaitsIn(Tail(q))
    <2>1. /\ Len(q) \in Nat /\ Len(Tail(q)) = Len(q) - 1
          /\ \A i \in 1..Len(Tail(q)) : Tail(q)[i] = q[i + 1]
      <3> HIDE DEF q
      <3> QED BY <1>1, HeadTailProperties, LenProperties
    <2> QED BY <1>1, <2>1 DEF OnlyFrontWaitsIn
  <1>5. MoveToLog(cfg, m, status)
          = [cfg EXCEPT !.Log = cfg.Log \cup {e},
                        !.Queues = [cfg.Queues EXCEPT ![m] = Tail(q)]]
    BY DEF MoveToLog, PopFromQueue, AddToLog, Good, RestartConfig
  <1> DEFINE queues == [cfg.Queues EXCEPT ![m] = Tail(q)]
             log == cfg.Log \cup {e}
  <1>6. /\ queues \in [MSPIDs -> Seq(Component)] /\ queues[m] = Tail(q)
        /\ \A n \in MSPIDs \ {m} : queues[n] = cfg.Queues[n]
    <2>1. cfg.Queues \in [MSPIDs -> Seq(Component)]
      BY DEF Good, RestartConfig
    <2> HIDE DEF q
    <2> QED BY <1>2, <2>1
  <1>7. log \in SUBSET Component /\ cfg \in RestartConfig
    BY <1>3 DEF Good, RestartConfig
  <1>8. MoveToLog(cfg, m, status) = [cfg EXCEPT !.Log = log, !.Queues = queues]
    BY <1>5
  <1> HIDE DEF e, q, queues, log
  <1>9. MoveToLog(cfg, m, status) \in RestartConfig /\ MoveToLog(cfg, m, status).Queues = queues
    BY <1>6, <1>7, <1>8 DEF RestartConfig
  <1> QED
    BY <1>4, <1>6, <1>9 DEF Good

\* Replacing the front entry by one that is pending or waits keeps the map
\* good and touches one queue only, which stays non-empty.
LEMMA WithFrontIsGood ==
    ASSUME NEW cfg, Good(cfg), NEW m \in MSPIDs, cfg.Queues[m] # <<>>,
           NEW e \in Component, e.Status \in {"pending", "waiting"}
    PROVE  /\ Good(WithFront(cfg, m, e))
           /\ WithFront(cfg, m, e).Queues[m] # <<>>
           /\ \A n \in MSPIDs \ {m} : WithFront(cfg, m, e).Queues[n] = cfg.Queues[n]
  <1> DEFINE q == cfg.Queues[m]
             new == [q EXCEPT ![1] = e]
  <1>1. q \in Seq(Component) /\ OnlyFrontWaitsIn(q)
    BY DEF Good, RestartConfig
  <1>2. Len(q) \in Nat \ {0}
    BY <1>1, EmptySeq
  <1>3. /\ new \in Seq(Component)
        /\ Len(new) = Len(q)
        /\ \A i \in 1..Len(q) : new[i] = IF i = 1 THEN e ELSE q[i]
    <2> HIDE DEF q
    <2> QED BY <1>1, <1>2, ExceptSeq
  <1>4. OnlyFrontWaitsIn(new) /\ new # <<>>
    <2>1. OnlyFrontWaitsIn(new)
      BY <1>1, <1>3 DEF OnlyFrontWaitsIn
    <2>2. new # <<>>
      <3> HIDE DEF q, new
      <3> QED BY <1>2, <1>3, EmptySeq
    <2> QED BY <2>1, <2>2
  <1> DEFINE queues == [cfg.Queues EXCEPT ![m] = new]
  <1>5. WithFront(cfg, m, e) = [cfg EXCEPT !.Queues = queues]
    BY DEF WithFront
  <1> HIDE DEF new, q
  <1>6. /\ queues \in [MSPIDs -> Seq(Component)] /\ queues[m] = new
        /\ \A n \in MSPIDs \ {m} : queues[n] = cfg.Queues[n]
    <2>1. cfg.Queues \in [MSPIDs -> Seq(Component)]
      BY DEF Good, RestartConfig
    <2> QED BY <1>3, <2>1
  <1> HIDE DEF queues
  <1>7. WithFront(cfg, m, e) \in RestartConfig /\ WithFront(cfg, m, e).Queues = queues
    BY <1>5, <1>6 DEF Good, RestartConfig
  <1> QED
    BY <1>4, <1>6, <1>7 DEF Good

\* The empty map is good.
LEMMA EmptyIsGood == Good(EmptyConfig)
  BY EmptySeq DEF Good, EmptyConfig, RestartConfig, OnlyFrontWaitsIn

-----------------------------------------------------------------------------
(* The inductive invariant                                                 *)

AllGood ==
    /\ Good(cm)
    /\ Good(cache)
    /\ Good(worker.cfg)
    /\ \A r \in Requests : Good(adder[r].cfg)

\* Without a pending watch event the cache is up to date.
CacheFresh == ~dirty => cache = cm

\* The loop has only non-empty queues before it.
TodoNonEmpty == worker.todo \subseteq NonEmpty(worker.cfg)

\* A call that has changed nothing, while nobody has been woken since it
\* started, has the entries of the stored map before it.
SeesAll ==
    worker.pc # "idle" /\ ~dirty /\ ~work /\ ~worker.updated
        => NonEmpty(cm) \subseteq NonEmpty(worker.cfg)

\* The loop passes over no entry without a write or a requeue to come.
SkipsNone ==
    worker.pc = "loop" /\ ~worker.updated /\ ~worker.requeue
        => NonEmpty(worker.cfg) \subseteq worker.todo

Scheduling == CacheFresh /\ TodoNonEmpty /\ SeesAll /\ SkipsNone /\ NoStall

IInv == TypeOK /\ AllGood /\ Scheduling

-----------------------------------------------------------------------------
(* What the actions have in common                                         *)

\* Marking copies as outdated leaves their contents alone.
LEMMA OutdatedKeepsCopies ==
    ASSUME TypeOK, NEW rs
    PROVE  /\ OtherAddersOutdated(rs) \in [Requests -> Adder]
           /\ \A r \in Requests : OtherAddersOutdated(rs)[r].cfg = adder[r].cfg
  BY DEF TypeOK, OtherAddersOutdated, Adder

\* The count of faults stays within its bound.
LEMMA FaultsBounded ==
    ASSUME TypeOK, NEW failing \in BOOLEAN, Fault(failing)
    PROVE  faults' \in 0..MaxFaults
  BY ConstantsOK DEF TypeOK, Fault

\* Mishaps are only ever recorded by name.
LEMMA MishapsTyped ==
    /\ \A fresh : Blame(fresh) \subseteq Mishaps
    /\ \A m, c : Blind(m, c) \subseteq Mishaps
    /\ Undone \subseteq Mishaps
  BY DEF Blame, Blind, Undone, Mishaps

\* The idle worker's record.
LEMMA IdleWorkerFacts ==
    /\ IdleWorker \in Worker
    /\ IdleWorker.pc = "idle" /\ IdleWorker.todo = {}
    /\ Good(IdleWorker.cfg)
  BY EmptyIsGood DEF IdleWorker, Worker, Good

\* The front entry the worker looks at.
LEMMA FrontFacts ==
    ASSUME IInv, NEW m \in MSPIDs, NEW status, AtFront(m, status)
    PROVE  /\ worker.pc = "loop" /\ m \in worker.todo
           /\ worker.cfg.Queues[m] # <<>>
           /\ Front(m) \in Component /\ Front(m).Status = status
           /\ Front(m).CRName \in CRs
  <1>1. worker.cfg.Queues[m] # <<>> /\ worker.cfg.Queues[m] \in Seq(Component)
    BY DEF IInv, Scheduling, TodoNonEmpty, NonEmpty, AtFront, AllGood, Good, RestartConfig
  <1>2. Front(m) \in Component
    BY <1>1, HeadTailProperties DEF Front
  <1> QED
    BY <1>1, <1>2 DEF AtFront, Component

\* A step that leaves the map, its cached copy and all calls alone.
LEMMA ClusterStepKeeps ==
    ASSUME IInv, UNCHANGED <<cm, cache, dirty, work, worker, adder>>
    PROVE  AllGood' /\ Scheduling'
  BY DEF IInv, AllGood, Scheduling, CacheFresh, TodoNonEmpty, SeesAll, SkipsNone,
         NoStall, Good, NonEmpty

\* A queue is done with and the map is to be written.
LEMMA HandledKeeps ==
    ASSUME IInv, NEW m \in MSPIDs, NEW status, AtFront(m, status),
           UNCHANGED <<cm, cache, dirty, work, adder>>,
           NEW cfg, Good(cfg),
           \A n \in MSPIDs \ {m} : cfg.Queues[n] = worker.cfg.Queues[n],
           NEW patched \in BOOLEAN,
           worker' = [Handled(m, cfg) EXCEPT !.patched = patched]
    PROVE  worker' \in Worker /\ AllGood' /\ Scheduling'
  <1>1. worker \in Worker /\ worker.pc = "loop" /\ cfg \in RestartConfig
    BY DEF IInv, TypeOK, AtFront, Good
  <1>2. /\ worker' \in Worker
        /\ worker'.cfg = cfg /\ worker'.pc = "loop" /\ worker'.updated
        /\ worker'.todo = worker.todo \ {m}
    BY <1>1 DEF Handled, Worker
  <1>3. AllGood'
    BY <1>2 DEF IInv, AllGood, Good
  <1>4. TodoNonEmpty'
    BY <1>2 DEF IInv, Scheduling, TodoNonEmpty, NonEmpty
  <1> QED
    BY <1>2, <1>3, <1>4 DEF IInv, Scheduling, CacheFresh, SeesAll, SkipsNone, NoStall

\* Somebody writes the map: the watch will wake the worker.
LEMMA WriteKeeps ==
    ASSUME IInv, Good(cm'), dirty', UNCHANGED cache,
           Good(worker'.cfg), TodoNonEmpty', SkipsNone',
           \A r \in Requests : Good(adder'[r].cfg)
    PROVE  AllGood' /\ Scheduling'
  BY DEF IInv, AllGood, Scheduling, CacheFresh, SeesAll, NoStall, Good

\* The call ends and the request goes back to the work queue.
LEMMA RequeuedKeeps ==
    ASSUME IInv, UNCHANGED cm, worker' = IdleWorker, work', CacheFresh', Good(cache'),
           \A r \in Requests : Good(adder'[r].cfg)
    PROVE  AllGood' /\ Scheduling'
  BY IdleWorkerFacts DEF IInv, AllGood, Scheduling, TodoNonEmpty, SeesAll, SkipsNone,
     NoStall, Good

-----------------------------------------------------------------------------
(* The steps                                                               *)

LEMMA InitIInv == Init => IInv
  <1> SUFFICES ASSUME Init PROVE IInv
    OBVIOUS
  <1>1. TypeOK
    <2>1. NotStarted \in Adder /\ EmptyConfig \in RestartConfig
      BY EmptyIsGood DEF NotStarted, Adder, Good
    <2>2. adder \in [Requests -> Adder]
      BY <2>1 DEF Init
    <2>3. pod \in [CRs -> Pod \cup {NoPod}]
      BY DEF Init, Pod
    <2>4. faults \in 0..MaxFaults /\ rolling \in [CRs -> BOOLEAN] /\ dep \in [CRs -> BOOLEAN]
      BY ConstantsOK DEF Init
    <2> QED BY <2>1, <2>2, <2>3, <2>4, IdleWorkerFacts DEF Init, TypeOK
  <1>2. AllGood
    BY EmptyIsGood, IdleWorkerFacts DEF Init, AllGood, NotStarted
  <1>3. Scheduling
    BY IdleWorkerFacts DEF Init, Scheduling, CacheFresh, TodoNonEmpty, SeesAll, SkipsNone,
       NoStall, NonEmpty, EmptyConfig
  <1> QED
    BY <1>1, <1>2, <1>3 DEF IInv

\* AddToQueue, whatever the copy it works on.
LEMMA AddStepKeeps ==
    ASSUME IInv, NEW r \in Requests,
           AddGetConfig(r) \/ AddUpdateConfig(r) \/ AddTimeout(r)
    PROVE  IInv'
  <1> USE DEF IInv
  <1>0. Ended \in Adder /\ Good(Ended.cfg)
    BY EmptyIsGood DEF Ended, Adder, Good
  <1>1. CASE AddGetConfig(r)
    <2>1. adder' \in [Requests -> Adder] /\ \A s \in Requests : Good(adder'[s].cfg)
      BY <1>1 DEF AddGetConfig, TypeOK, AllGood, Adder
    <2>2. TypeOK'
      BY <1>1, <2>1 DEF AddGetConfig, TypeOK, clusterVars
    <2>3. AllGood'
      BY <1>1, <2>1 DEF AddGetConfig, AllGood, Good
    <2>4. Scheduling'
      BY <1>1 DEF AddGetConfig, Scheduling, CacheFresh, TodoNonEmpty, SeesAll, SkipsNone,
         NoStall, NonEmpty
    <2> QED BY <2>2, <2>3, <2>4
  <1>2. CASE AddUpdateConfig(r)
    <2>1. Good(cm')
      BY <1>2, AddIsGood DEF AddUpdateConfig, AllGood
    <2>2. adder' \in [Requests -> Adder] /\ \A s \in Requests : Good(adder'[s].cfg)
      BY <1>0, <1>2, OutdatedKeepsCopies DEF AddUpdateConfig, AllGood
    <2>3. /\ worker' \in Worker /\ worker'.cfg = worker.cfg /\ worker'.todo = worker.todo
          /\ worker'.pc = worker.pc /\ worker'.updated = worker.updated
          /\ worker'.requeue = worker.requeue
      BY <1>2 DEF AddUpdateConfig, TypeOK, Worker
    <2>4. TypeOK'
      BY <1>2, <2>1, <2>2, <2>3, MishapsTyped DEF AddUpdateConfig, TypeOK, clusterVars, Good
    <2>5. TodoNonEmpty' /\ SkipsNone'
      BY <2>3 DEF Scheduling, TodoNonEmpty, SkipsNone, NonEmpty
    <2>6. Good(worker'.cfg)
      BY <2>3 DEF AllGood
    <2>7. dirty' /\ UNCHANGED cache
      BY <1>2 DEF AddUpdateConfig
    <2>8. AllGood' /\ Scheduling'
      BY <2>1, <2>2, <2>5, <2>6, <2>7, WriteKeeps
    <2> QED BY <2>4, <2>8
  <1>3. CASE AddTimeout(r)
    <2>1. adder' \in [Requests -> Adder] /\ \A s \in Requests : Good(adder'[s].cfg)
      BY <1>0, <1>3 DEF AddTimeout, TypeOK, AllGood
    <2>2. TypeOK'
      BY <1>3, <2>1 DEF AddTimeout, TypeOK, clusterVars
    <2>3. AllGood'
      BY <1>3, <2>1 DEF AddTimeout, AllGood, Good
    <2>4. Scheduling'
      BY <1>3 DEF AddTimeout, Scheduling, CacheFresh, TodoNonEmpty, SeesAll, SkipsNone,
         NoStall, NonEmpty
    <2> QED BY <2>2, <2>3, <2>4
  <1> QED
    BY <1>1, <1>2, <1>3

\* The front of one queue.
LEMMA FrontStepKeeps ==
    ASSUME IInv, NEW m \in MSPIDs, FrontStep(m)
    PROVE  IInv'
  <1> USE DEF IInv
  <1>1. CASE FrontPendingLook(m)
    <2>1. PICK seen \in {NoPod, RunningPod(Front(m).CRName)} :
             /\ Fault(seen # RunningPod(Front(m).CRName))
             /\ worker' = [worker EXCEPT !.looked = {m},
                    !.cfg = IF seen = NoPod THEN @
                            ELSE WithFront(@, m, [Front(m) EXCEPT !.PodName = seen])]
      BY <1>1 DEF FrontPendingLook
    <2> DEFINE e == [Front(m) EXCEPT !.PodName = seen]
               cfg == IF seen = NoPod THEN worker.cfg ELSE WithFront(worker.cfg, m, e)
    <2>2. /\ AtFront(m, "pending")
          /\ UNCHANGED <<cm, cache, dirty, work, adder, dep, pod, accepted, rolling, mishaps>>
      BY <1>1 DEF FrontPendingLook, clusterVars
    <2>3. /\ Front(m) \in Component /\ Front(m).Status = "pending" /\ Front(m).CRName \in CRs
          /\ worker.cfg.Queues[m] # <<>> /\ worker.pc = "loop"
      BY <2>2, FrontFacts
    <2>4. seen \in PodNames \cup {NoPod}
      BY <2>1, <2>3 DEF RunningPod, TypeOK, Pod
    <2>5. e \in Component /\ e.Status = "pending"
      BY <2>3, <2>4 DEF Component
    <2>6. Good(cfg) /\ NonEmpty(cfg) = NonEmpty(worker.cfg)
      <3> HIDE DEF e
      <3>1. Good(worker.cfg)
        BY DEF AllGood
      <3>2. /\ Good(WithFront(worker.cfg, m, e))
            /\ WithFront(worker.cfg, m, e).Queues[m] # <<>>
            /\ \A n \in MSPIDs \ {m} : WithFront(worker.cfg, m, e).Queues[n] = worker.cfg.Queues[n]
        BY <2>3, <2>5, <3>1, WithFrontIsGood
      <3>3. NonEmpty(WithFront(worker.cfg, m, e)) = NonEmpty(worker.cfg)
        BY <2>3, <3>2 DEF NonEmpty
      <3> QED BY <3>1, <3>2, <3>3
    <2>7. worker' = [worker EXCEPT !.looked = {m}, !.cfg = cfg]
      BY <2>1
    <2> HIDE DEF cfg
    <2>8. /\ worker' \in Worker /\ worker'.cfg = cfg /\ worker'.pc = "loop"
          /\ worker'.todo = worker.todo /\ worker'.updated = worker.updated
          /\ worker'.requeue = worker.requeue
      BY <2>3, <2>6, <2>7 DEF TypeOK, Worker, Good
    <2>9. faults' \in 0..MaxFaults
      BY <2>1, FaultsBounded
    <2>10. TypeOK'
      BY <2>2, <2>8, <2>9 DEF TypeOK
    <2>11. AllGood'
      BY <2>2, <2>6, <2>8 DEF AllGood, Good
    <2>12. Scheduling'
      <3>1. CacheFresh' /\ NoStall'
        BY <2>2, <2>8 DEF Scheduling, CacheFresh, NoStall
      <3>2. NonEmpty(worker'.cfg) = NonEmpty(worker.cfg) /\ NonEmpty(cm') = NonEmpty(cm)
        BY <2>2, <2>6, <2>8
      <3>3. TodoNonEmpty' /\ SeesAll' /\ SkipsNone'
        BY <2>2, <2>3, <2>8, <3>2 DEF Scheduling, TodoNonEmpty, SeesAll, SkipsNone, NonEmpty
      <3> QED BY <3>1, <3>3 DEF Scheduling
    <2> QED BY <2>10, <2>11, <2>12
  <1>2. CASE FrontPendingRestart(m)
    <2> DEFINE e == [Front(m) EXCEPT !.Status = "waiting"]
               cfg == WithFront(worker.cfg, m, e)
    <2>1. /\ AtFront(m, "pending")
          /\ UNCHANGED <<cm, cache, dirty, work, adder, dep, accepted, faults>>
          /\ worker' = [Handled(m, cfg) EXCEPT !.patched = TRUE]
      BY <1>2 DEF FrontPendingRestart
    <2>2. /\ Front(m) \in Component /\ Front(m).CRName \in CRs
          /\ worker.cfg.Queues[m] # <<>>
      BY <2>1, FrontFacts
    <2>3. e \in Component /\ e.Status = "waiting"
      BY <2>2 DEF Component, Statuses
    <2>4. Good(cfg) /\ \A n \in MSPIDs \ {m} : cfg.Queues[n] = worker.cfg.Queues[n]
      <3> HIDE DEF e
      <3> QED BY <2>2, <2>3, WithFrontIsGood DEF AllGood
    <2> HIDE DEF cfg
    <2>5. worker' \in Worker /\ AllGood' /\ Scheduling'
      <3>1. UNCHANGED <<cm, cache, dirty, work, adder>>
        BY <2>1
      <3>2. TRUE \in BOOLEAN
        OBVIOUS
      <3> QED BY <2>1, <2>4, <3>1, <3>2, HandledKeeps, Zenon
    <2>6. pod' \in [CRs -> Pod \cup {NoPod}] /\ rolling' \in [CRs -> BOOLEAN]
      <3> DEFINE c == Front(m).CRName
                 q == IF pod[c] = NoPod THEN pod[c] ELSE [pod[c] EXCEPT !.current = FALSE]
      <3>1. pod \in [CRs -> Pod \cup {NoPod}] /\ rolling \in [CRs -> BOOLEAN]
        BY DEF IInv, TypeOK
      <3>2. pod' = [pod EXCEPT ![c] = q] /\ rolling' = [rolling EXCEPT ![c] = TRUE]
        BY <1>2 DEF FrontPendingRestart
      <3>3. q \in Pod \cup {NoPod}
        BY <2>2, <3>1 DEF Pod
      <3> HIDE DEF q
      <3>4. pod' \in [CRs -> Pod \cup {NoPod}]
        BY <3>1, <3>2, <3>3
      <3>5. rolling' \in [CRs -> BOOLEAN]
        BY <3>1, <3>2
      <3> QED BY <3>4, <3>5
    <2>7. mishaps' \in SUBSET Mishaps
      BY <1>2, MishapsTyped DEF FrontPendingRestart, TypeOK
    <2>8. TypeOK'
      BY <2>1, <2>5, <2>6, <2>7 DEF TypeOK
    <2> QED BY <2>5, <2>8
  <1>3. CASE FrontPendingDeleted(m) \/ FrontWaitingCompleted(m) \/ FrontWaitingExpired(m)
    <2>1. PICK status \in {"pending", "waiting"}, final \in {"deleted", "completed", "expired"} :
             /\ AtFront(m, status)
             /\ worker' = Handled(m, MoveToLog(worker.cfg, m, final))
      BY <1>3 DEF FrontPendingDeleted, FrontWaitingCompleted, FrontWaitingExpired
    <2> DEFINE cfg == MoveToLog(worker.cfg, m, final)
    <2>2. UNCHANGED <<cm, cache, dirty, work, adder, dep, pod, accepted>>
      BY <1>3 DEF FrontPendingDeleted, FrontWaitingCompleted, FrontWaitingExpired, clusterVars
    <2>3. worker.cfg.Queues[m] # <<>> /\ Front(m).CRName \in CRs
      BY <2>1, FrontFacts
    <2>4. final \in Statuses
      BY DEF Statuses
    <2>5. Good(cfg) /\ \A n \in MSPIDs \ {m} : cfg.Queues[n] = worker.cfg.Queues[n]
      BY <2>3, <2>4, MoveIsGood DEF AllGood
    <2> HIDE DEF cfg
    <2>6. worker' = [Handled(m, cfg) EXCEPT !.patched = worker.patched] /\ worker.patched \in BOOLEAN
      BY <2>1 DEF cfg, Handled, TypeOK, Worker
    <2>7. worker' \in Worker /\ AllGood' /\ Scheduling'
      BY <2>1, <2>2, <2>5, <2>6, HandledKeeps
    <2>8. faults' \in 0..MaxFaults
      <3>1. dep[Front(m).CRName] \in BOOLEAN /\ HasRestarted(m) \in BOOLEAN
        BY <2>3 DEF TypeOK, HasRestarted
      <3>2. \/ faults' = faults
            \/ \E failing \in BOOLEAN : Fault(failing)
        BY <1>3, <3>1 DEF FrontPendingDeleted, FrontWaitingCompleted, FrontWaitingExpired
      <3> QED BY <3>2, FaultsBounded DEF TypeOK
    <2>9. mishaps' \in SUBSET Mishaps /\ rolling' \in [CRs -> BOOLEAN]
      BY <1>3 DEF FrontPendingDeleted, FrontWaitingCompleted, FrontWaitingExpired, TypeOK, Mishaps
    <2>10. TypeOK'
      BY <2>2, <2>7, <2>8, <2>9 DEF TypeOK
    <2> QED BY <2>7, <2>10
  <1>4. CASE FrontWaitingRecheck(m)
    <2>1. /\ AtFront(m, "waiting")
          /\ Fault(HasRestarted(m))
          /\ UNCHANGED <<cm, cache, dirty, work, adder, dep, pod, accepted, rolling, mishaps>>
      BY <1>4 DEF FrontWaitingRecheck, clusterVars
    <2>2. faults' \in 0..MaxFaults
      BY <2>1, FaultsBounded DEF HasRestarted
    <2>3. worker' \in Worker /\ AllGood' /\ Scheduling'
      <3>1. CASE worker' = Handled(m, worker.cfg)
        <4>1. worker' = [Handled(m, worker.cfg) EXCEPT !.patched = worker.patched]
                /\ worker.patched \in BOOLEAN
          BY <3>1 DEF Handled, TypeOK, Worker
        <4> QED BY <2>1, <4>1, HandledKeeps DEF AllGood
      <3>2. CASE worker' = [worker EXCEPT !.todo = @ \ {m}, !.requeue = TRUE]
        <4>1. /\ worker' \in Worker /\ worker'.cfg = worker.cfg /\ worker'.pc = worker.pc
              /\ worker'.todo = worker.todo \ {m} /\ worker'.updated = worker.updated
              /\ worker'.requeue
          BY <3>2 DEF TypeOK, Worker
        <4>2. AllGood'
          BY <2>1, <4>1 DEF AllGood, Good
        <4>3. Scheduling'
          BY <2>1, <4>1 DEF Scheduling, CacheFresh, TodoNonEmpty, SeesAll, SkipsNone,
             NoStall, NonEmpty
        <4> QED BY <4>1, <4>2, <4>3
      <3> QED BY <1>4, <3>1, <3>2 DEF FrontWaitingRecheck
    <2>4. TypeOK'
      BY <2>1, <2>2, <2>3 DEF TypeOK
    <2> QED BY <2>3, <2>4
  <1> QED
    BY <1>1, <1>2, <1>3, <1>4 DEF FrontStep

\* The Reconcile call as a whole, and the operator around it.
LEMMA ReconcileStepKeeps ==
    ASSUME IInv,
           \/ ReconcileStart \/ ReconcileOptimize \/ ReconcileEnd
           \/ ReconcileError \/ OperatorRestart \/ WatchEvent
    PROVE  IInv'
  <1> USE DEF IInv
  <1>1. CASE ReconcileStart
    <2>1. /\ worker' \in Worker /\ worker'.cfg = cache /\ worker'.todo = NonEmpty(cache)
          /\ worker'.pc \in {"optimize", "loop"} /\ ~worker'.updated
      BY <1>1 DEF ReconcileStart, TypeOK, Worker, NonEmpty
    <2>2. UNCHANGED <<cm, cache, dirty, adder, dep, pod, accepted, rolling, mishaps, faults>>
      BY <1>1 DEF ReconcileStart, clusterVars
    <2>3. TypeOK'
      BY <1>1, <2>1, <2>2 DEF ReconcileStart, TypeOK
    <2>4. AllGood'
      BY <2>1, <2>2 DEF AllGood, Good
    <2>5. Scheduling'
      BY <2>1, <2>2 DEF Scheduling, CacheFresh, TodoNonEmpty, SeesAll, SkipsNone, NoStall, NonEmpty
    <2> QED BY <2>3, <2>4, <2>5
  <1>2. CASE ReconcileOptimize
    <2>1. PICK cfg \in optimizeRestart(worker.cfg) :
             /\ cm' = cfg
             /\ worker' = [worker EXCEPT !.pc = "loop", !.cfg = cfg,
                                         !.todo = NonEmpty(cfg), !.fresh = TRUE]
      BY <1>2 DEF ReconcileOptimize
    <2>2. Good(cfg)
      BY OptimizeIsGood DEF AllGood
    <2>3. /\ worker' \in Worker /\ worker'.cfg = cfg /\ worker'.todo = NonEmpty(cfg)
          /\ NonEmpty(cfg) \subseteq MSPIDs
      BY <2>1, <2>2 DEF TypeOK, Worker, Good, NonEmpty
    <2>4. adder' \in [Requests -> Adder] /\ \A r \in Requests : Good(adder'[r].cfg)
      BY <1>2, OutdatedKeepsCopies DEF ReconcileOptimize, AllGood
    <2>5. TypeOK'
      BY <1>2, <2>1, <2>2, <2>3, <2>4, MishapsTyped
      DEF ReconcileOptimize, TypeOK, clusterVars, Good
    <2>6. TodoNonEmpty' /\ SkipsNone'
      BY <2>3 DEF TodoNonEmpty, SkipsNone, NonEmpty
    <2>7. dirty' /\ UNCHANGED cache
      BY <1>2 DEF ReconcileOptimize
    <2>8. AllGood' /\ Scheduling'
      BY <2>1, <2>2, <2>3, <2>4, <2>6, <2>7, WriteKeeps
    <2> QED BY <2>5, <2>8
  <1>3. CASE ReconcileEnd
    <2>1. /\ worker.pc = "loop" /\ worker.todo = {}
          /\ work' = (work \/ worker.requeue) /\ worker' = IdleWorker
          /\ UNCHANGED <<cache, dep, pod, accepted, rolling, faults>>
      BY <1>3 DEF ReconcileEnd, clusterVars
    <2>2. worker.requeue \in BOOLEAN /\ worker.updated \in BOOLEAN
      BY DEF TypeOK, Worker
    <2>3. CASE worker.updated
      <3>1. /\ cm' = worker.cfg /\ dirty' = TRUE /\ adder' = OtherAddersOutdated({})
            /\ mishaps' = mishaps \cup Blame(worker.fresh)
        BY <1>3, <2>3 DEF ReconcileEnd
      <3>2. adder' \in [Requests -> Adder] /\ \A r \in Requests : Good(adder'[r].cfg)
        BY <3>1, OutdatedKeepsCopies DEF AllGood
      <3>3. TypeOK'
        BY <2>1, <2>2, <3>1, <3>2, MishapsTyped, IdleWorkerFacts DEF TypeOK, AllGood, Good
      <3>4. TodoNonEmpty' /\ SkipsNone' /\ Good(worker'.cfg)
        BY <2>1, IdleWorkerFacts DEF TodoNonEmpty, SkipsNone
      <3>5. AllGood' /\ Scheduling'
        BY <2>1, <3>1, <3>2, <3>4, WriteKeeps DEF AllGood
      <3> QED BY <3>3, <3>5
    <2>4. CASE ~worker.updated
      <3>1. UNCHANGED <<cm, dirty, adder, mishaps>>
        BY <1>3, <2>4 DEF ReconcileEnd
      <3>2. TypeOK'
        BY <2>1, <2>2, <3>1, IdleWorkerFacts DEF TypeOK
      <3>3. AllGood'
        BY <2>1, <3>1, IdleWorkerFacts DEF AllGood, Good
      \* Nothing was written: the stored queues are empty or the worker is woken.
      <3>4. NoStall'
        <4>1. SUFFICES ASSUME ~dirty, ~work, ~worker.requeue
                       PROVE  NonEmpty(cm) = {}
          BY <2>1, <3>1 DEF NoStall, NonEmpty
        <4>2. NonEmpty(worker.cfg) = {}
          BY <2>1, <2>4, <4>1 DEF Scheduling, SkipsNone
        <4> QED BY <2>1, <2>4, <4>1, <4>2 DEF Scheduling, SeesAll
      <3>5. Scheduling'
        BY <2>1, <3>1, <3>4, IdleWorkerFacts
        DEF Scheduling, CacheFresh, TodoNonEmpty, SeesAll, SkipsNone
      <3> QED BY <3>2, <3>3, <3>5
    <2> QED BY <2>2, <2>3, <2>4
  <1>4. CASE ReconcileError
    <2>1. /\ UNCHANGED <<cm, cache, dirty, adder, dep, pod, accepted, rolling>>
          /\ worker' = IdleWorker /\ work' = TRUE /\ Fault(TRUE)
          /\ mishaps' = mishaps \cup Undone
      BY <1>4 DEF ReconcileError, clusterVars
    <2>2. TypeOK'
      BY <2>1, IdleWorkerFacts, MishapsTyped, FaultsBounded DEF TypeOK
    <2>3. AllGood' /\ Scheduling'
      <3>1. CacheFresh' /\ Good(cache') /\ \A r \in Requests : Good(adder'[r].cfg)
        BY <2>1 DEF AllGood, Scheduling, CacheFresh
      <3> QED BY <2>1, <3>1, RequeuedKeeps
    <2> QED BY <2>2, <2>3
  <1>5. CASE OperatorRestart
    <2>1. /\ UNCHANGED <<cm, dep, pod, accepted, rolling>> /\ cache' = cm /\ dirty' = FALSE
          /\ worker' = IdleWorker /\ work' = TRUE /\ Fault(TRUE)
          /\ mishaps' = mishaps \cup Undone
      BY <1>5 DEF OperatorRestart, clusterVars
    <2>2. adder' \in [Requests -> Adder] /\ \A r \in Requests : Good(adder'[r].cfg)
      <3>1. Ended \in Adder /\ Good(Ended.cfg)
        BY EmptyIsGood DEF Ended, Adder, Good
      <3> QED BY <1>5, <3>1 DEF OperatorRestart, TypeOK, AllGood
    <2>3. TypeOK'
      BY <2>1, <2>2, IdleWorkerFacts, MishapsTyped, FaultsBounded DEF TypeOK
    <2>4. AllGood' /\ Scheduling'
      <3>1. CacheFresh' /\ Good(cache')
        BY <2>1 DEF AllGood, CacheFresh
      <3> QED BY <2>1, <2>2, <3>1, RequeuedKeeps
    <2> QED BY <2>3, <2>4
  <1>6. CASE WatchEvent
    <2>1. /\ UNCHANGED <<cm, worker, adder, dep, pod, accepted, rolling, mishaps, faults>>
          /\ cache' = cm /\ dirty' = FALSE /\ work' = TRUE
      BY <1>6 DEF WatchEvent, clusterVars
    <2>2. TypeOK'
      BY <2>1 DEF TypeOK
    <2>3. AllGood'
      BY <2>1 DEF AllGood, Good
    <2>4. Scheduling'
      BY <2>1 DEF Scheduling, CacheFresh, TodoNonEmpty, SeesAll, SkipsNone, NoStall, NonEmpty
    <2> QED BY <2>2, <2>3, <2>4
  <1> QED
    BY <1>1, <1>2, <1>3, <1>4, <1>5, <1>6

\* What the cluster does to pods and deployments.
LEMMA ClusterStepTyped ==
    ASSUME IInv, ClusterStep
    PROVE  IInv'
  <1>1. PICK c \in CRs : \/ PodStopped(c) \/ PodCreated(c) \/ PodReady(c)
                         \/ PodUnready(c) \/ DeploymentDeleted(c)
    BY DEF ClusterStep
  <1>2. UNCHANGED <<cm, cache, dirty, work, worker, adder, accepted, mishaps>>
    BY <1>1 DEF PodStopped, PodCreated, PodReady, PodUnready, DeploymentDeleted
  <1>3. AllGood' /\ Scheduling'
    BY <1>2, ClusterStepKeeps
  <1>4. /\ pod' \in [CRs -> Pod \cup {NoPod}]
        /\ dep' \in [CRs -> BOOLEAN] /\ rolling' \in [CRs -> BOOLEAN]
    <2>0. pod \in [CRs -> Pod \cup {NoPod}] /\ dep \in [CRs -> BOOLEAN]
            /\ rolling \in [CRs -> BOOLEAN]
      BY DEF IInv, TypeOK
    <2>1. CASE PodStopped(c)
      BY <2>0, <2>1 DEF PodStopped
    <2>2. CASE PodCreated(c)
      BY <2>0, <2>2 DEF PodCreated, Pod
    <2>3. CASE PodReady(c)
      BY <2>0, <2>3 DEF PodReady, Pod
    <2>4. CASE PodUnready(c)
      BY <2>0, <2>4 DEF PodUnready, Pod
    <2>5. CASE DeploymentDeleted(c)
      BY <2>0, <2>5 DEF DeploymentDeleted
    <2> QED BY <1>1, <2>1, <2>2, <2>3, <2>4, <2>5
  <1>5. faults' \in 0..MaxFaults
    <2>1. CASE PodStopped(c)
      BY <2>1, FaultsBounded DEF PodStopped, IInv, TypeOK, Pod
    <2>2. CASE ~PodStopped(c)
      <3>1. faults' = faults \/ Fault(TRUE)
        BY <1>1, <2>2 DEF PodCreated, PodReady, PodUnready, DeploymentDeleted
      <3> QED BY <3>1, FaultsBounded DEF IInv, TypeOK
    <2> QED BY <2>1, <2>2
  <1>6. TypeOK'
    BY <1>2, <1>4, <1>5 DEF IInv, TypeOK
  <1> QED
    BY <1>3, <1>6 DEF IInv

LEMMA NextIInv == IInv /\ [Next]_vars => IInv'
  <1> SUFFICES ASSUME IInv, [Next]_vars PROVE IInv'
    OBVIOUS
  <1>1. CASE AddStep
    BY <1>1, AddStepKeeps DEF AddStep
  <1>2. CASE WorkerStep
    BY <1>2, FrontStepKeeps, ReconcileStepKeeps DEF WorkerStep
  <1>3. CASE ReconcileError \/ OperatorRestart \/ WatchEvent
    BY <1>3, ReconcileStepKeeps
  <1>4. CASE ClusterStep
    BY <1>4, ClusterStepTyped
  <1>5. CASE UNCHANGED vars
    <2>1. AllGood' /\ Scheduling'
      BY <1>5, ClusterStepKeeps DEF vars
    <2>2. TypeOK'
      BY <1>5 DEF IInv, TypeOK, vars
    <2> QED BY <2>1, <2>2 DEF IInv
  <1> QED
    BY <1>1, <1>2, <1>3, <1>4, <1>5 DEF Next

-----------------------------------------------------------------------------
(* The theorems about the queues                                           *)

\* Every reachable state satisfies the inductive invariant.
THEOREM Inductive == Spec => []IInv
  BY InitIInv, NextIInv, PTL DEF Spec

\* Type correctness: no action leaves the state space declared by TypeOK.
THEOREM TypeCorrect == Spec => []TypeOK
  <1>1. IInv => TypeOK
    BY DEF IInv
  <1> QED
    BY <1>1, Inductive, PTL

\* However many goroutines overwrite each other's copies of the map, crash or
\* fail, every copy keeps at most its front entries waiting: the default case
\* of Reconcile's switch is never reached.
THEOREM FrontOnly == Spec => []OnlyFrontWaits
  <1>1. IInv => OnlyFrontWaits
    BY DEF IInv, AllGood, Good, OnlyFrontWaits, Copies
  <1> QED
    BY <1>1, Inductive, PTL

\* No wake-up is ever lost: a stored entry always has a reconcile coming.
THEOREM WakeUpsKept == Spec => []NoStall
  <1>1. IInv => NoStall
    BY DEF IInv, Scheduling
  <1> QED
    BY <1>1, Inductive, PTL

-----------------------------------------------------------------------------
(* The requests in a copy of the map                                       *)

\* The requests of an organisation, and the queue that a request belongs to
Of(m) == {r \in Requests : MSPOf[CROf[r]] = m}
QueueOf(cfg, r) == cfg.Queues[MSPOf[CROf[r]]]

\* The places of a copy that answer for request r
Queued(cfg, r) == {i \in 1..Len(QueueOf(cfg, r)) : r \in QueueOf(cfg, r)[i].Reason}
Logged(cfg, r) == {e \in cfg.Log : r \in e.Reason}

\* Its entry waits for the pod.
Waiting(cfg, r) == \E i \in Queued(cfg, r) : Waits(QueueOf(cfg, r), i)

\* How far the request has come, by this copy
Stage(cfg, r) ==
    IF \E e \in Logged(cfg, r) : e.Status = "deleted" THEN "gone"
    ELSE IF Logged(cfg, r) # {} THEN "done"
    ELSE IF Waiting(cfg, r) THEN "restarting"
    ELSE IF Queued(cfg, r) # {} THEN "queued" ELSE "lost"

\* An entry is in the queue of its component's organisation, for requests of that component.
FiledAt(m, e) == MSPOf[e.CRName] = m /\ e.Reason # {} /\ \A r \in e.Reason : CROf[r] = e.CRName

Filed(cfg) ==
    \A m \in MSPIDs : \A i \in 1..Len(cfg.Queues[m]) : FiledAt(m, cfg.Queues[m][i])

\* The copy answers for the requests in A, in one place each, and for no others.
Once(cfg, r) ==
    /\ \A i, j \in Queued(cfg, r) : i = j
    /\ \A e, f \in Logged(cfg, r) : e = f
    /\ Queued(cfg, r) = {} \/ Logged(cfg, r) = {}

Keeps(cfg, A) ==
    \A r \in Requests : /\ Once(cfg, r)
                        /\ r \in A <=> (Queued(cfg, r) # {} \/ Logged(cfg, r) # {})

-----------------------------------------------------------------------------
(* What the operations on a copy do to the requests in it                  *)

\* A request is queued in the organisation of its component only.
LEMMA QueueFacts ==
    ASSUME NEW cfg \in RestartConfig, NEW r \in Requests
    PROVE  /\ MSPOf[CROf[r]] \in MSPIDs /\ CROf[r] \in CRs
           /\ QueueOf(cfg, r) \in Seq(Component) /\ Len(QueueOf(cfg, r)) \in Nat
           /\ Queued(cfg, r) \subseteq 1..Len(QueueOf(cfg, r))
           /\ cfg.Queues \in [MSPIDs -> Seq(Component)] /\ cfg.Log \in SUBSET Component
  <1>1. MSPOf[CROf[r]] \in MSPIDs /\ CROf[r] \in CRs
    BY ConstantsOK
  <1>2. cfg.Queues \in [MSPIDs -> Seq(Component)] /\ cfg.Log \in SUBSET Component
    BY DEF RestartConfig
  <1>3. QueueOf(cfg, r) \in Seq(Component)
    BY <1>1, <1>2 DEF QueueOf
  <1> QED BY <1>1, <1>2, <1>3, LenProperties DEF Queued

\* addToQueue: the request joins, and nothing else changes.
LEMMA AddKeeps ==
    ASSUME NEW cfg, cfg \in RestartConfig, Filed(cfg), NEW A, Keeps(cfg, A),
           NEW r \in Requests, r \notin A,
           NEW new, new = AddToQueue(cfg, MSPOf[CROf[r]], NewComponent(r))
    PROVE  /\ Keeps(new, A \cup {r})
           /\ \A s \in Requests : Stage(new, s) = IF s = r THEN "queued" ELSE Stage(cfg, s)
  <1> DEFINE m == MSPOf[CROf[r]]
             q == cfg.Queues[m]
             e == NewComponent(r)
  <1>1. /\ m \in MSPIDs /\ q \in Seq(Component) /\ Len(q) \in Nat
        /\ cfg.Queues \in [MSPIDs -> Seq(Component)]
    BY QueueFacts DEF QueueOf
  <1>2. e.Reason = {r} /\ e.Status = "pending" /\ e \in Component
    BY ConstantsOK DEF NewComponent, Component, Statuses
  <1>3. new = [cfg EXCEPT !.Queues = [cfg.Queues EXCEPT ![m] = Append(q, e)]]
    BY DEF AddToQueue
  <1>4. /\ new.Log = cfg.Log /\ new.Queues[m] = Append(q, e)
        /\ \A n \in MSPIDs \ {m} : new.Queues[n] = cfg.Queues[n]
    BY <1>1, <1>3 DEF RestartConfig
  <1> HIDE DEF e
  <1>5. /\ Len(Append(q, e)) = Len(q) + 1 /\ Append(q, e)[Len(q) + 1] = e
        /\ \A i \in 1..Len(q) : Append(q, e)[i] = q[i]
    <2> HIDE DEF q
    <2> QED BY <1>1, <1>2, AppendProperties
  <1>6. ASSUME NEW s \in Requests, s # r
        PROVE  /\ Queued(new, s) = Queued(cfg, s) /\ Logged(new, s) = Logged(cfg, s)
               /\ Waiting(new, s) <=> Waiting(cfg, s)
    <2>1. MSPOf[CROf[s]] \in MSPIDs /\ Logged(new, s) = Logged(cfg, s)
      BY <1>4, ConstantsOK DEF Logged
    <2>2. CASE MSPOf[CROf[s]] # m
      <3>1. QueueOf(new, s) = QueueOf(cfg, s)
        BY <1>4, <2>1, <2>2 DEF QueueOf
      <3> QED BY <2>1, <3>1 DEF Queued, Waiting
    <2>3. CASE MSPOf[CROf[s]] = m
      <3>1. QueueOf(new, s) = Append(q, e) /\ QueueOf(cfg, s) = q
        BY <1>4, <2>3 DEF QueueOf
      <3> HIDE DEF q, m
      <3>2. Queued(new, s) = Queued(cfg, s)
        BY <1>1, <1>2, <1>5, <1>6, <3>1 DEF Queued
      <3>3. Queued(cfg, s) \subseteq 1..Len(q)
        BY <3>1 DEF Queued
      <3> QED BY <1>5, <2>1, <3>1, <3>2, <3>3 DEF Waiting, Waits
    <2> QED BY <2>2, <2>3
  <1>7. /\ Queued(new, r) = {Len(q) + 1} /\ Logged(new, r) = {} /\ ~Waiting(new, r)
    <2>1. Queued(cfg, r) = {} /\ Logged(cfg, r) = {}
      BY DEF Keeps
    <2>2. QueueOf(new, r) = Append(q, e) /\ QueueOf(cfg, r) = q
      BY <1>4 DEF QueueOf
    <2>3. Logged(new, r) = {}
      BY <1>4, <2>1 DEF Logged
    <2> HIDE DEF q, m
    <2>4. Queued(new, r) = {Len(q) + 1}
      BY <1>1, <1>2, <1>5, <2>1, <2>2 DEF Queued
    <2> QED BY <1>2, <1>5, <2>2, <2>3, <2>4 DEF Waiting, Waits
  <1> HIDE DEF q, m
  <1>8. Keeps(new, A \cup {r})
    <2> SUFFICES ASSUME NEW s \in Requests
                 PROVE  /\ Once(new, s)
                        /\ s \in A \cup {r} <=> (Queued(new, s) # {} \/ Logged(new, s) # {})
      BY DEF Keeps
    <2>1. CASE s = r
      BY <1>7, <2>1 DEF Once
    <2>2. CASE s # r
      BY <1>6, <2>2 DEF Keeps, Once
    <2> QED BY <2>1, <2>2
  <1>9. \A s \in Requests : s # r => Stage(new, s) = Stage(cfg, s)
    BY <1>6 DEF Stage
  <1>10. Stage(new, r) = "queued"
    BY <1>7 DEF Stage
  <1> QED BY <1>8, <1>9, <1>10

\* addToQueue: the entry is filed with its organisation, and the fronts stay.
LEMMA AddFiles ==
    ASSUME NEW cfg, cfg \in RestartConfig, Filed(cfg), NEW r \in Requests,
           NEW new, new = AddToQueue(cfg, MSPOf[CROf[r]], NewComponent(r))
    PROVE  /\ Filed(new)
           /\ \A n \in MSPIDs : cfg.Queues[n] # <<>> =>
                 new.Queues[n] # <<>> /\ Head(new.Queues[n]) = Head(cfg.Queues[n])
  <1> DEFINE m == MSPOf[CROf[r]]
             q == cfg.Queues[m]
             e == NewComponent(r)
             t == Append(q, e)
  <1>1. /\ m \in MSPIDs /\ q \in Seq(Component) /\ Len(q) \in Nat
        /\ cfg.Queues \in [MSPIDs -> Seq(Component)]
    BY QueueFacts DEF QueueOf
  <1>2. FiledAt(m, e) /\ e \in Component
    BY ConstantsOK DEF NewComponent, Component, Statuses, FiledAt
  <1>3. new = [cfg EXCEPT !.Queues = [cfg.Queues EXCEPT ![m] = t]]
    BY DEF AddToQueue
  <1>4. new.Queues[m] = t /\ \A n \in MSPIDs \ {m} : new.Queues[n] = cfg.Queues[n]
    BY <1>1, <1>3 DEF RestartConfig
  <1> HIDE DEF e
  <1>5. /\ t \in Seq(Component) /\ Len(t) = Len(q) + 1 /\ t[Len(q) + 1] = e
        /\ \A i \in 1..Len(q) : t[i] = q[i]
    <2> HIDE DEF q
    <2> QED BY <1>1, <1>2, AppendProperties
  <1> HIDE DEF t
  <1>6. Filed(new)
    <2>1. \A i \in 1..Len(t) : FiledAt(m, t[i])
      BY <1>1, <1>2, <1>5 DEF Filed
    <2> HIDE DEF m, q
    <2> QED BY <1>4, <2>1 DEF Filed
  <1>7. q # <<>> => t # <<>> /\ Head(t) = Head(q)
    <2> HIDE DEF q
    <2> QED BY <1>1, <1>5, EmptySeq
  <1> HIDE DEF m
  <1> QED BY <1>4, <1>6, <1>7

\* The front entry is replaced by one for the same requests.
LEMMA WithFrontKeeps ==
    ASSUME NEW cfg, cfg \in RestartConfig, Filed(cfg), NEW m \in MSPIDs, cfg.Queues[m] # <<>>,
           NEW e \in Component, e.Reason = Head(cfg.Queues[m]).Reason,
           e.CRName = Head(cfg.Queues[m]).CRName,
           NEW new, new = WithFront(cfg, m, e)
    PROVE  /\ Filed(new) /\ new.Queues[m] # <<>> /\ Head(new.Queues[m]) = e
           /\ \A n \in MSPIDs \ {m} : new.Queues[n] = cfg.Queues[n]
           /\ \A r \in Requests : Queued(new, r) = Queued(cfg, r) /\ Logged(new, r) = Logged(cfg, r)
           /\ \A r \in Requests : r \notin e.Reason \/ e.Status = Head(cfg.Queues[m]).Status =>
                 Stage(new, r) = Stage(cfg, r)
           /\ \A r \in e.Reason : /\ r \in Of(m) /\ 1 \in Queued(cfg, r)
                                  /\ e.Status = "waiting" => Waiting(new, r)
  <1> DEFINE q == cfg.Queues[m]
             t == [q EXCEPT ![1] = e]
  <1>1. /\ q \in Seq(Component) /\ Len(q) \in Nat /\ Len(q) # 0 /\ Head(q) = q[1]
        /\ cfg.Queues \in [MSPIDs -> Seq(Component)]
    <2>1. q \in Seq(Component) /\ cfg.Queues \in [MSPIDs -> Seq(Component)]
      BY DEF RestartConfig
    <2> QED BY <2>1, EmptySeq, LenProperties
  <1>2. new = [cfg EXCEPT !.Queues = [cfg.Queues EXCEPT ![m] = t]]
    BY DEF WithFront
  <1>3. /\ new.Log = cfg.Log /\ new.Queues[m] = t
        /\ \A n \in MSPIDs \ {m} : new.Queues[n] = cfg.Queues[n]
    BY <1>1, <1>2 DEF RestartConfig
  <1>4. /\ t \in Seq(Component) /\ Len(t) = Len(q)
        /\ \A i \in 1..Len(q) : t[i] = IF i = 1 THEN e ELSE q[i]
    <2> HIDE DEF q
    <2> QED BY <1>1, ExceptSeq
  <1> HIDE DEF t
  <1>5. t # <<>> /\ Head(t) = e
    <2> HIDE DEF q
    <2> QED BY <1>1, <1>4, EmptySeq
  <1>6. FiledAt(m, q[1]) /\ \A i \in 1..Len(q) : FiledAt(m, q[i])
    <2>1. \A i \in 1..Len(q) : FiledAt(m, q[i])
      BY DEF Filed
    <2> QED BY <1>1, <2>1
  <1>7. Filed(new)
    <2>1. FiledAt(m, e)
      BY <1>1, <1>6 DEF FiledAt
    <2>2. \A i \in 1..Len(t) : FiledAt(m, t[i])
      BY <1>4, <1>6, <2>1
    <2> HIDE DEF q
    <2> QED BY <1>3, <2>2 DEF Filed
  <1>8. \A r \in e.Reason : r \in Of(m) /\ r \in Requests
    BY <1>1, <1>6 DEF FiledAt, Of, Component
  <1>9. ASSUME NEW r \in Requests
        PROVE  /\ Queued(new, r) = Queued(cfg, r) /\ Logged(new, r) = Logged(cfg, r)
               /\ r \notin e.Reason \/ e.Status = q[1].Status => (Waiting(new, r) <=> Waiting(cfg, r))
               /\ r \in e.Reason => 1 \in Queued(cfg, r) /\ (e.Status = "waiting" => Waiting(new, r))
    <2>1. MSPOf[CROf[r]] \in MSPIDs /\ Logged(new, r) = Logged(cfg, r)
      BY <1>3, ConstantsOK DEF Logged
    <2>2. CASE MSPOf[CROf[r]] # m
      <3>1. QueueOf(new, r) = QueueOf(cfg, r) /\ r \notin e.Reason
        BY <1>3, <1>8, <2>1, <2>2 DEF QueueOf, Of
      <3> QED BY <2>1, <3>1 DEF Queued, Waiting
    <2>3. CASE MSPOf[CROf[r]] = m
      <3>1. QueueOf(new, r) = t /\ QueueOf(cfg, r) = q
        BY <1>3, <2>3 DEF QueueOf
      <3>2. e.Reason = q[1].Reason
        BY <1>1
      <3> HIDE DEF q
      <3>3. /\ Queued(new, r) = Queued(cfg, r) /\ Queued(cfg, r) \subseteq 1..Len(q)
            /\ r \in e.Reason <=> 1 \in Queued(cfg, r)
        <4>1. \A i \in 1..Len(q) : r \in t[i].Reason <=> r \in q[i].Reason
          BY <1>4, <3>2
        <4> QED BY <1>1, <1>4, <3>1, <3>2, <4>1 DEF Queued
      <3>4. r \notin e.Reason \/ e.Status = q[1].Status => (Waiting(new, r) <=> Waiting(cfg, r))
        BY <1>4, <3>1, <3>3 DEF Waiting, Waits
      <3>5. r \in e.Reason /\ e.Status = "waiting" => Waiting(new, r)
        BY <1>1, <1>4, <3>1, <3>3 DEF Waiting, Waits
      <3> QED BY <2>1, <3>3, <3>4, <3>5
    <2> QED BY <2>2, <2>3
  <1>10. \A r \in Requests : r \notin e.Reason \/ e.Status = q[1].Status => Stage(new, r) = Stage(cfg, r)
    BY <1>9 DEF Stage
  <1> QED BY <1>1, <1>3, <1>5, <1>7, <1>8, <1>9, <1>10

\* The front entry goes to the log: its requests are dealt with.
LEMMA MoveKeeps ==
    ASSUME NEW cfg, cfg \in RestartConfig, Filed(cfg), NEW A, Keeps(cfg, A),
           NEW m \in MSPIDs, cfg.Queues[m] # <<>>, NEW status \in Statuses,
           NEW new, new = MoveToLog(cfg, m, status)
    PROVE  /\ Keeps(new, A)
           /\ \A r \in Requests : r \notin Head(cfg.Queues[m]).Reason => Stage(new, r) = Stage(cfg, r)
           /\ \A r \in Head(cfg.Queues[m]).Reason :
                 Stage(new, r) = IF status = "deleted" THEN "gone" ELSE "done"
  <1> DEFINE q == cfg.Queues[m]
             t == Tail(q)
             e == [Head(q) EXCEPT !.Status = status]
  <1>1. /\ q \in Seq(Component) /\ Len(q) \in Nat /\ Len(q) # 0 /\ Head(q) = q[1]
        /\ cfg.Queues \in [MSPIDs -> Seq(Component)] /\ q[1] \in Component
        /\ Len(t) = Len(q) - 1 /\ \A i \in 1..Len(t) : t[i] = q[i + 1]
    <2>1. q \in Seq(Component) /\ cfg.Queues \in [MSPIDs -> Seq(Component)]
      BY DEF RestartConfig
    <2>2. q # <<>>
      OBVIOUS
    <2> HIDE DEF q
    <2> QED BY <2>1, <2>2, EmptySeq, LenProperties, HeadTailProperties
  <1>2. new = [cfg EXCEPT !.Log = cfg.Log \cup {e}, !.Queues = [cfg.Queues EXCEPT ![m] = t]]
    BY DEF MoveToLog, PopFromQueue, AddToLog, RestartConfig
  <1>3. e.Reason = q[1].Reason /\ e.Status = status
    BY <1>1 DEF Component
  <1> HIDE DEF e, t
  <1>4. /\ new.Log = cfg.Log \cup {e} /\ new.Queues[m] = t
        /\ \A n \in MSPIDs \ {m} : new.Queues[n] = cfg.Queues[n]
    BY <1>1, <1>2 DEF RestartConfig
  <1>5. \A r \in q[1].Reason : r \in Requests /\ MSPOf[CROf[r]] = m
    <2>1. 1 \in 1..Len(q)
      BY <1>1
    <2>2. FiledAt(m, q[1])
      BY <2>1 DEF Filed
    <2> QED BY <1>1, <2>2 DEF FiledAt, Component
  <1>6. ASSUME NEW r \in Requests, r \notin q[1].Reason
        PROVE  /\ Once(new, r) /\ Logged(new, r) = Logged(cfg, r)
               /\ Queued(new, r) = {} <=> Queued(cfg, r) = {}
               /\ Waiting(new, r) <=> Waiting(cfg, r)
    <2>1. MSPOf[CROf[r]] \in MSPIDs /\ Logged(new, r) = Logged(cfg, r) /\ Once(cfg, r)
      BY <1>3, <1>4, <1>6, ConstantsOK DEF Logged, Keeps
    <2>2. CASE MSPOf[CROf[r]] # m
      <3>1. QueueOf(new, r) = QueueOf(cfg, r)
        BY <1>4, <2>1, <2>2 DEF QueueOf
      <3> QED BY <2>1, <3>1 DEF Queued, Waiting, Once
    <2>3. CASE MSPOf[CROf[r]] = m
      <3>1. QueueOf(new, r) = t /\ QueueOf(cfg, r) = q
        BY <1>4, <2>3 DEF QueueOf
      <3>2. \A i \in 1..Len(t) : i \in Queued(new, r) <=> i + 1 \in Queued(cfg, r)
        BY <1>1, <3>1 DEF Queued
      <3>3. Queued(new, r) \subseteq 1..Len(t) /\ Queued(cfg, r) \subseteq 1..Len(q) /\ 1 \notin Queued(cfg, r)
        BY <1>6, <3>1 DEF Queued
      <3> HIDE DEF q
      <3>4. \A i \in Queued(cfg, r) : i - 1 \in Queued(new, r) /\ i - 1 \in 1..Len(t) /\ q[i] = t[i - 1]
        <4> SUFFICES ASSUME NEW i \in Queued(cfg, r)
                     PROVE  i - 1 \in Queued(new, r) /\ i - 1 \in 1..Len(t) /\ q[i] = t[i - 1]
          OBVIOUS
        <4>1. i \in 1..Len(q) /\ i # 1
          BY <3>3
        <4>2. i - 1 \in 1..Len(t) /\ (i - 1) + 1 = i
          BY <1>1, <4>1
        <4> QED BY <1>1, <3>2, <4>2
      <3>5. \A i \in Queued(new, r) : i + 1 \in Queued(cfg, r) /\ t[i] = q[i + 1] /\ i \in Nat
        BY <1>1, <3>2, <3>3
      <3>6. Once(new, r)
        BY <2>1, <3>4, <3>5 DEF Once
      <3>7. Waiting(new, r) <=> Waiting(cfg, r)
        BY <3>1, <3>4, <3>5 DEF Waiting, Waits
      <3> QED BY <2>1, <3>4, <3>5, <3>6, <3>7
    <2> QED BY <2>2, <2>3
  <1>7. ASSUME NEW r \in q[1].Reason
        PROVE  Queued(new, r) = {} /\ Logged(new, r) = {e}
    <2>1. r \in Requests /\ MSPOf[CROf[r]] = m /\ Once(cfg, r)
      BY <1>5, <1>7 DEF Keeps
    <2>2. QueueOf(new, r) = t /\ QueueOf(cfg, r) = q
      BY <1>4, <2>1 DEF QueueOf
    <2>3. 1 \in Queued(cfg, r)
      BY <1>1, <1>7, <2>2 DEF Queued
    <2>4. Logged(cfg, r) = {} /\ \A i \in Queued(cfg, r) : i = 1
      BY <2>1, <2>3 DEF Once
    <2>5. Logged(new, r) = {e}
      BY <1>3, <1>4, <1>7, <2>4 DEF Logged
    <2> HIDE DEF q
    <2>6. \A i \in 1..Len(t) : r \notin t[i].Reason
      <3> SUFFICES ASSUME NEW i \in 1..Len(t), r \in t[i].Reason PROVE FALSE
        OBVIOUS
      <3>1. i + 1 \in 1..Len(q) /\ i + 1 # 1 /\ r \in q[i + 1].Reason
        BY <1>1
      <3> QED BY <2>2, <2>4, <3>1 DEF Queued
    <2> QED BY <2>2, <2>5, <2>6 DEF Queued
  <1>8. Keeps(new, A)
    <2> SUFFICES ASSUME NEW r \in Requests
                 PROVE  /\ Once(new, r)
                        /\ r \in A <=> (Queued(new, r) # {} \/ Logged(new, r) # {})
      BY DEF Keeps
    <2>1. CASE r \in q[1].Reason
      <3>1. 1 \in Queued(cfg, r)
        BY <1>1, <1>5, <2>1 DEF Queued, QueueOf
      <3>2. r \in A
        BY <3>1 DEF Keeps
      <3> QED BY <1>7, <2>1, <3>2 DEF Once
    <2>2. CASE r \notin q[1].Reason
      BY <1>6, <2>2 DEF Keeps
    <2> QED BY <2>1, <2>2
  <1>9. \A r \in Requests : r \notin q[1].Reason => Stage(new, r) = Stage(cfg, r)
    BY <1>6 DEF Stage
  <1>10. \A r \in q[1].Reason : Stage(new, r) = IF status = "deleted" THEN "gone" ELSE "done"
    BY <1>3, <1>7 DEF Stage
  <1> QED BY <1>1, <1>8, <1>9, <1>10

\* The rest of the queue stays filed.
LEMMA MoveFiles ==
    ASSUME NEW cfg, cfg \in RestartConfig, Filed(cfg), NEW m \in MSPIDs, cfg.Queues[m] # <<>>,
           NEW status \in Statuses, NEW new, new = MoveToLog(cfg, m, status)
    PROVE  Filed(new) /\ \A n \in MSPIDs \ {m} : new.Queues[n] = cfg.Queues[n]
  <1> DEFINE q == cfg.Queues[m]
             t == Tail(q)
  <1>1. /\ q \in Seq(Component) /\ Len(q) \in Nat /\ Len(t) = Len(q) - 1
        /\ cfg.Queues \in [MSPIDs -> Seq(Component)] /\ \A i \in 1..Len(t) : t[i] = q[i + 1]
    <2>1. q \in Seq(Component) /\ cfg.Queues \in [MSPIDs -> Seq(Component)] /\ q # <<>>
      BY DEF RestartConfig
    <2> HIDE DEF q
    <2> QED BY <2>1, LenProperties, HeadTailProperties
  <1>2. PICK l : new = [cfg EXCEPT !.Log = l, !.Queues = [cfg.Queues EXCEPT ![m] = t]]
    BY DEF MoveToLog, PopFromQueue, AddToLog, RestartConfig
  <1> HIDE DEF t
  <1>3. new.Queues[m] = t /\ \A n \in MSPIDs \ {m} : new.Queues[n] = cfg.Queues[n]
    BY <1>1, <1>2 DEF RestartConfig
  <1>4. \A i \in 1..Len(t) : FiledAt(m, t[i])
    <2>1. \A i \in 1..Len(q) : FiledAt(m, q[i])
      BY DEF Filed
    <2> HIDE DEF q
    <2> QED BY <1>1, <2>1
  <1> QED BY <1>3, <1>4 DEF Filed

\* An ordering has every element of the set once.
LEMMA OrderingsCover ==
    ASSUME NEW S, IsFiniteSet(S), S \subseteq Component, NEW s \in Orderings(S)
    PROVE  /\ \A e \in S : \E i \in 1..Len(s) : s[i] = e
           /\ \A i, j \in 1..Len(s) : i # j => s[i] # s[j]
  <1> DEFINE n == Cardinality(S)
  <1>1. n \in Nat /\ Len(s) = n
    BY FS_CardinalityType, OrderingsAreQueues
  <1>2. s \in [1..n -> S] /\ \A i, j \in 1..n : i # j => s[i] # s[j]
    BY DEF Orderings
  <1>3. IsFiniteSet(1..n) /\ Cardinality(1..n) = n
    <2> HIDE DEF n
    <2>1. 1 \in Int /\ n \in Int /\ 1 \in Nat
      BY <1>1
    <2>2. IsFiniteSet(1..n) /\ Cardinality(1..n) = IF 1 > n THEN 0 ELSE n - 1 + 1
      BY <2>1, FS_Interval
    <2> QED BY <1>1, <2>2
  <1>4. s \in Injection(1..n, S)
    <2> HIDE DEF n
    <2> QED BY <1>2 DEF Injection, IsInjective
  <1>5. s \in Surjection(1..n, S)
    BY <1>3, <1>4, FS_Injection
  <1> HIDE DEF n
  <1> QED BY <1>1, <1>2, <1>5 DEF Surjection

\* The entries that optimizeRestart makes of a queue that waits at the front only: the front, if
\* it waits, and one for each component that has others, with all their requests.
LEMMA EntriesFacts ==
    ASSUME NEW m \in MSPIDs, NEW q \in Seq(Component), OnlyFrontWaitsIn(q),
           \A i \in 1..Len(q) : FiledAt(m, q[i]),
           \A i, j \in 1..Len(q) : \A r \in q[i].Reason : r \in q[j].Reason => i = j,
           NEW E, E = WaitingEntries(q) \cup MergedEntries(q)
    PROVE  /\ \A e \in E : FiledAt(m, e)
           /\ \A e, f \in E : \A r \in e.Reason : r \in f.Reason => e = f
           /\ \A r \in Requests :
                 /\ (\E i \in 1..Len(q) : r \in q[i].Reason) <=> (\E e \in E : r \in e.Reason)
                 /\ (\E i \in 1..Len(q) : r \in q[i].Reason /\ Waits(q, i))
                      <=> (\E e \in E : r \in e.Reason /\ e.Status = "waiting")
           /\ \A e \in WaitingEntries(q) : e = q[1] /\ e.Status = "waiting"
           /\ q # <<>> /\ q[1].Status = "waiting" => q[1] \in WaitingEntries(q)
           /\ \A e \in MergedEntries(q) : e.Status = "pending"
  <1> DEFINE W == WaitingEntries(q)
             M == MergedEntries(q)
             L == Len(q)
  <1>1. L \in Nat /\ (q # <<>> <=> L > 0) /\ \A i \in 1..L : q[i] \in Component
    BY LenProperties, ElementOfSeq, EmptySeq
  <1>2. \A i \in 1..L : Waits(q, i) => i = 1
    BY DEF OnlyFrontWaitsIn, Waits
  <1>3. W = {q[i] : i \in {k \in 1..L : Waits(q, k)}}
    <2>1. {k \in 1..L : Waits(q, k)} = {k \in 1..L : /\ Waits(q, k)
              /\ \A j \in (k+1)..L : ~(Waits(q, j) /\ q[j].CRName = q[k].CRName)}
      BY <1>1, <1>2
    <2> QED BY <2>1 DEF WaitingEntries
  <1>4. /\ \A e \in W : e = q[1] /\ e.Status = "waiting" /\ 1 \in 1..L
        /\ q # <<>> /\ q[1].Status = "waiting" => q[1] \in W
    BY <1>1, <1>2, <1>3 DEF Waits
  <1>5. \A i \in 1..L : ~Waits(q, i) => MergedEntry(q, q[i].CRName) \in M
    BY DEF MergedEntries
  <1>6. \A e \in M : \E i \in 1..L : ~Waits(q, i) /\ e = MergedEntry(q, q[i].CRName)
    BY DEF MergedEntries
  <1>7. ASSUME NEW c
        PROVE  LET e == MergedEntry(q, c) IN
               /\ e.CRName = c /\ e.Status = "pending"
               /\ \A r : r \in e.Reason <=>
                     \E i \in 1..L : ~Waits(q, i) /\ q[i].CRName = c /\ r \in q[i].Reason
    BY DEF MergedEntry
  <1> HIDE DEF W, M
  <1>8. ASSUME NEW e \in E PROVE FiledAt(m, e)
    <2>1. CASE e \in W
      BY <1>4, <2>1
    <2>2. CASE e \in M
      <3>1. PICK i \in 1..L : ~Waits(q, i) /\ e = MergedEntry(q, q[i].CRName)
        BY <1>6, <2>2
      <3>2. /\ e.CRName = q[i].CRName
            /\ \A r : r \in e.Reason <=>
                  \E k \in 1..L : ~Waits(q, k) /\ q[k].CRName = q[i].CRName /\ r \in q[k].Reason
        BY <1>7, <3>1
      <3>3. MSPOf[e.CRName] = m /\ e.Reason # {}
        BY <3>1, <3>2 DEF FiledAt
      <3>4. \A r \in e.Reason : CROf[r] = e.CRName
        BY <3>2 DEF FiledAt
      <3> QED BY <3>3, <3>4 DEF FiledAt
    <2> QED BY <1>8, <2>1, <2>2 DEF W, M
  <1>9. ASSUME NEW e \in M, NEW r \in e.Reason
        PROVE  \E k \in 1..L : ~Waits(q, k) /\ e = MergedEntry(q, q[k].CRName) /\ r \in q[k].Reason
    <2>1. PICK i \in 1..L : ~Waits(q, i) /\ e = MergedEntry(q, q[i].CRName)
      BY <1>6
    <2>2. \E k \in 1..L : ~Waits(q, k) /\ q[k].CRName = q[i].CRName /\ r \in q[k].Reason
      BY <1>7, <1>9, <2>1
    <2> QED BY <2>1, <2>2
  <1>10. \A e \in M : e.Status = "pending"
    BY <1>6, <1>7
  <1>11. ASSUME NEW e \in E, NEW f \in E, NEW r \in e.Reason, r \in f.Reason PROVE e = f
    <2>1. CASE e \in W /\ f \in W
      BY <1>4, <2>1
    <2>2. CASE e \in M /\ f \in M
      <3>1. PICK k \in 1..L : ~Waits(q, k) /\ e = MergedEntry(q, q[k].CRName) /\ r \in q[k].Reason
        BY <1>9, <2>2
      <3>2. PICK j \in 1..L : ~Waits(q, j) /\ f = MergedEntry(q, q[j].CRName) /\ r \in q[j].Reason
        BY <1>9, <1>11, <2>2
      <3>3. k = j
        BY <3>1, <3>2
      <3> QED BY <3>1, <3>2, <3>3
    <2>3. ASSUME NEW x \in W, NEW y \in M, r \in x.Reason, r \in y.Reason PROVE FALSE
      <3>1. PICK k \in 1..L : ~Waits(q, k) /\ r \in q[k].Reason
        BY <1>9, <2>3
      <3>2. 1 \in 1..L /\ r \in q[1].Reason /\ Waits(q, 1)
        BY <1>4, <2>3 DEF Waits
      <3>3. k = 1
        BY <3>1, <3>2
      <3> QED BY <3>1, <3>2, <3>3
    <2> QED BY <1>11, <2>1, <2>2, <2>3 DEF W, M
  <1>12. ASSUME NEW r \in Requests
         PROVE  /\ (\E i \in 1..L : r \in q[i].Reason) <=> (\E e \in E : r \in e.Reason)
                /\ (\E i \in 1..L : r \in q[i].Reason /\ Waits(q, i))
                     <=> (\E e \in E : r \in e.Reason /\ e.Status = "waiting")
    <2>1. ASSUME NEW i \in 1..L, r \in q[i].Reason, Waits(q, i)
          PROVE  \E e \in E : r \in e.Reason /\ e.Status = "waiting"
      <3>1. i = 1
        BY <1>2, <2>1
      <3>2. q[1] \in W
        BY <1>1, <1>4, <2>1, <3>1 DEF Waits
      <3> QED BY <2>1, <3>1, <3>2 DEF W, Waits
    <2>2. ASSUME NEW i \in 1..L, r \in q[i].Reason, ~Waits(q, i)
          PROVE  \E e \in E : r \in e.Reason
      <3>1. MergedEntry(q, q[i].CRName) \in M /\ r \in MergedEntry(q, q[i].CRName).Reason
        BY <1>5, <1>7, <2>2
      <3> QED BY <3>1 DEF M
    <2>3. ASSUME NEW e \in E, r \in e.Reason
          PROVE  \E i \in 1..L : r \in q[i].Reason /\ (e.Status = "waiting" => Waits(q, i))
      <3>1. CASE e \in W
        BY <1>4, <2>3, <3>1 DEF Waits
      <3>2. CASE e \in M
        BY <1>9, <1>10, <2>3, <3>2
      <3> QED BY <3>1, <3>2 DEF W, M
    <2> QED BY <2>1, <2>2, <2>3
  <1> QED BY <1>4, <1>8, <1>10, <1>11, <1>12 DEF W, M

\* Queue s of organisation m has the requests of q, in one entry each; they wait if they did in q,
\* and a front that waits stays.
Rearranged(m, q, s) ==
    /\ \A i \in 1..Len(s) : FiledAt(m, s[i])
    /\ \A i, j \in 1..Len(s) : \A r \in s[i].Reason : r \in s[j].Reason => i = j
    /\ \A r \in Requests :
          /\ (\E i \in 1..Len(q) : r \in q[i].Reason) <=> (\E i \in 1..Len(s) : r \in s[i].Reason)
          /\ (\E i \in 1..Len(q) : r \in q[i].Reason /\ Waits(q, i))
               <=> (\E i \in 1..Len(s) : r \in s[i].Reason /\ Waits(s, i))
    /\ q # <<>> /\ Head(q).Status = "waiting" => s # <<>> /\ Head(s) = Head(q)

\* One queue, merged: the requests are in one entry each, as before, and wait if they did.
LEMMA OptimizedQueueKeeps ==
    ASSUME NEW m \in MSPIDs, NEW q \in Seq(Component), OnlyFrontWaitsIn(q),
           \A i \in 1..Len(q) : FiledAt(m, q[i]),
           \A i, j \in 1..Len(q) : \A r \in q[i].Reason : r \in q[j].Reason => i = j,
           NEW s \in OptimizedQueues(q)
    PROVE  Rearranged(m, q, s)
  <1> DEFINE W == WaitingEntries(q)
             M == MergedEntries(q)
             E == W \cup M
  <1>1. /\ \A e \in E : FiledAt(m, e)
        /\ \A e, f \in E : \A r \in e.Reason : r \in f.Reason => e = f
        /\ \A r \in Requests :
              /\ (\E i \in 1..Len(q) : r \in q[i].Reason) <=> (\E e \in E : r \in e.Reason)
              /\ (\E i \in 1..Len(q) : r \in q[i].Reason /\ Waits(q, i))
                   <=> (\E e \in E : r \in e.Reason /\ e.Status = "waiting")
        /\ \A e \in W : e = q[1] /\ e.Status = "waiting"
        /\ q # <<>> /\ q[1].Status = "waiting" => q[1] \in W
        /\ \A e \in M : e.Status = "pending"
    BY EntriesFacts
  <1>2. PICK w \in Orderings(W), p \in Orderings(M) : s = w \o p
    BY DEF OptimizedQueues
  <1>3. IsFiniteSet(W) /\ W \subseteq Component /\ IsFiniteSet(M) /\ M \subseteq Component
    BY WaitingEntriesFacts, MergedEntriesFacts
  <1> HIDE DEF W, M
  <1>4. /\ w \in Seq(Component) /\ Len(w) \in Nat /\ \A i \in 1..Len(w) : w[i] \in W
        /\ \A e \in W : \E i \in 1..Len(w) : w[i] = e
        /\ \A i, j \in 1..Len(w) : i # j => w[i] # w[j]
    BY <1>3, OrderingsAreQueues, OrderingsCover, LenProperties
  <1>5. /\ p \in Seq(Component) /\ Len(p) \in Nat /\ \A i \in 1..Len(p) : p[i] \in M
        /\ \A e \in M : \E i \in 1..Len(p) : p[i] = e
        /\ \A i, j \in 1..Len(p) : i # j => p[i] # p[j]
    BY <1>3, OrderingsAreQueues, OrderingsCover, LenProperties
  <1>6. /\ s \in Seq(Component) /\ Len(s) = Len(w) + Len(p)
        /\ \A i \in 1..Len(s) : s[i] = IF i <= Len(w) THEN w[i] ELSE p[i - Len(w)]
    BY <1>2, <1>4, <1>5, ConcatProperties
  <1>7. ASSUME NEW i \in 1..Len(s)
        PROVE  \/ i \in 1..Len(w) /\ s[i] = w[i] /\ s[i] \in W
               \/ i - Len(w) \in 1..Len(p) /\ s[i] = p[i - Len(w)] /\ s[i] \in M
    BY <1>4, <1>5, <1>6
  <1>8. \A i \in 1..Len(s) : s[i] \in E
    BY <1>7
  <1>9. ASSUME NEW i \in 1..Len(s), NEW j \in 1..Len(s), s[i] = s[j] PROVE i = j
    <2>1. ~(s[i] \in W /\ s[i] \in M)
      BY <1>1
    <2>2. CASE s[i] \in W
      BY <1>4, <1>7, <1>9, <2>1, <2>2
    <2>3. CASE s[i] \in M
      <3>1. /\ i - Len(w) \in 1..Len(p) /\ s[i] = p[i - Len(w)]
            /\ j - Len(w) \in 1..Len(p) /\ s[j] = p[j - Len(w)]
        BY <1>7, <1>9, <2>1, <2>3
      <3>2. i - Len(w) = j - Len(w)
        BY <1>5, <1>9, <3>1
      <3> QED BY <1>4, <3>2
    <2> QED BY <1>7, <2>2, <2>3
  <1>10. ASSUME NEW e \in E PROVE \E i \in 1..Len(s) : s[i] = e
    <2>1. CASE e \in W
      <3>1. PICK i \in 1..Len(w) : w[i] = e
        BY <1>4, <2>1
      <3>2. i \in 1..Len(s) /\ s[i] = w[i]
        BY <1>4, <1>5, <1>6
      <3> QED BY <3>1, <3>2
    <2>2. CASE e \in M
      <3>1. PICK i \in 1..Len(p) : p[i] = e
        BY <1>5, <2>2
      <3>2. /\ i + Len(w) \in 1..Len(s) /\ ~(i + Len(w) <= Len(w)) /\ (i + Len(w)) - Len(w) = i
        BY <1>4, <1>5, <1>6
      <3>3. s[i + Len(w)] = p[i]
        BY <1>6, <3>2
      <3> QED BY <3>1, <3>2, <3>3
    <2> QED BY <1>10, <2>1, <2>2
  <1>11. q # <<>> /\ Head(q).Status = "waiting" => s # <<>> /\ Head(s) = Head(q)
    <2> SUFFICES ASSUME q # <<>>, Head(q).Status = "waiting"
                 PROVE  s # <<>> /\ Head(s) = Head(q)
      OBVIOUS
    <2>1. q[1] \in W /\ Head(q) = q[1]
      BY <1>1
    <2>2. PICK i \in 1..Len(w) : w[i] = q[1]
      BY <1>4, <2>1
    <2>3. w[1] = q[1] /\ 1 \in 1..Len(w)
      BY <1>1, <1>4, <2>2
    <2>4. s[1] = q[1] /\ 1 \in 1..Len(s)
      BY <1>4, <1>5, <1>6, <2>3
    <2> QED BY <1>6, <2>1, <2>4, EmptySeq
  <1> HIDE DEF E
  <1>12. \A i, j \in 1..Len(s) : \A r \in s[i].Reason : r \in s[j].Reason => i = j
    BY <1>1, <1>8, <1>9
  <1>13. ASSUME NEW r \in Requests
         PROVE  /\ (\E e \in E : r \in e.Reason) <=> (\E i \in 1..Len(s) : r \in s[i].Reason)
                /\ (\E e \in E : r \in e.Reason /\ e.Status = "waiting")
                     <=> (\E i \in 1..Len(s) : r \in s[i].Reason /\ Waits(s, i))
    BY <1>8, <1>10 DEF Waits
  <1> QED BY <1>1, <1>8, <1>11, <1>12, <1>13 DEF Rearranged

\* optimizeRestart: merging changes no request's stage, and a front that waits stays.
LEMMA OptimizeKeeps ==
    ASSUME NEW cfg, Good(cfg), Filed(cfg), NEW A, Keeps(cfg, A), NEW new \in optimizeRestart(cfg)
    PROVE  /\ Keeps(new, A) /\ Filed(new)
           /\ \A r \in Requests : Stage(new, r) = Stage(cfg, r)
           /\ \A m \in MSPIDs : cfg.Queues[m] # <<>> /\ Head(cfg.Queues[m]).Status = "waiting" =>
                 new.Queues[m] # <<>> /\ Head(new.Queues[m]) = Head(cfg.Queues[m])
  <1>1. PICK qs \in [MSPIDs -> UNION {OptimizedQueues(cfg.Queues[m]) : m \in MSPIDs}] :
            /\ new = [cfg EXCEPT !.Queues = qs]
            /\ \A m \in MSPIDs : qs[m] \in OptimizedQueues(cfg.Queues[m])
    BY DEF optimizeRestart
  <1>2. /\ cfg \in RestartConfig /\ new.Queues = qs /\ new.Log = cfg.Log
        /\ \A m \in MSPIDs : cfg.Queues[m] \in Seq(Component) /\ OnlyFrontWaitsIn(cfg.Queues[m])
    BY <1>1 DEF Good, RestartConfig
  <1>3. ASSUME NEW m \in MSPIDs PROVE Rearranged(m, cfg.Queues[m], qs[m])
    <2> DEFINE q == cfg.Queues[m]
               s == qs[m]
    <2>1. q \in Seq(Component) /\ OnlyFrontWaitsIn(q) /\ s \in OptimizedQueues(q)
      BY <1>1, <1>2
    <2>2. \A i \in 1..Len(q) : FiledAt(m, q[i])
      BY DEF Filed
    <2>3. ASSUME NEW i \in 1..Len(q), NEW j \in 1..Len(q), NEW r \in q[i].Reason, r \in q[j].Reason
          PROVE  i = j
      <3>1. q[i] \in Component
        BY <2>1, ElementOfSeq
      <3>2. r \in Requests /\ MSPOf[CROf[r]] = m
        BY <2>2, <3>1 DEF FiledAt, Component
      <3>3. i \in Queued(cfg, r) /\ j \in Queued(cfg, r)
        BY <2>3, <3>2 DEF Queued, QueueOf
      <3> QED BY <3>2, <3>3 DEF Keeps, Once
    <2> HIDE DEF q, s
    <2>4. Rearranged(m, q, s)
      BY <2>1, <2>2, <2>3, OptimizedQueueKeeps
    <2> QED BY <2>4 DEF q, s
  <1>4. Filed(new)
    BY <1>2, <1>3 DEF Filed, Rearranged
  <1>5. ASSUME NEW r \in Requests
        PROVE  /\ \A i, j \in Queued(new, r) : i = j
               /\ Queued(new, r) = {} <=> Queued(cfg, r) = {}
               /\ Logged(new, r) = Logged(cfg, r)
               /\ Waiting(new, r) <=> Waiting(cfg, r)
    <2>1. MSPOf[CROf[r]] \in MSPIDs
      BY ConstantsOK
    <2> DEFINE s == QueueOf(new, r)
               q == QueueOf(cfg, r)
    <2>2. s = qs[MSPOf[CROf[r]]] /\ q = cfg.Queues[MSPOf[CROf[r]]]
      BY <1>2 DEF QueueOf
    <2> HIDE DEF s, q
    <2>3. /\ \A i, j \in 1..Len(s) : \A x \in s[i].Reason : x \in s[j].Reason => i = j
          /\ (\E i \in 1..Len(q) : r \in q[i].Reason)
               <=> (\E i \in 1..Len(s) : r \in s[i].Reason)
          /\ (\E i \in 1..Len(q) : r \in q[i].Reason /\ Waits(q, i))
               <=> (\E i \in 1..Len(s) : r \in s[i].Reason /\ Waits(s, i))
      BY <1>3, <2>1, <2>2 DEF Rearranged
    <2>4. /\ Queued(new, r) = {i \in 1..Len(s) : r \in s[i].Reason}
          /\ Queued(cfg, r) = {i \in 1..Len(q) : r \in q[i].Reason}
      BY DEF Queued, s, q
    <2>5. (Waiting(new, r) <=> \E i \in Queued(new, r) : Waits(s, i))
          /\ (Waiting(cfg, r) <=> \E i \in Queued(cfg, r) : Waits(q, i))
      BY DEF Waiting, s, q
    <2>6. Logged(new, r) = Logged(cfg, r)
      BY <1>2 DEF Logged
    <2> QED BY <2>3, <2>4, <2>5, <2>6
  <1>6. Keeps(new, A)
    BY <1>5 DEF Keeps, Once
  <1>7. \A r \in Requests : Stage(new, r) = Stage(cfg, r)
    BY <1>5 DEF Stage
  <1> QED BY <1>2, <1>3, <1>4, <1>6, <1>7 DEF Rearranged

-----------------------------------------------------------------------------
(* The turns that a copy of the map may be ahead of the stored one         *)

\* The requests of organisation m among A that are at stage s
In(m, A, cfg, s) == {r \in Of(m) : r \in A /\ Stage(cfg, r) = s}

Same(m, old, new) == \A r \in Of(m) : Stage(new, r) = Stage(old, r)

\* The requests R have gone from one stage to another.
Moved(m, A, old, new, R, from, to) ==
    /\ R # {} /\ R \subseteq In(m, A, old, from) /\ \A r, q \in R : CROf[r] = CROf[q]
    /\ \A r \in Of(m) : Stage(new, r) = IF r \in R THEN to ELSE Stage(old, r)

Turned(m, A, old, new) ==
    \/ /\ In(m, A, old, "restarting") = {}
       /\ \E R \in SUBSET Requests, to \in {"restarting", "gone"} : Moved(m, A, old, new, R, "queued", to)
    \/ Moved(m, A, old, new, In(m, A, old, "restarting"), "restarting", "done")

\* Turns are about stages only.
LEMMA SameStages ==
    ASSUME NEW m, NEW A, NEW old, NEW new, NEW other, Same(m, new, other)
    PROVE  /\ Same(m, old, new) => Same(m, old, other)
           /\ Turned(m, A, old, new) => Turned(m, A, old, other)
  <1>1. Same(m, old, new) => Same(m, old, other)
    BY DEF Same
  <1>2. ASSUME NEW R, NEW from, NEW to, Moved(m, A, old, new, R, from, to)
        PROVE  Moved(m, A, old, other, R, from, to)
    BY <1>2 DEF Same, Moved
  <1> QED BY <1>1, <1>2 DEF Turned

\* The requests of the front entry are the ones whose turn it is, or can be.
LEMMA FrontRequests ==
    ASSUME NEW cfg, Good(cfg), Filed(cfg), NEW A, Keeps(cfg, A),
           NEW m \in MSPIDs, cfg.Queues[m] # <<>>,
           NEW R, R = Head(cfg.Queues[m]).Reason
    PROVE  /\ R # {} /\ R \subseteq Of(m) /\ R \subseteq A /\ R \subseteq Requests
           /\ \A r, s \in R : CROf[r] = CROf[s]
           /\ \A r \in R : Logged(cfg, r) = {}
           /\ Head(cfg.Queues[m]).Status = "pending" =>
                 R \subseteq In(m, A, cfg, "queued") /\ In(m, A, cfg, "restarting") = {}
           /\ Head(cfg.Queues[m]).Status = "waiting" => In(m, A, cfg, "restarting") = R
  <1> DEFINE q == cfg.Queues[m]
  <1>1. /\ q \in Seq(Component) /\ Len(q) \in Nat /\ 1 \in 1..Len(q) /\ Head(q) = q[1]
        /\ q[1] \in Component /\ OnlyFrontWaitsIn(q) /\ FiledAt(m, q[1])
    <2>1. q \in Seq(Component) /\ OnlyFrontWaitsIn(q) /\ q # <<>>
      BY DEF Good, RestartConfig
    <2>2. \A i \in 1..Len(q) : FiledAt(m, q[i])
      BY DEF Filed
    <2> HIDE DEF q
    <2>3. Len(q) \in Nat /\ 1 \in 1..Len(q) /\ Head(q) = q[1]
      BY <2>1, EmptySeq, LenProperties
    <2> QED BY <2>1, <2>2, <2>3, ElementOfSeq
  <1>2. R # {} /\ R \subseteq Of(m) /\ R \subseteq Requests /\ \A r, s \in R : CROf[r] = CROf[s]
    BY <1>1 DEF FiledAt, Of, Component
  <1>3. ASSUME NEW r \in Of(m)
        PROVE  /\ r \in Requests /\ QueueOf(cfg, r) = q
               /\ Waiting(cfg, r) <=> (Waits(q, 1) /\ r \in R)
               /\ r \in R <=> 1 \in Queued(cfg, r)
    <2>1. r \in Requests /\ QueueOf(cfg, r) = q
      BY DEF Of, QueueOf
    <2>2. Queued(cfg, r) = {i \in 1..Len(q) : r \in q[i].Reason}
      BY <2>1 DEF Queued
    <2> HIDE DEF q
    <2>3. \A i \in 1..Len(q) : Waits(q, i) => i = 1
      BY <1>1 DEF OnlyFrontWaitsIn, Waits
    <2>4. R = q[1].Reason
      BY <1>1 DEF q
    <2> QED BY <1>1, <2>1, <2>2, <2>3, <2>4 DEF Waiting
  <1>4. \A r \in R : Logged(cfg, r) = {} /\ Queued(cfg, r) # {} /\ r \in A
    BY <1>2, <1>3 DEF Keeps, Once
  <1>5. \A r \in R : Stage(cfg, r) = IF Waits(q, 1) THEN "restarting" ELSE "queued"
    BY <1>2, <1>3, <1>4 DEF Stage
  <1>6. \A r \in Of(m) : Stage(cfg, r) = "restarting" => Waits(q, 1) /\ r \in R
    BY <1>3 DEF Stage
  <1>7. Waits(q, 1) <=> Head(q).Status = "waiting"
    BY <1>1 DEF Waits
  <1> HIDE DEF q
  <1>8. Head(q).Status = "pending" => R \subseteq In(m, A, cfg, "queued") /\ In(m, A, cfg, "restarting") = {}
    BY <1>2, <1>4, <1>5, <1>6, <1>7 DEF In
  <1>9. Head(q).Status = "waiting" => In(m, A, cfg, "restarting") = R
    BY <1>2, <1>4, <1>5, <1>6, <1>7 DEF In
  <1> QED BY <1>2, <1>4, <1>8, <1>9 DEF q

\* Restarting the component at the front is a turn, and so is to find it deleted.
LEMMA PendingTurns ==
    ASSUME NEW cfg, Good(cfg), Filed(cfg), NEW A, Keeps(cfg, A),
           NEW m \in MSPIDs, cfg.Queues[m] # <<>>, Head(cfg.Queues[m]).Status = "pending",
           NEW old, Same(m, old, cfg), NEW new, NEW to \in {"restarting", "gone"},
           \A r \in Of(m) : Stage(new, r) = IF r \in Head(cfg.Queues[m]).Reason
                                            THEN to ELSE Stage(cfg, r)
    PROVE  Turned(m, A, old, new)
  <1> DEFINE R == Head(cfg.Queues[m]).Reason
  <1>1. /\ R # {} /\ R \subseteq Of(m) /\ R \subseteq Requests /\ \A r, s \in R : CROf[r] = CROf[s]
        /\ R \subseteq In(m, A, cfg, "queued") /\ In(m, A, cfg, "restarting") = {}
    BY FrontRequests
  <1>2. \A r \in Of(m) : Stage(new, r) = IF r \in R THEN to ELSE Stage(old, r)
    BY DEF Same
  <1> HIDE DEF R
  <1>3. \A s : In(m, A, old, s) = In(m, A, cfg, s)
    BY DEF In, Same
  <1>4. Moved(m, A, old, new, R, "queued", to)
    BY <1>1, <1>2, <1>3 DEF Moved
  <1> QED BY <1>1, <1>3, <1>4 DEF Turned

\* A wait that is over is a turn.
LEMMA WaitTurns ==
    ASSUME NEW cfg, Good(cfg), Filed(cfg), NEW A, Keeps(cfg, A),
           NEW m \in MSPIDs, cfg.Queues[m] # <<>>, Head(cfg.Queues[m]).Status = "waiting",
           NEW old, Same(m, old, cfg), NEW new,
           \A r \in Of(m) : Stage(new, r) = IF r \in Head(cfg.Queues[m]).Reason
                                            THEN "done" ELSE Stage(cfg, r)
    PROVE  Turned(m, A, old, new)
  <1> DEFINE R == Head(cfg.Queues[m]).Reason
  <1>1. /\ R # {} /\ R \subseteq Of(m) /\ R \subseteq Requests /\ \A r, s \in R : CROf[r] = CROf[s]
        /\ In(m, A, cfg, "restarting") = R
    BY FrontRequests
  <1>2. \A r \in Of(m) : Stage(new, r) = IF r \in R THEN "done" ELSE Stage(old, r)
    BY DEF Same
  <1> HIDE DEF R
  <1>3. In(m, A, old, "restarting") = R
    BY <1>1 DEF In, Same
  <1>4. Moved(m, A, old, new, R, "restarting", "done")
    BY <1>1, <1>2, <1>3 DEF Moved
  <1> QED BY <1>3, <1>4 DEF Turned

-----------------------------------------------------------------------------
(* The inductive invariant: requests                                       *)

Up == "outdated" \notin mishaps

AllFiled ==
    Up => /\ Filed(cm) /\ Filed(cache) /\ Filed(worker.cfg)
          /\ \A r \in Requests : Filed(adder[r].cfg)

\* A request is accepted once.
AcceptedOnce == \A r \in accepted : adder[r].pc = "ended"

\* A copy that nobody has written over is the stored map.
AddersCurrent == \A r \in Requests : adder[r].pc = "got" /\ adder[r].fresh => adder[r].cfg = cm
OptimizesCurrent == worker.pc = "optimize" /\ worker.fresh => worker.cfg = cm

\* The stored map and the worker's copy of it answer for what was accepted.
MapKeeps == Up => Keeps(cm, accepted)
WorkerKeeps == Up /\ worker.pc # "idle" /\ worker.fresh => Keeps(worker.cfg, accepted)

\* What the loop has done so far: at most one turn of each organisation that it is done with
Progress ==
    Up /\ worker.pc = "loop" /\ worker.fresh =>
        \A m \in MSPIDs :
            \/ Same(m, cm, worker.cfg)
            \/ m \notin worker.todo /\ Turned(m, accepted, cm, worker.cfg)

RequestsInv == AllFiled /\ AcceptedOnce /\ AddersCurrent /\ OptimizesCurrent
               /\ MapKeeps /\ WorkerKeeps /\ Progress

\* The empty map answers for nothing.
LEMMA EmptyKeeps == Filed(EmptyConfig) /\ Keeps(EmptyConfig, {})
  <1>1. \A m \in MSPIDs : EmptyConfig.Queues[m] = <<>> /\ Len(EmptyConfig.Queues[m]) = 0
    BY EmptySeq DEF EmptyConfig
  <1>2. \A r \in Requests : Queued(EmptyConfig, r) = {} /\ Logged(EmptyConfig, r) = {}
    BY <1>1, ConstantsOK DEF Queued, QueueOf, Logged, EmptyConfig
  <1> QED BY <1>1, <1>2 DEF Filed, Keeps, Once

LEMMA InitRequests == Init => RequestsInv
  <1> SUFFICES ASSUME Init PROVE RequestsInv
    OBVIOUS
  <1>1. AllFiled /\ MapKeeps
    BY EmptyKeeps DEF Init, AllFiled, MapKeeps, IdleWorker, NotStarted
  <1>2. AcceptedOnce /\ AddersCurrent /\ OptimizesCurrent /\ WorkerKeeps /\ Progress
    BY DEF Init, AcceptedOnce, AddersCurrent, OptimizesCurrent, WorkerKeeps, Progress,
           IdleWorker, NotStarted
  <1> QED BY <1>1, <1>2 DEF RequestsInv

\* Steps of Kubernetes that leave the maps alone
LEMMA RequestsUnchanged ==
    ASSUME RequestsInv, UNCHANGED <<cm, cache, worker, adder, accepted, mishaps>>
    PROVE  RequestsInv'
  BY DEF RequestsInv, AllFiled, AcceptedOnce, AddersCurrent, OptimizesCurrent, MapKeeps,
         WorkerKeeps, Progress, Up

\* AddToQueue: a request is accepted from a copy that is current.
LEMMA AddStepRequests ==
    ASSUME IInv, RequestsInv, NEW r \in Requests,
           AddGetConfig(r) \/ AddUpdateConfig(r) \/ AddTimeout(r)
    PROVE  RequestsInv'
  <1> USE DEF RequestsInv
  <1>0. /\ adder \in [Requests -> Adder] /\ worker \in Worker /\ accepted \subseteq Requests
        /\ Filed(Ended.cfg) /\ Ended.pc = "ended"
        /\ r \in accepted => adder[r].pc = "ended"
    BY EmptyKeeps DEF IInv, TypeOK, Ended, AcceptedOnce
  <1>1. CASE AddGetConfig(r)
    <2>1. /\ UNCHANGED <<cm, cache, worker, accepted, mishaps>> /\ r \notin accepted
          /\ adder'[r] = [pc |-> "got", cfg |-> cache, fresh |-> ~dirty]
          /\ \A s \in Requests \ {r} : adder'[s] = adder[s]
      BY <1>0, <1>1 DEF AddGetConfig
    <2>2. AllFiled' /\ AcceptedOnce'
      BY <1>0, <2>1 DEF AllFiled, AcceptedOnce, Up
    <2>3. AddersCurrent'
      <3>1. adder'[r].cfg = cache /\ adder'[r].fresh = ~dirty
        BY <2>1
      <3>2. ~dirty => cache = cm
        BY DEF IInv, Scheduling, CacheFresh
      <3>3. adder'[r].fresh => ~dirty
        BY <3>1, Zenon
      <3>4. adder'[r].fresh => adder'[r].cfg = cm'
        BY <2>1, <3>1, <3>2, <3>3
      <3> QED BY <2>1, <3>4 DEF AddersCurrent
    <2> QED BY <2>1, <2>2, <2>3 DEF OptimizesCurrent, MapKeeps, WorkerKeeps, Progress, Up
  <1>2. CASE AddTimeout(r)
    <2>1. /\ UNCHANGED <<cm, cache, worker, accepted, mishaps>> /\ adder'[r] = Ended
          /\ \A s \in Requests \ {r} : adder'[s] = adder[s]
      BY <1>0, <1>2 DEF AddTimeout
    <2>2. AllFiled' /\ AcceptedOnce' /\ AddersCurrent'
      BY <1>0, <2>1 DEF AllFiled, AcceptedOnce, AddersCurrent, Up
    <2> QED BY <2>1, <2>2 DEF OptimizesCurrent, MapKeeps, WorkerKeeps, Progress, Up
  <1>3. CASE AddUpdateConfig(r)
    <2>1. /\ adder[r].pc = "got" /\ UNCHANGED cache
          /\ cm' = AddToQueue(adder[r].cfg, MSPOf[CROf[r]], NewComponent(r))
          /\ adder' = [OtherAddersOutdated({r}) EXCEPT ![r] = Ended]
          /\ worker' = [worker EXCEPT !.fresh = (worker.pc = "idle")]
          /\ accepted' = accepted \cup {r}
          /\ mishaps' = mishaps \cup Blame(adder[r].fresh)
      BY <1>3 DEF AddUpdateConfig
    <2>2. /\ adder'[r] = Ended
          /\ \A s \in Requests \ {r} : /\ adder'[s].cfg = adder[s].cfg /\ adder'[s].pc = adder[s].pc
                                       /\ adder[s].pc = "got" => ~adder'[s].fresh
      BY <1>0, <2>1 DEF OtherAddersOutdated, Adder
    <2>3. /\ worker'.cfg = worker.cfg /\ worker'.pc = worker.pc
          /\ worker.pc # "idle" => ~worker'.fresh
      BY <1>0, <2>1 DEF Worker
    <2>4. Up' => Up /\ adder[r].fresh
      BY <2>1 DEF Up, Blame
    <2>5. AcceptedOnce' /\ AddersCurrent' /\ OptimizesCurrent' /\ WorkerKeeps' /\ Progress'
      BY <1>0, <2>1, <2>2, <2>3 DEF AcceptedOnce, AddersCurrent, OptimizesCurrent, WorkerKeeps, Progress
    <2>6. ASSUME Up'
          PROVE  Filed(cm') /\ Keeps(cm', accepted')
      <3>1. /\ Up /\ adder[r].cfg = cm /\ Filed(cm) /\ Keeps(cm, accepted) /\ r \notin accepted
            /\ cm \in RestartConfig
        BY <1>0, <2>1, <2>4, <2>6 DEF AddersCurrent, AllFiled, MapKeeps, IInv, TypeOK
      <3>2. cm' = AddToQueue(cm, MSPOf[CROf[r]], NewComponent(r))
        BY <2>1, <3>1
      <3>3. Filed(cm')
        BY <3>1, <3>2, AddFiles
      <3>4. Keeps(cm', accepted \cup {r})
        BY <3>1, <3>2, AddKeeps
      <3> QED BY <2>1, <3>3, <3>4
    <2>7. AllFiled' /\ MapKeeps'
      BY <1>0, <2>1, <2>2, <2>3, <2>4, <2>6 DEF AllFiled, MapKeeps
    <2> QED BY <2>5, <2>7
  <1> QED BY <1>1, <1>2, <1>3

\* The loop deals with one queue: what is to be shown of its copy of the map.
LEMMA LoopRequests ==
    ASSUME IInv, RequestsInv, UNCHANGED <<cm, cache, adder, accepted>>, Up' => Up,
           worker.pc = "loop", worker'.pc = "loop", worker'.fresh = worker.fresh,
           worker'.todo \subseteq worker.todo,
           Up => Filed(worker'.cfg),
           Up /\ worker.fresh =>
               /\ Keeps(worker'.cfg, accepted)
               /\ \A n \in MSPIDs :
                     \/ Same(n, worker.cfg, worker'.cfg)
                     \/ Same(n, cm, worker'.cfg)
                     \/ n \notin worker'.todo /\ Turned(n, accepted, cm, worker'.cfg)
    PROVE  RequestsInv'
  <1> USE DEF RequestsInv
  <1>1. AllFiled' /\ AcceptedOnce' /\ AddersCurrent' /\ OptimizesCurrent' /\ MapKeeps' /\ WorkerKeeps'
    BY DEF AllFiled, AcceptedOnce, AddersCurrent, OptimizesCurrent, MapKeeps, WorkerKeeps
  <1>2. Progress'
    <2> SUFFICES ASSUME Up, worker.fresh, NEW n \in MSPIDs
                 PROVE  \/ Same(n, cm, worker'.cfg)
                        \/ n \notin worker'.todo /\ Turned(n, accepted, cm, worker'.cfg)
      BY DEF Progress
    <2>1. Same(n, cm, worker.cfg) \/ (n \notin worker.todo /\ Turned(n, accepted, cm, worker.cfg))
      BY DEF Progress
    <2>2. CASE Same(n, worker.cfg, worker'.cfg)
      BY <2>1, <2>2, SameStages
    <2> QED BY <2>2
  <1> QED BY <1>1, <1>2

\* The steps of the loop of Reconcile, one queue at a time
LEMMA FrontStepRequests ==
    ASSUME IInv, RequestsInv, NEW m \in MSPIDs, FrontStep(m)
    PROVE  RequestsInv'
  <1> DEFINE q == worker.cfg.Queues[m]
  <1>0. /\ worker \in Worker /\ Good(worker.cfg) /\ worker.cfg \in RestartConfig
        /\ Up => Filed(worker.cfg)
    BY DEF IInv, TypeOK, AllGood, Good, RequestsInv, AllFiled
  <1>1. PICK status \in {"pending", "waiting"} : AtFront(m, status)
    BY DEF FrontStep, FrontPendingLook, FrontPendingRestart, FrontPendingDeleted,
           FrontWaitingCompleted, FrontWaitingExpired, FrontWaitingRecheck
  <1>2. /\ worker.pc = "loop" /\ m \in worker.todo /\ q # <<>> /\ Front(m) = Head(q)
        /\ Head(q) \in Component /\ Head(q).Status = status
    BY <1>1, FrontFacts DEF Front
  <1>3. UNCHANGED <<cm, cache, adder, accepted>> /\ (Up' => Up)
    BY DEF FrontStep, FrontPendingLook, FrontPendingRestart, FrontPendingDeleted,
           FrontWaitingCompleted, FrontWaitingExpired, FrontWaitingRecheck, Up
  <1>4. ASSUME Up, worker.fresh
        PROVE  Filed(worker.cfg) /\ Keeps(worker.cfg, accepted) /\ Same(m, cm, worker.cfg)
    BY <1>0, <1>2, <1>4 DEF RequestsInv, WorkerKeeps, Progress
  <1> HIDE DEF q
  <1>5. CASE FrontPendingLook(m)
    <2>1. PICK seen \in {NoPod, RunningPod(Front(m).CRName)} :
             worker' = [worker EXCEPT !.looked = {m},
                !.cfg = IF seen = NoPod THEN @
                        ELSE WithFront(@, m, [Front(m) EXCEPT !.PodName = seen])]
      BY <1>5 DEF FrontPendingLook
    <2> DEFINE e == [Head(q) EXCEPT !.PodName = seen]
               cfg == IF seen = NoPod THEN worker.cfg ELSE WithFront(worker.cfg, m, e)
    <2>2. /\ worker'.pc = "loop" /\ worker'.fresh = worker.fresh /\ worker'.todo = worker.todo
          /\ worker'.cfg = cfg
      BY <1>0, <1>2, <2>1 DEF Worker
    <2>3. Head(q).CRName \in CRs
      BY <1>2 DEF Component
    <2>4. seen \in PodNames \cup {NoPod}
      BY <1>2, <2>1, <2>3 DEF RunningPod, IInv, TypeOK, Pod
    <2>5. /\ e \in Component /\ e.Reason = Head(q).Reason /\ e.CRName = Head(q).CRName
          /\ e.Status = Head(q).Status
      BY <1>2, <2>4 DEF Component
    <2> HIDE DEF e
    <2>6. ASSUME Up
          PROVE  /\ Filed(cfg)
                 /\ \A r \in Requests : /\ Queued(cfg, r) = Queued(worker.cfg, r)
                                        /\ Logged(cfg, r) = Logged(worker.cfg, r)
                                        /\ Stage(cfg, r) = Stage(worker.cfg, r)
      <3>1. CASE seen = NoPod
        BY <1>0, <2>6, <3>1
      <3>2. CASE seen # NoPod
        BY <1>0, <1>2, <2>5, <2>6, <3>2, WithFrontKeeps DEF q
      <3> QED BY <3>1, <3>2
    <2> HIDE DEF cfg
    <2>7. Up /\ worker.fresh => Keeps(cfg, accepted) /\ \A n \in MSPIDs : Same(n, worker.cfg, cfg)
      BY <1>4, <2>6 DEF Keeps, Once, Same, Of
    <2> QED BY <1>2, <1>3, <2>2, <2>6, <2>7, LoopRequests
  <1>6. CASE FrontPendingRestart(m)
    <2> DEFINE e == [Head(q) EXCEPT !.Status = "waiting"]
               cfg == WithFront(worker.cfg, m, e)
    <2>1. /\ worker' = [Handled(m, cfg) EXCEPT !.patched = TRUE] /\ Head(q).Status = "pending"
      BY <1>2, <1>6 DEF FrontPendingRestart, AtFront
    <2>2. /\ e \in Component /\ e.Reason = Head(q).Reason /\ e.CRName = Head(q).CRName
          /\ e.Status = "waiting"
      BY <1>2 DEF Component, Statuses
    <2> HIDE DEF e
    <2>3. ASSUME Up
          PROVE  /\ Filed(cfg)
                 /\ \A r \in Requests : /\ Queued(cfg, r) = Queued(worker.cfg, r)
                                        /\ Logged(cfg, r) = Logged(worker.cfg, r)
                                        /\ r \notin e.Reason => Stage(cfg, r) = Stage(worker.cfg, r)
                 /\ \A r \in e.Reason : r \in Of(m) /\ Waiting(cfg, r)
      BY <1>0, <1>2, <2>2, <2>3, WithFrontKeeps DEF q
    <2> HIDE DEF cfg
    <2>4. /\ worker'.pc = "loop" /\ worker'.fresh = worker.fresh /\ worker'.todo = worker.todo \ {m}
          /\ worker'.cfg = cfg
      BY <1>0, <1>2, <2>1 DEF Worker, Handled
    <2>5. ASSUME Up, worker.fresh
          PROVE  /\ Keeps(cfg, accepted) /\ Turned(m, accepted, cm, cfg)
                 /\ \A n \in MSPIDs \ {m} : Same(n, worker.cfg, cfg)
      <3>1. Keeps(cfg, accepted)
        BY <1>4, <2>3, <2>5 DEF Keeps, Once
      <3>2. \A r \in Head(q).Reason : Logged(worker.cfg, r) = {} /\ r \in Requests
        BY <1>0, <1>2, <1>4, <2>5, FrontRequests DEF q
      <3>3. \A r \in e.Reason : Stage(cfg, r) = "restarting"
        BY <2>2, <2>3, <2>5, <3>2 DEF Stage
      <3>4. \A r \in Of(m) : Stage(cfg, r) = IF r \in Head(q).Reason THEN "restarting"
                                             ELSE Stage(worker.cfg, r)
        BY <2>2, <2>3, <2>5, <3>3 DEF Of
      <3>5. Turned(m, accepted, cm, cfg)
        BY <1>0, <1>2, <1>4, <2>1, <2>5, <3>4, PendingTurns DEF q
      <3>6. \A n \in MSPIDs \ {m} : Same(n, worker.cfg, cfg)
        BY <2>3, <2>5 DEF Same, Of
      <3> QED BY <3>1, <3>5, <3>6
    <2> QED BY <1>2, <1>3, <2>3, <2>4, <2>5, LoopRequests
  <1>7. CASE FrontPendingDeleted(m) \/ FrontWaitingCompleted(m) \/ FrontWaitingExpired(m)
    <2>1. PICK final \in {"deleted", "completed", "expired"} :
             /\ worker' = Handled(m, MoveToLog(worker.cfg, m, final))
             /\ Head(q).Status = IF final = "deleted" THEN "pending" ELSE "waiting"
      BY <1>2, <1>7 DEF FrontPendingDeleted, FrontWaitingCompleted, FrontWaitingExpired, AtFront
    <2> DEFINE cfg == MoveToLog(worker.cfg, m, final)
               to == IF final = "deleted" THEN "gone" ELSE "done"
    <2>2. final \in Statuses
      BY DEF Statuses
    <2>3. Up => Filed(cfg)
      BY <1>0, <1>2, <2>2, MoveFiles DEF q
    <2>4. ASSUME Up, worker.fresh
          PROVE  /\ Keeps(cfg, accepted)
                 /\ \A r \in Requests : r \notin Head(q).Reason => Stage(cfg, r) = Stage(worker.cfg, r)
                 /\ \A r \in Head(q).Reason : Stage(cfg, r) = to /\ r \in Of(m)
      <3>1. Filed(worker.cfg) /\ Keeps(worker.cfg, accepted)
        BY <1>4, <2>4
      <3>2. \A r \in Head(q).Reason : r \in Of(m)
        BY <1>0, <1>2, <3>1, FrontRequests DEF q
      <3> QED BY <1>0, <1>2, <2>2, <3>1, <3>2, MoveKeeps DEF q
    <2> HIDE DEF cfg
    <2>5. /\ worker'.pc = "loop" /\ worker'.fresh = worker.fresh /\ worker'.todo = worker.todo \ {m}
          /\ worker'.cfg = cfg
      BY <1>0, <1>2, <2>1 DEF Worker, Handled, cfg
    <2>6. ASSUME Up, worker.fresh
          PROVE  Turned(m, accepted, cm, cfg) /\ \A n \in MSPIDs \ {m} : Same(n, worker.cfg, cfg)
      <3>1. \A n \in MSPIDs \ {m} : Same(n, worker.cfg, cfg)
        BY <2>4, <2>6 DEF Same, Of
      <3>2. \A r \in Of(m) : Stage(cfg, r) = IF r \in Head(q).Reason THEN to ELSE Stage(worker.cfg, r)
        BY <2>4, <2>6 DEF Of
      <3>3. CASE final = "deleted"
        <4>1. to = "gone" /\ Head(q).Status = "pending"
          BY <2>1, <3>3
        <4> QED BY <1>0, <1>2, <1>4, <2>6, <3>1, <3>2, <4>1, PendingTurns DEF q
      <3>4. CASE final # "deleted"
        <4>1. to = "done" /\ Head(q).Status = "waiting"
          BY <2>1, <3>4
        <4> QED BY <1>0, <1>2, <1>4, <2>6, <3>1, <3>2, <4>1, WaitTurns DEF q
      <3> QED BY <3>3, <3>4
    <2> QED BY <1>2, <1>3, <2>3, <2>4, <2>5, <2>6, LoopRequests
  <1>8. CASE FrontWaitingRecheck(m)
    <2>1. /\ worker'.pc = "loop" /\ worker'.fresh = worker.fresh /\ worker'.todo = worker.todo \ {m}
          /\ worker'.cfg = worker.cfg
      BY <1>0, <1>2, <1>8 DEF FrontWaitingRecheck, Worker, Handled
    <2>2. \A n \in MSPIDs : Same(n, worker.cfg, worker'.cfg)
      BY <2>1 DEF Same
    <2> QED BY <1>0, <1>2, <1>3, <1>4, <2>1, <2>2, LoopRequests
  <1> QED BY <1>5, <1>6, <1>7, <1>8 DEF FrontStep

\* The Reconcile call as a whole, the operator around it and the watch
LEMMA ReconcileStepRequests ==
    ASSUME IInv, RequestsInv,
           \/ ReconcileStart \/ ReconcileOptimize \/ ReconcileEnd
           \/ ReconcileError \/ OperatorRestart \/ WatchEvent
    PROVE  RequestsInv'
  <1> USE DEF RequestsInv
  <1>0. /\ worker \in Worker /\ Good(worker.cfg) /\ adder \in [Requests -> Adder]
        /\ accepted \subseteq Requests
        /\ Filed(IdleWorker.cfg) /\ IdleWorker.pc = "idle"
        /\ Filed(Ended.cfg) /\ Ended.pc = "ended"
    BY EmptyKeeps DEF IInv, TypeOK, AllGood, IdleWorker, Ended
  <1>1. CASE ReconcileStart
    <2>1. /\ UNCHANGED <<cm, cache, adder, accepted, mishaps>>
          /\ worker'.cfg = cache /\ worker'.fresh = ~dirty
      BY <1>1 DEF ReconcileStart
    <2>2. worker'.fresh => ~dirty
      BY <2>1, Zenon
    <2>3. worker'.fresh => worker'.cfg = cm
      BY <2>1, <2>2 DEF IInv, Scheduling, CacheFresh
    <2>4. AllFiled' /\ AcceptedOnce' /\ AddersCurrent' /\ MapKeeps'
      BY <2>1 DEF AllFiled, AcceptedOnce, AddersCurrent, MapKeeps, Up
    <2>5. OptimizesCurrent' /\ WorkerKeeps' /\ Progress'
      BY <2>1, <2>3 DEF OptimizesCurrent, WorkerKeeps, MapKeeps, Progress, Same, Up
    <2> QED BY <2>4, <2>5
  <1>2. CASE ReconcileOptimize
    <2>1. PICK cfg \in optimizeRestart(worker.cfg) :
             /\ cm' = cfg
             /\ worker' = [worker EXCEPT !.pc = "loop", !.cfg = cfg,
                                         !.todo = NonEmpty(cfg), !.fresh = TRUE]
      BY <1>2 DEF ReconcileOptimize
    <2>2. /\ worker.pc = "optimize" /\ adder' = OtherAddersOutdated({}) /\ UNCHANGED <<cache, accepted>>
          /\ mishaps' = mishaps \cup Blame(worker.fresh)
      BY <1>2 DEF ReconcileOptimize
    <2>3. worker'.cfg = cm' /\ worker'.pc = "loop"
      BY <1>0, <2>1 DEF Worker
    <2>4. \A r \in Requests : /\ adder'[r].cfg = adder[r].cfg /\ adder'[r].pc = adder[r].pc
                              /\ adder[r].pc = "got" => ~adder'[r].fresh
      BY <1>0, <2>2 DEF OtherAddersOutdated, Adder
    <2>5. Up' => Up /\ worker.fresh
      BY <2>2 DEF Up, Blame
    <2>6. Up' => Filed(cm') /\ Keeps(cm', accepted)
      BY <1>0, <2>1, <2>2, <2>5, OptimizeKeeps DEF AllFiled, WorkerKeeps
    <2>7. AllFiled' /\ MapKeeps' /\ WorkerKeeps'
      BY <2>2, <2>3, <2>4, <2>5, <2>6 DEF AllFiled, MapKeeps, WorkerKeeps
    <2>8. AcceptedOnce' /\ AddersCurrent' /\ OptimizesCurrent'
      BY <1>0, <2>2, <2>3, <2>4 DEF AcceptedOnce, AddersCurrent, OptimizesCurrent
    <2>9. Progress'
      BY <2>3 DEF Progress, Same
    <2> QED BY <2>7, <2>8, <2>9
  <1>3. CASE ReconcileEnd
    <2>1. /\ worker.pc = "loop" /\ worker' = IdleWorker /\ UNCHANGED <<cache, accepted>>
          /\ IF worker.updated
             THEN /\ cm' = worker.cfg /\ adder' = OtherAddersOutdated({})
                  /\ mishaps' = mishaps \cup Blame(worker.fresh)
             ELSE UNCHANGED <<cm, adder, mishaps>>
      BY <1>3 DEF ReconcileEnd
    <2>2. OptimizesCurrent' /\ WorkerKeeps' /\ Progress'
      BY <1>0, <2>1 DEF OptimizesCurrent, WorkerKeeps, Progress
    <2>3. CASE worker.updated
      <3>1. \A r \in Requests : /\ adder'[r].cfg = adder[r].cfg /\ adder'[r].pc = adder[r].pc
                                /\ adder[r].pc = "got" => ~adder'[r].fresh
        BY <1>0, <2>1, <2>3 DEF OtherAddersOutdated, Adder
      <3>2. Up' => Up /\ worker.fresh
        BY <2>1, <2>3 DEF Up, Blame
      <3>3. AllFiled' /\ MapKeeps'
        BY <1>0, <2>1, <2>3, <3>1, <3>2 DEF AllFiled, MapKeeps, WorkerKeeps
      <3>4. AcceptedOnce' /\ AddersCurrent'
        BY <1>0, <2>1, <3>1 DEF AcceptedOnce, AddersCurrent
      <3> QED BY <2>2, <3>3, <3>4
    <2>4. CASE ~worker.updated
      <3>1. UNCHANGED <<cm, adder, mishaps>>
        BY <2>1, <2>4
      <3> QED BY <1>0, <2>1, <2>2, <3>1 DEF AllFiled, AcceptedOnce, AddersCurrent, MapKeeps, Up
    <2> QED BY <2>3, <2>4
  <1>4. CASE ReconcileError \/ OperatorRestart
    <2>1. /\ worker' = IdleWorker /\ UNCHANGED <<cm, accepted>> /\ (Up' => Up)
          /\ cache' = cache \/ cache' = cm
      BY <1>4 DEF ReconcileError, OperatorRestart, Up
    <2>2. \A r \in Requests : adder'[r] = adder[r] \/ adder'[r] = Ended
      BY <1>4 DEF ReconcileError, OperatorRestart
    <2>3. OptimizesCurrent' /\ WorkerKeeps' /\ Progress'
      BY <1>0, <2>1 DEF OptimizesCurrent, WorkerKeeps, Progress
    <2>4. AllFiled' /\ MapKeeps' /\ AcceptedOnce' /\ AddersCurrent'
      BY <1>0, <2>1, <2>2 DEF AllFiled, MapKeeps, AcceptedOnce, AddersCurrent
    <2> QED BY <2>3, <2>4
  <1>5. CASE WatchEvent
    <2>1. UNCHANGED <<cm, worker, adder, accepted, mishaps>> /\ cache' = cm
      BY <1>5 DEF WatchEvent
    <2> QED BY <2>1 DEF AllFiled, AcceptedOnce, AddersCurrent, OptimizesCurrent, MapKeeps,
                        WorkerKeeps, Progress, Up
  <1> QED BY <1>1, <1>2, <1>3, <1>4, <1>5

LEMMA NextRequests == IInv /\ RequestsInv /\ [Next]_vars => RequestsInv'
  <1> SUFFICES ASSUME IInv, RequestsInv, [Next]_vars PROVE RequestsInv'
    OBVIOUS
  <1>1. CASE AddStep
    BY <1>1, AddStepRequests DEF AddStep
  <1>2. CASE WorkerStep
    BY <1>2, FrontStepRequests, ReconcileStepRequests DEF WorkerStep
  <1>3. CASE ReconcileError \/ OperatorRestart \/ WatchEvent
    BY <1>3, ReconcileStepRequests
  <1>4. CASE ClusterStep
    BY <1>4, RequestsUnchanged
       DEF ClusterStep, PodStopped, PodCreated, PodReady, PodUnready, DeploymentDeleted
  <1>5. CASE UNCHANGED vars
    BY <1>5, RequestsUnchanged DEF vars
  <1> QED BY <1>1, <1>2, <1>3, <1>4, <1>5 DEF Next

-----------------------------------------------------------------------------
(* The inductive invariant: turns                                          *)

\* A restart is written.
PatchedIsUpdated == worker.patched => worker.pc = "loop" /\ worker.updated

\* c waits at the front of its queue, and its pod p is the one that is to be replaced, or none,
\* or one that is not ready yet.
ToReplace(p, name) == p # NoPod => IF p.current THEN ~p.ready ELSE p.name = name

Holds(cfg, c, p) ==
    LET q == cfg.Queues[MSPOf[c]] IN
    /\ q # <<>> /\ Head(q).Status = "waiting" /\ Head(q).CRName = c
    /\ ToReplace(p, Head(q).PodName)

\* A component that is being restarted has the turn in the stored map, or will have.
HasTurn(c) ==
    /\ worker.pc # "idle" /\ worker.fresh => Holds(worker.cfg, c, pod[c])
    /\ Holds(cm, c, pod[c]) \/ (worker.patched /\ MSPOf[c] \notin worker.todo)

Clean == mishaps \subseteq {"unseen"}

TurnsKept == Clean => \A c \in CRs : dep[c] /\ rolling[c] => HasTurn(c)

TurnsInv == PatchedIsUpdated /\ TurnsKept /\ Staggered

LEMMA InitTurns == Init => TurnsInv
  <1> SUFFICES ASSUME Init PROVE TurnsInv
    OBVIOUS
  <1>1. \A c \in CRs : ~rolling[c]
    BY DEF Init
  <1> QED BY <1>1 DEF Init, TurnsInv, PatchedIsUpdated, TurnsKept, Staggered, Rolling, IdleWorker

\* As long as no component's restart begins, no two of an organisation are being restarted.
LEMMA StaggeredStays ==
    ASSUME Staggered, Clean' => Clean,
           \A c \in CRs : dep'[c] /\ rolling'[c] => dep[c] /\ rolling[c]
    PROVE  Staggered'
  BY DEF Staggered, Rolling, Clean

\* The pods come and go, and become ready or not.
LEMMA ClusterStepTurns ==
    ASSUME IInv, TurnsInv, ClusterStep
    PROVE  TurnsInv'
  <1>1. PICK d \in CRs : PodStopped(d) \/ PodCreated(d) \/ PodReady(d)
                           \/ PodUnready(d) \/ DeploymentDeleted(d)
    BY DEF ClusterStep
  <1>2. /\ UNCHANGED <<cm, worker, mishaps>>
        /\ pod \in [CRs -> Pod \cup {NoPod}] /\ dep \in [CRs -> BOOLEAN] /\ rolling \in [CRs -> BOOLEAN]
    BY <1>1 DEF PodStopped, PodCreated, PodReady, PodUnready, DeploymentDeleted, IInv, TypeOK
  <1>3. ASSUME NEW c \in CRs, dep'[c], rolling'[c]
        PROVE  /\ dep[c] /\ rolling[c]
               /\ \A name : ToReplace(pod[c], name) => ToReplace(pod'[c], name)
    <2>1. CASE c # d
      BY <1>1, <1>2, <1>3, <2>1 DEF PodStopped, PodCreated, PodReady, PodUnready, DeploymentDeleted
    <2>2. CASE c = d
      <3>1. CASE PodStopped(d)
        BY <1>2, <1>3, <2>2, <3>1 DEF PodStopped, ToReplace
      <3>2. CASE PodCreated(d)
        BY <1>2, <1>3, <2>2, <3>2 DEF PodCreated, ToReplace
      <3>3. CASE PodReady(d)
        <4>1. rolling'[c] = (rolling[c] /\ ~pod[c].current) /\ pod'[c] = [pod[c] EXCEPT !.ready = TRUE]
              /\ dep' = dep /\ pod[c] \in Pod
          BY <1>2, <1>3, <2>2, <3>3 DEF PodReady
        <4>2. rolling[c] /\ ~pod[c].current /\ dep[c]
          BY <1>3, <4>1
        <4>3. pod'[c].current = pod[c].current /\ pod'[c].name = pod[c].name /\ pod[c] # NoPod
          BY <2>2, <3>3, <4>1 DEF Pod, PodReady
        <4> QED BY <4>2, <4>3 DEF ToReplace
      <3>4. CASE PodUnready(d)
        <4>1. pod'[c] = [pod[c] EXCEPT !.ready = FALSE] /\ pod[c] \in Pod /\ pod[c] # NoPod
              /\ UNCHANGED <<rolling, dep>>
          BY <1>2, <1>3, <2>2, <3>4 DEF PodUnready
        <4>2. pod'[c].current = pod[c].current /\ pod'[c].name = pod[c].name /\ ~pod'[c].ready
          BY <4>1 DEF Pod
        <4> QED BY <1>3, <4>1, <4>2 DEF ToReplace
      <3>5. CASE DeploymentDeleted(d)
        BY <1>2, <1>3, <2>2, <3>5 DEF DeploymentDeleted
      <3> QED BY <1>1, <3>1, <3>2, <3>3, <3>4, <3>5
    <2> QED BY <2>1, <2>2
  <1>4. ASSUME NEW c \in CRs, dep'[c], rolling'[c], NEW cfg, Holds(cfg, c, pod[c])
        PROVE  Holds(cfg, c, pod'[c])
    BY <1>3, <1>4 DEF Holds
  <1>5. TurnsKept'
    BY <1>2, <1>3, <1>4 DEF TurnsInv, TurnsKept, HasTurn, Clean
  <1>6. Staggered'
    BY <1>2, <1>3, StaggeredStays DEF TurnsInv, Clean
  <1> QED BY <1>2, <1>5, <1>6 DEF TurnsInv, PatchedIsUpdated

\* Steps that concern none of it
LEMMA TurnsUnchanged ==
    ASSUME TurnsInv, UNCHANGED <<cm, worker, dep, pod, rolling, mishaps>>
    PROVE  TurnsInv'
  BY DEF TurnsInv, PatchedIsUpdated, TurnsKept, HasTurn, Clean, Staggered, Rolling

\* Whoever waits at the front of the stored map still does when a request was added.
LEMMA AddStepTurns ==
    ASSUME IInv, RequestsInv, TurnsInv, NEW r \in Requests,
           AddGetConfig(r) \/ AddUpdateConfig(r) \/ AddTimeout(r)
    PROVE  TurnsInv'
  <1>1. CASE AddGetConfig(r) \/ AddTimeout(r)
    BY <1>1, TurnsUnchanged DEF AddGetConfig, AddTimeout, clusterVars
  <1>2. CASE AddUpdateConfig(r)
    <2>1. /\ adder[r].pc = "got" /\ UNCHANGED <<dep, pod, rolling>>
          /\ cm' = AddToQueue(adder[r].cfg, MSPOf[CROf[r]], NewComponent(r))
          /\ worker' = [worker EXCEPT !.fresh = (worker.pc = "idle")]
          /\ mishaps' = mishaps \cup Blame(adder[r].fresh)
      BY <1>2 DEF AddUpdateConfig, clusterVars
    <2>2. /\ worker'.cfg = worker.cfg /\ worker'.pc = worker.pc /\ worker'.patched = worker.patched
          /\ worker'.todo = worker.todo /\ worker'.updated = worker.updated
          /\ worker.pc # "idle" => ~worker'.fresh
      BY <2>1 DEF Worker, IInv, TypeOK
    <2>3. (Clean' => Clean) /\ (Clean' => Up /\ adder[r].fresh)
      BY <2>1 DEF Clean, Up, Blame
    <2>4. ASSUME Clean', NEW c \in CRs, Holds(cm, c, pod[c])
          PROVE  Holds(cm', c, pod[c])
      <3>1. adder[r].cfg = cm /\ Filed(cm) /\ cm \in RestartConfig /\ MSPOf[c] \in MSPIDs
        BY <2>1, <2>3, <2>4, ConstantsOK
           DEF RequestsInv, AddersCurrent, AllFiled, IInv, TypeOK
      <3>2. \A n \in MSPIDs : cm.Queues[n] # <<>> =>
               cm'.Queues[n] # <<>> /\ Head(cm'.Queues[n]) = Head(cm.Queues[n])
        BY <2>1, <3>1, AddFiles
      <3> QED BY <2>4, <3>1, <3>2 DEF Holds
    <2>5. TurnsKept'
      BY <2>1, <2>2, <2>3, <2>4 DEF TurnsInv, TurnsKept, HasTurn
    <2>6. Staggered'
      BY <2>1, <2>3, StaggeredStays DEF TurnsInv
    <2> QED BY <2>2, <2>5, <2>6 DEF TurnsInv, PatchedIsUpdated
  <1> QED BY <1>1, <1>2

\* The component that has the turn is the one at the front.
LEMMA TurnIsFront ==
    ASSUME TurnsInv, Clean, worker.pc = "loop", worker.fresh,
           NEW c \in CRs, dep[c], rolling[c], NEW m, MSPOf[c] = m
    PROVE  /\ Front(m).Status = "waiting" /\ Front(m).CRName = c
           /\ ToReplace(pod[c], Front(m).PodName)
  BY DEF TurnsInv, TurnsKept, HasTurn, Holds, Front

\* The loop deals with queue m, which has none of the components that are being restarted, or
\* does not change it.
LEMMA LoopTurns ==
    ASSUME IInv, TurnsInv, NEW m \in MSPIDs, UNCHANGED <<cm, dep, pod>>, Clean' => Clean,
           worker.pc = "loop", worker'.pc = "loop", worker'.fresh = worker.fresh,
           worker'.todo \subseteq worker.todo, worker'.patched = worker.patched,
           worker.updated => worker'.updated,
           \A n \in MSPIDs \ {m} : worker'.cfg.Queues[n] = worker.cfg.Queues[n],
           \A c \in CRs : rolling'[c] => rolling[c],
           \/ worker'.cfg = worker.cfg
           \/ Clean' /\ worker.fresh => \A c \in CRs : dep[c] /\ rolling'[c] => MSPOf[c] # m
    PROVE  TurnsInv'
  <1>1. TurnsKept'
    <2> SUFFICES ASSUME Clean', NEW c \in CRs, dep[c], rolling'[c] PROVE HasTurn(c)'
      BY DEF TurnsKept
    <2>1. HasTurn(c) /\ Clean /\ MSPOf[c] \in MSPIDs
      BY ConstantsOK DEF TurnsInv, TurnsKept
    <2>2. Holds(cm', c, pod'[c]) \/ (worker'.patched /\ MSPOf[c] \notin worker'.todo)
      BY <2>1 DEF HasTurn
    <2>3. ASSUME worker.fresh PROVE Holds(worker'.cfg, c, pod'[c])
      <3>1. worker'.cfg.Queues[MSPOf[c]] = worker.cfg.Queues[MSPOf[c]]
        BY <2>1, <2>3
      <3> QED BY <2>1, <2>3, <3>1 DEF HasTurn, Holds
    <2> QED BY <2>2, <2>3 DEF HasTurn
  <1>2. Staggered'
    BY StaggeredStays DEF TurnsInv
  <1> QED BY <1>1, <1>2 DEF TurnsInv, PatchedIsUpdated

\* The component at the front of a queue is one of the organisation.
LEMMA FrontFiled ==
    ASSUME IInv, RequestsInv, Up, NEW m \in MSPIDs, NEW status, AtFront(m, status)
    PROVE  MSPOf[Front(m).CRName] = m
  <1>1. worker.cfg.Queues[m] # <<>> /\ worker.cfg.Queues[m] \in Seq(Component) /\ Filed(worker.cfg)
    BY FrontFacts DEF IInv, AllGood, Good, RestartConfig, RequestsInv, AllFiled
  <1>2. 1 \in 1..Len(worker.cfg.Queues[m]) /\ Front(m) = worker.cfg.Queues[m][1]
    BY <1>1, EmptySeq, LenProperties DEF Front
  <1>3. FiledAt(m, Front(m))
    BY <1>1, <1>2 DEF Filed
  <1> QED BY <1>3 DEF FiledAt

\* The steps of the loop: a restart begins only where the front was pending, so that nobody of
\* the organisation had the turn, and ends when the new pod is ready or the time is up.
LEMMA FrontStepTurns ==
    ASSUME IInv, RequestsInv, TurnsInv, NEW m \in MSPIDs, FrontStep(m)
    PROVE  TurnsInv'
  <1>0. /\ worker \in Worker /\ Good(worker.cfg) /\ worker.cfg \in RestartConfig
        /\ Up => Filed(worker.cfg)
        /\ pod \in [CRs -> Pod \cup {NoPod}] /\ rolling \in [CRs -> BOOLEAN]
    BY DEF IInv, TypeOK, AllGood, Good, RequestsInv, AllFiled
  <1>1. PICK status \in {"pending", "waiting"} : AtFront(m, status)
    BY DEF FrontStep, FrontPendingLook, FrontPendingRestart, FrontPendingDeleted,
           FrontWaitingCompleted, FrontWaitingExpired, FrontWaitingRecheck
  <1>2. /\ worker.pc = "loop" /\ m \in worker.todo /\ worker.cfg.Queues[m] # <<>>
        /\ Front(m) \in Component /\ Front(m).Status = status /\ Front(m).CRName \in CRs
        /\ Front(m) = Head(worker.cfg.Queues[m])
    BY <1>1, FrontFacts DEF Front
  <1>3. UNCHANGED <<cm, dep>> /\ (Clean' => Clean) /\ (Clean => Up)
    BY DEF FrontStep, FrontPendingLook, FrontPendingRestart, FrontPendingDeleted,
           FrontWaitingCompleted, FrontWaitingExpired, FrontWaitingRecheck, Clean, Up, clusterVars
  <1>4. CASE FrontPendingLook(m)
    <2>1. PICK seen \in {NoPod, RunningPod(Front(m).CRName)} :
             worker' = [worker EXCEPT !.looked = {m},
                !.cfg = IF seen = NoPod THEN @
                        ELSE WithFront(@, m, [Front(m) EXCEPT !.PodName = seen])]
      BY <1>4 DEF FrontPendingLook
    <2> DEFINE e == [Front(m) EXCEPT !.PodName = seen]
               cfg == IF seen = NoPod THEN worker.cfg ELSE WithFront(worker.cfg, m, e)
    <2>2. /\ worker'.pc = "loop" /\ worker'.fresh = worker.fresh /\ worker'.todo = worker.todo
          /\ worker'.cfg = cfg /\ worker'.patched = worker.patched /\ worker'.updated = worker.updated
      BY <1>0, <1>2, <2>1 DEF Worker
    <2>3. seen \in PodNames \cup {NoPod}
      BY <1>0, <1>2, <2>1 DEF RunningPod, Pod
    <2>4. e \in Component /\ e.Status = "pending"
      BY <1>2, <1>4, <2>3 DEF Component, FrontPendingLook, AtFront
    <2> HIDE DEF e
    <2>5. \A n \in MSPIDs \ {m} : cfg.Queues[n] = worker.cfg.Queues[n]
      BY <1>0, <1>2, <2>4, WithFrontIsGood
    <2> HIDE DEF cfg
    <2>6. UNCHANGED <<pod, rolling>> /\ Front(m).Status = "pending"
      BY <1>4 DEF FrontPendingLook, clusterVars, AtFront
    <2>7. Clean /\ worker.fresh => \A c \in CRs : dep[c] /\ rolling[c] => MSPOf[c] # m
      BY <1>2, <2>6, TurnIsFront
    <2> QED BY <1>2, <1>3, <2>2, <2>5, <2>6, <2>7, LoopTurns
  <1>5. CASE FrontPendingRestart(m)
    <2> DEFINE d == Front(m).CRName
               e == [Front(m) EXCEPT !.Status = "waiting"]
               cfg == WithFront(worker.cfg, m, e)
    <2>1. /\ worker' = [Handled(m, cfg) EXCEPT !.patched = TRUE] /\ Front(m).Status = "pending"
          /\ mishaps' = mishaps \cup Blame(worker.fresh) \cup Blind(m, d)
          /\ pod' = [pod EXCEPT ![d] = IF @ = NoPod THEN @ ELSE [@ EXCEPT !.current = FALSE]]
          /\ rolling' = [rolling EXCEPT ![d] = TRUE]
      BY <1>5 DEF FrontPendingRestart, AtFront
    <2>2. /\ e \in Component /\ e.Status = "waiting" /\ e.CRName = d /\ e.PodName = Front(m).PodName
          /\ e.Reason = Front(m).Reason
      BY <1>2 DEF Component, Statuses
    <2> HIDE DEF e
    <2>3. Up => cfg.Queues[m] # <<>> /\ Head(cfg.Queues[m]) = e
      BY <1>0, <1>2, <2>2, WithFrontKeeps
    <2>4. \A n \in MSPIDs \ {m} : cfg.Queues[n] = worker.cfg.Queues[n]
      BY <1>0, <1>2, <2>2, WithFrontIsGood
    <2> HIDE DEF cfg
    <2>5. /\ worker'.pc = "loop" /\ worker'.fresh = worker.fresh /\ worker'.todo = worker.todo \ {m}
          /\ worker'.cfg = cfg /\ worker'.patched /\ worker'.updated
      BY <1>0, <1>2, <2>1 DEF Worker, Handled
    <2>6. Clean' => worker.fresh /\ Clean /\ Up /\ Blind(m, d) = {}
      BY <2>1 DEF Clean, Blame, Up, Blind
    <2>7. Clean' => \A c \in CRs : dep[c] /\ rolling[c] => MSPOf[c] # m
      BY <1>2, <2>1, <2>6, TurnIsFront
    <2>8. Up => MSPOf[d] = m
      BY <1>1, FrontFiled
    <2>9. d \in CRs
      BY <1>2
    <2>10. Blind(m, d) = {} => ToReplace(pod'[d], e.PodName)
      <3>1. pod[d] # NoPod => pod'[d].name = pod[d].name /\ ~pod'[d].current
        BY <1>0, <2>1, <2>9 DEF Pod
      <3>2. pod[d] = NoPod => pod'[d] = NoPod
        BY <1>0, <2>1, <2>9
      <3> QED BY <2>2, <3>1, <3>2 DEF Blind, ToReplace
    <2>11. \A c \in CRs \ {d} : rolling'[c] = rolling[c] /\ pod'[c] = pod[c]
      BY <1>0, <2>1
    <2> HIDE DEF d
    <2>12. TurnsKept'
      <3> SUFFICES ASSUME Clean', NEW c \in CRs, dep[c], rolling'[c] PROVE HasTurn(c)'
        BY <1>3 DEF TurnsKept
      <3>1. CASE c = d
        <4>1. Holds(cfg, c, pod'[c])
          BY <2>2, <2>3, <2>6, <2>8, <2>10, <3>1 DEF Holds
        <4> QED BY <2>5, <2>6, <2>8, <3>1, <4>1 DEF HasTurn
      <3>2. CASE c # d
        <4>1. rolling[c] /\ pod'[c] = pod[c] /\ MSPOf[c] # m /\ MSPOf[c] \in MSPIDs
          BY <2>7, <2>11, <3>2, ConstantsOK
        <4>2. HasTurn(c) /\ worker.fresh
          BY <2>6, <4>1 DEF TurnsInv, TurnsKept
        <4>3. cfg.Queues[MSPOf[c]] = worker.cfg.Queues[MSPOf[c]]
          BY <2>4, <4>1
        <4>4. Holds(cfg, c, pod'[c])
          BY <1>2, <4>1, <4>2, <4>3 DEF HasTurn, Holds
        <4>5. Holds(cm', c, pod'[c]) \/ MSPOf[c] \notin worker'.todo
          BY <1>3, <2>5, <4>1, <4>2 DEF HasTurn
        <4> QED BY <2>5, <4>4, <4>5 DEF HasTurn
      <3> QED BY <3>1, <3>2
    <2>13. Staggered'
      <3> SUFFICES ASSUME Clean', NEW n \in MSPIDs, NEW b \in CRs, NEW c \in CRs,
                          MSPOf[b] = n, dep[b], rolling'[b], MSPOf[c] = n, dep[c], rolling'[c]
                   PROVE  b = c
        BY <1>3 DEF Staggered, Rolling, Clean
      <3>1. n = m => b = d /\ c = d
        BY <2>7, <2>11
      <3>2. n # m => b # d /\ c # d
        BY <2>6, <2>8
      <3>3. n # m => b \in Rolling(n) /\ c \in Rolling(n)
        BY <2>11, <3>2 DEF Rolling
      <3> QED BY <2>6, <3>1, <3>3 DEF TurnsInv, Staggered, Clean
    <2> QED BY <2>5, <2>12, <2>13 DEF TurnsInv, PatchedIsUpdated
  <1>6. CASE FrontPendingDeleted(m) \/ FrontWaitingCompleted(m) \/ FrontWaitingExpired(m)
    <2>1. PICK final \in {"deleted", "completed", "expired"} :
             worker' = Handled(m, MoveToLog(worker.cfg, m, final))
      BY <1>6 DEF FrontPendingDeleted, FrontWaitingCompleted, FrontWaitingExpired
    <2> DEFINE cfg == MoveToLog(worker.cfg, m, final)
    <2>2. \A n \in MSPIDs \ {m} : cfg.Queues[n] = worker.cfg.Queues[n]
      BY <1>0, <1>2, MoveIsGood DEF Statuses
    <2> HIDE DEF cfg
    <2>3. /\ worker'.pc = "loop" /\ worker'.fresh = worker.fresh /\ worker'.todo = worker.todo \ {m}
          /\ worker'.cfg = cfg /\ worker'.patched = worker.patched /\ worker'.updated
      BY <1>0, <1>2, <2>1 DEF Worker, Handled, cfg
    <2>4. UNCHANGED pod /\ \A c \in CRs : rolling'[c] => rolling[c]
      BY <1>0, <1>2, <1>6 DEF FrontPendingDeleted, FrontWaitingCompleted, FrontWaitingExpired, clusterVars
    <2>5. ASSUME Clean', worker.fresh, NEW c \in CRs, dep[c], rolling'[c], MSPOf[c] = m
          PROVE  FALSE
      <3>1. /\ Front(m).Status = "waiting" /\ Front(m).CRName = c
            /\ ToReplace(pod[c], Front(m).PodName)
        BY <1>2, <1>3, <2>4, <2>5, TurnIsFront
      <3>2. CASE FrontPendingDeleted(m)
        BY <3>1, <3>2 DEF FrontPendingDeleted, AtFront
      <3>3. CASE FrontWaitingCompleted(m)
        BY <1>0, <3>1, <3>3 DEF FrontWaitingCompleted, HasRestarted, RunningPod, ToReplace, Pod
      <3>4. CASE FrontWaitingExpired(m)
        BY <1>0, <2>5, <3>1, <3>4 DEF FrontWaitingExpired
      <3> QED BY <1>6, <3>2, <3>3, <3>4
    <2> QED BY <1>2, <1>3, <2>2, <2>3, <2>4, <2>5, LoopTurns
  <1>7. CASE FrontWaitingRecheck(m)
    <2>1. /\ worker'.pc = "loop" /\ worker'.fresh = worker.fresh /\ worker'.todo = worker.todo \ {m}
          /\ worker'.cfg = worker.cfg /\ worker'.patched = worker.patched
          /\ worker.updated => worker'.updated
          /\ UNCHANGED <<pod, rolling>>
      BY <1>0, <1>2, <1>7 DEF FrontWaitingRecheck, Worker, Handled, clusterVars
    <2> QED BY <1>2, <1>3, <2>1, LoopTurns
  <1> QED BY <1>4, <1>5, <1>6, <1>7 DEF FrontStep

\* The Reconcile call as a whole, the operator around it and the watch
LEMMA ReconcileStepTurns ==
    ASSUME IInv, RequestsInv, TurnsInv,
           \/ ReconcileStart \/ ReconcileOptimize \/ ReconcileEnd
           \/ ReconcileError \/ OperatorRestart \/ WatchEvent
    PROVE  TurnsInv'
  <1> USE DEF TurnsInv
  <1>0. /\ worker \in Worker /\ Good(worker.cfg) /\ MSPOf \in [CRs -> MSPIDs]
        /\ IdleWorker.pc = "idle" /\ ~IdleWorker.patched
    BY ConstantsOK DEF IInv, TypeOK, AllGood, IdleWorker
  <1>1. UNCHANGED <<dep, pod, rolling>> /\ (Clean' => Clean) /\ (Clean => Up)
    BY DEF ReconcileStart, ReconcileOptimize, ReconcileEnd, ReconcileError, OperatorRestart,
           WatchEvent, clusterVars, Clean, Up
  <1>2. Staggered'
    BY <1>1, StaggeredStays
  <1>3. CASE ReconcileStart
    <2>1. /\ UNCHANGED cm /\ ~worker.patched /\ ~worker'.patched
          /\ worker'.cfg = cache /\ worker'.fresh = ~dirty
      BY <1>3 DEF ReconcileStart, PatchedIsUpdated
    <2>2. worker'.fresh => ~dirty
      BY <2>1, Zenon
    <2>3. worker'.fresh => worker'.cfg = cm
      BY <2>1, <2>2 DEF IInv, Scheduling, CacheFresh
    <2>4. TurnsKept'
      BY <1>1, <2>1, <2>3 DEF TurnsKept, HasTurn
    <2> QED BY <1>2, <2>1, <2>4 DEF PatchedIsUpdated
  <1>4. CASE ReconcileOptimize
    <2>1. PICK cfg \in optimizeRestart(worker.cfg) :
             /\ cm' = cfg
             /\ worker' = [worker EXCEPT !.pc = "loop", !.cfg = cfg,
                                         !.todo = NonEmpty(cfg), !.fresh = TRUE]
      BY <1>4 DEF ReconcileOptimize
    <2>2. /\ worker.pc = "optimize" /\ ~worker.patched
          /\ mishaps' = mishaps \cup Blame(worker.fresh)
      BY <1>4 DEF ReconcileOptimize, PatchedIsUpdated
    <2>3. worker'.cfg = cm' /\ worker'.pc = "loop" /\ worker'.patched = worker.patched
      BY <1>0, <2>1 DEF Worker
    <2>4. Clean' => worker.fresh
      BY <2>2 DEF Clean, Blame
    <2>5. ASSUME Clean', NEW c \in CRs, Holds(cm, c, pod[c])
          PROVE  Holds(cm', c, pod[c])
      <3>1. worker.cfg = cm /\ Filed(worker.cfg) /\ Keeps(worker.cfg, accepted)
        BY <1>1, <2>2, <2>4, <2>5 DEF RequestsInv, OptimizesCurrent, AllFiled, WorkerKeeps
      <3>2. \A m \in MSPIDs : cm.Queues[m] # <<>> /\ Head(cm.Queues[m]).Status = "waiting" =>
               cm'.Queues[m] # <<>> /\ Head(cm'.Queues[m]) = Head(cm.Queues[m])
        BY <1>0, <2>1, <3>1, OptimizeKeeps
      <3>3. MSPOf[c] \in MSPIDs
        BY <1>0
      <3> QED BY <2>5, <3>2, <3>3 DEF Holds
    <2>6. TurnsKept'
      BY <1>1, <2>2, <2>3, <2>5 DEF TurnsKept, HasTurn
    <2> QED BY <1>2, <2>2, <2>3, <2>6 DEF PatchedIsUpdated
  <1>5. CASE ReconcileEnd
    <2>1. /\ worker.pc = "loop" /\ worker' = IdleWorker
          /\ IF worker.updated
             THEN cm' = worker.cfg /\ mishaps' = mishaps \cup Blame(worker.fresh)
             ELSE UNCHANGED cm /\ ~worker.patched
      BY <1>5 DEF ReconcileEnd, PatchedIsUpdated
    <2>2. Clean' /\ worker.updated => worker.fresh
      BY <2>1 DEF Clean, Blame
    <2>3. TurnsKept'
      BY <1>0, <1>1, <2>1, <2>2 DEF TurnsKept, HasTurn
    <2> QED BY <1>0, <1>2, <2>1, <2>3 DEF PatchedIsUpdated
  <1>6. CASE ReconcileError \/ OperatorRestart
    <2>1. worker' = IdleWorker /\ UNCHANGED cm /\ mishaps' = mishaps \cup Undone
      BY <1>6 DEF ReconcileError, OperatorRestart
    <2>2. Clean' => ~worker.patched
      BY <2>1 DEF Clean, Undone
    <2>3. TurnsKept'
      BY <1>0, <1>1, <2>1, <2>2 DEF TurnsKept, HasTurn
    <2> QED BY <1>0, <1>2, <2>1, <2>3 DEF PatchedIsUpdated
  <1>7. CASE WatchEvent
    BY <1>7, TurnsUnchanged DEF WatchEvent, clusterVars
  <1> QED BY <1>3, <1>4, <1>5, <1>6, <1>7

LEMMA NextTurns == IInv /\ RequestsInv /\ TurnsInv /\ [Next]_vars => TurnsInv'
  <1> SUFFICES ASSUME IInv, RequestsInv, TurnsInv, [Next]_vars PROVE TurnsInv'
    OBVIOUS
  <1>1. CASE AddStep
    BY <1>1, AddStepTurns DEF AddStep
  <1>2. CASE WorkerStep
    BY <1>2, FrontStepTurns, ReconcileStepTurns DEF WorkerStep
  <1>3. CASE ReconcileError \/ OperatorRestart \/ WatchEvent
    BY <1>3, ReconcileStepTurns
  <1>4. CASE ClusterStep
    BY <1>4, ClusterStepTurns
  <1>5. CASE UNCHANGED vars
    BY <1>5, TurnsUnchanged DEF vars
  <1> QED BY <1>1, <1>2, <1>3, <1>4, <1>5 DEF Next

-----------------------------------------------------------------------------
(* The theorems about the requests                                         *)

\* The strengthening is inductive: the scheduling invariant of the queue, where its requests
\* are, and whose turn it is.
THEOREM QueueInductive == Spec => [](IInv /\ RequestsInv /\ TurnsInv)
  BY InitIInv, NextIInv, InitRequests, NextRequests, InitTurns, NextTurns, PTL DEF Spec

\* Every accepted request is in exactly one place of the stored map, a queue entry or a log
\* entry, through merging, restarting, expiry, errors and crashes, unless an outdated copy was
\* written back.
THEOREM NoRequestLost == Spec => []RequestsKept
  <1>1. IInv /\ RequestsInv => RequestsKept
    <2> SUFFICES ASSUME IInv, RequestsInv, Up, NEW r \in accepted
                 PROVE  Cardinality(QueuedAt(r)) + Cardinality(LoggedAs(r)) = 1
      BY DEF RequestsKept, Up
    <2>1. QueuedAt(r) = Queued(cm, r) /\ LoggedAs(r) = Logged(cm, r)
      BY DEF QueuedAt, LoggedAs, Queued, Logged, QueueOf
    <2>2. Keeps(cm, accepted) /\ r \in Requests
      BY DEF RequestsInv, MapKeeps, IInv, TypeOK
    <2>3. \/ Queued(cm, r) = {} /\ \E e : Logged(cm, r) = {e}
          \/ Logged(cm, r) = {} /\ \E i : Queued(cm, r) = {i}
      BY <2>2 DEF Keeps, Once
    <2>4. Cardinality({}) = 0 /\ \A x : Cardinality({x}) = 1
      BY FS_EmptySet, FS_Singleton
    <2>5. CASE Queued(cm, r) = {} /\ \E e : Logged(cm, r) = {e}
      <3>1. Cardinality(Queued(cm, r)) = 0 /\ Cardinality(Logged(cm, r)) = 1
        BY <2>4, <2>5
      <3> QED BY <2>1, <3>1
    <2>6. CASE Logged(cm, r) = {} /\ \E i : Queued(cm, r) = {i}
      <3>1. Cardinality(Queued(cm, r)) = 1 /\ Cardinality(Logged(cm, r)) = 0
        BY <2>4, <2>6
      <3> QED BY <2>1, <3>1
    <2> QED BY <2>3, <2>5, <2>6
  <1> QED BY <1>1, QueueInductive, PTL

\* One component of an organisation is restarted at a time, unless a copy was outdated when it
\* was used, a call was cut off between restart and write, or the old pod was not known.
THEOREM OneAtATime == Spec => []Staggered
  <1>1. TurnsInv => Staggered
    BY DEF TurnsInv
  <1> QED BY <1>1, QueueInductive, PTL

\* A deployment whose restart is under way is not restarted again.
THEOREM RestartsApart == Spec => NoRestartWhileRolling
  <1>1. IInv /\ RequestsInv /\ TurnsInv /\ [Next]_vars =>
          [\A m \in MSPIDs : FrontPendingRestart(m) /\ mishaps' \subseteq {"unseen"}
              => ~rolling[Front(m).CRName]]_vars
    <2> SUFFICES ASSUME IInv, RequestsInv, TurnsInv, NEW m \in MSPIDs, FrontPendingRestart(m),
                        mishaps' \subseteq {"unseen"}, rolling[Front(m).CRName]
                 PROVE  FALSE
      OBVIOUS
    <2>1. AtFront(m, "pending") /\ dep[Front(m).CRName] /\ Clean /\ Up /\ worker.fresh
      BY DEF FrontPendingRestart, Clean, Up, Blame
    <2>2. Front(m).CRName \in CRs /\ worker.pc = "loop" /\ Front(m).Status = "pending"
      BY <2>1, FrontFacts
    <2>3. MSPOf[Front(m).CRName] = m
      BY <2>1, FrontFiled
    <2> QED BY <2>1, <2>2, <2>3, TurnIsFront
  <1> QED BY <1>1, QueueInductive, PTL DEF Spec, NoRestartWhileRolling

-----------------------------------------------------------------------------
(* The stored map implements RestartService                                *)

\* The stage of a request, by a copy of the map that answers for the requests in A
StageIn(cfg, A, r) == IF r \notin A THEN "new" ELSE Stage(cfg, r)

LEMMA StageOfIsStage ==
    ASSUME NEW r
    PROVE  /\ StageOf(r) = StageIn(cm, accepted, r)
           /\ StageOf(r)' = StageIn(cm', accepted', r)
  BY DEF StageOf, StageIn, Stage, Waiting, Waits, LoggedAs, QueuedAt, Logged, Queued, QueueOf

\* What the worker writes at the end is one turn of some organisations.
LEMMA WriteServes ==
    ASSUME accepted' = accepted, Up, Up',
           \A m \in MSPIDs : Same(m, cm, cm') \/ Turned(m, accepted, cm, cm')
    PROVE  Service!Serve
  <1>1. \A r \in Requests : /\ StageOf(r) = StageIn(cm, accepted, r)
                            /\ StageOf(r)' = StageIn(cm', accepted, r)
    BY StageOfIsStage
  <1>2. ASSUME NEW m \in MSPIDs
        PROVE  Service!Turn(m) \/ \A r \in Service!Of(m) : StageOf(r)' = StageOf(r)
    <2>1. /\ Service!Of(m) = Of(m) /\ Of(m) \subseteq Requests
          /\ Service!At(m, "queued") = In(m, accepted, cm, "queued")
          /\ Service!At(m, "restarting") = In(m, accepted, cm, "restarting")
      BY <1>1 DEF Service!Of, Of, Service!At, In, StageIn
    <2>2. CASE Same(m, cm, cm')
      BY <1>1, <2>1, <2>2 DEF Same, StageIn
    <2>3. ASSUME NEW R, NEW from \in {"queued", "restarting"}, NEW to,
                 Moved(m, accepted, cm, cm', R, from, to)
          PROVE  Service!Move(m, R, from, to) /\ R \subseteq Service!At(m, from)
      <3>1. R # {} /\ R \subseteq Service!At(m, from) /\ \A r, q \in R : CROf[r] = CROf[q]
        BY <2>1, <2>3 DEF Moved
      <3>2. ASSUME NEW r \in Of(m)
            PROVE  StageOf(r)' = IF r \in R THEN to ELSE StageOf(r)
        <4>1. r \in R => r \in accepted
          BY <2>3 DEF Moved, In
        <4>2. Stage(cm', r) = IF r \in R THEN to ELSE Stage(cm, r)
          BY <2>3 DEF Moved
        <4> QED BY <1>1, <2>1, <4>1, <4>2 DEF StageIn
      <3> QED BY <2>1, <3>1, <3>2 DEF Service!Move
    <2>4. CASE Turned(m, accepted, cm, cm')
      <3>1. CASE /\ In(m, accepted, cm, "restarting") = {}
                 /\ \E R \in SUBSET Requests, to \in {"restarting", "gone"} :
                       Moved(m, accepted, cm, cm', R, "queued", to)
        <4>1. PICK R \in SUBSET Requests, to \in {"restarting", "gone"} :
                 Moved(m, accepted, cm, cm', R, "queued", to)
          BY <3>1
        <4>2. Service!Move(m, R, "queued", to) /\ R \in SUBSET Service!At(m, "queued")
          BY <2>3, <4>1
        <4> QED BY <2>1, <3>1, <4>2 DEF Service!Turn
      <3>2. CASE Moved(m, accepted, cm, cm', In(m, accepted, cm, "restarting"), "restarting", "done")
        BY <2>1, <2>3, <3>2 DEF Service!Turn
      <3> QED BY <2>4, <3>1, <3>2 DEF Turned
    <2> QED BY <2>2, <2>4
  <1>3. \A m \in MSPIDs : Service!Of(m) \subseteq Requests
    BY DEF Service!Of
  <1> QED BY <1>2, <1>3 DEF Service!Serve, Up

\* A write that leaves every request at its stage is not to be seen.
LEMMA StagesStay ==
    ASSUME accepted' = accepted, Up, Up', \A r \in Requests : Stage(cm', r) = Stage(cm, r)
    PROVE  UNCHANGED Service!serviceVars
  <1>1. \A r \in Requests : StageOf(r)' = StageOf(r)
    BY StageOfIsStage DEF StageIn
  <1> QED BY <1>1 DEF Service!serviceVars, Up

\* Every step of the queue is a step of the service or is not to be seen by it.
LEMMA StepServes ==
    ASSUME IInv, RequestsInv, [Next]_vars
    PROVE  [Service!Next]_(Service!serviceVars)
  <1>1. CASE ~Up'
    BY <1>1 DEF Up, Service!Next, Service!Void
  <1>2. ASSUME Up', NEW r \in Requests, AddUpdateConfig(r)
        PROVE  Service!Accept(r)
    <2>1. /\ adder[r].pc = "got" /\ accepted' = accepted \cup {r}
          /\ cm' = AddToQueue(adder[r].cfg, MSPOf[CROf[r]], NewComponent(r))
          /\ mishaps' = mishaps \cup Blame(adder[r].fresh)
      BY <1>2 DEF AddUpdateConfig
    <2>2. Up /\ adder[r].fresh
      BY <1>2, <2>1 DEF Up, Blame
    <2>3. /\ adder[r].cfg = cm /\ cm \in RestartConfig /\ Filed(cm) /\ Keeps(cm, accepted)
          /\ r \notin accepted
      BY <2>1, <2>2 DEF RequestsInv, AddersCurrent, AllFiled, MapKeeps, AcceptedOnce, IInv, TypeOK
    <2>4. \A s \in Requests : Stage(cm', s) = IF s = r THEN "queued" ELSE Stage(cm, s)
      BY <2>1, <2>3, AddKeeps
    <2>5. /\ StageOf(r) = "new" /\ StageOf(r)' = "queued"
          /\ \A s \in Requests \ {r} : StageOf(s)' = StageOf(s)
      BY <2>1, <2>3, <2>4, StageOfIsStage DEF StageIn
    <2> DEFINE f == [s \in Requests |-> StageOf(s)]
               g == [s \in Requests |-> StageOf(s)']
    <2>6. f[r] = "new" /\ g = [f EXCEPT ![r] = "queued"]
      <3>1. DOMAIN g = DOMAIN [f EXCEPT ![r] = "queued"] /\ DOMAIN g = Requests
        OBVIOUS
      <3>2. \A s \in Requests : g[s] = [f EXCEPT ![r] = "queued"][s]
        BY <2>5
      <3> QED BY <2>5, <3>1, <3>2
    <2>7. UNCHANGED ("outdated" \in mishaps)
      BY <1>2, <2>2 DEF Up
    <2> QED BY <2>6, <2>7 DEF Service!Accept
  <1>3. ASSUME Up', ReconcileOptimize
        PROVE  UNCHANGED Service!serviceVars
    <2>1. PICK cfg \in optimizeRestart(worker.cfg) : cm' = cfg
      BY <1>3 DEF ReconcileOptimize
    <2>2. /\ worker.pc = "optimize" /\ accepted' = accepted
          /\ mishaps' = mishaps \cup Blame(worker.fresh)
      BY <1>3 DEF ReconcileOptimize
    <2>3. Up /\ worker.fresh
      BY <1>3, <2>2 DEF Up, Blame
    <2>4. worker.cfg = cm /\ Good(cm) /\ Filed(cm) /\ Keeps(cm, accepted)
      BY <2>2, <2>3 DEF RequestsInv, OptimizesCurrent, AllFiled, MapKeeps, IInv, AllGood
    <2>5. \A r \in Requests : Stage(cm', r) = Stage(cm, r)
      BY <2>1, <2>4, OptimizeKeeps
    <2> QED BY <1>3, <2>2, <2>3, <2>5, StagesStay
  <1>4. ASSUME Up', ReconcileEnd, worker.updated
        PROVE  Service!Serve
    <2>1. /\ worker.pc = "loop" /\ accepted' = accepted /\ cm' = worker.cfg
          /\ mishaps' = mishaps \cup Blame(worker.fresh)
      BY <1>4 DEF ReconcileEnd
    <2>2. Up /\ worker.fresh
      BY <1>4, <2>1 DEF Up, Blame
    <2>3. \A m \in MSPIDs : Same(m, cm, cm') \/ Turned(m, accepted, cm, cm')
      BY <2>1, <2>2 DEF RequestsInv, Progress
    <2> QED BY <1>4, <2>1, <2>2, <2>3, WriteServes
  <1>5. ASSUME Up', UNCHANGED <<cm, accepted>>, Up
        PROVE  UNCHANGED Service!serviceVars
    BY <1>5, StagesStay
  <1>6. CASE AddStep
    <2>1. PICK r \in Requests : AddGetConfig(r) \/ AddUpdateConfig(r) \/ AddTimeout(r)
      BY <1>6 DEF AddStep
    <2>2. CASE AddGetConfig(r) \/ AddTimeout(r)
      BY <1>1, <1>5, <2>2 DEF AddGetConfig, AddTimeout, Up
    <2> QED BY <1>1, <1>2, <2>1, <2>2 DEF Service!Next
  <1>7. CASE ReconcileStart \/ ReconcileError \/ OperatorRestart \/ WatchEvent
    <2>1. UNCHANGED <<cm, accepted>> /\ (Up' => Up)
      BY <1>7 DEF ReconcileStart, ReconcileError, OperatorRestart, WatchEvent, Up
    <2> QED BY <1>1, <1>5, <2>1
  <1>8. CASE ReconcileOptimize
    BY <1>1, <1>3, <1>8
  <1>9. CASE ReconcileEnd
    <2>1. ~worker.updated => UNCHANGED <<cm, accepted, mishaps>>
      BY <1>9 DEF ReconcileEnd
    <2> QED BY <1>1, <1>4, <1>5, <1>9, <2>1 DEF Service!Next, Up
  <1>10. CASE \E m \in MSPIDs : FrontStep(m)
    <2>1. UNCHANGED <<cm, accepted>> /\ (Up' => Up)
      BY <1>10 DEF FrontStep, FrontPendingLook, FrontPendingRestart, FrontPendingDeleted,
                   FrontWaitingCompleted, FrontWaitingExpired, FrontWaitingRecheck, Up
    <2> QED BY <1>1, <1>5, <2>1
  <1>11. CASE ClusterStep \/ UNCHANGED vars
    <2>1. UNCHANGED <<cm, accepted, mishaps>>
      BY <1>11 DEF ClusterStep, PodStopped, PodCreated, PodReady, PodUnready, DeploymentDeleted, vars
    <2> QED BY <1>1, <1>5, <2>1 DEF Up
  <1> QED BY <1>6, <1>7, <1>8, <1>9, <1>10, <1>11 DEF Next, WorkerStep

\* The stored map implements the service: as long as no outdated copy is written back, a
\* request that was accepted waits for its turn, one component of an organisation has the turn
\* at a time, and a request that was served is not taken up again - whoever writes the map, and
\* however the writers interleave, fail or crash.
THEOREM ServiceImplemented == Spec => ServiceProvided
  <1>1. Init => Service!Init
    <2> SUFFICES ASSUME Init PROVE Service!Init
      OBVIOUS
    <2>1. \A r \in Requests : StageOf(r) = "new"
      BY DEF Init, StageOf
    <2> QED BY <2>1 DEF Init, Service!Init
  <1>2. IInv /\ RequestsInv /\ [Next]_vars => [Service!Next]_(Service!serviceVars)
    BY StepServes
  <1> QED BY <1>1, <1>2, QueueInductive, PTL DEF Spec, ServiceProvided, Service!Spec
=============================================================================
