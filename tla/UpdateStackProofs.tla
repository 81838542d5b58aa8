-------------------------- MODULE UpdateStackProofs --------------------------
(***************************************************************************)
(* Machine-checked proofs about UpdateStack, for any set of facets, any    *)
(* choice of the recovered and the pinned ones, and any number of edits,   *)
(* events, crashes and failed calls.                                       *)
(***************************************************************************)
EXTENDS UpdateStack, SequenceTheorems, TLAPS

\* The spec before the (k+1)th of the pending events es, the one before them being d.
At(d, es, k) == IF k = 0 THEN d ELSE es[k]

Before(k) == At(delivered, events, k)

\* The facets some of the events es is about.
AnnouncedBy(d, es) ==
    UNION {Diff(IF k = 1 THEN d ELSE es[k-1], es[k]) : k \in DOMAIN es}

\* The events lead from the spec UpdateFunc was last given to the informer's copy.
EventsReachCache == up => Before(Len(events)) = cache

\* A facet that differs from the informer's copy is the subject of a later event.
EventsTellAll ==
    \A k \in 0..Len(events), f \in Facets :
        up /\ Before(k)[f] # cache[f]
            => \E j \in (k+1)..Len(events) : Before(j-1)[f] # Before(j)[f]

\* A stopped operator has nothing in memory.
StoppedIsEmpty ==
    ~up => stack = <<>> /\ events = <<>> /\ ~work /\ worker = IdleWorker

\* The result is that of the call in progress.
ResultIsOfThisCall == worker.pc \notin {"status", "finish"} => worker.result = "ok"

\* Every copy of a facet is an old value of it.
CopiesAreOld ==
    \A f \in Facets :
        /\ spec[f] <= edits /\ cache[f] <= spec[f] /\ saved[f] <= spec[f]
        /\ handled[f] <= spec[f] /\ worker.instance[f] <= spec[f]

\* On the way to the worker, apart from what the worker has in its hands.
Pending == Diff(cache, spec) \cup Announced \cup (UNION Range(stack))

\* What the offering works on with an old value comes again.
OldWorkComesAgain ==
    mishaps = {} /\ worker.pc = "offering" =>
        \A f \in worker.popped : worker.instance[f] # spec[f] => f \in Pending

\* The update that will be put back is the one that was popped.
PutBackIsPopped ==
    mishaps = {} /\ worker.result = "requeue" => worker.update = worker.popped

\* The inductive invariant.
IInv ==
    /\ TypeOK
    /\ StackServed
    /\ EventsReachCache
    /\ EventsTellAll
    /\ StoppedIsEmpty
    /\ ResultIsOfThisCall
    /\ CopiesAreOld
    /\ OldWorkComesAgain
    /\ PutBackIsPopped
    /\ SpecCovered

-----------------------------------------------------------------------------
(* The stack and the events                                                *)

\* AppendUpdateIfMissing adds the update and keeps the others.
LEMMA AppendUpdateIfMissingFacts ==
    ASSUME NEW updates \in Seq(Update), NEW update \in Update
    PROVE  /\ AppendUpdateIfMissing(updates, update) \in Seq(Update)
           /\ AppendUpdateIfMissing(updates, update) # <<>>
           /\ Range(updates) \cup {update} \subseteq Range(AppendUpdateIfMissing(updates, update))
  <1> DEFINE s == Append(updates, update)
  <1>1. CASE update \in Range(updates)
    <2>1. updates # <<>>
      BY <1>1 DEF Range
    <2> QED BY <1>1, <2>1 DEF AppendUpdateIfMissing
  <1>2. CASE update \notin Range(updates)
    <2>1. /\ s \in Seq(Update) /\ Len(s) = Len(updates) + 1 /\ s # <<>>
          /\ \A i \in 1..Len(updates) : s[i] = updates[i]
          /\ s[Len(updates) + 1] = update
      BY AppendProperties
    <2>2. Len(updates) \in Nat /\ DOMAIN updates = 1..Len(updates) /\ DOMAIN s = 1..Len(s)
      BY <2>1, LenProperties
    <2>3. Range(updates) \subseteq Range(s)
      BY <2>1, <2>2 DEF Range
    <2>4. update \in Range(s)
      BY <2>1, <2>2 DEF Range
    <2> QED BY <1>2, <2>1, <2>3, <2>4 DEF AppendUpdateIfMissing
  <1> QED BY <1>1, <1>2

\* The facets of the updates of a set, and of one more.
LEMMA UnionFacts ==
    ASSUME NEW A, NEW B, NEW x
    PROVE  /\ A \cup {x} \subseteq B => (UNION A) \cup x \subseteq UNION B
           /\ A \subseteq B \cup {x} => UNION A \subseteq (UNION B) \cup x
  <1>1. ASSUME A \cup {x} \subseteq B, NEW e \in (UNION A) \cup x
        PROVE  e \in UNION B
    <2>1. CASE e \in x
      BY <1>1, <2>1
    <2>2. CASE e \in UNION A
      <3>1. PICK X \in A : e \in X
        BY <2>2
      <3> QED BY <1>1, <3>1
    <2> QED BY <1>1, <2>1, <2>2
  <1>2. ASSUME A \subseteq B \cup {x}, NEW e \in UNION A
        PROVE  e \in (UNION B) \cup x
    <2>1. PICK X \in A : e \in X
      BY <1>2
    <2> QED BY <1>2, <2>1
  <1> QED BY <1>1, <1>2

\* PopUpdate takes the head only.
LEMMA PopFacts ==
    ASSUME NEW updates \in Seq(Update), updates # <<>>
    PROVE  /\ Head(updates) \in Update
           /\ Tail(updates) \in Seq(Update)
           /\ Range(updates) \subseteq Range(Tail(updates)) \cup {Head(updates)}
  <1>1. /\ Head(updates) \in Update /\ Tail(updates) \in Seq(Update)
        /\ Head(updates) = updates[1]
        /\ Len(Tail(updates)) = Len(updates) - 1
        /\ \A i \in 1..Len(Tail(updates)) : Tail(updates)[i] = updates[i+1]
    BY HeadTailProperties
  <1>2. /\ Len(updates) \in Nat /\ DOMAIN updates = 1..Len(updates)
        /\ DOMAIN Tail(updates) = 1..Len(Tail(updates))
    BY <1>1, LenProperties
  <1>3. ASSUME NEW i \in 1..Len(updates)
        PROVE  updates[i] \in Range(Tail(updates)) \cup {Head(updates)}
    <2>1. CASE i = 1
      BY <1>1, <2>1
    <2>2. CASE i # 1
      <3>1. i - 1 \in 1..Len(Tail(updates)) /\ Tail(updates)[i - 1] = updates[i]
        BY <1>1, <1>2, <2>2
      <3> QED BY <1>2, <3>1 DEF Range
    <2> QED BY <2>1, <2>2
  <1> QED BY <1>1, <1>2, <1>3 DEF Range

\* The facets announced, in terms of the specs before and after each event.
LEMMA AnnouncedIs ==
    ASSUME NEW d \in Specs, NEW es \in Seq(Specs)
    PROVE  AnnouncedBy(d, es)
             = {f \in Facets : \E j \in 1..Len(es) : At(d, es, j-1)[f] # At(d, es, j)[f]}
  <1> DEFINE Event(k) == Diff(IF k = 1 THEN d ELSE es[k-1], es[k])
             Step(k) == {f \in Facets : At(d, es, k-1)[f] # At(d, es, k)[f]}
  <1>1. Len(es) \in Nat /\ DOMAIN es = 1..Len(es)
    BY LenProperties
  <1>2. \A k \in 1..Len(es) : Event(k) = Step(k)
    BY <1>1 DEF Diff, At
  <1>3. UNION {Event(k) : k \in DOMAIN es} = UNION {Step(k) : k \in 1..Len(es)}
    <2> HIDE DEF Event, Step
    <2> QED BY <1>1, <1>2
  <1>4. AnnouncedBy(d, es) = UNION {Step(k) : k \in 1..Len(es)}
    BY <1>3 DEF AnnouncedBy
  <1>5. UNION {Step(k) : k \in 1..Len(es)} = {f \in Facets : \E j \in 1..Len(es) : f \in Step(j)}
    OBVIOUS
  <1> QED BY <1>4, <1>5

-----------------------------------------------------------------------------
(* The type invariant                                                      *)

\* Facts about the values at rest.
LEMMA SpecFacts ==
    /\ Spec0 \in Specs
    /\ IdleWorker \in Worker
    /\ IdleWorker.pc = "idle" /\ IdleWorker.result = "ok" /\ IdleWorker.instance = Spec0
    /\ \A m \in Mishaps, c \in BOOLEAN : (IF c THEN {m} ELSE {}) \in SUBSET Mishaps
    /\ \A old, new : Diff(old, new) \in Update
  <1>1. Spec0 \in Specs
    BY ConstantsOK DEF Spec0, Specs
  <1> QED BY <1>1 DEF IdleWorker, Worker, Update, Diff

\* Whatever the stack, GetUpdateStatus is an update.
LEMMA GetUpdateStatusType ==
    ASSUME TypeOK
    PROVE  GetUpdateStatus \in Update
  BY PopFacts DEF TypeOK, GetUpdateStatus, Update

\* A step keeps the types.
LEMMA TypeStep ==
    ASSUME TypeOK, [Next]_vars
    PROVE  TypeOK'
  <1> USE SpecFacts, ConstantsOK
  <1>1. ASSUME NEW changed \in SUBSET Facets, Edit(changed)
        PROVE  TypeOK'
    <2>1. spec' \in Specs /\ edits' \in 0..MaxEdits
      BY <1>1 DEF TypeOK, Edit, Specs
    <2> QED BY <1>1, <2>1 DEF TypeOK, Edit, informerVars
  <1>2. CASE Informed
    <2>1. events' \in Seq(Specs)
      BY <1>2, AppendProperties DEF TypeOK, Informed
    <2> QED BY <1>2, <2>1 DEF TypeOK, Informed, clusterVars
  <1>3. ASSUME NextEvent
        PROVE  delivered' \in Specs /\ events' \in Seq(Specs)
    BY <1>3, HeadTailProperties DEF TypeOK, NextEvent
  <1>4. CASE UpdateFunc
    <2>1. stack' \in Seq(Update)
      BY <1>4, AppendUpdateIfMissingFacts DEF TypeOK, UpdateFunc
    <2> QED BY <1>3, <1>4, <2>1 DEF TypeOK, UpdateFunc, clusterVars
  <1>5. CASE UpdateFuncRefuses
    BY <1>3, <1>5 DEF TypeOK, UpdateFuncRefuses, clusterVars, NoteIf, Mishaps
  <1>6. CASE OtherEvent
    BY <1>6 DEF TypeOK, OtherEvent, clusterVars, informerVars
  <1>7. CASE GetInstance
    BY <1>7 DEF TypeOK, GetInstance, clusterVars, informerVars, IdleWorker, Worker, Update
  <1>8. CASE Peek
    BY <1>8, GetUpdateStatusType DEF TypeOK, Peek, clusterVars, informerVars, Worker
  <1>9. CASE PopUpdate
    <2>1. stack' \in Seq(Update)
      BY <1>9, PopFacts DEF TypeOK, PopUpdate
    <2>2. worker' \in Worker
      BY <1>9, GetUpdateStatusType DEF TypeOK, PopUpdate, Worker
    <2>3. mishaps' \in SUBSET Mishaps
      BY <1>9 DEF TypeOK, PopUpdate, NoteIf, Mishaps
    <2> QED BY <1>9, <2>1, <2>2, <2>3 DEF TypeOK, PopUpdate, clusterVars, informerVars
  <1>10. ASSUME NEW done
         PROVE  Dealt(done) \in Specs
    BY DEF TypeOK, Dealt, Worker, Specs
  <1>11. CASE OfferingDone
    BY <1>10, <1>11 DEF TypeOK, OfferingDone, clusterVars, informerVars, Worker
  <1>12. CASE OfferingRequeue
    BY <1>12 DEF TypeOK, OfferingRequeue, clusterVars, informerVars, Worker, NoteIf, Mishaps
  <1>13. CASE OfferingError
    <2>1. worker' \in Worker
      BY <1>13 DEF TypeOK, OfferingError, Worker
    <2>2. mishaps' \in SUBSET Mishaps /\ handled' \in Specs
      BY <1>10, <1>13 DEF TypeOK, OfferingError, NoteIf, Mishaps
    <2> QED BY <1>13, <2>1, <2>2 DEF TypeOK, OfferingError, clusterVars, informerVars, Fault
  <1>14. CASE SetStatus
    BY <1>14 DEF TypeOK, SetStatus, informerVars, Worker
  <1>15. CASE SetStatusError
    <2>1. worker' \in Worker /\ saved' \in Specs
      BY <1>15 DEF TypeOK, SetStatusError, Worker
    <2>2. mishaps' \in SUBSET Mishaps
      BY <1>15 DEF TypeOK, SetStatusError, NoteIf, Mishaps
    <2> QED BY <1>15, <2>1, <2>2 DEF TypeOK, SetStatusError, informerVars, Fault
  <1>16. CASE FinishError
    <2>1. mishaps' \in SUBSET Mishaps
      BY <1>16 DEF TypeOK, FinishError, NoteIf, Mishaps
    <2> QED BY <1>16, <2>1 DEF TypeOK, FinishError, clusterVars, informerVars
  <1>17. CASE FinishRequeue
    <2>1. stack' \in Seq(Update)
      BY <1>17, AppendUpdateIfMissingFacts DEF TypeOK, FinishRequeue, Worker
    <2> QED BY <1>17, <2>1 DEF TypeOK, FinishRequeue, clusterVars, informerVars
  <1>18. CASE FinishOK
    BY <1>18 DEF TypeOK, FinishOK, clusterVars, informerVars
  <1>19. CASE Crash
    <2>1. mishaps' \in SUBSET Mishaps
      BY <1>19 DEF TypeOK, Crash, NoteIf, Mishaps
    <2>2. stack' \in Seq(Update) /\ events' \in Seq(Specs)
      BY <1>19 DEF Crash
    <2>3. worker' \in Worker /\ faults' \in 0..MaxFaults
      BY <1>19 DEF TypeOK, Crash, Fault
    <2>4. work' \in BOOLEAN /\ up' \in BOOLEAN
      BY <1>19, Zenon DEF Crash
    <2>5. UNCHANGED <<spec, saved, edits, cache, delivered, handled>>
      BY <1>19 DEF Crash, clusterVars
    <2> QED BY <2>1, <2>2, <2>3, <2>4, <2>5 DEF TypeOK
  <1>20. CASE CreateFunc
    <2>1. stack' \in Seq(Update)
      <3>1. Diff(saved, spec) \cap Recovered \in Update
        BY DEF Diff, Update
      <3> QED BY <1>20, <3>1 DEF CreateFunc
    <2>2. mishaps' \in SUBSET Mishaps
      BY <1>20 DEF TypeOK, CreateFunc, NoteIf, Mishaps
    <2> QED BY <1>20, <2>1, <2>2 DEF TypeOK, CreateFunc, Restarted, clusterVars
  <1>21. CASE CreateFuncUnread
    <2>1. mishaps' \in SUBSET Mishaps
      BY <1>21 DEF TypeOK, CreateFuncUnread, NoteIf, Mishaps
    <2> QED BY <1>21, <2>1 DEF TypeOK, CreateFuncUnread, Restarted, Fault, clusterVars
  <1>22. CASE UNCHANGED vars
    BY <1>22 DEF TypeOK, vars
  <1> QED
    BY <1>1, <1>2, <1>4, <1>5, <1>6, <1>7, <1>8, <1>9, <1>11, <1>12, <1>13, <1>14, <1>15,
       <1>16, <1>17, <1>18, <1>19, <1>20, <1>21, <1>22
    DEF Next, WorkerStep, Finish

\* The initial state is well typed.
LEMMA InitType ==
    ASSUME Init
    PROVE  TypeOK
  <1>1. events \in Seq(Specs) /\ stack \in Seq(Update)
    BY DEF Init
  <1>2. /\ spec \in Specs /\ cache \in Specs /\ delivered \in Specs
        /\ worker \in Worker /\ saved \in Specs /\ handled \in Specs
        /\ edits \in 0..MaxEdits /\ mishaps \in SUBSET Mishaps /\ faults \in 0..MaxFaults
    BY SpecFacts, ConstantsOK DEF Init
  <1>3. work \in BOOLEAN /\ up \in BOOLEAN
    BY Zenon DEF Init
  <1> QED BY <1>1, <1>2, <1>3 DEF TypeOK

\* The peer controller's state is well typed: every value of the stack, the
\* work queue, the worker and the config map is one the code can produce.
THEOREM TypeCorrect == Spec => []TypeOK
  <1>1. Init => TypeOK
    BY InitType
  <1>2. TypeOK /\ [Next]_vars => TypeOK'
    BY TypeStep
  <1> QED BY <1>1, <1>2, PTL DEF Spec

-----------------------------------------------------------------------------
(* The parts of the inductive invariant                                    *)

\* StackServed, with what it and the other parts need of the control state.
LEMMA ControlStep ==
    ASSUME TypeOK, TypeOK', StackServed, StoppedIsEmpty, ResultIsOfThisCall, [Next]_vars
    PROVE  (StackServed /\ StoppedIsEmpty /\ ResultIsOfThisCall)'
  <1> USE SpecFacts DEF StackServed, StoppedIsEmpty, ResultIsOfThisCall, TypeOK
  <1>1. ASSUME NEW changed \in SUBSET Facets, Edit(changed)
        PROVE  (StackServed /\ StoppedIsEmpty /\ ResultIsOfThisCall)'
    BY <1>1 DEF Edit, informerVars
  <1>2. CASE Informed
    BY <1>2 DEF Informed
  <1>3. CASE UpdateFunc
    BY <1>3 DEF UpdateFunc, NextEvent
  <1>4. CASE UpdateFuncRefuses
    BY <1>4 DEF UpdateFuncRefuses, NextEvent, NoteIf
  <1>5. CASE OtherEvent
    BY <1>5 DEF OtherEvent, informerVars
  <1>6. CASE GetInstance
    BY <1>6 DEF GetInstance, informerVars, IdleWorker
  <1>7. CASE Peek
    BY <1>7 DEF Peek, informerVars, Worker
  <1>8. CASE PopUpdate
    BY <1>8 DEF PopUpdate, informerVars, Worker, NoteIf
  <1>9. CASE OfferingDone
    BY <1>9 DEF OfferingDone, informerVars, Worker
  <1>10. CASE OfferingRequeue
    BY <1>10 DEF OfferingRequeue, informerVars, Worker, NoteIf
  <1>11. CASE OfferingError
    BY <1>11 DEF OfferingError, informerVars, Worker, NoteIf
  <1>12. CASE SetStatus
    BY <1>12 DEF SetStatus, informerVars, Worker
  <1>13. CASE SetStatusError
    BY <1>13 DEF SetStatusError, informerVars, Worker, NoteIf
  <1>14. CASE FinishError
    BY <1>14 DEF FinishError, informerVars, NoteIf
  <1>15. CASE FinishRequeue
    BY <1>15 DEF FinishRequeue, informerVars
  <1>16. CASE FinishOK
    BY <1>16 DEF FinishOK, informerVars
  <1>17. CASE Crash
    BY <1>17 DEF Crash
  <1>18. CASE CreateFunc
    BY <1>18 DEF CreateFunc, Restarted
  <1>19. CASE CreateFuncUnread
    BY <1>19 DEF CreateFuncUnread, Restarted
  <1>20. CASE UNCHANGED vars
    BY <1>20 DEF vars
  <1> QED
    BY <1>1, <1>2, <1>3, <1>4, <1>5, <1>6, <1>7, <1>8, <1>9, <1>10, <1>11, <1>12, <1>13,
       <1>14, <1>15, <1>16, <1>17, <1>18, <1>19, <1>20
    DEF Next, WorkerStep, Finish

\* No step lets a copy of a facet run ahead of the spec.
LEMMA CopiesStep ==
    ASSUME TypeOK, TypeOK', CopiesAreOld, [Next]_vars
    PROVE  CopiesAreOld'
  <1>1. /\ edits \in Nat /\ edits' \in Nat
        /\ \A f \in Facets :
             /\ spec[f] \in Nat /\ cache[f] \in Nat /\ saved[f] \in Nat
             /\ handled[f] \in Nat /\ worker.instance[f] \in Nat
             /\ Spec0[f] = 0
    BY ConstantsOK DEF TypeOK, Specs, Worker, Spec0
  <1> USE SpecFacts, <1>1 DEF CopiesAreOld
  <1>2. ASSUME NEW changed \in SUBSET Facets, Edit(changed)
        PROVE  CopiesAreOld'
    BY <1>2 DEF Edit, informerVars
  <1>3. CASE Informed
    BY <1>3 DEF Informed, clusterVars
  <1>4. ASSUME UNCHANGED <<clusterVars, cache, handled>>,
               worker'.instance \in {worker.instance, Spec0, cache}
        PROVE  CopiesAreOld'
    BY <1>4 DEF clusterVars
  <1>5. CASE UpdateFunc \/ UpdateFuncRefuses
    BY <1>4, <1>5 DEF UpdateFunc, UpdateFuncRefuses, NextEvent
  <1>6. CASE OtherEvent
    BY <1>4, <1>6 DEF OtherEvent, informerVars
  <1>7. CASE GetInstance
    BY <1>4, <1>7 DEF GetInstance, informerVars, IdleWorker
  <1>8. CASE Peek
    BY <1>4, <1>8 DEF Peek, informerVars, Worker, TypeOK
  <1>9. CASE PopUpdate
    BY <1>4, <1>9 DEF PopUpdate, informerVars, Worker, TypeOK
  <1>10. ASSUME NEW done, handled' = Dealt(done), UNCHANGED <<clusterVars, cache>>,
                worker'.instance = worker.instance
         PROVE  CopiesAreOld'
    BY <1>10 DEF clusterVars, Dealt
  <1>11. CASE OfferingDone
    BY <1>10, <1>11 DEF OfferingDone, informerVars, Worker, TypeOK
  <1>12. CASE OfferingRequeue
    BY <1>4, <1>12 DEF OfferingRequeue, informerVars, Worker, TypeOK
  <1>13. CASE OfferingError
    <2>1. worker'.instance = worker.instance
      BY <1>13 DEF OfferingError, Worker, TypeOK
    <2> QED BY <1>10, <1>13, <2>1 DEF OfferingError, informerVars
  <1>14. CASE SetStatus
    BY <1>14 DEF SetStatus, informerVars, Worker, TypeOK
  <1>15. CASE SetStatusError
    BY <1>15 DEF SetStatusError, informerVars
  <1>16. CASE FinishError \/ FinishRequeue \/ FinishOK
    BY <1>4, <1>16 DEF FinishError, FinishRequeue, FinishOK, informerVars
  <1>17. CASE Crash
    BY <1>4, <1>17 DEF Crash
  <1>18. CASE CreateFunc \/ CreateFuncUnread
    BY <1>18 DEF CreateFunc, CreateFuncUnread, Restarted, clusterVars
  <1>19. CASE UNCHANGED vars
    BY <1>4, <1>19 DEF vars, clusterVars
  <1> QED
    BY <1>2, <1>3, <1>5, <1>6, <1>7, <1>8, <1>9, <1>11, <1>12, <1>13, <1>14, <1>15,
       <1>16, <1>17, <1>18, <1>19
    DEF Next, WorkerStep, Finish

\* The informer's queue loses nothing: what it still holds explains every
\* difference between the spec UpdateFunc was given and the informer's copy.
LEMMA EventsStep ==
    ASSUME TypeOK, TypeOK', StoppedIsEmpty, EventsReachCache, EventsTellAll, [Next]_vars
    PROVE  (EventsReachCache /\ EventsTellAll)'
  <1>1. ASSUME UNCHANGED <<cache, events, delivered, up>>
        PROVE  (EventsReachCache /\ EventsTellAll)'
    BY <1>1 DEF EventsReachCache, EventsTellAll, At, Before
  <1>2. Len(events) \in Nat /\ DOMAIN events = 1..Len(events)
    BY LenProperties DEF TypeOK
  <1>3. CASE Informed
    <2> DEFINE n == Len(events)
    <2>1. /\ Len(events') = n + 1 /\ events'[n+1] = spec
          /\ \A k \in 1..n : events'[k] = events[k]
      BY <1>3, AppendProperties DEF Informed, TypeOK
    <2>2. up /\ cache' = spec /\ delivered' = delivered
      BY <1>3 DEF Informed
    <2>3. At(delivered', events', n+1) = spec /\ \A k \in 0..n : At(delivered', events', k) = Before(k)
      BY <1>2, <2>1, <2>2 DEF At, Before
    <2>4. Before(n) = cache
      BY <2>2 DEF EventsReachCache
    <2>5. ASSUME NEW k \in 0..(n+1), NEW f \in Facets, At(delivered', events', k)[f] # cache'[f]
          PROVE  \E j \in (k+1)..(n+1) : At(delivered', events', j-1)[f] # At(delivered', events', j)[f]
      <3>1. k \in 0..n /\ Before(k)[f] # spec[f]
        BY <1>2, <2>2, <2>3, <2>5
      <3>2. CASE cache[f] # spec[f]
        <4>1. At(delivered', events', (n+1)-1)[f] # At(delivered', events', n+1)[f]
          BY <1>2, <2>3, <2>4, <3>2
        <4> QED BY <1>2, <3>1, <4>1
      <3>3. CASE cache[f] = spec[f]
        <4>1. PICK j \in (k+1)..n : Before(j-1)[f] # Before(j)[f]
          BY <2>2, <3>1, <3>3 DEF EventsTellAll
        <4>2. j \in (k+1)..(n+1) /\ j-1 \in 0..n /\ j \in 0..n
          BY <1>2, <3>1
        <4> QED BY <2>3, <4>1, <4>2
      <3> QED BY <3>2, <3>3
    <2>6. EventsTellAll'
      BY <2>1, <2>5 DEF EventsTellAll, Before
    <2>7. EventsReachCache'
      BY <2>1, <2>2, <2>3 DEF EventsReachCache, Before
    <2> QED BY <2>6, <2>7
  <1>4. CASE NextEvent /\ UNCHANGED <<cache, up>>
    <2> DEFINE n == Len(events)
    <2>1. /\ Len(events') = n - 1 /\ delivered' = events[1] /\ n # 0
          /\ \A k \in 1..(n-1) : events'[k] = events[k+1]
      BY <1>4, HeadTailProperties, EmptySeq DEF NextEvent, TypeOK
    <2>2. \A k \in 0..(n-1) : At(delivered', events', k) = Before(k+1)
      BY <1>2, <2>1 DEF At, Before
    <2>3. EventsReachCache'
      BY <1>2, <1>4, <2>1, <2>2 DEF EventsReachCache, Before
    <2>4. ASSUME NEW k \in 0..(n-1), NEW f \in Facets, up', At(delivered', events', k)[f] # cache'[f]
          PROVE  \E j \in (k+1)..(n-1) : At(delivered', events', j-1)[f] # At(delivered', events', j)[f]
      <3>1. k+1 \in 0..n /\ Before(k+1)[f] # cache[f] /\ up
        BY <1>2, <1>4, <2>2, <2>4
      <3>2. PICK j \in ((k+1)+1)..n : Before(j-1)[f] # Before(j)[f]
        BY <3>1 DEF EventsTellAll
      <3>3. /\ j-1 \in (k+1)..(n-1) /\ j-1 \in 0..(n-1) /\ (j-1)-1 \in 0..(n-1)
            /\ (j-1)+1 = j /\ ((j-1)-1)+1 = j-1
        BY <1>2, <2>1, <3>1
      <3>4. At(delivered', events', j-1) = Before(j) /\ At(delivered', events', (j-1)-1) = Before(j-1)
        BY <2>2, <3>3
      <3> QED BY <3>2, <3>3, <3>4
    <2>5. EventsTellAll'
      BY <2>1, <2>4 DEF EventsTellAll, Before
    <2> QED BY <2>3, <2>5
  <1>5. CASE Crash
    BY <1>5 DEF Crash, EventsReachCache, EventsTellAll
  <1>6. CASE Restarted
    <2>1. events' = <<>> /\ cache' = delivered'
      BY <1>6 DEF Restarted, StoppedIsEmpty
    <2>2. Len(events') = 0
      BY <2>1
    <2> QED BY <2>1, <2>2 DEF EventsReachCache, EventsTellAll, At, Before
  <1>7. ASSUME NEW changed \in SUBSET Facets, Edit(changed)
        PROVE  UNCHANGED <<cache, events, delivered, up>>
    BY <1>7 DEF Edit, informerVars
  <1>8. CASE OtherEvent
    BY <1>1, <1>8 DEF OtherEvent, informerVars
  <1>9. CASE GetInstance \/ Peek \/ PopUpdate \/ OfferingDone \/ OfferingRequeue
    BY <1>1, <1>9 DEF GetInstance, Peek, PopUpdate, OfferingDone, OfferingRequeue, informerVars
  <1>10. CASE OfferingError \/ SetStatus \/ SetStatusError
    BY <1>1, <1>10 DEF OfferingError, SetStatus, SetStatusError, informerVars
  <1>11. CASE Finish
    BY <1>1, <1>11 DEF Finish, FinishError, FinishOK, FinishRequeue, informerVars
  <1>12. CASE UNCHANGED vars
    BY <1>1, <1>12 DEF vars
  <1>13. CASE UpdateFunc \/ UpdateFuncRefuses
    BY <1>4, <1>13 DEF UpdateFunc, UpdateFuncRefuses
  <1>14. CASE CreateFunc \/ CreateFuncUnread
    BY <1>6, <1>14 DEF CreateFunc, CreateFuncUnread
  <1> QED
    BY <1>1, <1>3, <1>5, <1>7, <1>8, <1>9, <1>10, <1>11, <1>12, <1>13, <1>14
    DEF Next, WorkerStep

-----------------------------------------------------------------------------
(* Nothing on the way is lost                                              *)

\* An edit puts what it changes on the way and takes nothing off it.
LEMMA EditKeepsPending ==
    ASSUME IInv, NEW changed \in SUBSET Facets, Edit(changed)
    PROVE  Pending \cup changed \subseteq Pending'
  <1>1. UNCHANGED <<cache, events, delivered, stack>> /\ edits \in Nat
    BY DEF Edit, informerVars, IInv, TypeOK
  <1>2. Announced' = Announced
    BY <1>1 DEF Announced
  <1>3. ASSUME NEW f \in Facets
        PROVE  (f \in changed \/ cache[f] # spec[f]) => cache'[f] # spec'[f]
    <2>1. cache[f] \in Nat /\ spec[f] \in Nat /\ cache[f] <= spec[f] /\ spec[f] <= edits
      BY ConstantsOK DEF IInv, TypeOK, Specs, CopiesAreOld
    <2>2. spec'[f] = IF f \in changed THEN edits + 1 ELSE spec[f]
      BY DEF Edit
    <2> QED BY <1>1, <2>1, <2>2
  <1> QED BY <1>1, <1>2, <1>3 DEF Pending, Diff

\* The informer turns a difference into an event.
LEMMA InformedKeepsPending ==
    ASSUME IInv, TypeOK', Informed
    PROVE  Pending \subseteq Pending'
  <1> DEFINE n == Len(events)
  <1>1. /\ n \in Nat /\ Len(events') = n + 1 /\ events'[n+1] = spec
        /\ \A k \in 1..n : events'[k] = events[k]
    BY AppendProperties, LenProperties DEF Informed, IInv, TypeOK
  <1>2. up /\ delivered' = delivered /\ stack' = stack /\ cache' = spec
    BY DEF Informed
  <1>3. /\ At(delivered', events', n+1) = spec /\ Before(n) = cache
        /\ \A k \in 0..n : At(delivered', events', k) = Before(k)
    BY <1>1, <1>2 DEF At, Before, IInv, EventsReachCache
  <1>4. AnnouncedBy(delivered', events') =
            {f \in Facets : \E j \in 1..(n+1) :
                At(delivered', events', j-1)[f] # At(delivered', events', j)[f]}
    <2>1. delivered' \in Specs /\ events' \in Seq(Specs)
      BY DEF TypeOK
    <2>2. AnnouncedBy(delivered', events') =
              {f \in Facets : \E j \in 1..Len(events') :
                  At(delivered', events', j-1)[f] # At(delivered', events', j)[f]}
      BY <2>1, AnnouncedIs
    <2> HIDE DEF n
    <2>3. 1..Len(events') = 1..(n+1)
      BY <1>1
    <2> QED BY <2>2, <2>3
  <1>5. ASSUME NEW f \in AnnouncedBy(delivered, events)
        PROVE  f \in AnnouncedBy(delivered', events')
    <2>1. f \in Facets
      BY AnnouncedIs DEF IInv, TypeOK, Before
    <2>2. PICK j \in 1..n : Before(j-1)[f] # Before(j)[f]
      BY AnnouncedIs DEF IInv, TypeOK, Before
    <2>3. j \in 1..(n+1) /\ j \in 0..n /\ j-1 \in 0..n
      BY <1>1
    <2> QED BY <1>3, <1>4, <2>1, <2>2, <2>3
  <1>6. ASSUME NEW f \in Diff(cache, spec)
        PROVE  f \in AnnouncedBy(delivered', events')
    <2>1. n+1 \in 1..(n+1) /\ (n+1)-1 = n /\ n \in 0..n
      BY <1>1
    <2>2. At(delivered', events', (n+1)-1)[f] # At(delivered', events', n+1)[f] /\ f \in Facets
      BY <1>3, <2>1 DEF Diff
    <2> QED BY <1>4, <2>1, <2>2
  <1> QED BY <1>2, <1>5, <1>6 DEF Pending, Announced, AnnouncedBy

\* UpdateFunc pushes what the event it consumes is about.
LEMMA UpdateFuncKeepsPending ==
    ASSUME IInv, TypeOK', UpdateFunc
    PROVE  Pending \subseteq Pending'
  <1> DEFINE n == Len(events)
             pushed == Diff(delivered, Head(events))
  <1>1. /\ n \in Nat /\ n # 0 /\ Len(events') = n - 1 /\ delivered' = events[1]
        /\ Head(events) = events[1]
        /\ \A k \in 1..(n-1) : events'[k] = events[k+1]
    BY HeadTailProperties, EmptySeq, LenProperties DEF UpdateFunc, NextEvent, IInv, TypeOK
  <1>2. \A k \in 0..(n-1) : At(delivered', events', k) = Before(k+1)
    BY <1>1 DEF At, Before
  <1>3. stack' = AppendUpdateIfMissing(stack, pushed) /\ UNCHANGED <<cache, spec>>
    BY DEF UpdateFunc, clusterVars
  <1>4. Range(stack) \cup {pushed} \subseteq Range(stack')
    BY <1>3, AppendUpdateIfMissingFacts, SpecFacts DEF IInv, TypeOK
  <1>5. AnnouncedBy(delivered', events') =
            {f \in Facets : \E j \in 1..(n-1) :
                At(delivered', events', j-1)[f] # At(delivered', events', j)[f]}
    BY <1>1, AnnouncedIs DEF TypeOK
  <1>6. ASSUME NEW f \in AnnouncedBy(delivered, events)
        PROVE  f \in AnnouncedBy(delivered', events') \/ f \in pushed
    <2>1. f \in Facets
      BY AnnouncedIs DEF IInv, TypeOK, Before
    <2>2. PICK j \in 1..n : Before(j-1)[f] # Before(j)[f]
      BY AnnouncedIs DEF IInv, TypeOK, Before
    <2>3. CASE j = 1
      BY <1>1, <2>1, <2>2, <2>3 DEF At, Before, Diff
    <2>4. CASE j # 1
      <3>1. /\ j-1 \in 1..(n-1) /\ j-1 \in 0..(n-1) /\ (j-1)-1 \in 0..(n-1)
            /\ (j-1)+1 = j /\ ((j-1)-1)+1 = j-1
        BY <1>1, <2>4
      <3>2. At(delivered', events', j-1) = Before(j) /\ At(delivered', events', (j-1)-1) = Before(j-1)
        BY <1>2, <3>1
      <3> QED BY <1>5, <2>1, <2>2, <3>1, <3>2
    <2> QED BY <2>3, <2>4
  <1>7. (UNION Range(stack)) \cup pushed \subseteq UNION Range(stack')
    <2> HIDE DEF pushed
    <2> QED BY <1>4, UnionFacts
  <1>8. /\ Announced = AnnouncedBy(delivered, events)
        /\ Announced' = AnnouncedBy(delivered', events')
    BY DEF Announced, AnnouncedBy
  <1> HIDE DEF pushed
  <1> QED BY <1>3, <1>6, <1>7, <1>8 DEF Pending

-----------------------------------------------------------------------------
(* Every edit is covered                                                   *)

Covered == OldWorkComesAgain /\ PutBackIsPopped /\ SpecCovered

\* What is coming while the operator runs.
LEMMA ComingIs ==
    /\ up => Coming = Pending \cup (IF worker.pc = "offering" THEN worker.popped ELSE {})
                              \cup (IF worker.result = "requeue" THEN worker.update ELSE {})
    /\ ~up => Coming = Diff(saved, spec) \cup (Facets \ Recovered)
  <1>1. CASE up
    BY <1>1 DEF Coming, Pending
  <1>2. CASE ~up
    BY <1>2 DEF Coming
  <1> QED BY <1>1, <1>2

\* A step that leaves spec, worker and handled alone and takes nothing off the
\* way keeps every edit covered.
LEMMA QuietStep ==
    ASSUME IInv, up, up', Pending \subseteq Pending', mishaps \subseteq mishaps',
           UNCHANGED <<spec, worker, handled>>
    PROVE  Covered'
  <1>1. Coming \subseteq Coming'
    BY DEF Coming, Pending
  <1> QED
    BY <1>1 DEF IInv, Covered, OldWorkComesAgain, PutBackIsPopped, SpecCovered, Diff

\* A step of the worker that leaves the way alone.
LEMMA WorkerKeepsPending ==
    ASSUME UNCHANGED <<clusterVars, informerVars, stack>>
    PROVE  Pending' = Pending
  <1>1. Announced' = Announced
    BY DEF Announced, informerVars
  <1> QED BY <1>1 DEF Pending, clusterVars, informerVars

\* An edit is covered from the start.
LEMMA EditCovered ==
    ASSUME IInv, NEW changed \in SUBSET Facets, Edit(changed)
    PROVE  Covered'
  <1>1. UNCHANGED <<up, worker, handled, saved, mishaps>>
    BY DEF Edit
  <1>2. \A f \in Facets : f \notin changed => spec'[f] = spec[f]
    BY DEF Edit
  <1>3. ASSUME NEW f \in changed
        PROVE  saved[f] # spec'[f]
    <2>1. saved[f] \in Nat /\ spec[f] \in Nat /\ saved[f] <= spec[f] /\ spec[f] <= edits
      BY ConstantsOK DEF IInv, TypeOK, Specs, CopiesAreOld
    <2>2. edits \in Nat /\ spec'[f] = edits + 1
      BY DEF Edit, IInv, TypeOK
    <2> QED BY <2>1, <2>2
  <1>4. Pending \cup changed \subseteq Pending'
    BY EditKeepsPending
  <1>5. Coming \cup changed \subseteq Coming'
    <2>1. CASE up
      BY <1>1, <1>4, <2>1 DEF Coming, Pending
    <2>2. CASE ~up
      <3>1. Diff(saved, spec) \cup changed \subseteq (Diff(saved, spec))'
        BY <1>1, <1>2, <1>3 DEF Diff
      <3> QED BY <1>1, <2>2, <3>1 DEF Coming
    <2> QED BY <2>1, <2>2
  <1>6. SpecCovered'
    BY <1>1, <1>2, <1>5 DEF IInv, SpecCovered, Diff
  <1>7. OldWorkComesAgain'
    <2> SUFFICES ASSUME mishaps' = {}, worker'.pc = "offering", NEW f \in worker'.popped,
                        worker'.instance[f] # spec'[f]
                 PROVE  f \in Pending'
      BY DEF OldWorkComesAgain
    <2>1. f \in Facets
      BY <1>1 DEF IInv, TypeOK, Worker, Update
    <2>2. CASE f \in changed
      BY <1>4, <2>2
    <2>3. CASE f \notin changed
      BY <1>1, <1>2, <1>4, <2>1, <2>3 DEF IInv, OldWorkComesAgain
    <2> QED BY <2>2, <2>3
  <1>8. PutBackIsPopped'
    BY <1>1 DEF IInv, PutBackIsPopped
  <1> QED BY <1>6, <1>7, <1>8 DEF Covered

\* The popped update stays in the worker's hands; unless it is about an edit
\* that the instance does not have, what is old in it comes again.
LEMMA PopUpdateCovered ==
    ASSUME IInv, TypeOK', PopUpdate
    PROVE  Covered'
  <1> DEFINE popped == GetUpdateStatus
  <1>1. /\ UNCHANGED <<spec, cache, events, delivered, handled, up>>
        /\ worker.pc = "pop" /\ worker.result = "ok" /\ up
        /\ worker'.pc = "offering" /\ worker'.popped = popped /\ worker'.result = "ok"
        /\ worker'.instance = worker.instance
    BY SpecFacts
    DEF PopUpdate, clusterVars, informerVars, IInv, TypeOK, Worker, ResultIsOfThisCall,
        StoppedIsEmpty
  <1> SUFFICES ASSUME mishaps' = {}
               PROVE  Covered'
    BY <1>1 DEF Covered, OldWorkComesAgain, PutBackIsPopped, SpecCovered
  <1>2. mishaps = {} /\ ~ \E f \in popped : worker.instance[f] < delivered[f]
    BY DEF PopUpdate, NoteIf
  <1>3. popped \in Update
    BY GetUpdateStatusType DEF IInv
  <1>4. Announced' = Announced
    BY <1>1 DEF Announced
  <1>5. UNION Range(stack) \subseteq (UNION Range(stack')) \cup popped
    <2>1. CASE stack = <<>>
      BY <2>1 DEF PopUpdate
    <2>2. CASE stack # <<>>
      <3>1. stack' = Tail(stack) /\ popped = Head(stack)
        BY <2>2 DEF PopUpdate, GetUpdateStatus
      <3>2. Range(stack) \subseteq Range(Tail(stack)) \cup {Head(stack)}
        BY <2>2, PopFacts DEF IInv, TypeOK
      <3> QED BY <3>1, <3>2, UnionFacts
    <2> QED BY <2>1, <2>2
  <1>6. Coming \subseteq Coming'
    <2> HIDE DEF popped
    <2> QED BY <1>1, <1>4, <1>5 DEF Coming
  <1>7. SpecCovered'
    BY <1>1, <1>2, <1>6 DEF IInv, SpecCovered, Diff
  <1>8. ASSUME NEW f \in popped, worker.instance[f] # spec[f]
        PROVE  f \in Pending'
    <2>1. f \in Facets
      BY <1>3 DEF Update
    <2>2. /\ worker.instance[f] \in Nat /\ delivered[f] \in Nat /\ spec[f] \in Nat
          /\ worker.instance[f] <= spec[f]
      BY <2>1, ConstantsOK DEF IInv, TypeOK, Specs, Worker, CopiesAreOld
    <2>3. delivered[f] # spec[f]
      BY <1>2, <1>8, <2>2
    <2>4. CASE cache[f] # spec[f]
      BY <1>1, <2>1, <2>4 DEF Pending, Diff
    <2>5. CASE cache[f] = spec[f]
      <3>1. Len(events) \in Nat /\ Before(0) = delivered
        BY LenProperties DEF IInv, TypeOK, Before, At
      <3>2. \E j \in 1..Len(events) : Before(j-1)[f] # Before(j)[f]
        BY <1>1, <2>1, <2>3, <2>5, <3>1 DEF IInv, EventsTellAll
      <3>3. f \in AnnouncedBy(delivered, events)
        BY <2>1, <3>2, AnnouncedIs DEF IInv, TypeOK, Before
      <3>4. f \in Announced'
        BY <1>4, <3>3 DEF Announced, AnnouncedBy
      <3> QED BY <3>4 DEF Pending
    <2> QED BY <2>4, <2>5
  <1>9. OldWorkComesAgain'
    BY <1>1, <1>8 DEF OldWorkComesAgain
  <1>10. PutBackIsPopped'
    BY <1>1 DEF PutBackIsPopped
  <1> QED BY <1>7, <1>9, <1>10 DEF Covered

\* The offering deals with the popped update, or asks for it again.
LEMMA OfferingCovered ==
    ASSUME IInv, OfferingDone \/ OfferingRequeue \/ OfferingError
    PROVE  Covered'
  <1>1. /\ UNCHANGED <<clusterVars, informerVars, stack, up>> /\ up
        /\ worker.pc = "offering" /\ worker.result = "ok"
        /\ worker'.pc = "status" /\ worker'.update = worker.update
        /\ worker'.popped = worker.popped /\ mishaps \subseteq mishaps'
    BY SpecFacts
    DEF OfferingDone, OfferingRequeue, OfferingError, NoteIf, IInv, TypeOK, Worker,
        ResultIsOfThisCall, StoppedIsEmpty
  <1>2. Pending' = Pending
    BY <1>1, WorkerKeepsPending
  <1> SUFFICES ASSUME mishaps' = {}
               PROVE  PutBackIsPopped' /\ SpecCovered'
    BY <1>1 DEF Covered, OldWorkComesAgain, PutBackIsPopped, SpecCovered
  <1>3. mishaps = {} /\ UNCHANGED spec
    BY <1>1 DEF clusterVars
  <1>4. Diff(handled, spec) \subseteq Pending \cup worker.popped
    BY <1>1, <1>3, ComingIs DEF IInv, SpecCovered
  <1>5. CASE OfferingRequeue
    <2>1. worker'.result = "requeue" /\ worker.update = worker.popped /\ handled' = handled
      BY <1>5 DEF OfferingRequeue, NoteIf, IInv, TypeOK, Worker
    <2>2. Coming' = Pending \cup worker.popped
      BY <1>1, <1>2, <2>1 DEF Coming, Pending
    <2> QED BY <1>1, <1>3, <1>4, <2>1, <2>2 DEF PutBackIsPopped, SpecCovered
  <1>6. CASE OfferingDone \/ OfferingError
    <2>1. worker'.result # "requeue"
      BY <1>6 DEF OfferingDone, OfferingError, IInv, TypeOK, Worker
    <2>2. handled' = Dealt(worker.popped)
      BY <1>6 DEF OfferingDone, OfferingError, NoteIf
    <2>3. Coming' = Pending
      BY <1>1, <1>2, <2>1 DEF Coming, Pending
    <2>4. ASSUME NEW f \in Facets, handled'[f] # spec[f]
          PROVE  f \in Pending
      <3>1. CASE f \in worker.popped
        BY <1>1, <1>3, <2>2, <2>4, <3>1 DEF Dealt, IInv, OldWorkComesAgain
      <3>2. CASE f \notin worker.popped
        BY <1>4, <2>2, <2>4, <3>2 DEF Dealt, Diff
      <3> QED BY <3>1, <3>2
    <2> QED BY <1>3, <2>1, <2>3, <2>4 DEF PutBackIsPopped, SpecCovered, Diff
  <1> QED BY <1>5, <1>6

\* The end of a call puts back what the offering asked for again.
LEMMA FinishCovered ==
    ASSUME IInv, SetStatus \/ SetStatusError \/ Finish
    PROVE  Covered'
  <1>1. UNCHANGED <<spec, informerVars, up, handled>> /\ up /\ worker.pc \in {"status", "finish"}
    BY SpecFacts
    DEF SetStatus, SetStatusError, Finish, FinishOK, FinishRequeue, FinishError, clusterVars,
        IInv, StoppedIsEmpty
  <1>2. Announced' = Announced
    BY <1>1 DEF Announced, informerVars
  <1>3. CASE SetStatus
    <2>1. /\ worker'.pc = "finish" /\ worker'.update = worker.update
          /\ worker'.popped = worker.popped /\ worker'.result = worker.result
          /\ UNCHANGED <<stack, mishaps>>
      BY <1>3 DEF SetStatus, IInv, TypeOK, Worker
    <2>2. Coming' = Coming
      BY <1>1, <1>2, <2>1 DEF Coming, informerVars
    <2> QED
      BY <1>1, <2>1, <2>2
      DEF Covered, OldWorkComesAgain, PutBackIsPopped, SpecCovered, IInv
  <1>4. CASE SetStatusError \/ Finish
    <2>1. worker' = IdleWorker /\ mishaps \subseteq mishaps'
      BY <1>4 DEF SetStatusError, Finish, FinishOK, FinishRequeue, FinishError, NoteIf
    <2> SUFFICES ASSUME mishaps' = {}
                 PROVE  SpecCovered'
      BY <2>1, SpecFacts DEF Covered, OldWorkComesAgain, PutBackIsPopped, SpecCovered
    <2>2. Coming = Pending \cup (IF worker.result = "requeue" THEN worker.update ELSE {})
      BY <1>1, ComingIs
    <2>3. Coming' = Pending'
      BY <1>1, <2>1, SpecFacts DEF Coming, Pending
    <2>4. (UNION Range(stack)) \cup (IF worker.result = "requeue" THEN worker.update ELSE {})
            \subseteq UNION Range(stack')
      <3>1. CASE FinishRequeue
        <4>1. Range(stack) \cup {worker.update} \subseteq Range(stack')
          BY <3>1, AppendUpdateIfMissingFacts DEF FinishRequeue, IInv, TypeOK, Worker
        <4> QED BY <3>1, <4>1, UnionFacts DEF FinishRequeue
      <3>2. CASE SetStatusError \/ FinishOK \/ FinishError
        BY <3>2 DEF SetStatusError, FinishOK, FinishError, NoteIf
      <3> QED BY <1>4, <3>1, <3>2 DEF Finish
    <2>5. Coming \subseteq Coming'
      BY <1>1, <1>2, <2>2, <2>3, <2>4 DEF Pending, informerVars
    <2> QED BY <1>1, <2>1, <2>5 DEF SpecCovered, IInv
  <1> QED BY <1>3, <1>4

\* At a crash the saved spec takes over, and at the restart CreateFunc.
LEMMA RestartCovered ==
    ASSUME IInv, Crash \/ CreateFunc \/ CreateFuncUnread
    PROVE  Covered'
  <1>1. worker' = IdleWorker
    BY DEF Crash, CreateFunc, CreateFuncUnread, Restarted, IInv, StoppedIsEmpty
  <1> SUFFICES ASSUME mishaps' = {}
               PROVE  SpecCovered'
    BY <1>1, SpecFacts DEF Covered, OldWorkComesAgain, PutBackIsPopped, SpecCovered
  <1>2. mishaps = {} /\ UNCHANGED <<spec, saved, handled>>
    BY DEF Crash, CreateFunc, CreateFuncUnread, Restarted, NoteIf, clusterVars
  <1>3. CASE Crash
    <2>1. \A f \in Recovered : saved[f] = handled[f]
      BY <1>3 DEF Crash, NoteIf
    <2>2. ~up'
      BY <1>3 DEF Crash
    <2> QED BY <1>2, <2>1, <2>2 DEF SpecCovered, Coming, Diff
  <1>4. CASE CreateFunc
    <2>1. ~up /\ up' /\ stack' = <<Diff(saved, spec) \cap Recovered>>
      BY <1>4 DEF CreateFunc, Restarted
    <2>2. Diff(handled, spec) \subseteq Diff(saved, spec) \cup (Facets \ Recovered)
      BY <1>2, <2>1, ComingIs DEF IInv, SpecCovered
    <2>3. \A f \in Facets \ Recovered : handled[f] = spec[f]
      BY <1>4 DEF CreateFunc, NoteIf, Unseen
    <2>4. Diff(saved, spec) \cap Recovered \in Range(stack')
      BY <2>1 DEF Range
    <2>5. Diff(saved, spec) \cap Recovered \subseteq Coming'
      BY <2>1, <2>4 DEF Coming
    <2> QED BY <1>2, <2>2, <2>3, <2>5 DEF SpecCovered, Diff
  <1>5. CASE CreateFuncUnread
    BY <1>2, <1>5 DEF CreateFuncUnread, NoteIf, Unseen, SpecCovered, Diff
  <1> QED BY <1>3, <1>4, <1>5

\* Every step keeps every edit covered.
LEMMA CoveredStep ==
    ASSUME IInv, TypeOK', [Next]_vars
    PROVE  Covered'
  <1>1. ASSUME NEW changed \in SUBSET Facets, Edit(changed)
        PROVE  Covered'
    BY <1>1, EditCovered
  <1>2. CASE Informed
    BY <1>2, InformedKeepsPending, QuietStep DEF Informed, clusterVars
  <1>3. CASE UpdateFunc
    <2>1. up /\ UNCHANGED <<spec, up, worker, handled, mishaps>>
      BY <1>3 DEF UpdateFunc, NextEvent, clusterVars, IInv, StoppedIsEmpty
    <2> QED BY <1>3, <2>1, UpdateFuncKeepsPending, QuietStep
  <1>4. CASE UpdateFuncRefuses
    BY <1>4
    DEF UpdateFuncRefuses, NoteIf, Covered, OldWorkComesAgain, PutBackIsPopped, SpecCovered
  <1>5. CASE OtherEvent
    BY <1>5, WorkerKeepsPending, QuietStep DEF OtherEvent, clusterVars
  <1>6. CASE GetInstance \/ Peek
    <2>1. /\ UNCHANGED <<clusterVars, informerVars, stack, up, handled, mishaps>> /\ up
          /\ worker.pc \in {"idle", "peek"} /\ worker.result = "ok"
          /\ worker'.pc \in {"peek", "pop"} /\ worker'.result = "ok"
      BY <1>6, SpecFacts
      DEF GetInstance, Peek, IdleWorker, IInv, TypeOK, Worker, ResultIsOfThisCall,
          StoppedIsEmpty
    <2>2. Coming' = Coming
      BY <2>1, WorkerKeepsPending DEF Coming, Pending
    <2> QED
      BY <2>1, <2>2
      DEF clusterVars, Covered, OldWorkComesAgain, PutBackIsPopped, SpecCovered, IInv
  <1>7. CASE PopUpdate
    BY <1>7, PopUpdateCovered
  <1>8. CASE OfferingDone \/ OfferingRequeue \/ OfferingError
    BY <1>8, OfferingCovered
  <1>9. CASE SetStatus \/ SetStatusError \/ Finish
    BY <1>9, FinishCovered
  <1>10. CASE Crash \/ CreateFunc \/ CreateFuncUnread
    BY <1>10, RestartCovered
  <1>11. CASE UNCHANGED vars
    <2>1. Pending' = Pending /\ Coming' = Coming
      BY <1>11, WorkerKeepsPending DEF vars, clusterVars, informerVars, Coming, Announced
    <2> QED
      BY <1>11, <2>1
      DEF vars, Covered, OldWorkComesAgain, PutBackIsPopped, SpecCovered, IInv
  <1> QED
    BY <1>1, <1>2, <1>3, <1>4, <1>5, <1>6, <1>7, <1>8, <1>9, <1>10, <1>11
    DEF Next, WorkerStep

\* The inductive invariant holds of every reachable state.
THEOREM Inductive == Spec => []IInv
  <1>1. Init => IInv
    <2> SUFFICES ASSUME Init PROVE IInv
      OBVIOUS
    <2>1. TypeOK
      BY InitType
    <2>2. StackServed /\ StoppedIsEmpty /\ ResultIsOfThisCall
      BY SpecFacts DEF Init, StackServed, StoppedIsEmpty, ResultIsOfThisCall
    <2>3. EventsReachCache /\ EventsTellAll
      <3>1. Len(events) = 0 /\ delivered = cache
        BY DEF Init
      <3> QED BY <3>1 DEF EventsReachCache, EventsTellAll, Before, At
    <2>4. CopiesAreOld
      BY SpecFacts DEF Init, CopiesAreOld, Spec0
    <2>5. OldWorkComesAgain /\ PutBackIsPopped /\ SpecCovered
      BY SpecFacts DEF Init, OldWorkComesAgain, PutBackIsPopped, SpecCovered, Diff
    <2> QED BY <2>1, <2>2, <2>3, <2>4, <2>5 DEF IInv
  <1>2. IInv /\ [Next]_vars => IInv'
    <2> SUFFICES ASSUME IInv, [Next]_vars PROVE IInv'
      OBVIOUS
    <2>1. TypeOK'
      BY TypeStep DEF IInv
    <2>2. (StackServed /\ StoppedIsEmpty /\ ResultIsOfThisCall)'
      BY <2>1, ControlStep DEF IInv
    <2>3. (EventsReachCache /\ EventsTellAll)'
      BY <2>1, EventsStep DEF IInv
    <2>4. CopiesAreOld'
      BY <2>1, CopiesStep DEF IInv
    <2>5. Covered'
      BY <2>1, CoveredStep
    <2> QED BY <2>1, <2>2, <2>3, <2>4, <2>5 DEF IInv, Covered
  <1> QED BY <1>1, <1>2, PTL DEF Spec

\* However events, reconciles, faults and crashes interleave, what of the spec
\* the offering has not dealt with is on its way to it, unless one of the
\* known mishaps happened (controllers/ibppeer: UpdateFunc, PopUpdate,
\* Reconcile, SetStatus, CreateFunc).
THEOREM EditsCovered == Spec => []SpecCovered
  <1>1. IInv => SpecCovered
    BY DEF IInv
  <1> QED BY <1>1, Inductive, PTL

\* An update on the stack always has a reconcile queued or running that will
\* ask for it, unless a breaking error has ended the last one.
THEOREM UpdatesServed == Spec => []StackServed
  <1>1. IInv => StackServed
    BY DEF IInv
  <1> QED BY <1>1, Inductive, PTL
=============================================================================
