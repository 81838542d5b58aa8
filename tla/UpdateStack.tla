----------------------------- MODULE UpdateStack -----------------------------
(***************************************************************************)
(* The peer controller's stack of updates                                  *)
(* (controllers/ibppeer/ibppeer_controller.go).  What a reconcile does to  *)
(* a peer depends less on its spec than on the Update it is given: the set *)
(* of facets of the spec (config override, images, MSP, node OU ...) that  *)
(* an event said have changed.  UpdateFunc, called by the informer's       *)
(* goroutine, pushes an Update per event; Reconcile, called by the         *)
(* controller's worker, reads the instance, looks at the first Update,     *)
(* pops it, runs the offering with it, saves the spec and sets the status. *)
(*                                                                         *)
(* The values of a facet are abstracted to a counter of its edits.  The    *)
(* offering is abstracted to its result and to which facets of the Update  *)
(* it has dealt with.                                                      *)
(***************************************************************************)
EXTENDS Naturals, Sequences, SequencesExt

CONSTANTS
    Facets,     \* parts of the spec that have a flag in Update
    Recovered,  \* those CreateFunc compares with the saved spec
    Pinned,     \* facets that may not be changed: the zone and the region
    MaxEdits,   \* bound: edits of the custom resource
    MaxFaults   \* bound: crashes and failed calls

ASSUME ConstantsOK ==
    /\ Recovered \subseteq Facets /\ Pinned \subseteq Facets
    /\ MaxEdits \in Nat /\ MaxFaults \in Nat

VARIABLES
    spec,       \* the custom resource's spec as stored
    cache,      \* the informer's copy
    events,     \* specs the informer has yet to hand to UpdateFunc
    delivered,  \* the spec UpdateFunc was last given
    stack,      \* r.update[name]
    work,       \* the peer is in the work queue
    worker,     \* the Reconcile call in progress
    saved,      \* the config map <name>-spec
    up,         \* the operator runs
    handled,    \* history: the value of each facet last dealt with by the offering
    edits,      \* edits so far
    mishaps,    \* history: which of the known hazards have happened
    faults      \* crashes and failed calls so far

vars == <<spec, cache, events, delivered, stack, work, worker, saved, up,
          handled, edits, mishaps, faults>>

clusterVars == <<spec, saved, edits>>
informerVars == <<cache, events, delivered>>

-----------------------------------------------------------------------------
Spec0 == [f \in Facets |-> 0]

Specs == [Facets -> 0..MaxEdits]

Update == SUBSET Facets

\* The facets that differ.
Diff(old, new) == {f \in Facets : old[f] # new[f]}

AppendUpdateIfMissing(updates, update) ==
    IF update \in Range(updates) THEN updates ELSE Append(updates, update)

\* GetUpdateStatus: the first update, or an empty one.
GetUpdateStatus == IF stack = <<>> THEN {} ELSE Head(stack)

IdleWorker == [pc |-> "idle", instance |-> Spec0, update |-> {}, popped |-> {},
               result |-> "ok"]

\* update is the one looked at, popped the one taken from the stack and used.
Worker == [pc : {"idle", "peek", "pop", "offering", "status", "finish"},
           instance : Specs, update : Update, popped : Update,
           result : {"ok", "requeue", "error"}]

Mishaps == {"stale", "unpaired", "failed", "broken", "refused", "cutoff", "unsaved"}

\* m is remembered if the condition holds.
NoteIf(m, condition) == mishaps' = mishaps \cup (IF condition THEN {m} ELSE {})

TypeOK ==
    /\ spec \in Specs
    /\ cache \in Specs
    /\ events \in Seq(Specs)
    /\ delivered \in Specs
    /\ stack \in Seq(Update)
    /\ work \in BOOLEAN
    /\ worker \in Worker
    /\ saved \in Specs
    /\ up \in BOOLEAN
    /\ handled \in Specs
    /\ edits \in 0..MaxEdits
    /\ mishaps \in SUBSET Mishaps
    /\ faults \in 0..MaxFaults

\* A peer that is deployed and up to date.
Init ==
    /\ spec = Spec0
    /\ cache = Spec0
    /\ events = <<>>
    /\ delivered = Spec0
    /\ stack = <<>>
    /\ work = FALSE
    /\ worker = IdleWorker
    /\ saved = Spec0
    /\ up = TRUE
    /\ handled = Spec0
    /\ edits = 0
    /\ mishaps = {}
    /\ faults = 0

Fault == faults < MaxFaults /\ faults' = faults + 1

-----------------------------------------------------------------------------
(* The custom resource and its informer                                    *)

\* Somebody changes some facets of the spec.
Edit(changed) ==
    /\ edits < MaxEdits
    /\ edits' = edits + 1
    /\ spec' = [f \in Facets |-> IF f \in changed THEN edits + 1 ELSE spec[f]]
    /\ UNCHANGED <<informerVars, stack, work, worker, saved, up, handled, mishaps, faults>>

\* The informer stores what the watch delivers, then notifies the handler.
Informed ==
    /\ up /\ cache # spec
    /\ cache' = spec
    /\ events' = Append(events, spec)
    /\ UNCHANGED <<clusterVars, delivered, stack, work, worker, up, handled, mishaps, faults>>

\* Taking the next event off the informer's queue.
NextEvent ==
    /\ events # <<>>
    /\ delivered' = Head(events)
    /\ events' = Tail(events)

Refused == Diff(delivered, Head(events)) \cap Pinned # {}

\* Seeded fault: the predicate waits for a mutex that Reconcile holds.
UpdateFuncWaits ==
    /\ worker.pc = "idle"
    /\ NextEvent
    /\ ~Refused
    /\ stack' = AppendUpdateIfMissing(stack, Diff(delivered, Head(events)))
    /\ work' = TRUE
    /\ UNCHANGED <<clusterVars, cache, worker, up, handled, mishaps, faults>>

\* The update event: a flag per facet that changed.
UpdateFunc ==
    /\ NextEvent
    /\ ~Refused
    /\ stack' = AppendUpdateIfMissing(stack, Diff(delivered, Head(events)))
    /\ work' = TRUE
    /\ UNCHANGED <<clusterVars, cache, worker, up, handled, mishaps, faults>>

\* A change of the zone or the region is ignored, with all that came with it.
UpdateFuncRefuses ==
    /\ NextEvent
    /\ Refused
    /\ NoteIf("refused", TRUE)
    /\ UNCHANGED <<clusterVars, cache, stack, work, worker, up, handled, faults>>

\* The deployment was created, or an owned object deleted.
OtherEvent ==
    /\ up /\ ~work
    /\ work' = TRUE
    /\ UNCHANGED <<clusterVars, informerVars, stack, worker, up, handled, mishaps, faults>>

-----------------------------------------------------------------------------
(* Reconcile                                                               *)

GetInstance ==
    /\ worker.pc = "idle" /\ work
    /\ work' = FALSE
    /\ worker' = [IdleWorker EXCEPT !.pc = "peek", !.instance = cache]
    /\ UNCHANGED <<clusterVars, informerVars, stack, up, handled, mishaps, faults>>

Peek ==
    /\ worker.pc = "peek"
    /\ worker' = [worker EXCEPT !.pc = "pop", !.update = GetUpdateStatus]
    /\ UNCHANGED <<clusterVars, informerVars, stack, work, up, handled, mishaps, faults>>

\* PopUpdate.  The update may be about an edit that is not in the instance
\* read before.
PopUpdate ==
    LET popped == GetUpdateStatus IN
    /\ worker.pc = "pop"
    /\ worker' = [worker EXCEPT !.pc = "offering", !.popped = popped]
    /\ stack' = IF stack = <<>> THEN stack ELSE Tail(stack)
    /\ NoteIf("stale", \E f \in popped : worker.instance[f] < delivered[f])
    /\ UNCHANGED <<clusterVars, informerVars, work, up, handled, faults>>

\* What the offering has dealt with.
Dealt(done) == [f \in Facets |-> IF f \in done THEN worker.instance[f] ELSE handled[f]]

OfferingDone ==
    /\ worker.pc = "offering"
    /\ handled' = Dealt(worker.popped)
    /\ worker' = [worker EXCEPT !.pc = "status", !.result = "ok"]
    /\ UNCHANGED <<clusterVars, informerVars, stack, work, up, mishaps, faults>>

\* The version was set, the instance was changed by the pre-reconcile checks
\* or a migration job still runs: nothing was done, try again.  What will be
\* put back is the update that was looked at, not the one that was popped.
OfferingRequeue ==
    /\ worker.pc = "offering"
    /\ worker' = [worker EXCEPT !.pc = "status", !.result = "requeue"]
    /\ NoteIf("unpaired", worker.update # worker.popped)
    /\ UNCHANGED <<clusterVars, informerVars, stack, work, up, handled, faults>>

\* An error part of the way.  The popped update is not put back when the
\* call ends in an error.
OfferingError ==
    /\ worker.pc = "offering"
    /\ Fault
    /\ \E done \in SUBSET worker.popped :
          /\ handled' = Dealt(done)
          /\ NoteIf("failed", done # worker.popped)
    /\ worker' = [worker EXCEPT !.pc = "status", !.result = "error"]
    /\ UNCHANGED <<clusterVars, informerVars, stack, work, up>>

\* SetStatus first saves the spec the call has worked with.
SetStatus ==
    /\ worker.pc = "status"
    /\ saved' = worker.instance
    /\ worker' = [worker EXCEPT !.pc = "finish"]
    /\ UNCHANGED <<spec, edits, informerVars, stack, work, up, handled, mishaps, faults>>

\* SetStatus fails, before or after it has saved the spec; an update that was
\* to be put back is not.
SetStatusError ==
    /\ worker.pc = "status"
    /\ Fault
    /\ saved' \in {saved, worker.instance}
    /\ worker' = IdleWorker
    /\ work' = TRUE
    /\ NoteIf("failed", worker.result = "requeue")
    /\ UNCHANGED <<spec, edits, informerVars, stack, up, handled>>

\* The controller requeues the request, unless the error is a breaking one:
\* then the call ends before it has asked whether the stack is empty.
FinishError ==
    /\ worker.pc = "finish" /\ worker.result = "error"
    /\ work' \in {TRUE, work}
    /\ NoteIf("broken", ~work' /\ stack # <<>>)
    /\ worker' = IdleWorker
    /\ UNCHANGED <<clusterVars, informerVars, stack, up, handled, faults>>

\* Seeded fault: the update is not put back.
FinishRequeueForgets ==
    /\ worker.pc = "finish" /\ worker.result = "requeue"
    /\ UNCHANGED stack
    /\ work' = TRUE
    /\ worker' = IdleWorker
    /\ UNCHANGED <<clusterVars, informerVars, up, handled, mishaps, faults>>

\* The update that was looked at goes back to the end of the stack.
FinishRequeue ==
    /\ worker.pc = "finish" /\ worker.result = "requeue"
    /\ stack' = AppendUpdateIfMissing(stack, worker.update)
    /\ work' = TRUE
    /\ worker' = IdleWorker
    /\ UNCHANGED <<clusterVars, informerVars, up, handled, mishaps, faults>>

\* Seeded fault: the request is not requeued for the rest of the stack.
FinishOKStops ==
    /\ worker.pc = "finish" /\ worker.result = "ok"
    /\ UNCHANGED work
    /\ worker' = IdleWorker
    /\ UNCHANGED <<clusterVars, informerVars, stack, up, handled, mishaps, faults>>

\* Keep reconciling until the stack has been cleared.
FinishOK ==
    /\ worker.pc = "finish" /\ worker.result = "ok"
    /\ work' = (work \/ stack # <<>>)
    /\ worker' = IdleWorker
    /\ UNCHANGED <<clusterVars, informerVars, stack, up, handled, mishaps, faults>>

-----------------------------------------------------------------------------
(* The operator goes down and comes up                                     *)

\* The stack is gone; a saved spec that is ahead of what was dealt with hides
\* what was in it.
Crash ==
    /\ up /\ Fault
    /\ up' = FALSE
    /\ stack' = <<>>
    /\ events' = <<>>
    /\ work' = FALSE
    /\ worker' = IdleWorker
    /\ NoteIf("cutoff", \E f \in Recovered : saved[f] # handled[f])
    /\ UNCHANGED <<clusterVars, cache, delivered, handled>>

\* The informer lists the peer again.
Restarted ==
    /\ ~up
    /\ up' = TRUE
    /\ cache' = spec /\ delivered' = spec
    /\ work' = TRUE
    /\ UNCHANGED <<clusterVars, events, worker, handled>>

Unseen(facets) == \E f \in facets : handled[f] # spec[f]

\* CreateFunc compares the spec with the saved one; not every facet has a
\* flag here.
CreateFunc ==
    /\ Restarted
    /\ stack' = <<Diff(saved, spec) \cap Recovered>>
    /\ NoteIf("unsaved", Unseen(Facets \ Recovered))
    /\ UNCHANGED faults

\* The saved spec cannot be read: reconcile without any update.
CreateFuncUnread ==
    /\ Restarted
    /\ Fault
    /\ UNCHANGED stack
    /\ NoteIf("unsaved", Unseen(Facets))

-----------------------------------------------------------------------------
Finish == FinishOK \/ FinishRequeue \/ FinishError

WorkerStep ==
    \/ GetInstance \/ Peek \/ PopUpdate
    \/ OfferingDone \/ OfferingRequeue \/ SetStatus \/ Finish

Next ==
    \/ \E changed \in SUBSET Facets \ {{}} : Edit(changed)
    \/ Informed \/ UpdateFunc \/ UpdateFuncRefuses \/ OtherEvent
    \/ WorkerStep \/ OfferingError \/ SetStatusError
    \/ Crash \/ CreateFunc \/ CreateFuncUnread

Spec == Init /\ [][Next]_vars

\* The watch delivers, the worker runs, the operator is started again, and an
\* offering that asks for a requeue again and again is done some time.
Fairness ==
    /\ WF_vars(Informed) /\ WF_vars(UpdateFunc \/ UpdateFuncRefuses)
    /\ WF_vars(WorkerStep) /\ SF_vars(OfferingDone)
    /\ WF_vars(CreateFunc)

FairSpec == Spec /\ Fairness

-----------------------------------------------------------------------------
(* Properties                                                              *)

\* The facets some pending event is about.
Announced ==
    UNION {Diff(IF k = 1 THEN delivered ELSE events[k-1], events[k]) : k \in DOMAIN events}

\* Facets whose current value the offering has yet to see, with something on
\* its way to make it see them.
Coming ==
    IF up
    THEN Diff(cache, spec) \cup Announced \cup (UNION Range(stack))
         \cup (IF worker.pc = "offering" THEN worker.popped ELSE {})
         \cup (IF worker.result = "requeue" THEN worker.update ELSE {})
    ELSE Diff(saved, spec) \cup (Facets \ Recovered)

\* What of the spec has not been dealt with will be: no edit falls between
\* the informer, the stack and the worker, or between the saved spec and the
\* one found at start-up, unless one of the known mishaps happened.
SpecCovered == mishaps = {} => Diff(handled, spec) \subseteq Coming

\* A stack that is not empty is being worked on: the request is queued, or
\* the running call will requeue it; unless a breaking error stopped it.
StackServed == stack # <<>> => work \/ worker.pc # "idle" \/ "broken" \in mishaps

\* Every edit is dealt with in the end, unless one of the known mishaps happened.
SpecSettles == <>(mishaps # {}) \/ <>[](handled = spec)
=============================================================================
