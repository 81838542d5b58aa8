--------------------------- MODULE RestartManager ---------------------------
(***************************************************************************)
(* RestartManager (pkg/restart/restart.go): decides when an instance is    *)
(* handed to the staggered restart queues.  A reason to restart is first   *)
(* recorded as pending in the config map "operator-config", which all      *)
(* controllers share; TriggerIfNeeded, run at the end of every reconcile   *)
(* of the instance, restarts it at once or sets a timer, so that one       *)
(* reason does not restart an instance twice within WaitTime.  The timer's *)
(* callback runs in a goroutine of its own.                                *)
(*                                                                         *)
(* Each instance here is one of a component type of its own, with its own  *)
(* controller, RestartManager and Timers entry.  Reads of operator-config  *)
(* come from the informer cache; writes replace the whole map.  An         *)
(* instance the map does not mention has no request recorded.              *)
(***************************************************************************)
EXTENDS Integers, FiniteSets

CONSTANTS
    Instances,      \* instance names
    Reasons,        \* restart reasons
    WaitTime,       \* minimum time between two restarts for one reason
    NoTime,         \* the empty timestamp
    MaxTime,        \* bound: the clock stops here, which stands for any later time
    MaxRequests,    \* bound: calls of updateConfigFor
    MaxFaults       \* bound: crashes and failed API calls

ASSUME ConstantsOK ==
    /\ WaitTime \in Nat /\ MaxTime \in Nat
    /\ MaxRequests \in Nat /\ MaxFaults \in Nat
    /\ NoTime \notin Int

VARIABLES
    cm,         \* operator-config as stored: a Request per instance and reason
    cache,      \* the informer's copy
    dirty,      \* the watch has not yet delivered the last write
    now,        \* the clock
    timer,      \* RestartManager.Timers[name]
    proc,       \* the two goroutines that run the manager for an instance
    requests,   \* calls of updateConfigFor so far
    wanted,     \* history: reasons recorded for which no restart was queued since
    mishaps,    \* history: which of the known hazards have happened
    faults      \* crashes and failed calls so far

vars == <<cm, cache, dirty, now, timer, proc, requests, wanted, mishaps, faults>>

-----------------------------------------------------------------------------
(* Config, Restart and Request                                             *)

Time == 0..MaxTime

Request == [status : {"none", "pending", "complete"},
            requested : Time \cup {NoTime}, lastAction : Time \cup {NoTime}]

NoRequest == [status |-> "none", requested |-> NoTime, lastAction |-> NoTime]

Config == [Instances -> [Reasons -> Request]]

EmptyConfig == [i \in Instances |-> [r \in Reasons |-> NoRequest]]

\* The map has an entry for instance i.
Known(cfg, i) == \E r \in Reasons : cfg[i][r].status # "none"

\* pendingRequests
Pending(cfg, i) == {r \in Reasons : cfg[i][r].status = "pending"}

\* Seeded fault: only a request that was never made before is recorded.
updateRestartRequestOnce(req) ==
    IF req.status = "none"
    THEN [req EXCEPT !.status = "pending", !.requested = now]
    ELSE req

updateRestartRequest(req) ==
    IF req.status # "pending"
    THEN [req EXCEPT !.status = "pending", !.requested = now]
    ELSE req

\* Seeded fault: a cleared request is as good as removed.
clearRestartRemoves(req) ==
    [status |-> "none", requested |-> NoTime, lastAction |-> now]

clearRestart(req) ==
    [status |-> "complete", requested |-> NoTime, lastAction |-> now]

\* The wait time of a request is over at time t.
Over(req, t) == req.lastAction = NoTime \/ t - req.lastAction >= WaitTime

triggerRestart(req) ==
    /\ req.status = "pending"
    /\ req.requested = NoTime \/ Over(req, req.requested)

\* Seeded fault: the time that has passed instead of the time that is left.
getTimerDurationPassed(req) ==
    IF req.lastAction = NoTime THEN WaitTime ELSE req.requested - req.lastAction

getTimerDuration(req) ==
    IF req.lastAction = NoTime THEN WaitTime
    ELSE WaitTime - (req.requested - req.lastAction)

\* SetTimer goes by the oldest request that has a time (any of them on a
\* tie); without one the duration is WaitTime.
Dated(cfg, i) == {r \in Reasons : cfg[i][r].requested # NoTime}

Durations(cfg, i) ==
    IF Dated(cfg, i) = {} THEN {WaitTime}
    ELSE {getTimerDuration(cfg[i][r]) : r \in
            {o \in Dated(cfg, i) :
               \A s \in Dated(cfg, i) : cfg[i][o].requested <= cfg[i][s].requested}}

-----------------------------------------------------------------------------
(* State                                                                   *)

\* "reconcile" is the controller's worker, "timer" the AfterFunc callback.
Threads == {"reconcile", "timer"}

\* fresh: what the goroutine acts on is the last thing written.
Proc == [pc : {"idle", "record", "settimer", "clear", "write", "queue"},
         cfg : Config, reason : Reasons \cup {NoTime}, fresh : BOOLEAN]

IdleProc == [pc |-> "idle", cfg |-> EmptyConfig, reason |-> NoTime, fresh |-> TRUE]

\* A timer stays in Timers after it has fired.
Timer == [state : {"nil", "armed", "fired"}, due : Int]
NoTimer == [state |-> "nil", due |-> 0]

Mishaps == {"outdated", "erased", "raced", "dropped", "panicked"}

TypeOK ==
    /\ cm \in Config
    /\ cache \in Config
    /\ dirty \in BOOLEAN
    /\ now \in Time
    /\ timer \in [Instances -> Timer]
    /\ proc \in [Instances -> [Threads -> Proc]]
    /\ requests \in 0..MaxRequests
    /\ wanted \in [Instances -> SUBSET Reasons]
    /\ mishaps \in SUBSET Mishaps
    /\ faults \in 0..MaxFaults

Init ==
    /\ cm = EmptyConfig
    /\ cache = EmptyConfig
    /\ dirty = FALSE
    /\ now = 0
    /\ timer = [i \in Instances |-> NoTimer]
    /\ proc = [i \in Instances |-> [t \in Threads |-> IdleProc]]
    /\ requests = 0
    /\ wanted = [i \in Instances |-> {}]
    /\ mishaps = {}
    /\ faults = 0

\* One more of MaxFaults goes wrong.
Fault == faults < MaxFaults /\ faults' = faults + 1

Blame(fresh) == IF fresh THEN {} ELSE {"outdated"}

\* The map that instance i writes takes back what was recorded for another one.
Erased(i, cfg) == IF \E j \in Instances \ {i} : cfg[j] # cm[j] THEN {"erased"} ELSE {}

\* Both goroutines of an instance decide about its restart at a time.
Raced(i, t) ==
    IF proc[i][t].pc \in {"settimer", "clear", "write", "queue"} THEN {"raced"} ELSE {}

\* UpdateConfigMap: the map is replaced and thread t of instance i goes to p.
\* A copy somebody else has read is outdated now.
Write(i, t, cfg, p) ==
    /\ cm' = cfg
    /\ dirty' = TRUE
    /\ proc' = [j \in Instances |-> [s \in Threads |->
                  IF j = i /\ s = t THEN p
                  ELSE IF proc[j][s].pc \in {"record", "write"}
                  THEN [proc[j][s] EXCEPT !.fresh = FALSE]
                  ELSE proc[j][s]]]

-----------------------------------------------------------------------------
(* updateConfigFor: ForAdminCertUpdate, ForEcertReenroll, ForTLSReenroll,  *)
(* ForConfigOverride, ForMigration, ForNodeOU, ForConfigMapUpdate and      *)
(* ForRestartAction, one reason each                                       *)

UpdateConfigForRead(i, r) ==
    /\ proc[i]["reconcile"].pc = "idle"
    /\ requests < MaxRequests
    /\ requests' = requests + 1
    /\ proc' = [proc EXCEPT ![i]["reconcile"] =
                  [pc |-> "record", cfg |-> cache, reason |-> r, fresh |-> ~dirty]]
    /\ UNCHANGED <<cm, cache, dirty, now, timer, wanted, mishaps, faults>>

UpdateConfigForWrite(i) ==
    LET p == proc[i]["reconcile"] IN
    /\ p.pc = "record"
    /\ Write(i, "reconcile", [p.cfg EXCEPT ![i][p.reason] = updateRestartRequest(@)], IdleProc)
    /\ wanted' = [wanted EXCEPT ![i] = @ \cup {p.reason}]
    /\ mishaps' = mishaps \cup Blame(p.fresh) \cup Erased(i, p.cfg)
    /\ UNCHANGED <<cache, now, timer, requests, faults>>

-----------------------------------------------------------------------------
(* TriggerIfNeeded                                                         *)

\* Restart at once if the wait time of some pending request is over;
\* otherwise, if one is pending, go on to set a timer.
TriggerIfNeeded(i) ==
    LET trigger == \E r \in Reasons : triggerRestart(cache[i][r]) IN
    /\ proc[i]["reconcile"].pc = "idle"
    /\ Pending(cache, i) # {}
    /\ proc' = [proc EXCEPT ![i]["reconcile"] =
                  [@ EXCEPT !.pc = IF trigger THEN "clear" ELSE "settimer", !.fresh = ~dirty]]
    /\ mishaps' = mishaps \cup Raced(i, "timer")
    /\ UNCHANGED <<cm, cache, dirty, now, timer, requests, wanted, faults>>

\* SetTimer reads the map again.  A timer that is in Timers, whether or not
\* it has fired, is left alone.
SetTimer(i) ==
    LET p == proc[i]["reconcile"] IN
    /\ p.pc = "settimer"
    /\ Known(cache, i)
    /\ IF timer[i].state = "nil"
       THEN /\ \E dur \in Durations(cache, i) :
                  timer' = [timer EXCEPT ![i] = [state |-> "armed", due |-> now + dur]]
            /\ mishaps' = mishaps \cup Blame(p.fresh /\ ~dirty)
       ELSE UNCHANGED <<timer, mishaps>>
    /\ proc' = [proc EXCEPT ![i]["reconcile"] = IdleProc]
    /\ UNCHANGED <<cm, cache, dirty, now, requests, wanted, faults>>

\* The process ends: goroutines and timers are gone, the cache is read anew.
Restarted ==
    /\ proc' = [i \in Instances |-> [t \in Threads |-> IdleProc]]
    /\ timer' = [i \in Instances |-> NoTimer]
    /\ cache' = cm
    /\ dirty' = FALSE

Dropped == IF \E i \in Instances, t \in Threads : proc[i][t].pc = "queue"
           THEN {"dropped"} ELSE {}

\* If the second read no longer finds the instance, SetTimer dereferences a
\* nil *Restart and the operator crashes.
SetTimerPanic(i) ==
    /\ proc[i]["reconcile"].pc = "settimer"
    /\ ~Known(cache, i)
    /\ Restarted
    /\ mishaps' = mishaps \cup {"panicked"} \cup Dropped
    /\ UNCHANGED <<cm, now, requests, wanted, faults>>

\* AfterFunc: the timer goes off, no earlier than due.  A callback has ended
\* long before the next timer can go off.
TimerFires(i) ==
    /\ timer[i].state = "armed" /\ (now >= timer[i].due \/ now = MaxTime)
    /\ proc[i]["timer"].pc = "idle"
    /\ timer' = [timer EXCEPT ![i].state = "fired"]
    /\ proc' = [proc EXCEPT ![i]["timer"].pc = "clear"]
    /\ mishaps' = mishaps \cup Raced(i, "reconcile")
    /\ UNCHANGED <<cm, cache, dirty, now, requests, wanted, faults>>

-----------------------------------------------------------------------------
(* RestartDeployment: ClearRestartConfigForInstance, then Restart          *)

\* Seeded fault: the timer is stopped but stays in Timers.
ClearReadKeepTimer(i, t) ==
    /\ proc[i][t].pc = "clear"
    /\ LET cleared == [r \in Reasons |-> IF r \in Pending(cache, i)
                                         THEN clearRestart(cache[i][r]) ELSE cache[i][r]]
       IN IF Known(cache, i)
          THEN /\ proc' = [proc EXCEPT ![i][t] = [pc |-> "write", reason |-> NoTime,
                              cfg |-> [cache EXCEPT ![i] = cleared], fresh |-> ~dirty]]
               /\ timer' = [timer EXCEPT ![i].state = IF @ = "nil" THEN @ ELSE "fired"]
          ELSE /\ proc' = [proc EXCEPT ![i][t].pc = "queue"]
               /\ UNCHANGED timer
    /\ mishaps' = mishaps \cup Blame(proc[i][t].fresh /\ ~dirty)
    /\ UNCHANGED <<cm, cache, dirty, now, requests, wanted, faults>>

\* Pending requests are cleared and the timer is stopped, which does not
\* stop a callback that has begun.  An instance the map does not know is not
\* cleared, and its timer stays.
ClearRead(i, t) ==
    /\ proc[i][t].pc = "clear"
    /\ LET cleared == [r \in Reasons |-> IF r \in Pending(cache, i)
                                         THEN clearRestart(cache[i][r]) ELSE cache[i][r]]
       IN IF Known(cache, i)
          THEN /\ proc' = [proc EXCEPT ![i][t] = [pc |-> "write", reason |-> NoTime,
                              cfg |-> [cache EXCEPT ![i] = cleared], fresh |-> ~dirty]]
               /\ timer' = [timer EXCEPT ![i] = NoTimer]
          ELSE /\ proc' = [proc EXCEPT ![i][t].pc = "queue"]
               /\ UNCHANGED timer
    /\ mishaps' = mishaps \cup Blame(proc[i][t].fresh /\ ~dirty)
    /\ UNCHANGED <<cm, cache, dirty, now, requests, wanted, faults>>

ClearWrite(i, t) ==
    /\ proc[i][t].pc = "write"
    /\ Write(i, t, proc[i][t].cfg, [IdleProc EXCEPT !.pc = "queue"])
    /\ mishaps' = mishaps \cup Blame(proc[i][t].fresh) \cup Erased(i, proc[i][t].cfg)
    /\ UNCHANGED <<cache, now, timer, requests, wanted, faults>>

\* StaggerRestartsService.Restart accepted the request.
Queue(i, t) ==
    /\ proc[i][t].pc = "queue"
    /\ proc' = [proc EXCEPT ![i][t] = IdleProc]
    /\ wanted' = [wanted EXCEPT ![i] = {}]
    /\ UNCHANGED <<cm, cache, dirty, now, timer, requests, mishaps, faults>>

\* Some call fails: the error goes back to the controller, or the callback
\* logs it.
Fails(i, t) ==
    /\ proc[i][t].pc \in {"record", "settimer", "clear", "write", "queue"}
    /\ Fault
    /\ proc' = [proc EXCEPT ![i][t] = IdleProc]
    /\ mishaps' = mishaps \cup (IF proc[i][t].pc = "queue" THEN {"dropped"} ELSE {})
    /\ UNCHANGED <<cm, cache, dirty, now, timer, requests, wanted>>

OperatorRestart ==
    /\ Fault
    /\ Restarted
    /\ mishaps' = mishaps \cup Dropped
    /\ UNCHANGED <<cm, now, requests, wanted>>

-----------------------------------------------------------------------------
(* The environment                                                         *)

WatchEvent ==
    /\ dirty
    /\ cache' = cm
    /\ dirty' = FALSE
    /\ UNCHANGED <<cm, now, timer, proc, requests, wanted, mishaps, faults>>

\* Somebody deletes operator-config: a map that is not there is read as an empty one.
MapDeleted ==
    /\ cm # EmptyConfig
    /\ Fault
    /\ cm' = EmptyConfig
    /\ dirty' = TRUE
    /\ proc' = [i \in Instances |-> [t \in Threads |->
                  IF proc[i][t].pc \in {"record", "write"}
                  THEN [proc[i][t] EXCEPT !.fresh = FALSE] ELSE proc[i][t]]]
    /\ mishaps' = mishaps \cup {"erased"}
    /\ UNCHANGED <<cache, now, timer, requests, wanted>>

Tick ==
    /\ now < MaxTime
    /\ now' = now + 1
    /\ UNCHANGED <<cm, cache, dirty, timer, proc, requests, wanted, mishaps, faults>>

-----------------------------------------------------------------------------
InstanceStep(i) ==
    \/ \E r \in Reasons : UpdateConfigForRead(i, r)
    \/ UpdateConfigForWrite(i)
    \/ TriggerIfNeeded(i) \/ SetTimer(i) \/ SetTimerPanic(i)
    \/ TimerFires(i)
    \/ \E t \in Threads : ClearRead(i, t) \/ ClearWrite(i, t) \/ Queue(i, t) \/ Fails(i, t)

Next == (\E i \in Instances : InstanceStep(i)) \/ OperatorRestart \/ MapDeleted \/ WatchEvent \/ Tick

Spec == Init /\ [][Next]_vars

\* Goroutines run on, the watch delivers, timers go off and the instance
\* keeps being reconciled.
Fairness ==
    /\ WF_vars(WatchEvent)
    /\ WF_vars(Tick)
    /\ \A i \in Instances :
          /\ WF_vars(UpdateConfigForWrite(i))
          /\ SF_vars(TriggerIfNeeded(i))
          /\ WF_vars(SetTimer(i) \/ SetTimerPanic(i))
          /\ WF_vars(TimerFires(i))
          /\ \A t \in Threads : WF_vars(ClearRead(i, t) \/ ClearWrite(i, t) \/ Queue(i, t))

FairSpec == Spec /\ Fairness

-----------------------------------------------------------------------------
(* Properties                                                              *)

\* A recorded reason is pending in the stored map or on its way into the
\* restart queue, for as long as no call was cut off between clearing and
\* queueing, nobody wrote back an outdated copy or deleted the map.
WantedKept ==
    mishaps \cap {"outdated", "dropped", "erased"} = {} =>
        \A i \in Instances : \A r \in wanted[i] :
            \/ r \in Pending(cm, i)
            \/ \E t \in Threads : proc[i][t].pc = "queue"

\* An instance is restarted only when the wait time of some reason that is
\* pending is over: at once for a request made that late, else by the timer
\* that the oldest request set.  (A reconcile and a callback that decide at
\* the same time, an outdated copy or a deleted map give a restart for nothing.)
RestartIsDue ==
    [][\A i \in Instances, t \in Threads :
         ClearRead(i, t) /\ now < MaxTime /\ mishaps' \cap {"outdated", "raced", "erased"} = {}
            => \E r \in Pending(cache, i) : Over(cache[i][r], now)]_vars

\* SetTimer's second read finds the instance, however the goroutines race,
\* unless the map was deleted or another controller has written back a copy
\* of it that did not know the instance yet.
PanicNeedsLostEntry == "panicked" \in mishaps => "erased" \in mishaps

\* An instance is eventually restarted after a reason was recorded for it,
\* at once or by timer, although its two goroutines race and write back
\* outdated copies, unless a call fails or another controller takes back
\* what was recorded.
WantedIsQueued ==
    \A i \in Instances :
        wanted[i] # {} ~> (wanted[i] = {} \/ faults > 0 \/ "erased" \in mishaps)
=============================================================================
