------------------------- MODULE RestartManagerProofs -------------------------
(***************************************************************************)
(* Machine-checked proofs about RestartManager, for any set of instances   *)
(* and reasons, any wait time and any number of requests and faults.       *)
(***************************************************************************)
EXTENDS RestartManager, TLAPS

\* Thread t of instance i decides about a restart or carries it out.
Busy(i, t) == proc[i][t].pc \in {"settimer", "clear", "write", "queue"}

\* Without a pending watch event the cache is the stored map.
CacheIsCurrent == ~dirty => cache = cm

\* A copy that is fresh is the stored map.
RecordIsCurrent ==
    \A i \in Instances, t \in Threads :
        proc[i][t].pc = "record" => t = "reconcile" /\ (proc[i][t].fresh => proc[i][t].cfg = cm)
                                    /\ proc[i][t].reason \in Reasons

\* While the map is not deleted and nobody takes back an entry, entries stay.
EntriesStay ==
    "erased" \notin mishaps =>
        /\ "panicked" \notin mishaps
        /\ \A i \in Instances :
              /\ Known(cache, i) => Known(cm, i)
              /\ proc[i]["reconcile"].pc = "settimer" => Known(cache, i)
              /\ \A t \in Threads : proc[i][t].pc = "write" => Known(proc[i][t].cfg, i)

\* Exactly the pending requests of a map have a time, one that has come.
Dates(cfg, t) ==
    \A i \in Instances, r \in Reasons :
        /\ cfg[i][r].status = "pending" <=> cfg[i][r].requested # NoTime
        /\ cfg[i][r].requested # NoTime => cfg[i][r].requested <= t

DatesOK ==
    /\ Dates(cm, now) /\ Dates(cache, now)
    /\ \A i \in Instances, t \in Threads : Dates(proc[i][t].cfg, now)

\* Unless they have raced, one goroutine of an instance is busy at a time, and
\* one that is about to write has disarmed the timer.
OneBusy ==
    "raced" \notin mishaps =>
        \A i \in Instances :
            /\ ~(Busy(i, "reconcile") /\ Busy(i, "timer"))
            /\ \A t \in Threads : proc[i][t].pc = "write" => timer[i].state # "armed"

\* SetTimer is run by the controller's worker only.
TimerSetByReconcile == \A i \in Instances : proc[i]["timer"].pc # "settimer"

\* The wait time of a pending request of i in the map cfg is over at time t.
DueAt(cfg, i, t) == \E r \in Pending(cfg, i) : Over(cfg[i][r], t)

\* Decisions, and timers that will lead to one, are about a request whose wait
\* time is over when they are carried out.
DecisionsAreDue ==
    mishaps \cap {"outdated", "raced", "erased"} = {} =>
        \A i \in Instances :
            /\ proc[i]["reconcile"].fresh =>
                  /\ proc[i]["reconcile"].pc = "clear" => DueAt(cm, i, now)
                  /\ proc[i]["reconcile"].pc = "settimer" => Pending(cm, i) # {}
            /\ timer[i].state = "armed" => DueAt(cm, i, timer[i].due)
            /\ proc[i]["timer"].pc = "clear" /\ now < MaxTime => DueAt(cm, i, now)

\* The inductive invariant.
IInv ==
    /\ TypeOK
    /\ CacheIsCurrent
    /\ RecordIsCurrent
    /\ EntriesStay
    /\ DatesOK
    /\ OneBusy
    /\ TimerSetByReconcile
    /\ DecisionsAreDue
    /\ WantedKept

-----------------------------------------------------------------------------
(* Operators on maps                                                       *)

\* The values at rest.
LEMMA RestFacts ==
    /\ NoRequest \in Request /\ EmptyConfig \in Config
    /\ IdleProc \in Proc /\ IdleProc.pc = "idle" /\ IdleProc.cfg = EmptyConfig
    /\ [IdleProc EXCEPT !.pc = "queue"] \in Proc
    /\ [IdleProc EXCEPT !.pc = "queue"].pc = "queue"
    /\ [IdleProc EXCEPT !.pc = "queue"].cfg = EmptyConfig
    /\ NoTimer \in Timer /\ NoTimer.state = "nil"
    /\ "reconcile" \in Threads /\ "timer" \in Threads
    /\ \A t : Dates(EmptyConfig, t)
  <1>1. NoRequest \in Request /\ EmptyConfig \in Config
    BY DEF NoRequest, Request, EmptyConfig, Config
  <1>2. \A t : Dates(EmptyConfig, t)
    BY DEF EmptyConfig, NoRequest, Dates
  <1>3. NoTimer \in Timer /\ NoTimer.state = "nil"
    BY DEF NoTimer, Timer
  <1> QED BY <1>1, <1>2, <1>3 DEF IdleProc, Proc, Threads

\* Recording a request makes it pending and leaves the other ones alone.
LEMMA RecordFacts ==
    ASSUME TypeOK, NEW cfg \in Config, Dates(cfg, now), NEW i \in Instances, NEW reason \in Reasons,
           NEW new, new = [cfg EXCEPT ![i][reason] = updateRestartRequest(@)]
    PROVE  /\ new \in Config
           /\ Dates(new, now)
           /\ \A j \in Instances \ {i} : new[j] = cfg[j]
           /\ Known(new, i)
           /\ reason \in Pending(new, i)
           /\ \A r \in Pending(cfg, i) : r \in Pending(new, i) /\ new[i][r] = cfg[i][r]
  <1>1. now \in Time /\ cfg[i][reason] \in Request /\ NoTime \notin Time
    BY ConstantsOK DEF TypeOK, Config, Time
  <1> DEFINE req == updateRestartRequest(cfg[i][reason])
  <1>2. /\ req \in Request /\ req.status = "pending" /\ req.requested # NoTime
        /\ req.requested <= now
        /\ cfg[i][reason].status = "pending" => req = cfg[i][reason]
    <2>1. CASE cfg[i][reason].status = "pending"
      BY <1>1, <2>1 DEF updateRestartRequest, Dates
    <2>2. CASE cfg[i][reason].status # "pending"
      <3>1. req = [cfg[i][reason] EXCEPT !.status = "pending", !.requested = now]
        BY <2>2 DEF updateRestartRequest
      <3>2. req \in Request /\ req.status = "pending" /\ req.requested = now
        BY <1>1, <3>1 DEF Request
      <3>3. now <= now
        BY <1>1, ConstantsOK DEF Time
      <3> QED BY <1>1, <2>2, <3>2, <3>3
    <2> QED BY <2>1, <2>2
  <1> HIDE DEF req
  <1>3. \A j \in Instances, r \in Reasons :
            new[j][r] = IF j = i /\ r = reason THEN req ELSE cfg[j][r]
    BY DEF Config, req
  <1>4. new \in Config
    BY <1>2 DEF Config, req
  <1>5. \A j \in Instances \ {i} : new[j] = cfg[j]
    BY DEF Config
  <1>6. Dates(new, now)
    BY <1>2, <1>3 DEF Dates
  <1> QED BY <1>2, <1>3, <1>4, <1>5, <1>6 DEF Known, Pending

\* Clearing the requests of an instance leaves none pending, and keeps the
\* entry of the instance.
LEMMA ClearFacts ==
    ASSUME TypeOK, NEW cfg \in Config, Dates(cfg, now), NEW i \in Instances, Known(cfg, i), NEW new,
           new = [cfg EXCEPT ![i] = [r \in Reasons |-> IF r \in Pending(cfg, i)
                                        THEN clearRestart(cfg[i][r]) ELSE cfg[i][r]]]
    PROVE  new \in Config /\ Dates(new, now) /\ Known(new, i)
  <1>1. now \in Time /\ NoTime \notin Time
    BY ConstantsOK DEF TypeOK, Time
  <1>2. \A r \in Reasons : /\ clearRestart(cfg[i][r]) \in Request
                           /\ clearRestart(cfg[i][r]).status = "complete"
                           /\ clearRestart(cfg[i][r]).requested = NoTime
    BY <1>1 DEF clearRestart, Request
  <1>3. \A j \in Instances, r \in Reasons :
            new[j][r] = IF j = i /\ r \in Pending(cfg, i) THEN clearRestart(cfg[i][r]) ELSE cfg[j][r]
    BY DEF Config
  <1>4. new \in Config
    BY <1>2 DEF Config
  <1>5. Dates(new, now)
    BY <1>2, <1>3 DEF Dates
  <1>6. Known(new, i)
    BY <1>2, <1>3 DEF Known
  <1> QED BY <1>4, <1>5, <1>6

\* What is due stays due.
LEMMA DueLater ==
    ASSUME NEW cfg \in Config, NEW i \in Instances, NEW s \in Int, NEW t \in Int, s <= t,
           DueAt(cfg, i, s)
    PROVE  DueAt(cfg, i, t)
  <1>1. PICK r \in Pending(cfg, i) : Over(cfg[i][r], s)
    BY DEF DueAt
  <1>2. cfg[i][r].lastAction \in Time \cup {NoTime}
    BY DEF Pending, Config, Request
  <1>3. Over(cfg[i][r], t)
    BY <1>1, <1>2, ConstantsOK DEF Over, Time
  <1> QED BY <1>1, <1>3 DEF DueAt

\* A pending request for which no timer is needed is due now.
LEMMA TriggerIsDue ==
    ASSUME TypeOK, NEW cfg \in Config, Dates(cfg, now), NEW i \in Instances,
           NEW r \in Reasons, triggerRestart(cfg[i][r])
    PROVE  DueAt(cfg, i, now)
  <1>1. /\ cfg[i][r].status = "pending" /\ cfg[i][r].requested # NoTime
        /\ cfg[i][r].requested <= now /\ Over(cfg[i][r], cfg[i][r].requested)
    BY DEF triggerRestart, Dates
  <1>2. cfg[i][r].requested \in Int /\ now \in Int
    BY <1>1, ConstantsOK DEF Config, Request, TypeOK, Time
  <1>3. DueAt(cfg, i, cfg[i][r].requested)
    BY <1>1 DEF DueAt, Pending
  <1> QED BY <1>1, <1>2, <1>3, DueLater

\* The duration SetTimer takes from the oldest request is long enough for it.
LEMMA DurationIsDue ==
    ASSUME TypeOK, NEW cfg \in Config, Dates(cfg, now), NEW i \in Instances,
           NEW dur \in Durations(cfg, i)
    PROVE  dur \in Int /\ (Pending(cfg, i) # {} => DueAt(cfg, i, now + dur))
  <1>1. \A r \in Dated(cfg, i) : /\ cfg[i][r].requested \in Int /\ cfg[i][r].requested <= now
                                 /\ r \in Pending(cfg, i)
                                 /\ cfg[i][r].lastAction \in Int \cup {NoTime}
    BY ConstantsOK DEF Dated, Dates, Pending, Config, Request, Time
  <1>2. WaitTime \in Int /\ now \in Int /\ NoTime \notin Int
    BY ConstantsOK DEF TypeOK, Time
  <1>3. CASE Dated(cfg, i) = {}
    <2>1. Pending(cfg, i) = {}
      BY <1>3 DEF Dated, Dates, Pending
    <2> QED BY <1>2, <1>3, <2>1 DEF Durations
  <1>4. CASE Dated(cfg, i) # {}
    <2>1. PICK o \in Dated(cfg, i) : dur = getTimerDuration(cfg[i][o])
      BY <1>4 DEF Durations
    <2>2. dur \in Int
      BY <1>1, <1>2, <2>1 DEF getTimerDuration
    <2>3. Over(cfg[i][o], now + dur)
      BY <1>1, <1>2, <2>1 DEF getTimerDuration, Over
    <2> QED BY <1>1, <2>2, <2>3 DEF DueAt
  <1> QED BY <1>3, <1>4

-----------------------------------------------------------------------------
(* Steps of one goroutine                                                  *)

\* Thread t of instance i goes to p, the others stay where they are.
GoesTo(i, t, p) ==
    \A j \in Instances, s \in Threads :
        proc'[j][s] = IF j = i /\ s = t THEN p ELSE proc[j][s]

\* What such a step does to proc.
LEMMA GoesToFacts ==
    ASSUME TypeOK, NEW i \in Instances, NEW t \in Threads, NEW p \in Proc,
           proc' = [proc EXCEPT ![i][t] = p]
    PROVE  GoesTo(i, t, p) /\ proc' \in [Instances -> [Threads -> Proc]]
  BY DEF TypeOK, GoesTo

\* The parts of the invariant about copies of the map.
Copies == CacheIsCurrent /\ RecordIsCurrent /\ DatesOK

\* The parts about decisions.
Decisions == EntriesStay /\ OneBusy /\ TimerSetByReconcile /\ DecisionsAreDue /\ WantedKept

\* A step of one goroutine that does not write keeps the copies in order.
LEMMA LocalCopies ==
    ASSUME IInv, NEW i \in Instances, NEW t \in Threads, NEW p \in Proc, GoesTo(i, t, p),
           UNCHANGED <<cm, cache, dirty, now>>, Dates(p.cfg, now),
           p.pc = "record" => /\ t = "reconcile" /\ p.reason \in Reasons
                              /\ p.cfg = cache /\ (p.fresh => ~dirty)
    PROVE  Copies'
  <1>1. CacheIsCurrent'
    BY DEF IInv, CacheIsCurrent
  <1>2. RecordIsCurrent'
    BY DEF IInv, CacheIsCurrent, RecordIsCurrent, GoesTo
  <1>3. DatesOK'
    BY DEF IInv, DatesOK, GoesTo
  <1> QED BY <1>1, <1>2, <1>3 DEF Copies

\* UpdateConfigForRead: the map is read.
LEMMA ReadStep ==
    ASSUME IInv, NEW i \in Instances, NEW r \in Reasons, UpdateConfigForRead(i, r)
    PROVE  TypeOK' /\ Copies' /\ Decisions'
  <1> DEFINE p == [pc |-> "record", cfg |-> cache, reason |-> r, fresh |-> ~dirty]
  <1>1. p \in Proc /\ p.pc = "record" /\ p.cfg = cache /\ p.reason = r /\ (p.fresh => ~dirty)
    BY DEF IInv, TypeOK, Proc
  <1>2. /\ proc' = [proc EXCEPT ![i]["reconcile"] = p] /\ proc[i]["reconcile"].pc = "idle"
        /\ UNCHANGED <<cm, cache, dirty, now, timer, wanted, mishaps, faults>>
        /\ requests' \in 0..MaxRequests
    BY ConstantsOK DEF UpdateConfigForRead, IInv, TypeOK
  <1> HIDE DEF p
  <1>3. GoesTo(i, "reconcile", p) /\ proc' \in [Instances -> [Threads -> Proc]]
    BY <1>1, <1>2, RestFacts, GoesToFacts DEF IInv
  <1>4. TypeOK'
    BY <1>2, <1>3 DEF IInv, TypeOK
  <1>5. Copies'
    BY <1>1, <1>2, <1>3, RestFacts, LocalCopies DEF IInv, DatesOK
  <1>6. EntriesStay'
    BY <1>1, <1>2, <1>3, RestFacts DEF IInv, EntriesStay, GoesTo
  <1>7. OneBusy' /\ TimerSetByReconcile'
    BY <1>1, <1>2, <1>3, RestFacts DEF IInv, OneBusy, TimerSetByReconcile, Busy, GoesTo
  <1>8. DecisionsAreDue'
    BY <1>1, <1>2, <1>3, RestFacts DEF IInv, DecisionsAreDue, GoesTo
  <1>9. WantedKept'
    BY <1>1, <1>2, <1>3, RestFacts DEF IInv, WantedKept, GoesTo
  <1> QED BY <1>4, <1>5, <1>6, <1>7, <1>8, <1>9 DEF Decisions

\* TriggerIfNeeded: the goroutine decides to restart or to set a timer.
LEMMA TriggerStep ==
    ASSUME IInv, NEW i \in Instances, TriggerIfNeeded(i)
    PROVE  TypeOK' /\ Copies' /\ Decisions'
  <1> DEFINE trigger == \E r \in Reasons : triggerRestart(cache[i][r])
             old == proc[i]["reconcile"]
             p == [old EXCEPT !.pc = IF trigger THEN "clear" ELSE "settimer", !.fresh = ~dirty]
  <1>1. /\ proc' = [proc EXCEPT ![i]["reconcile"] = p] /\ old.pc = "idle"
        /\ UNCHANGED <<cm, cache, dirty, now, timer, requests, wanted, faults>>
        /\ mishaps' = mishaps \cup Raced(i, "timer")
        /\ Pending(cache, i) # {}
    BY DEF TriggerIfNeeded
  <1>2. old \in Proc /\ Dates(old.cfg, now)
    BY RestFacts DEF IInv, TypeOK, DatesOK
  <1>3. /\ p \in Proc /\ p.cfg = old.cfg /\ (p.fresh => ~dirty)
        /\ p.pc = IF trigger THEN "clear" ELSE "settimer"
    <2>1. (~dirty) \in BOOLEAN
      BY Zenon
    <2> HIDE DEF trigger
    <2> QED BY <1>2, <2>1 DEF Proc
  <1>4. p.pc \in {"clear", "settimer"}
    BY <1>3
  <1>5. p.pc = "clear" => DueAt(cache, i, now)
    BY <1>3, TriggerIsDue DEF IInv, TypeOK, DatesOK
  <1> HIDE DEF p, trigger
  <1>6. GoesTo(i, "reconcile", p) /\ proc' \in [Instances -> [Threads -> Proc]]
    BY <1>1, <1>3, RestFacts, GoesToFacts DEF IInv
  <1>7. mishaps' \in SUBSET Mishaps /\ mishaps \subseteq mishaps'
        /\ mishaps' \subseteq mishaps \cup {"raced"}
    BY <1>1 DEF Raced, Mishaps, IInv, TypeOK
  <1>8. TypeOK'
    BY <1>1, <1>6, <1>7 DEF IInv, TypeOK
  <1>9. Copies'
    BY <1>1, <1>2, <1>3, <1>4, <1>6, RestFacts, LocalCopies
  <1>10. Known(cache, i)
    BY <1>1 DEF Known, Pending
  <1>11. EntriesStay'
    BY <1>1, <1>4, <1>6, <1>7, <1>10, RestFacts DEF IInv, EntriesStay, GoesTo
  <1>12. OneBusy'
    <2> SUFFICES ASSUME "raced" \notin mishaps', NEW j \in Instances
                 PROVE  /\ ~(Busy(j, "reconcile")' /\ Busy(j, "timer")')
                        /\ \A t \in Threads : proc'[j][t].pc = "write" => timer'[j].state # "armed"
      BY DEF OneBusy, Busy
    <2>1. ~Busy(i, "timer")
      BY <1>1 DEF Raced, Busy
    <2>2. CASE j = i
      BY <1>1, <1>4, <1>6, <1>7, <2>1, <2>2, RestFacts DEF IInv, OneBusy, Busy, GoesTo
    <2>3. CASE j # i
      BY <1>1, <1>6, <1>7, <2>3, RestFacts DEF IInv, OneBusy, Busy, GoesTo
    <2> QED BY <2>2, <2>3
  <1>13. TimerSetByReconcile'
    BY <1>6, RestFacts DEF IInv, TimerSetByReconcile, GoesTo
  <1>14. DecisionsAreDue'
    BY <1>1, <1>3, <1>4, <1>5, <1>6, <1>7, RestFacts
    DEF IInv, DecisionsAreDue, CacheIsCurrent, GoesTo
  <1>15. WantedKept'
    BY <1>1, <1>4, <1>6, <1>7, RestFacts DEF IInv, WantedKept, GoesTo
  <1> QED BY <1>8, <1>9, <1>11, <1>12, <1>13, <1>14, <1>15 DEF Decisions

\* SetTimer: a timer is armed for the oldest request.
LEMMA SetTimerStep ==
    ASSUME IInv, NEW i \in Instances, SetTimer(i)
    PROVE  TypeOK' /\ Copies' /\ Decisions'
  <1> DEFINE old == proc[i]["reconcile"]
  <1>1. /\ proc' = [proc EXCEPT ![i]["reconcile"] = IdleProc] /\ old.pc = "settimer"
        /\ UNCHANGED <<cm, cache, dirty, now, requests, wanted, faults>>
    BY DEF SetTimer
  <1>2. GoesTo(i, "reconcile", IdleProc) /\ proc' \in [Instances -> [Threads -> Proc]]
    BY <1>1, RestFacts, GoesToFacts DEF IInv
  <1>3. /\ mishaps' \in SUBSET Mishaps /\ mishaps \subseteq mishaps'
        /\ mishaps' \subseteq mishaps \cup {"outdated"}
    BY DEF SetTimer, Blame, Mishaps, IInv, TypeOK
  <1>4. /\ timer' \in [Instances -> Timer]
        /\ \A j \in Instances \ {i} : timer'[j] = timer[j]
        /\ \/ timer'[i] = timer[i]
           \/ /\ \E dur \in Durations(cache, i) : timer'[i].due = now + dur
              /\ mishaps' = mishaps \cup Blame(old.fresh /\ ~dirty)
    <2>1. CASE timer[i].state = "nil"
      <3>1. PICK dur \in Durations(cache, i) :
                timer' = [timer EXCEPT ![i] = [state |-> "armed", due |-> now + dur]]
        BY <2>1 DEF SetTimer
      <3>2. mishaps' = mishaps \cup Blame(old.fresh /\ ~dirty)
        BY <2>1 DEF SetTimer
      <3>3. dur \in Int /\ now \in Int
        BY DurationIsDue, ConstantsOK DEF IInv, TypeOK, DatesOK, Time
      <3> QED BY <3>1, <3>2, <3>3 DEF IInv, TypeOK, Timer
    <2>2. CASE timer[i].state # "nil"
      BY <2>2 DEF SetTimer, IInv, TypeOK
    <2> QED BY <2>1, <2>2
  <1>5. TypeOK'
    BY <1>1, <1>2, <1>3, <1>4 DEF IInv, TypeOK
  <1>6. Copies'
    BY <1>1, <1>2, RestFacts, LocalCopies
  <1>7. EntriesStay'
    BY <1>1, <1>2, <1>3, RestFacts DEF IInv, EntriesStay, GoesTo
  <1>8. OneBusy'
    <2> SUFFICES ASSUME "raced" \notin mishaps', NEW j \in Instances
                 PROVE  /\ ~(Busy(j, "reconcile")' /\ Busy(j, "timer")')
                        /\ \A t \in Threads : proc'[j][t].pc = "write" => timer'[j].state # "armed"
      BY DEF OneBusy, Busy
    <2>1. CASE j = i
      <3>1. ~Busy(i, "timer")
        BY <1>1, <1>3 DEF IInv, OneBusy, Busy
      <3> QED BY <1>2, <2>1, <3>1, RestFacts DEF Busy, GoesTo, Threads
    <2>2. CASE j # i
      <3>1. timer'[j] = timer[j] /\ \A t \in Threads : proc'[j][t] = proc[j][t]
        BY <1>2, <1>4, <2>2 DEF GoesTo
      <3> QED BY <1>3, <3>1, RestFacts DEF IInv, OneBusy, Busy
    <2> QED BY <2>1, <2>2
  <1>9. TimerSetByReconcile'
    BY <1>2, RestFacts DEF IInv, TimerSetByReconcile, GoesTo
  <1>10. DecisionsAreDue'
    <2> SUFFICES ASSUME mishaps' \cap {"outdated", "raced", "erased"} = {}, NEW j \in Instances
                 PROVE  /\ proc'[j]["reconcile"].fresh =>
                             /\ proc'[j]["reconcile"].pc = "clear" => DueAt(cm', j, now')
                             /\ proc'[j]["reconcile"].pc = "settimer" => Pending(cm', j) # {}
                        /\ timer'[j].state = "armed" => DueAt(cm', j, timer'[j].due)
                        /\ proc'[j]["timer"].pc = "clear" /\ now' < MaxTime => DueAt(cm', j, now')
      BY DEF DecisionsAreDue
    <2>1. mishaps \cap {"outdated", "raced", "erased"} = {}
      BY <1>3
    <2>2. CASE j # i \/ timer'[i] = timer[i]
      BY <1>1, <1>2, <1>4, <2>1, <2>2, RestFacts DEF IInv, DecisionsAreDue, GoesTo
    <2>3. CASE j = i /\ timer'[i] # timer[i]
      <3>1. PICK dur \in Durations(cache, i) : timer'[i].due = now + dur
        BY <1>4, <2>3
      <3>2. old.fresh /\ ~dirty
        BY <1>4, <2>3 DEF Blame
      <3>3. cache = cm /\ Pending(cm, i) # {}
        BY <1>1, <2>1, <3>2 DEF IInv, CacheIsCurrent, DecisionsAreDue
      <3>4. DueAt(cm, i, now + dur)
        BY <3>3, DurationIsDue DEF IInv, TypeOK, DatesOK
      <3> QED
        BY <1>1, <1>2, <2>1, <2>3, <3>1, <3>4, RestFacts DEF IInv, DecisionsAreDue, GoesTo
    <2> QED BY <2>2, <2>3
  <1>11. WantedKept'
    BY <1>1, <1>2, <1>3, RestFacts DEF IInv, WantedKept, GoesTo
  <1> QED BY <1>5, <1>6, <1>7, <1>8, <1>9, <1>10, <1>11 DEF Decisions

\* TimerFires: the callback begins, once the wait time is over.
LEMMA TimerStep ==
    ASSUME IInv, NEW i \in Instances, TimerFires(i)
    PROVE  TypeOK' /\ Copies' /\ Decisions'
  <1> DEFINE old == proc[i]["timer"]
             p == [old EXCEPT !.pc = "clear"]
  <1>1. /\ proc' = [proc EXCEPT ![i]["timer"] = p] /\ old.pc = "idle"
        /\ UNCHANGED <<cm, cache, dirty, now, requests, wanted, faults>>
        /\ timer' = [timer EXCEPT ![i].state = "fired"]
        /\ mishaps' = mishaps \cup Raced(i, "reconcile")
        /\ timer[i].state = "armed" /\ (now >= timer[i].due \/ now = MaxTime)
    BY RestFacts DEF TimerFires, IInv, TypeOK
  <1>2. old \in Proc /\ Dates(old.cfg, now)
    BY RestFacts DEF IInv, TypeOK, DatesOK
  <1>3. p \in Proc /\ p.cfg = old.cfg /\ p.pc = "clear"
    BY <1>2 DEF Proc
  <1> HIDE DEF p
  <1>4. GoesTo(i, "timer", p) /\ proc' \in [Instances -> [Threads -> Proc]]
    BY <1>1, <1>3, RestFacts, GoesToFacts DEF IInv
  <1>5. /\ timer' \in [Instances -> Timer] /\ timer'[i].state = "fired"
        /\ \A j \in Instances \ {i} : timer'[j] = timer[j]
    BY <1>1 DEF IInv, TypeOK, Timer
  <1>6. /\ mishaps' \in SUBSET Mishaps /\ mishaps \subseteq mishaps'
        /\ mishaps' \subseteq mishaps \cup {"raced"}
        /\ "raced" \notin mishaps' => ~Busy(i, "reconcile")
    BY <1>1 DEF Raced, Busy, Mishaps, IInv, TypeOK
  <1>7. TypeOK'
    BY <1>1, <1>4, <1>5, <1>6 DEF IInv, TypeOK
  <1>8. Copies'
    BY <1>1, <1>2, <1>3, <1>4, RestFacts, LocalCopies
  <1>9. EntriesStay'
    BY <1>1, <1>3, <1>4, <1>6, RestFacts DEF IInv, EntriesStay, GoesTo
  <1>10. OneBusy'
    <2> SUFFICES ASSUME "raced" \notin mishaps', NEW j \in Instances
                 PROVE  /\ ~(Busy(j, "reconcile")' /\ Busy(j, "timer")')
                        /\ \A t \in Threads : proc'[j][t].pc = "write" => timer'[j].state # "armed"
      BY DEF OneBusy, Busy
    <2>1. CASE j = i
      BY <1>4, <1>5, <1>6, <2>1, RestFacts DEF Busy, GoesTo
    <2>2. CASE j # i
      <3>1. timer'[j] = timer[j] /\ \A t \in Threads : proc'[j][t] = proc[j][t]
        BY <1>4, <1>5, <2>2 DEF GoesTo
      <3> QED BY <1>6, <3>1, RestFacts DEF IInv, OneBusy, Busy
    <2> QED BY <2>1, <2>2
  <1>11. TimerSetByReconcile'
    BY <1>3, <1>4, RestFacts DEF IInv, TimerSetByReconcile, GoesTo
  <1>12. DecisionsAreDue'
    <2> SUFFICES ASSUME mishaps' \cap {"outdated", "raced", "erased"} = {}, NEW j \in Instances
                 PROVE  /\ proc'[j]["reconcile"].fresh =>
                             /\ proc'[j]["reconcile"].pc = "clear" => DueAt(cm', j, now')
                             /\ proc'[j]["reconcile"].pc = "settimer" => Pending(cm', j) # {}
                        /\ timer'[j].state = "armed" => DueAt(cm', j, timer'[j].due)
                        /\ proc'[j]["timer"].pc = "clear" /\ now' < MaxTime => DueAt(cm', j, now')
      BY DEF DecisionsAreDue
    <2>1. mishaps \cap {"outdated", "raced", "erased"} = {}
      BY <1>6
    <2>2. CASE j # i
      BY <1>1, <1>4, <1>5, <2>1, <2>2, RestFacts DEF IInv, DecisionsAreDue, GoesTo
    <2>3. CASE j = i
      <3>1. proc'[i]["reconcile"] = proc[i]["reconcile"]
        BY <1>4, RestFacts DEF GoesTo
      <3>2. timer[i].due \in Int /\ now \in Int /\ MaxTime \in Int /\ cm \in Config
        BY ConstantsOK DEF IInv, TypeOK, Timer, Time
      <3>3. DueAt(cm, i, timer[i].due)
        BY <1>1, <2>1 DEF IInv, DecisionsAreDue
      <3>4. now < MaxTime => DueAt(cm, i, now)
        BY <1>1, <3>2, <3>3, DueLater
      <3> QED BY <1>1, <1>5, <2>1, <2>3, <3>1, <3>4 DEF IInv, DecisionsAreDue
    <2> QED BY <2>2, <2>3
  <1>13. WantedKept'
    BY <1>1, <1>3, <1>4, <1>6, RestFacts DEF IInv, WantedKept, GoesTo
  <1> QED BY <1>7, <1>8, <1>9, <1>10, <1>11, <1>12, <1>13 DEF Decisions

\* ClearRead: the requests are cleared in a copy and the timer is stopped.
LEMMA ClearReadStep ==
    ASSUME IInv, NEW i \in Instances, NEW t \in Threads, ClearRead(i, t)
    PROVE  TypeOK' /\ Copies' /\ Decisions'
  <1> DEFINE old == proc[i][t]
             cleared == [r \in Reasons |-> IF r \in Pending(cache, i)
                                           THEN clearRestart(cache[i][r]) ELSE cache[i][r]]
             new == [cache EXCEPT ![i] = cleared]
  <1>1. /\ old.pc = "clear" /\ old \in Proc /\ Dates(old.cfg, now)
        /\ UNCHANGED <<cm, cache, dirty, now, requests, wanted, faults>>
        /\ mishaps' = mishaps \cup Blame(old.fresh /\ ~dirty)
    BY DEF ClearRead, IInv, TypeOK, DatesOK
  <1>2. PICK p \in Proc :
           /\ proc' = [proc EXCEPT ![i][t] = p]
           /\ Dates(p.cfg, now)
           /\ \/ p.pc = "write" /\ Known(p.cfg, i) /\ timer' = [timer EXCEPT ![i] = NoTimer]
              \/ p.pc = "queue" /\ UNCHANGED timer
    <2>1. CASE Known(cache, i)
      <3> DEFINE q == [pc |-> "write", reason |-> NoTime, cfg |-> new, fresh |-> ~dirty]
      <3>1. new \in Config /\ Dates(new, now) /\ Known(new, i)
        BY <2>1, ClearFacts DEF IInv, TypeOK, DatesOK
      <3>2. proc' = [proc EXCEPT ![i][t] = q] /\ timer' = [timer EXCEPT ![i] = NoTimer]
        BY <2>1 DEF ClearRead
      <3> HIDE DEF new
      <3>3. q \in Proc /\ q.pc = "write" /\ q.cfg = new
        BY <3>1 DEF Proc
      <3> QED BY <3>1, <3>2, <3>3
    <2>2. CASE ~Known(cache, i)
      <3> DEFINE q == [old EXCEPT !.pc = "queue"]
      <3>1. proc' = [proc EXCEPT ![i][t] = q] /\ UNCHANGED timer
        BY <2>2 DEF ClearRead, IInv, TypeOK
      <3>2. q \in Proc /\ q.pc = "queue" /\ q.cfg = old.cfg
        BY <1>1 DEF Proc
      <3> QED BY <1>1, <3>1, <3>2
    <2> QED BY <2>1, <2>2
  <1>3. GoesTo(i, t, p) /\ proc' \in [Instances -> [Threads -> Proc]]
    BY <1>2, GoesToFacts DEF IInv
  <1>4. /\ timer' \in [Instances -> Timer]
        /\ \A j \in Instances \ {i} : timer'[j] = timer[j]
        /\ timer'[i].state = "armed" => timer'[i] = timer[i] /\ p.pc # "write"
    BY <1>2, RestFacts DEF IInv, TypeOK
  <1>5. /\ mishaps' \in SUBSET Mishaps /\ mishaps \subseteq mishaps'
    BY <1>1 DEF Blame, Mishaps, IInv, TypeOK
  <1>6. TypeOK'
    BY <1>1, <1>3, <1>4, <1>5 DEF IInv, TypeOK
  <1>7. Copies'
    BY <1>1, <1>2, <1>3, RestFacts, LocalCopies
  <1>8. EntriesStay'
    <2>1. "panicked" \in mishaps' => "panicked" \in mishaps
      BY <1>1 DEF Blame
    <2> QED BY <1>1, <1>2, <1>3, <1>5, <2>1, RestFacts DEF IInv, EntriesStay, GoesTo
  <1>9. OneBusy'
    <2> SUFFICES ASSUME "raced" \notin mishaps', NEW j \in Instances
                 PROVE  /\ ~(Busy(j, "reconcile")' /\ Busy(j, "timer")')
                        /\ \A s \in Threads : proc'[j][s].pc = "write" => timer'[j].state # "armed"
      BY DEF OneBusy, Busy
    <2>1. CASE j = i
      <3>1. /\ ~(Busy(i, "reconcile") /\ Busy(i, "timer")) /\ Busy(i, t)
            /\ \A s \in Threads : proc[i][s].pc = "write" => timer[i].state # "armed"
        BY <1>1, <1>5 DEF IInv, OneBusy, Busy
      <3>2. \A s \in Threads : Busy(i, s)' => Busy(i, s)
        BY <1>3, <3>1 DEF GoesTo, Busy
      <3>3. \A s \in Threads : proc'[i][s].pc = "write" => timer'[i].state # "armed"
        BY <1>3, <1>4, <3>1 DEF GoesTo
      <3> QED BY <2>1, <3>1, <3>2, <3>3, RestFacts
    <2>2. CASE j # i
      <3>1. timer'[j] = timer[j] /\ \A s \in Threads : proc'[j][s] = proc[j][s]
        BY <1>3, <1>4, <2>2 DEF GoesTo
      <3> QED BY <1>5, <3>1, RestFacts DEF IInv, OneBusy, Busy
    <2> QED BY <2>1, <2>2
  <1>10. TimerSetByReconcile'
    BY <1>2, <1>3, RestFacts DEF IInv, TimerSetByReconcile, GoesTo
  <1>11. DecisionsAreDue'
    <2>1. \A j \in Instances : timer'[j].state = "armed" => timer'[j] = timer[j]
      BY <1>4
    <2>2. p.pc \notin {"clear", "settimer"}
      BY <1>2
    <2> QED BY <1>1, <1>3, <1>5, <2>1, <2>2, RestFacts DEF IInv, DecisionsAreDue, GoesTo
  <1>12. WantedKept'
    BY <1>1, <1>3, <1>5 DEF IInv, WantedKept, GoesTo
  <1> QED BY <1>6, <1>7, <1>8, <1>9, <1>10, <1>11, <1>12 DEF Decisions

\* Queue and Fails: the goroutine is done with the instance.
LEMMA DoneStep ==
    ASSUME IInv, NEW i \in Instances, NEW t \in Threads, Queue(i, t) \/ Fails(i, t)
    PROVE  TypeOK' /\ Copies' /\ Decisions'
  <1>1. /\ proc' = [proc EXCEPT ![i][t] = IdleProc]
        /\ UNCHANGED <<cm, cache, dirty, now, timer, requests>>
        /\ faults' \in 0..MaxFaults
        /\ mishaps \subseteq mishaps' /\ mishaps' \subseteq mishaps \cup {"dropped"}
        /\ wanted' \in [Instances -> SUBSET Reasons]
        /\ \A j \in Instances : wanted'[j] \subseteq wanted[j]
        /\ \/ wanted'[i] = {}
           \/ proc[i][t].pc # "queue" \/ "dropped" \in mishaps'
    <2>1. CASE Queue(i, t)
      BY <2>1 DEF Queue, IInv, TypeOK
    <2>2. CASE Fails(i, t)
      BY <2>2, ConstantsOK DEF Fails, Fault, IInv, TypeOK
    <2> QED BY <2>1, <2>2
  <1>2. GoesTo(i, t, IdleProc) /\ proc' \in [Instances -> [Threads -> Proc]]
    BY <1>1, RestFacts, GoesToFacts DEF IInv
  <1>3. TypeOK'
    BY <1>1, <1>2 DEF IInv, TypeOK, Mishaps
  <1>4. Copies'
    BY <1>1, <1>2, RestFacts, LocalCopies
  <1>5. EntriesStay'
    BY <1>1, <1>2, RestFacts DEF IInv, EntriesStay, GoesTo
  <1>6. OneBusy'
    BY <1>1, <1>2, RestFacts DEF IInv, OneBusy, Busy, GoesTo
  <1>7. TimerSetByReconcile'
    BY <1>2, RestFacts DEF IInv, TimerSetByReconcile, GoesTo
  <1>8. DecisionsAreDue'
    BY <1>1, <1>2, RestFacts DEF IInv, DecisionsAreDue, GoesTo
  <1>9. WantedKept'
    BY <1>1, <1>2, RestFacts DEF IInv, WantedKept, GoesTo
  <1> QED BY <1>3, <1>4, <1>5, <1>6, <1>7, <1>8, <1>9 DEF Decisions

-----------------------------------------------------------------------------
(* Steps that write the map                                                *)

\* A goroutine whose copy is outdated keeps the rest of its state.
LEMMA StaleCopy ==
    ASSUME NEW q \in Proc
    PROVE  LET stale == [q EXCEPT !.fresh = FALSE] IN
           /\ stale \in Proc /\ ~stale.fresh
           /\ stale.pc = q.pc /\ stale.cfg = q.cfg /\ stale.reason = q.reason
  <1> DEFINE stale == [q EXCEPT !.fresh = FALSE]
  <1>1. stale.fresh = FALSE /\ stale.pc = q.pc /\ stale.cfg = q.cfg /\ stale.reason = q.reason
    BY DEF Proc
  <1>2. FALSE \in BOOLEAN
    BY Zenon
  <1>3. stale \in Proc
    BY <1>2 DEF Proc
  <1> QED BY <1>1, <1>3

\* What UpdateConfigMap does to the goroutines: the one that writes goes to p,
\* and a copy somebody else has read is outdated.
LEMMA WriteFacts ==
    ASSUME TypeOK, NEW i \in Instances, NEW t \in Threads, NEW cfg, NEW p \in Proc,
           Write(i, t, cfg, p)
    PROVE  /\ proc' \in [Instances -> [Threads -> Proc]]
           /\ proc'[i][t] = p
           /\ \A j \in Instances, s \in Threads : j # i \/ s # t =>
                /\ proc'[j][s].pc = proc[j][s].pc /\ proc'[j][s].cfg = proc[j][s].cfg
                /\ proc'[j][s].reason = proc[j][s].reason
                /\ proc[j][s].pc \in {"record", "write"} => ~proc'[j][s].fresh
                /\ proc[j][s].pc \notin {"record", "write"} => proc'[j][s] = proc[j][s]
  <1>1. \A j \in Instances, s \in Threads : proc[j][s] \in Proc
    BY DEF TypeOK
  <1>2. \A j \in Instances, s \in Threads :
            proc'[j][s] = IF j = i /\ s = t THEN p
                          ELSE IF proc[j][s].pc \in {"record", "write"}
                          THEN [proc[j][s] EXCEPT !.fresh = FALSE] ELSE proc[j][s]
    BY DEF Write
  <1>3. proc' \in [Instances -> [Threads -> Proc]]
    BY <1>1, StaleCopy DEF Write
  <1>4. \A j \in Instances, s \in Threads : j # i \/ s # t =>
           /\ proc'[j][s].pc = proc[j][s].pc /\ proc'[j][s].cfg = proc[j][s].cfg
           /\ proc'[j][s].reason = proc[j][s].reason
           /\ proc[j][s].pc \in {"record", "write"} => ~proc'[j][s].fresh
           /\ proc[j][s].pc \notin {"record", "write"} => proc'[j][s] = proc[j][s]
    <2> SUFFICES ASSUME NEW j \in Instances, NEW s \in Threads, j # i \/ s # t
                 PROVE  /\ proc'[j][s].pc = proc[j][s].pc /\ proc'[j][s].cfg = proc[j][s].cfg
                        /\ proc'[j][s].reason = proc[j][s].reason
                        /\ proc[j][s].pc \in {"record", "write"} => ~proc'[j][s].fresh
                        /\ proc[j][s].pc \notin {"record", "write"} => proc'[j][s] = proc[j][s]
      OBVIOUS
    <2> DEFINE q == proc[j][s]
    <2>1. q \in Proc
      BY <1>1
    <2>2. proc'[j][s] = IF q.pc \in {"record", "write"} THEN [q EXCEPT !.fresh = FALSE] ELSE q
      BY <1>2
    <2> HIDE DEF q
    <2>3. /\ [q EXCEPT !.fresh = FALSE].pc = q.pc /\ [q EXCEPT !.fresh = FALSE].cfg = q.cfg
          /\ [q EXCEPT !.fresh = FALSE].reason = q.reason /\ ~[q EXCEPT !.fresh = FALSE].fresh
      BY <2>1, StaleCopy
    <2>4. /\ proc'[j][s].pc = q.pc /\ proc'[j][s].cfg = q.cfg /\ proc'[j][s].reason = q.reason
          /\ q.pc \in {"record", "write"} => ~proc'[j][s].fresh
          /\ q.pc \notin {"record", "write"} => proc'[j][s] = q
      BY <2>2, <2>3
    <2> QED BY <2>4 DEF q
  <1>5. proc'[i][t] = p
    BY <1>2
  <1> QED BY <1>3, <1>4, <1>5

\* A write keeps the copies in order.
LEMMA WriteCopies ==
    ASSUME IInv, NEW i \in Instances, NEW t \in Threads, NEW cfg \in Config, NEW p \in Proc,
           Write(i, t, cfg, p), Dates(cfg, now), Dates(p.cfg, now), p.pc # "record",
           UNCHANGED <<cache, now>>
    PROVE  Copies'
  <1>1. cm' = cfg /\ dirty'
    BY DEF Write
  <1>2. CacheIsCurrent'
    BY <1>1 DEF CacheIsCurrent
  <1>3. RecordIsCurrent'
    BY WriteFacts DEF IInv, RecordIsCurrent
  <1>4. DatesOK'
    BY <1>1, WriteFacts DEF IInv, DatesOK
  <1> QED BY <1>2, <1>3, <1>4 DEF Copies

\* UpdateConfigForWrite: the reason is recorded.
LEMMA RecordStep ==
    ASSUME IInv, NEW i \in Instances, UpdateConfigForWrite(i)
    PROVE  TypeOK' /\ Copies' /\ Decisions'
  <1> DEFINE old == proc[i]["reconcile"]
             new == [old.cfg EXCEPT ![i][old.reason] = updateRestartRequest(@)]
  <1>1. /\ old.pc = "record" /\ old.reason \in Reasons /\ old.cfg \in Config
        /\ Dates(old.cfg, now) /\ (old.fresh => old.cfg = cm)
    BY RestFacts DEF UpdateConfigForWrite, IInv, TypeOK, Proc, RecordIsCurrent, DatesOK
  <1>2. /\ Write(i, "reconcile", new, IdleProc)
        /\ wanted' = [wanted EXCEPT ![i] = @ \cup {old.reason}]
        /\ mishaps' = mishaps \cup Blame(old.fresh) \cup Erased(i, old.cfg)
        /\ UNCHANGED <<cache, now, timer, requests, faults>>
    BY DEF UpdateConfigForWrite
  <1>3. /\ new \in Config /\ Dates(new, now) /\ Known(new, i)
        /\ \A j \in Instances \ {i} : new[j] = old.cfg[j]
        /\ old.reason \in Pending(new, i)
        /\ \A r \in Pending(old.cfg, i) : r \in Pending(new, i) /\ new[i][r] = old.cfg[i][r]
    BY <1>1, RecordFacts DEF IInv
  <1> HIDE DEF new
  <1>4. cm' = new /\ dirty' = TRUE
    BY <1>2 DEF Write
  <1>5. /\ mishaps' \in SUBSET Mishaps /\ mishaps \subseteq mishaps'
        /\ mishaps' \subseteq mishaps \cup {"outdated", "erased"}
        /\ "outdated" \notin mishaps' => old.fresh
        /\ "erased" \notin mishaps' => \A j \in Instances \ {i} : old.cfg[j] = cm[j]
    BY <1>2 DEF Blame, Erased, Mishaps, IInv, TypeOK
  <1>6. /\ proc' \in [Instances -> [Threads -> Proc]]
        /\ proc'[i]["reconcile"] = IdleProc
        /\ \A j \in Instances, s \in Threads : j # i \/ s # "reconcile" =>
             /\ proc'[j][s].pc = proc[j][s].pc /\ proc'[j][s].cfg = proc[j][s].cfg
             /\ proc[j][s].pc \in {"record", "write"} => ~proc'[j][s].fresh
             /\ proc[j][s].pc \notin {"record", "write"} => proc'[j][s] = proc[j][s]
    BY <1>2, RestFacts, WriteFacts DEF IInv
  <1>7. \A j \in Instances, s \in Threads : proc'[j][s].pc # "idle" => proc'[j][s].pc = proc[j][s].pc
    BY <1>6, RestFacts
  <1>8. TypeOK'
    <2>1. wanted' \in [Instances -> SUBSET Reasons]
      BY <1>1, <1>2 DEF IInv, TypeOK
    <2>2. dirty' \in BOOLEAN
      BY <1>4, Zenon
    <2> QED BY <1>2, <1>3, <1>4, <1>5, <1>6, <2>1, <2>2 DEF IInv, TypeOK
  <1>9. Copies'
    BY <1>2, <1>3, RestFacts, WriteCopies
  <1>10. EntriesStay'
    <2> SUFFICES ASSUME "erased" \notin mishaps'
                 PROVE  /\ "panicked" \notin mishaps'
                        /\ \A j \in Instances :
                             /\ Known(cache', j) => Known(cm', j)
                             /\ proc'[j]["reconcile"].pc = "settimer" => Known(cache', j)
                             /\ \A s \in Threads : proc'[j][s].pc = "write"
                                                     => Known(proc'[j][s].cfg, j)
      BY DEF EntriesStay
    <2>1. \A j \in Instances : Known(cm, j) => Known(cm', j)
      BY <1>3, <1>4, <1>5 DEF Known
    <2>2. \A j \in Instances : Known(cache', j) => Known(cm', j)
      BY <1>2, <1>5, <2>1 DEF IInv, EntriesStay
    <2>3. \A j \in Instances, s \in Threads :
              proc'[j][s].pc # "idle" => proc'[j][s].cfg = proc[j][s].cfg
      BY <1>6, RestFacts
    <2> QED BY <1>2, <1>5, <1>7, <2>2, <2>3, RestFacts DEF IInv, EntriesStay
  <1>11. OneBusy'
    BY <1>2, <1>5, <1>7, RestFacts DEF IInv, OneBusy, Busy
  <1>12. TimerSetByReconcile'
    BY <1>7, RestFacts DEF IInv, TimerSetByReconcile
  <1>13. DecisionsAreDue'
    <2> SUFFICES ASSUME mishaps' \cap {"outdated", "raced", "erased"} = {}, NEW j \in Instances
                 PROVE  /\ proc'[j]["reconcile"].fresh =>
                             /\ proc'[j]["reconcile"].pc = "clear" => DueAt(cm', j, now')
                             /\ proc'[j]["reconcile"].pc = "settimer" => Pending(cm', j) # {}
                        /\ timer'[j].state = "armed" => DueAt(cm', j, timer'[j].due)
                        /\ proc'[j]["timer"].pc = "clear" /\ now' < MaxTime => DueAt(cm', j, now')
      BY DEF DecisionsAreDue
    <2>1. mishaps \cap {"outdated", "raced", "erased"} = {} /\ old.cfg = cm
      BY <1>1, <1>5
    <2>2. \A r \in Pending(cm, j) : r \in Pending(cm', j) /\ cm'[j][r] = cm[j][r]
      <3>1. CASE j = i
        BY <1>3, <1>4, <2>1, <3>1
      <3>2. CASE j # i
        <4>1. cm'[j] = cm[j]
          BY <1>3, <1>4, <2>1, <3>2
        <4> QED BY <4>1 DEF Pending
      <3> QED BY <3>1, <3>2
    <2>3. \A d : DueAt(cm, j, d) => DueAt(cm', j, d)
      BY <2>2 DEF DueAt
    <2>4. /\ proc'[j]["reconcile"].pc \in {"clear", "settimer"}
                => proc'[j]["reconcile"] = proc[j]["reconcile"]
          /\ proc'[j]["timer"].pc = "clear" => proc[j]["timer"].pc = "clear"
      BY <1>6, <1>7, RestFacts
    <2> QED BY <1>2, <2>1, <2>2, <2>3, <2>4 DEF IInv, DecisionsAreDue
  <1>14. WantedKept'
    <2> SUFFICES ASSUME mishaps' \cap {"outdated", "dropped", "erased"} = {},
                        NEW j \in Instances, NEW r \in wanted'[j]
                 PROVE  r \in Pending(cm', j) \/ \E s \in Threads : proc'[j][s].pc = "queue"
      BY DEF WantedKept
    <2>1. mishaps \cap {"outdated", "dropped", "erased"} = {} /\ old.cfg = cm
      BY <1>1, <1>5
    <2>2. CASE j = i /\ r = old.reason
      BY <1>3, <1>4, <2>2
    <2>3. CASE ~(j = i /\ r = old.reason)
      <3>1. r \in wanted[j]
        BY <1>2, <2>3 DEF IInv, TypeOK
      <3>2. \/ r \in Pending(cm, j)
            \/ \E s \in Threads : proc[j][s].pc = "queue"
        BY <2>1, <3>1 DEF IInv, WantedKept
      <3>3. \A s \in Threads : proc[j][s].pc = "queue" => proc'[j][s].pc = "queue"
        BY <1>1, <1>6
      <3>4. r \in Pending(cm, j) => r \in Pending(cm', j)
        <4>1. CASE j = i
          BY <1>3, <1>4, <2>1, <4>1
        <4>2. CASE j # i
          BY <1>3, <1>4, <2>1, <4>2 DEF Pending
        <4> QED BY <4>1, <4>2
      <3> QED BY <3>2, <3>3, <3>4
    <2> QED BY <2>2, <2>3
  <1> QED BY <1>8, <1>9, <1>10, <1>11, <1>12, <1>13, <1>14 DEF Decisions

\* ClearWrite: the cleared requests are written back.
LEMMA ClearWriteStep ==
    ASSUME IInv, NEW i \in Instances, NEW t \in Threads, ClearWrite(i, t)
    PROVE  TypeOK' /\ Copies' /\ Decisions'
  <1> DEFINE old == proc[i][t]
             p == [IdleProc EXCEPT !.pc = "queue"]
  <1>1. old.pc = "write" /\ old.cfg \in Config /\ Dates(old.cfg, now)
    BY DEF ClearWrite, IInv, TypeOK, Proc, DatesOK
  <1>2. /\ Write(i, t, old.cfg, p)
        /\ mishaps' = mishaps \cup Blame(old.fresh) \cup Erased(i, old.cfg)
        /\ UNCHANGED <<cache, now, timer, requests, wanted, faults>>
    BY DEF ClearWrite
  <1>3. p \in Proc /\ p.pc = "queue" /\ Dates(p.cfg, now)
    BY RestFacts
  <1> HIDE DEF p
  <1>4. cm' = old.cfg /\ dirty' = TRUE
    BY <1>2 DEF Write
  <1>5. /\ mishaps' \in SUBSET Mishaps /\ mishaps \subseteq mishaps'
        /\ mishaps' \subseteq mishaps \cup {"outdated", "erased"}
        /\ "erased" \notin mishaps' => \A j \in Instances \ {i} : cm'[j] = cm[j]
    BY <1>2, <1>4 DEF Blame, Erased, Mishaps, IInv, TypeOK
  <1>6. /\ proc' \in [Instances -> [Threads -> Proc]]
        /\ proc'[i][t] = p
        /\ \A j \in Instances, s \in Threads : j # i \/ s # t =>
             /\ proc'[j][s].pc = proc[j][s].pc /\ proc'[j][s].cfg = proc[j][s].cfg
             /\ proc[j][s].pc \in {"record", "write"} => ~proc'[j][s].fresh
             /\ proc[j][s].pc \notin {"record", "write"} => proc'[j][s] = proc[j][s]
    BY <1>2, <1>3, WriteFacts DEF IInv
  <1>7. TypeOK'
    <2>1. dirty' \in BOOLEAN
      BY <1>4, Zenon
    <2> QED BY <1>1, <1>2, <1>4, <1>5, <1>6, <2>1 DEF IInv, TypeOK
  <1>8. Copies'
    BY <1>1, <1>2, <1>3, WriteCopies
  <1>9. EntriesStay'
    <2> SUFFICES ASSUME "erased" \notin mishaps'
                 PROVE  /\ "panicked" \notin mishaps'
                        /\ \A j \in Instances :
                             /\ Known(cache', j) => Known(cm', j)
                             /\ proc'[j]["reconcile"].pc = "settimer" => Known(cache', j)
                             /\ \A s \in Threads : proc'[j][s].pc = "write"
                                                     => Known(proc'[j][s].cfg, j)
      BY DEF EntriesStay
    <2>1. "erased" \notin mishaps
      BY <1>5
    <2>2. Known(cm', i)
      BY <1>1, <1>4, <2>1 DEF IInv, EntriesStay
    <2>3. \A j \in Instances : Known(cm, j) => Known(cm', j)
      BY <1>5, <2>2 DEF Known
    <2>4. \A j \in Instances : Known(cache', j) => Known(cm', j)
      BY <1>2, <2>1, <2>3 DEF IInv, EntriesStay
    <2> QED BY <1>2, <1>3, <1>5, <1>6, <2>1, <2>4, RestFacts DEF IInv, EntriesStay
  <1>10. OneBusy'
    <2>1. \A j \in Instances, s \in Threads : Busy(j, s)' => Busy(j, s)
      BY <1>1, <1>3, <1>6 DEF Busy
    <2>2. \A j \in Instances, s \in Threads : proc'[j][s].pc = "write" => proc[j][s].pc = "write"
      BY <1>3, <1>6
    <2>3. "raced" \in mishaps => "raced" \in mishaps'
      BY <1>5
    <2> SUFFICES ASSUME "raced" \notin mishaps', NEW j \in Instances
                 PROVE  /\ ~(Busy(j, "reconcile")' /\ Busy(j, "timer")')
                        /\ \A s \in Threads : proc'[j][s].pc = "write" => timer'[j].state # "armed"
      BY DEF OneBusy, Busy
    <2>4. /\ ~(Busy(j, "reconcile") /\ Busy(j, "timer"))
          /\ \A s \in Threads : proc[j][s].pc = "write" => timer[j].state # "armed"
      BY <2>3 DEF IInv, OneBusy
    <2> QED BY <1>2, <2>1, <2>2, <2>4, RestFacts
  <1>11. TimerSetByReconcile'
    BY <1>3, <1>6, RestFacts DEF IInv, TimerSetByReconcile
  <1>12. DecisionsAreDue'
    <2> SUFFICES ASSUME mishaps' \cap {"outdated", "raced", "erased"} = {}, NEW j \in Instances
                 PROVE  /\ proc'[j]["reconcile"].fresh =>
                             /\ proc'[j]["reconcile"].pc = "clear" => DueAt(cm', j, now')
                             /\ proc'[j]["reconcile"].pc = "settimer" => Pending(cm', j) # {}
                        /\ timer'[j].state = "armed" => DueAt(cm', j, timer'[j].due)
                        /\ proc'[j]["timer"].pc = "clear" /\ now' < MaxTime => DueAt(cm', j, now')
      BY DEF DecisionsAreDue
    <2>1. mishaps \cap {"outdated", "raced", "erased"} = {}
      BY <1>5
    <2>2. CASE j = i
      <3>1. /\ ~(Busy(i, "reconcile") /\ Busy(i, "timer")) /\ Busy(i, t)
            /\ timer[i].state # "armed"
        BY <1>1, <2>1 DEF IInv, OneBusy, Busy
      <3>2. \A s \in Threads : proc'[i][s].pc \notin {"clear", "settimer"}
        BY <1>3, <1>6, <3>1 DEF Busy, Threads
      <3> QED BY <1>2, <2>2, <3>1, <3>2, RestFacts
    <2>3. CASE j # i
      <3>1. cm'[j] = cm[j]
        BY <1>5, <2>3
      <3>2. Pending(cm', j) = Pending(cm, j) /\ \A d : DueAt(cm, j, d) => DueAt(cm', j, d)
        BY <3>1 DEF DueAt, Pending
      <3>3. /\ proc'[j]["reconcile"].pc \in {"clear", "settimer"}
                  => proc'[j]["reconcile"] = proc[j]["reconcile"]
            /\ proc'[j]["timer"].pc = "clear" => proc[j]["timer"].pc = "clear"
        BY <1>6, <2>3, RestFacts
      <3> QED BY <1>2, <2>1, <3>2, <3>3 DEF IInv, DecisionsAreDue
    <2> QED BY <2>2, <2>3
  <1>13. WantedKept'
    <2> SUFFICES ASSUME mishaps' \cap {"outdated", "dropped", "erased"} = {},
                        NEW j \in Instances, NEW r \in wanted'[j]
                 PROVE  r \in Pending(cm', j) \/ \E s \in Threads : proc'[j][s].pc = "queue"
      BY DEF WantedKept
    <2>1. CASE j = i
      BY <1>3, <1>6, <2>1
    <2>2. CASE j # i
      <3>1. mishaps \cap {"outdated", "dropped", "erased"} = {} /\ cm'[j] = cm[j]
        BY <1>5, <2>2
      <3>2. r \in Pending(cm, j) \/ \E s \in Threads : proc[j][s].pc = "queue"
        BY <1>2, <3>1 DEF IInv, WantedKept
      <3> QED BY <1>6, <2>2, <3>1, <3>2 DEF Pending
    <2> QED BY <2>1, <2>2
  <1> QED BY <1>7, <1>8, <1>9, <1>10, <1>11, <1>12, <1>13 DEF Decisions

-----------------------------------------------------------------------------
(* Steps of the process and of its environment                             *)

\* SetTimerPanic and OperatorRestart: the process ends and starts again.  The
\* panic needs an entry that is gone.
LEMMA RestartStep ==
    ASSUME IInv, (\E i \in Instances : SetTimerPanic(i)) \/ OperatorRestart
    PROVE  TypeOK' /\ Copies' /\ Decisions'
  <1>1. /\ Restarted /\ UNCHANGED <<cm, now, requests, wanted>>
        /\ faults' \in 0..MaxFaults
        /\ mishaps' \in SUBSET Mishaps /\ mishaps \subseteq mishaps'
        /\ "dropped" \notin mishaps' =>
              \A i \in Instances, t \in Threads : proc[i][t].pc # "queue"
        /\ "erased" \notin mishaps' => "panicked" \notin mishaps'
    <2>1. CASE OperatorRestart
      <3>1. mishaps' = mishaps \cup Dropped /\ Dropped \subseteq {"dropped"}
        BY <2>1 DEF OperatorRestart, Dropped
      <3>2. "erased" \notin mishaps' => "panicked" \notin mishaps'
        BY <3>1 DEF IInv, EntriesStay
      <3> QED BY <2>1, <3>1, <3>2, ConstantsOK
              DEF OperatorRestart, Fault, Dropped, Mishaps, IInv, TypeOK
    <2>2. CASE \E i \in Instances : SetTimerPanic(i)
      <3>1. PICK i \in Instances : SetTimerPanic(i)
        BY <2>2
      <3>2. "erased" \in mishaps
        BY <3>1 DEF SetTimerPanic, IInv, EntriesStay
      <3> QED BY <3>1, <3>2 DEF SetTimerPanic, Dropped, Mishaps, IInv, TypeOK
    <2> QED BY <2>1, <2>2
  <1>2. /\ proc' \in [Instances -> [Threads -> Proc]]
        /\ \A i \in Instances, t \in Threads : proc'[i][t] = IdleProc
        /\ timer' \in [Instances -> Timer]
        /\ \A i \in Instances : timer'[i].state # "armed"
        /\ cache' = cm /\ dirty' = FALSE
    BY <1>1, RestFacts DEF Restarted
  <1>3. TypeOK'
    <2>1. dirty' \in BOOLEAN
      BY <1>2, Zenon
    <2> QED BY <1>1, <1>2, <2>1 DEF IInv, TypeOK
  <1>4. Copies'
    BY <1>1, <1>2, RestFacts DEF IInv, Copies, CacheIsCurrent, RecordIsCurrent, DatesOK
  <1>5. EntriesStay'
    BY <1>1, <1>2, RestFacts DEF EntriesStay
  <1>6. OneBusy' /\ TimerSetByReconcile'
    BY <1>2, RestFacts DEF OneBusy, Busy, TimerSetByReconcile
  <1>7. DecisionsAreDue'
    BY <1>2, RestFacts DEF DecisionsAreDue
  <1>8. WantedKept'
    BY <1>1 DEF IInv, WantedKept
  <1> QED BY <1>3, <1>4, <1>5, <1>6, <1>7, <1>8 DEF Decisions

\* WatchEvent: the cache catches up with the stored map.
LEMMA WatchStep ==
    ASSUME IInv, WatchEvent
    PROVE  TypeOK' /\ Copies' /\ Decisions'
  <1>1. /\ cache' = cm /\ dirty' = FALSE
        /\ UNCHANGED <<cm, now, timer, proc, requests, wanted, mishaps, faults>>
    BY DEF WatchEvent
  <1>2. TypeOK'
    <2>1. dirty' \in BOOLEAN
      BY <1>1, Zenon
    <2> QED BY <1>1, <2>1 DEF IInv, TypeOK
  <1>3. Copies'
    BY <1>1 DEF IInv, Copies, CacheIsCurrent, RecordIsCurrent, DatesOK
  <1>4. EntriesStay'
    BY <1>1 DEF IInv, EntriesStay
  <1>5. OneBusy' /\ TimerSetByReconcile'
    BY <1>1 DEF IInv, OneBusy, Busy, TimerSetByReconcile
  <1>6. DecisionsAreDue'
    BY <1>1 DEF IInv, DecisionsAreDue
  <1>7. WantedKept'
    BY <1>1 DEF IInv, WantedKept
  <1> QED BY <1>2, <1>3, <1>4, <1>5, <1>6, <1>7 DEF Decisions

\* MapDeleted: every copy is outdated.
LEMMA DeletedStep ==
    ASSUME IInv, MapDeleted
    PROVE  TypeOK' /\ Copies' /\ Decisions'
  <1>1. /\ cm' = EmptyConfig /\ dirty' = TRUE /\ mishaps' = mishaps \cup {"erased"}
        /\ faults' \in 0..MaxFaults
        /\ UNCHANGED <<cache, now, timer, requests, wanted>>
    BY ConstantsOK DEF MapDeleted, Fault, IInv, TypeOK
  <1>2. \A i \in Instances, t \in Threads : proc[i][t] \in Proc
    BY DEF IInv, TypeOK
  <1>3. proc' \in [Instances -> [Threads -> Proc]]
    BY <1>2, StaleCopy DEF MapDeleted
  <1>4. ASSUME NEW i \in Instances, NEW t \in Threads
        PROVE  /\ proc'[i][t].pc = proc[i][t].pc /\ proc'[i][t].cfg = proc[i][t].cfg
               /\ proc'[i][t].reason = proc[i][t].reason
               /\ proc[i][t].pc = "record" => ~proc'[i][t].fresh
    <2> DEFINE q == proc[i][t]
    <2>1. proc'[i][t] = IF q.pc \in {"record", "write"} THEN [q EXCEPT !.fresh = FALSE] ELSE q
      BY DEF MapDeleted
    <2>2. q \in Proc
      BY <1>2
    <2> HIDE DEF q
    <2>3. /\ [q EXCEPT !.fresh = FALSE].pc = q.pc /\ [q EXCEPT !.fresh = FALSE].cfg = q.cfg
          /\ [q EXCEPT !.fresh = FALSE].reason = q.reason /\ ~[q EXCEPT !.fresh = FALSE].fresh
      BY <2>2, StaleCopy
    <2>4. /\ proc'[i][t].pc = q.pc /\ proc'[i][t].cfg = q.cfg /\ proc'[i][t].reason = q.reason
          /\ q.pc = "record" => ~proc'[i][t].fresh
      BY <2>1, <2>3
    <2> QED BY <2>4 DEF q
  <1>5. TypeOK'
    <2>1. dirty' \in BOOLEAN
      BY <1>1, Zenon
    <2> QED BY <1>1, <1>3, <2>1, RestFacts DEF IInv, TypeOK, Mishaps
  <1>6. Copies'
    BY <1>1, <1>4, RestFacts DEF IInv, Copies, CacheIsCurrent, RecordIsCurrent, DatesOK
  <1>7. OneBusy' /\ TimerSetByReconcile'
    BY <1>1, <1>4, RestFacts DEF IInv, OneBusy, Busy, TimerSetByReconcile
  <1>8. EntriesStay' /\ DecisionsAreDue' /\ WantedKept'
    BY <1>1 DEF EntriesStay, DecisionsAreDue, WantedKept
  <1> QED BY <1>5, <1>6, <1>7, <1>8 DEF Decisions

\* Tick: what was due is still due.
LEMMA TickStep ==
    ASSUME IInv, Tick
    PROVE  TypeOK' /\ Copies' /\ Decisions'
  <1>1. /\ now' = now + 1 /\ now < MaxTime /\ now \in Int /\ now' \in Time /\ now <= now'
        /\ now' \in Int
        /\ UNCHANGED <<cm, cache, dirty, timer, proc, requests, wanted, mishaps, faults>>
    BY ConstantsOK DEF Tick, IInv, TypeOK, Time
  <1>2. TypeOK'
    BY <1>1 DEF IInv, TypeOK
  <1>3. ASSUME NEW cfg \in Config, Dates(cfg, now)
        PROVE  Dates(cfg, now')
    <2>1. \A i \in Instances, r \in Reasons :
             cfg[i][r].requested # NoTime => cfg[i][r].requested \in Int
      BY ConstantsOK DEF Config, Request, Time
    <2> QED BY <1>1, <1>3, <2>1 DEF Dates
  <1>4. Copies'
    <2>1. \A i \in Instances, t \in Threads : proc[i][t].cfg \in Config
      BY DEF IInv, TypeOK, Proc
    <2>2. DatesOK'
      BY <1>1, <1>3, <2>1 DEF IInv, TypeOK, DatesOK
    <2> QED BY <1>1, <2>2 DEF IInv, Copies, CacheIsCurrent, RecordIsCurrent
  <1>5. EntriesStay'
    BY <1>1 DEF IInv, EntriesStay
  <1>6. OneBusy' /\ TimerSetByReconcile'
    BY <1>1 DEF IInv, OneBusy, Busy, TimerSetByReconcile
  <1>7. DecisionsAreDue'
    <2>1. cm \in Config
      BY DEF IInv, TypeOK
    <2>2. \A i \in Instances : DueAt(cm, i, now) => DueAt(cm, i, now')
      BY <1>1, <2>1, DueLater
    <2> QED BY <1>1, <2>2 DEF IInv, DecisionsAreDue
  <1>8. WantedKept'
    BY <1>1 DEF IInv, WantedKept
  <1> QED BY <1>2, <1>4, <1>5, <1>6, <1>7, <1>8 DEF Decisions

-----------------------------------------------------------------------------
(* Theorems                                                                *)

\* The inductive invariant holds at the start.
LEMMA InitIInv == Init => IInv
  <1> SUFFICES ASSUME Init PROVE IInv
    OBVIOUS
  <1>1. /\ cm = EmptyConfig /\ cache = EmptyConfig /\ now = 0 /\ mishaps = {}
        /\ \A i \in Instances : timer[i] = NoTimer /\ wanted[i] = {}
        /\ \A i \in Instances, t \in Threads : proc[i][t] = IdleProc
    BY DEF Init
  <1>2. TypeOK
    <2>1. requests = 0 /\ faults = 0 /\ dirty = FALSE
      BY DEF Init
    <2>2. requests \in 0..MaxRequests /\ faults \in 0..MaxFaults /\ now \in Time
      BY <1>1, <2>1, ConstantsOK DEF Time
    <2>3. dirty \in BOOLEAN
      BY <2>1, Zenon
    <2>4. /\ proc \in [Instances -> [Threads -> Proc]] /\ timer \in [Instances -> Timer]
          /\ wanted \in [Instances -> SUBSET Reasons]
      BY RestFacts DEF Init
    <2> QED BY <1>1, <2>2, <2>3, <2>4, RestFacts DEF TypeOK
  <1>3. CacheIsCurrent /\ RecordIsCurrent /\ DatesOK
    BY <1>1, RestFacts DEF CacheIsCurrent, RecordIsCurrent, DatesOK
  <1>4. EntriesStay
    BY <1>1, RestFacts DEF EntriesStay
  <1>5. OneBusy /\ TimerSetByReconcile
    BY <1>1, RestFacts DEF OneBusy, Busy, TimerSetByReconcile
  <1>6. DecisionsAreDue /\ WantedKept
    BY <1>1, RestFacts DEF DecisionsAreDue, WantedKept
  <1> QED BY <1>2, <1>3, <1>4, <1>5, <1>6 DEF IInv

\* Every step keeps it.
LEMMA NextIInv == IInv /\ [Next]_vars => IInv'
  <1> SUFFICES ASSUME IInv, [Next]_vars PROVE IInv'
    OBVIOUS
  <1> USE DEF Copies, Decisions
  <1>1. ASSUME NEW i \in Instances, InstanceStep(i)
        PROVE  IInv'
    <2>1. CASE \E r \in Reasons : UpdateConfigForRead(i, r)
      BY <2>1, ReadStep DEF IInv
    <2>2. CASE UpdateConfigForWrite(i)
      BY <2>2, RecordStep DEF IInv
    <2>3. CASE TriggerIfNeeded(i)
      BY <2>3, TriggerStep DEF IInv
    <2>4. CASE SetTimer(i)
      BY <2>4, SetTimerStep DEF IInv
    <2>5. CASE SetTimerPanic(i)
      BY <2>5, RestartStep DEF IInv
    <2>6. CASE TimerFires(i)
      BY <2>6, TimerStep DEF IInv
    <2>7. ASSUME NEW t \in Threads, ClearRead(i, t)
          PROVE  IInv'
      BY <2>7, ClearReadStep DEF IInv
    <2>8. ASSUME NEW t \in Threads, ClearWrite(i, t)
          PROVE  IInv'
      BY <2>8, ClearWriteStep DEF IInv
    <2>9. ASSUME NEW t \in Threads, Queue(i, t) \/ Fails(i, t)
          PROVE  IInv'
      BY <2>9, DoneStep DEF IInv
    <2> QED BY <1>1, <2>1, <2>2, <2>3, <2>4, <2>5, <2>6, <2>7, <2>8, <2>9 DEF InstanceStep
  <1>2. CASE OperatorRestart
    BY <1>2, RestartStep DEF IInv
  <1>3. CASE MapDeleted
    BY <1>3, DeletedStep DEF IInv
  <1>4. CASE WatchEvent
    BY <1>4, WatchStep DEF IInv
  <1>5. CASE Tick
    BY <1>5, TickStep DEF IInv
  <1>6. CASE UNCHANGED vars
    BY <1>6 DEF vars, IInv, TypeOK, CacheIsCurrent, RecordIsCurrent, EntriesStay, DatesOK,
                OneBusy, Busy, TimerSetByReconcile, DecisionsAreDue, WantedKept
  <1> QED BY <1>1, <1>2, <1>3, <1>4, <1>5, <1>6 DEF Next

\* The parts of IInv hold in every state of every behaviour of the manager.
THEOREM Inductive == Spec => []IInv
  BY InitIInv, NextIInv, PTL DEF Spec

\* The variables keep their types.
THEOREM TypeCorrect == Spec => []TypeOK
  <1>1. IInv => TypeOK
    BY DEF IInv
  <1> QED BY <1>1, Inductive, PTL

\* updateConfigFor and RestartDeployment: a recorded reason stays pending until
\* it goes into the restart queue, however many controllers share the map.
THEOREM ReasonsKept == Spec => []WantedKept
  <1>1. IInv => WantedKept
    BY DEF IInv
  <1> QED BY <1>1, Inductive, PTL

\* SetTimer: the second read finds the instance unless its entry was lost.
THEOREM NoPanic == Spec => []PanicNeedsLostEntry
  <1>1. IInv => PanicNeedsLostEntry
    BY DEF IInv, EntriesStay, PanicNeedsLostEntry
  <1> QED BY <1>1, Inductive, PTL

\* TriggerIfNeeded, SetTimer and the callback: one reason does not restart an
\* instance again before its wait time is over.
THEOREM DueRestarts == Spec => RestartIsDue
  <1>1. ASSUME IInv, NEW i \in Instances, NEW t \in Threads, ClearRead(i, t), now < MaxTime,
               mishaps' \cap {"outdated", "raced", "erased"} = {}
        PROVE  \E r \in Pending(cache, i) : Over(cache[i][r], now)
    <2>1. /\ proc[i][t].pc = "clear"
          /\ mishaps' = mishaps \cup Blame(proc[i][t].fresh /\ ~dirty)
      BY <1>1 DEF ClearRead
    <2>2. mishaps \cap {"outdated", "raced", "erased"} = {} /\ proc[i][t].fresh /\ ~dirty
      BY <1>1, <2>1 DEF Blame
    <2>3. cache = cm
      BY <1>1, <2>2 DEF IInv, CacheIsCurrent
    <2>4. DueAt(cm, i, now)
      BY <1>1, <2>1, <2>2 DEF IInv, DecisionsAreDue, Threads
    <2> QED BY <2>3, <2>4 DEF DueAt
  <1>2. IInv /\ [Next]_vars =>
          [\A i \in Instances, t \in Threads :
             ClearRead(i, t) /\ now < MaxTime /\ mishaps' \cap {"outdated", "raced", "erased"} = {}
                => \E r \in Pending(cache, i) : Over(cache[i][r], now)]_vars
    BY <1>1
  <1> QED BY <1>2, Inductive, PTL DEF Spec, RestartIsDue

===============================================================================
