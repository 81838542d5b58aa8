--------------------------- MODULE CertRenewalProofs ---------------------------
(***************************************************************************)
(* Proofs about CertRenewal: a keystore holds the key of the certificate   *)
(* beside it, a certificate that is renewed by itself does not expire, and *)
(* a renewal leaves nothing behind, each but for the mishaps it names.     *)
(***************************************************************************)
EXTENDS CertRenewal, FiniteSetTheorems, TLAPS

-----------------------------------------------------------------------------
(* The inductive invariants                                                *)

InKeystoreWrite(p, c) == At(p, "keystore") /\ CertOf(p) = c

\* What a process knows at a point of its course: goroutines of timers never
\* ask for a new key, only an ecert goes to a job, and the worker has set the
\* status of its result before it renews.
Course ==
    /\ \A p \in Callbacks : ~At(p, "idle") => procs[p].upd[1] = "reenroll"
    /\ \A p \in Procs : procs[p].pc \in {"prepare", "job", "active", "finished", "clean"} =>
                           CertOf(p) = "ecert"
    /\ procs["worker"].pc \notin {"idle", "custom", "crstatus", "backup", "saved", "check"} =>
          procs["worker"].rstatus # "none"
    /\ \A c \in Certs : IsFiniteSet(files[c])

\* The key that a process has in hand is that of the certificate it got.
InHand(p) ==
    LET c == CertOf(p) IN
    InHSM(c) \/ /\ At(p, "signcert") => procs[p].read.key = procs[p].key
                /\ At(p, "readkey") => IF NewKey(p) THEN files[c] = {} \/ procs[p].read.key \in files[c]
                                       ELSE procs[p].read.key = procs[p].key

\* Between the two writes only one process is, and it is about to make the
\* pair whole again; outside of them the pair is whole.
Pair(c) ==
    /\ \A p \in Procs : InKeystoreWrite(p, c) =>
          /\ \A q \in Procs : InKeystoreWrite(q, c) => q = p
          /\ cert[c].key = IF NewKey(p) THEN procs[p].key ELSE keystore[c]
    /\ (\A p \in Procs : ~InKeystoreWrite(p, c)) => cert[c].key = keystore[c]

KeyInv ==
    /\ \A p \in Procs : InHand(p)
    /\ mishaps \cap {"raced", "split"} = {} => \A c \in Certs : InHSM(c) \/ Pair(c)

\* A process between the creation of the secret and its deletion.
InJob(p) == procs[p].pc \in {"job", "active", "finished", "clean"}

\* The secret and the config map belong to the one process that is there, a
\* job to the process that waits for it, a key file to the one that reads it.
Owned ==
    /\ \A p \in Procs : InJob(p) => /\ rootTLS # Absent /\ clientCfg
                                    /\ \A q \in Procs : InJob(q) => q = p
    /\ (\A p \in Procs : ~InJob(p)) => rootTLS = Absent /\ ~clientCfg
    /\ \A p \in Procs : jobs[p] # NoJob => procs[p].pc \in {"active", "finished", "clean"}
    /\ \A c \in Certs : files[c] # {} => \E p \in Procs : At(p, "readkey") /\ CertOf(p) = c

OwnInv == mishaps \subseteq {"conflict", "raced", "down"} => Owned

\* A process that has not renewed its certificate yet.
Renewing(p) ==
    \/ procs[p].pc \in {"crstatus", "backup", "saved", "read", "request", "readkey", "signcert",
                        "prepare", "job"}
    \/ procs[p].pc \in {"active", "finished"} /\ jobs[p].state # "done"

\* There is a timer for the certificate, or somebody who will set or has
\* consumed it.
Attended(c) ==
    \/ timers[c] # Never
    \/ \E u \in updates : CertificateChanged(u) /\ u[2] = c
    \/ /\ procs["worker"].pc \in {"custom", "check"}
       /\ CertificateChanged(procs["worker"].upd) /\ CertOf("worker") = c
    \/ \E p \in Callbacks : Renewing(p) /\ CertOf(p) = c

\* Timers fire before the expiry, and the certificates in hand are of today.
Timely ==
    /\ up
    /\ \A c \in Certs : /\ cert[c].exp <= now + Lifetime
                        /\ timers[c] <= now \/ timers[c] <= cert[c].exp - WarningPeriod
                        /\ AutoRenewed(c) => ~Expired(c) /\ Attended(c)
    /\ \A p \in Procs : procs[p].pc \in {"readkey", "signcert"} => procs[p].read.exp = now + Lifetime

TimeInv == mishaps = {} => Timely

IInv == TypeOK /\ Course /\ KeyInv /\ OwnInv /\ TimeInv

-----------------------------------------------------------------------------
(* Steps of a process                                                      *)

\* What the invariants say about a process, unchanged.
Same(q) ==
    /\ procs'[q].pc = procs[q].pc /\ procs'[q].upd = procs[q].upd
    /\ procs'[q].read = procs[q].read /\ procs'[q].key = procs[q].key
    /\ procs'[q].rstatus = procs[q].rstatus

\* A process goes to pc, and the others stay.
Moves(p, pc) ==
    /\ procs' \in [Procs -> Processes]
    /\ procs'[p].pc = pc
    /\ \A q \in Procs \ {p} : Same(q)

\* Where a process is after Finish or Abort.
After(p) == IF p = "worker" THEN "status" ELSE "idle"

LEMMA IdleType == Idle \in Processes
<1>1. 0 \in Keys /\ [key |-> 0, exp |-> 0] \in Certificates
  BY DEF Keys, Certificates
<1>2. [c \in Certs |-> 0] \in [Certs -> Keys]
  BY DEF Keys
<1>3. Retry \in Updates
  BY DEF Retry, Updates
<1> QED
  BY <1>1, <1>2, <1>3 DEF Idle, Processes, PCs

\* A process of another state.
LEMMA ReplaceMoves ==
  ASSUME TypeOK, NEW p \in Procs, NEW r \in Processes, procs' = [procs EXCEPT ![p] = r]
  PROVE  Moves(p, r.pc) /\ procs'[p] = r
BY DEF TypeOK, Moves, Same

LEMMA GotoMoves ==
  ASSUME TypeOK, NEW p \in Procs, NEW pc \in PCs, Goto(p, pc)
  PROVE  /\ Moves(p, pc)
         /\ procs'[p].upd = procs[p].upd /\ procs'[p].read = procs[p].read
         /\ procs'[p].key = procs[p].key /\ procs'[p].rstatus = procs[p].rstatus
<1> DEFINE r == [procs[p] EXCEPT !.pc = pc]
<1>1. r \in Processes /\ r.pc = pc
  BY DEF TypeOK, Processes
<1>2. procs' = [procs EXCEPT ![p] = r]
  BY DEF Goto
<1>3. Moves(p, r.pc) /\ procs'[p] = r
  BY <1>1, <1>2, ReplaceMoves
<1> QED
  BY <1>1, <1>3 DEF TypeOK, Processes

LEMMA FinishMoves ==
  ASSUME TypeOK, NEW p \in Procs, Finish(p)
  PROVE  /\ Moves(p, After(p))
         /\ p = "worker" => procs'[p].upd = procs[p].upd /\ procs'[p].rstatus = procs[p].rstatus
<1> DEFINE r == IF p = "worker" THEN [procs[p] EXCEPT !.pc = "status"] ELSE Idle
<1>1. r \in Processes /\ r.pc = After(p)
  BY IdleType DEF TypeOK, Processes, PCs, After, Idle
<1>2. procs' = [procs EXCEPT ![p] = r]
  BY DEF Finish
<1>3. Moves(p, r.pc) /\ procs'[p] = r
  BY <1>1, <1>2, ReplaceMoves
<1> QED
  BY <1>1, <1>3 DEF TypeOK, Processes

LEMMA AbortMoves ==
  ASSUME TypeOK, NEW p \in Procs, Abort(p)
  PROVE  /\ Moves(p, After(p))
         /\ p = "worker" => procs'[p].upd = procs[p].upd /\ procs'[p].rstatus = "error"
<1> DEFINE r == IF p = "worker" THEN [procs[p] EXCEPT !.pc = "status", !.rstatus = "error"] ELSE Idle
<1>1. r \in Processes /\ r.pc = After(p)
  BY IdleType DEF TypeOK, Processes, PCs, After, Idle
<1>2. procs' = [procs EXCEPT ![p] = r]
  BY DEF Abort
<1>3. Moves(p, r.pc) /\ procs'[p] = r
  BY <1>1, <1>2, ReplaceMoves
<1> QED
  BY <1>1, <1>3 DEF TypeOK, Processes

-----------------------------------------------------------------------------
(* Steps that leave an invariant alone                                     *)

Ecerts == {"prepare", "job", "active", "finished", "clean"}
Unset == {"idle", "custom", "crstatus", "backup", "saved", "check"}
Early == {"crstatus", "backup", "saved", "read", "request", "readkey", "signcert", "prepare", "job"}

\* The rest of Course is about the process that moves.
LEMMA CourseMoves ==
  ASSUME TypeOK, Course, NEW p \in Procs, NEW pc, Moves(p, pc),
         pc \in Ecerts => procs'[p].upd[2] = "ecert",
         p \in Callbacks /\ pc # "idle" => procs'[p].upd[1] = "reenroll",
         p = "worker" /\ pc \notin Unset => procs'[p].rstatus # "none",
         \A c \in Certs : IsFiniteSet(files'[c])
  PROVE  Course'
<1>1. \A q \in Callbacks : ~At(q, "idle")' => procs'[q].upd[1] = "reenroll"
  BY DEF Course, Moves, Same, At, Procs
<1>2. \A q \in Procs : procs'[q].pc \in Ecerts => procs'[q].upd[2] = "ecert"
  BY DEF Course, Moves, Same, Ecerts, CertOf
<1>3. procs'["worker"].pc \notin Unset => procs'["worker"].rstatus # "none"
  BY DEF Course, Moves, Same, Unset, Procs
<1> QED
  BY <1>1, <1>2, <1>3 DEF Course, Ecerts, Unset, CertOf

LEMMA KeysCalm ==
  ASSUME TypeOK, KeyInv, NEW p \in Procs, NEW pc, Moves(p, pc),
         UNCHANGED <<setup, cert, keystore, files>>, mishaps \subseteq mishaps',
         At(p, "keystore") => "split" \in mishaps',
         pc \notin {"readkey", "signcert", "keystore"}
  PROVE  KeyInv'
<1>1. \A q \in Procs : InHand(q)'
  BY DEF KeyInv, InHand, InHSM, CertOf, NewKey, At, Moves, Same
<1>2. ASSUME (mishaps \cap {"raced", "split"})' = {}, NEW c \in Certs, ~InHSM(c)'
      PROVE  Pair(c)'
  <2>1. ~At(p, "keystore") /\ Pair(c)
    BY <1>2 DEF KeyInv, InHSM
  <2>2. \A q \in Procs : InKeystoreWrite(q, c)' <=> InKeystoreWrite(q, c)
    BY <2>1 DEF InKeystoreWrite, At, CertOf, Moves, Same
  <2>3. \A q \in Procs : InKeystoreWrite(q, c) =>
           procs'[q].key = procs[q].key /\ NewKey(q)' = NewKey(q)
    BY <2>1 DEF InKeystoreWrite, At, NewKey, Moves, Same
  <2> QED
    BY <2>1, <2>2, <2>3 DEF Pair
<1> QED
  BY <1>1, <1>2 DEF KeyInv

LEMMA OwnCalm ==
  ASSUME TypeOK, OwnInv, NEW p \in Procs, NEW pc, Moves(p, pc),
         UNCHANGED <<rootTLS, clientCfg, jobs, files>>, mishaps \subseteq mishaps',
         ~InJob(p) /\ ~At(p, "readkey"),
         pc \notin {"job", "active", "finished", "clean"}
  PROVE  OwnInv'
<1> SUFFICES ASSUME (mishaps \subseteq {"conflict", "raced", "down"})' PROVE Owned'
  BY DEF OwnInv
<1>1. Owned
  BY DEF OwnInv
<1>2. \A q \in Procs : InJob(q)' <=> InJob(q)
  BY DEF InJob, Moves, Same
<1>3. \A q \in Procs : At(q, "readkey") => At(q, "readkey")' /\ CertOf(q)' = CertOf(q)
  BY DEF At, CertOf, Moves, Same
<1>4. \A q \in Procs : jobs[q] # NoJob => procs'[q].pc \in {"active", "finished", "clean"}
  BY <1>1 DEF Owned, InJob, Moves, Same
<1> QED
  BY <1>1, <1>2, <1>3, <1>4 DEF Owned

LEMMA AttendedCalm ==
  ASSUME NEW p \in Procs, NEW pc, Moves(p, pc), NEW c \in Certs, Attended(c),
         UNCHANGED <<timers, jobs>>, updates \subseteq updates',
         p \in Callbacks /\ Renewing(p) => pc \in Early /\ procs'[p].upd = procs[p].upd,
         p = "worker" /\ procs[p].pc \in {"custom", "check"} /\ CertificateChanged(procs[p].upd)
             => pc \in {"custom", "check"} /\ procs'[p].upd = procs[p].upd
  PROVE  Attended(c)'
<1>1. \A q \in Callbacks : Renewing(q) /\ CertOf(q) = c => Renewing(q)' /\ CertOf(q)' = c
  BY DEF Renewing, CertOf, Moves, Same, Early, Procs
<1>2. /\ procs["worker"].pc \in {"custom", "check"}
      /\ CertificateChanged(procs["worker"].upd)
      /\ CertOf("worker") = c
      => /\ procs'["worker"].pc \in {"custom", "check"}
         /\ CertificateChanged(procs["worker"].upd)'
         /\ CertOf("worker")' = c
  BY DEF CertOf, Moves, Same, Procs, CertificateChanged
<1> QED
  BY <1>1, <1>2 DEF Attended, CertificateChanged

LEMMA TimeCalm ==
  ASSUME TypeOK, TimeInv, NEW p \in Procs, NEW pc, Moves(p, pc),
         UNCHANGED <<setup, now, cert, timers, up, jobs>>, mishaps \subseteq mishaps',
         updates \subseteq updates',
         pc \in {"readkey", "signcert"} => procs'[p].read.exp = now + Lifetime \/ mishaps # {},
         p \in Callbacks /\ Renewing(p) =>
             \/ mishaps' # {} \/ ~AutoRenewed(CertOf(p))
             \/ pc \in Early /\ procs'[p].upd = procs[p].upd,
         p = "worker" /\ procs[p].pc \in {"custom", "check"} /\ CertificateChanged(procs[p].upd)
             => pc \in {"custom", "check"} /\ procs'[p].upd = procs[p].upd
  PROVE  TimeInv'
<1> SUFFICES ASSUME mishaps' = {} PROVE Timely'
  BY DEF TimeInv
<1>1. Timely /\ mishaps = {}
  BY DEF TimeInv
<1>2. \A c \in Certs : AutoRenewed(c)' = AutoRenewed(c) /\ Expired(c)' = Expired(c)
  BY DEF AutoRenewed, Expired
<1>3. ASSUME NEW c \in Certs, AutoRenewed(c) PROVE Attended(c)'
  <2>1. Attended(c)
    BY <1>1, <1>3 DEF Timely
  <2>2. CASE p \in Callbacks /\ Renewing(p) /\ ~AutoRenewed(CertOf(p))
    <3>1. p # "worker" /\ CertOf(p) # c
      BY <1>3, <2>2 DEF Callbacks
    <3>2. \A q \in Callbacks : Renewing(q) /\ CertOf(q) = c => Renewing(q)' /\ CertOf(q)' = c
      BY <3>1 DEF Renewing, CertOf, Moves, Same, Procs
    <3>3. Same("worker")
      BY <3>1 DEF Moves, Procs
    <3> QED
      BY <2>1, <3>2, <3>3 DEF Attended, CertificateChanged, CertOf, Same
  <2>3. CASE ~(p \in Callbacks /\ Renewing(p) /\ ~AutoRenewed(CertOf(p)))
    BY <2>1, <2>3, AttendedCalm
  <2> QED
    BY <2>2, <2>3
<1>4. \A q \in Procs : procs'[q].pc \in {"readkey", "signcert"} => procs'[q].read.exp = now + Lifetime
  BY <1>1 DEF Timely, Moves, Same
<1> QED
  BY <1>1, <1>2, <1>3, <1>4 DEF Timely

\* The certificates and the day stay, and whoever attends to one is relieved.
LEMMA TimeMoves ==
  ASSUME TypeOK, TimeInv, NEW p \in Procs, NEW pc, Moves(p, pc),
         UNCHANGED <<setup, now, cert, up>>, mishaps \subseteq mishaps',
         pc \notin {"readkey", "signcert"},
         \A c \in Certs : \/ timers'[c] = timers[c] \/ timers'[c] <= now
                          \/ timers'[c] <= cert[c].exp - WarningPeriod,
         Timely => \A c \in Certs : AutoRenewed(c) /\ Attended(c) => Attended(c)'
  PROVE  TimeInv'
<1> SUFFICES ASSUME mishaps' = {} PROVE Timely'
  BY DEF TimeInv
<1>1. Timely
  BY DEF TimeInv
<1>2. \A c \in Certs : AutoRenewed(c)' = AutoRenewed(c) /\ Expired(c)' = Expired(c)
  BY DEF AutoRenewed, Expired
<1>3. \A q \in Procs : procs'[q].pc \in {"readkey", "signcert"} => procs'[q].read.exp = now + Lifetime
  BY <1>1 DEF Timely, Moves, Same
<1> QED
  BY <1>1, <1>2, <1>3 DEF Timely

-----------------------------------------------------------------------------
(* Steps of the worker                                                     *)

LEMMA StartStep ==
  ASSUME IInv, NEW u \in Updates, Start(u)
  PROVE  IInv'
<1> USE DEF IInv
<1> DEFINE r == [Idle EXCEPT !.pc = "custom", !.upd = u]
<1>0. "worker" \in Procs /\ "worker" \notin Callbacks
  BY DEF Procs, Callbacks
<1>1. r \in Processes /\ r.pc = "custom" /\ r.upd = u
  BY IdleType DEF Processes, PCs, Idle
<1>2. procs' = [procs EXCEPT !["worker"] = r]
  BY DEF Start
<1>3. Moves("worker", "custom") /\ procs'["worker"] = r
  BY <1>0, <1>1, <1>2, ReplaceMoves
<1> HIDE DEF r
<1>4. At("worker", "idle") /\ updates' = updates \ {u} /\ u \in updates
  BY DEF Start
<1>5. UNCHANGED <<setup, now, certVars, trust, hsmVars, backup, status, timers, up, historyVars>>
  BY DEF Start
<1>6. TypeOK'
  BY <1>3, <1>4, <1>5 DEF TypeOK, Moves, certVars, hsmVars, historyVars
<1>7. Course'
  <2>1. \A c \in Certs : IsFiniteSet(files'[c])
    BY <1>5 DEF Course, certVars
  <2> QED
    BY <1>0, <1>3, <2>1, CourseMoves DEF Ecerts, Unset
<1>8. KeyInv'
  BY <1>0, <1>3, <1>4, <1>5, KeysCalm DEF At, certVars, historyVars
<1>9. OwnInv'
  BY <1>0, <1>3, <1>4, <1>5, OwnCalm DEF At, InJob, certVars, hsmVars, historyVars
<1>10. TimeInv'
  <2>1. ASSUME NEW c \in Certs, Attended(c) PROVE Attended(c)'
    <3>1. \A q \in Callbacks : Renewing(q) /\ CertOf(q) = c => Renewing(q)' /\ CertOf(q)' = c
      BY <1>0, <1>3, <1>5 DEF Renewing, CertOf, Moves, Same, Procs, hsmVars
    <3>2. CertificateChanged(u) /\ u[2] = c =>
             /\ procs'["worker"].pc \in {"custom", "check"}
             /\ CertificateChanged(procs["worker"].upd)' /\ CertOf("worker")' = c
      BY <1>1, <1>3 DEF CertificateChanged, CertOf
    <3>3. \A v \in updates : CertificateChanged(v) /\ v[2] = c => v \in updates' \/ v = u
      BY <1>4
    <3>4. timers' = timers
      BY <1>5
    <3> QED
      BY <2>1, <3>1, <3>2, <3>3, <3>4, <1>4 DEF Attended, CertificateChanged, At
  <2> QED
    BY <1>0, <1>3, <1>5, <2>1, TimeMoves DEF certVars, historyVars
<1> QED
  BY <1>6, <1>7, <1>8, <1>9, <1>10

\* An update that is put back is of a certificate that is attended to.
LEMMA CustomLogicStep ==
  ASSUME IInv, CustomLogic
  PROVE  IInv'
<1> USE DEF IInv
<1> DEFINE u == procs["worker"].upd
<1>0. "worker" \in Procs /\ "worker" \notin Callbacks
  BY DEF Procs, Callbacks
<1>1. At("worker", "custom")
  BY DEF CustomLogic
<1>2. UNCHANGED <<setup, now, certVars, trust, hsmVars, backup, timers, up, historyVars>>
  BY DEF CustomLogic
<1>3. u \in Updates
  BY <1>0 DEF TypeOK, Processes
<1>4. CASE CanSetCertificateTimer(u)
  <2> DEFINE pc == IF CryptoBackupNeeded(u) THEN "backup" ELSE "check"
  <2>1. Goto("worker", pc) /\ UNCHANGED <<updates, status>>
    BY <1>4 DEF CustomLogic
  <2>2. pc \in PCs /\ pc \in {"backup", "check"}
    BY DEF PCs
  <2>a. CertificateChanged(u) => pc = "check"
    BY DEF CertificateChanged, CryptoBackupNeeded, Requests
  <2> HIDE DEF pc
  <2>3. Moves("worker", pc) /\ procs'["worker"].upd = procs["worker"].upd
    BY <1>0, <2>1, <2>2, GotoMoves
  <2>4. TypeOK'
    BY <1>2, <2>1, <2>3 DEF TypeOK, Moves, certVars, hsmVars, historyVars
  <2>5. Course'
    <3>1. \A c \in Certs : IsFiniteSet(files'[c])
      BY <1>2 DEF Course, certVars
    <3> QED
      BY <1>0, <2>2, <2>3, <3>1, CourseMoves DEF Ecerts, Unset
  <2>6. KeyInv'
    BY <1>0, <1>1, <1>2, <2>2, <2>3, KeysCalm DEF At, certVars, historyVars
  <2>7. OwnInv'
    BY <1>0, <1>1, <1>2, <2>2, <2>3, OwnCalm DEF At, InJob, certVars, hsmVars, historyVars
  <2>8. TimeInv'
    BY <1>0, <1>2, <2>1, <2>2, <2>a, <2>3, TimeCalm DEF certVars, hsmVars, historyVars
  <2> QED
    BY <2>4, <2>5, <2>6, <2>7, <2>8
<1>5. CASE ~CanSetCertificateTimer(u)
  <2>1. /\ procs' = [procs EXCEPT !["worker"] = Idle]
        /\ updates' = updates \cup {u} /\ status' = "Deployed"
    BY <1>5 DEF CustomLogic
  <2>2. Moves("worker", "idle")
    BY <1>0, <2>1, IdleType, ReplaceMoves DEF Idle
  <2>4. TypeOK'
    BY <1>2, <1>3, <2>1, <2>2 DEF TypeOK, Moves, certVars, hsmVars, historyVars
  <2>5. Course'
    <3>1. \A c \in Certs : IsFiniteSet(files'[c])
      BY <1>2 DEF Course, certVars
    <3> QED
      BY <1>0, <2>2, <3>1, CourseMoves DEF Ecerts, Unset
  <2>6. KeyInv'
    BY <1>0, <1>1, <1>2, <2>2, KeysCalm DEF At, certVars, historyVars
  <2>7. OwnInv'
    BY <1>0, <1>1, <1>2, <2>2, OwnCalm DEF At, InJob, certVars, hsmVars, historyVars
  <2>8. TimeInv'
    <3>1. ASSUME NEW c \in Certs, Attended(c) PROVE Attended(c)'
      <4>1. \A q \in Callbacks : Renewing(q) /\ CertOf(q) = c => Renewing(q)' /\ CertOf(q)' = c
        BY <1>0, <1>2, <2>2 DEF Renewing, CertOf, Moves, Same, Procs, hsmVars
      <4>3. timers' = timers /\ updates \subseteq updates'
        BY <1>2, <2>1
      <4> HIDE DEF u
      <4>4. CASE CertificateChanged(procs["worker"].upd) /\ CertOf("worker") = c
        BY <2>1, <4>4 DEF Attended, CertificateChanged, CertOf, u
      <4>5. CASE ~(CertificateChanged(procs["worker"].upd) /\ CertOf("worker") = c)
        BY <3>1, <4>1, <4>3, <4>5 DEF Attended, CertificateChanged
      <4> QED
        BY <4>4, <4>5
    <3> QED
      BY <1>0, <1>2, <2>2, <3>1, TimeMoves DEF certVars, historyVars
  <2> QED
    BY <2>4, <2>5, <2>6, <2>7, <2>8
<1> QED
  BY <1>4, <1>5

LEMMA CheckStep ==
  ASSUME IInv, CheckCertificates
  PROVE  IInv'
<1> USE DEF IInv
<1> DEFINE u == procs["worker"].upd
           c == u[2]
           s == CheckCertificatesForExpire
<1>0. "worker" \in Procs /\ "worker" \notin Callbacks
  BY DEF Procs, Callbacks
<1>1. At("worker", "check")
  BY DEF CheckCertificates
<1>2. UNCHANGED <<setup, now, certVars, trust, hsmVars, backup, status, updates, up, historyVars>>
  BY DEF CheckCertificates
<1>3. u \in Updates /\ c \in Certs
  <2>1. u \in Updates
    BY <1>0 DEF TypeOK, Processes
  <2> QED
    BY <2>1 DEF Updates, Requests, Certs
<1>4. s \in {"Deployed", "Warning", "Error"}
  BY DEF CheckCertificatesForExpire
<1>5. ASSUME NEW pc \in PCs, procs' = [procs EXCEPT !["worker"].rstatus = s, !["worker"].pc = pc]
      PROVE  /\ Moves("worker", pc)
             /\ procs'["worker"].upd = u /\ procs'["worker"].rstatus = s
  <2> DEFINE r == [procs["worker"] EXCEPT !.rstatus = s, !.pc = pc]
  <2> HIDE DEF s
  <2>1. r \in Processes /\ r.pc = pc /\ r.upd = u /\ r.rstatus = s
    BY <1>0, <1>4 DEF TypeOK, Processes
  <2>2. procs' = [procs EXCEPT !["worker"] = r]
    BY <1>5
  <2> HIDE DEF r
  <2> QED
    BY <1>0, <2>1, <2>2, ReplaceMoves
<1>6. \A d \in Certs : IsFiniteSet(files'[d])
  BY <1>2 DEF Course, certVars
<1>7. CASE CertificateChanged(u) /\ Expired(c)
  <2>1. Abort("worker") /\ UNCHANGED timers
    BY <1>7 DEF CheckCertificates
  <2>2. Moves("worker", "status") /\ procs'["worker"].rstatus = "error"
    BY <1>0, <2>1, AbortMoves DEF After
  <2>3. TypeOK'
    BY <1>2, <2>1, <2>2 DEF TypeOK, Moves, certVars, hsmVars, historyVars
  <2>4. Course'
    BY <1>0, <1>6, <2>2, CourseMoves DEF Ecerts, Unset
  <2>5. KeyInv'
    BY <1>0, <1>1, <1>2, <2>2, KeysCalm DEF At, certVars, historyVars
  <2>6. OwnInv'
    BY <1>0, <1>1, <1>2, <2>2, OwnCalm DEF At, InJob, certVars, hsmVars, historyVars
  <2>7. TimeInv'
    <3>1. ASSUME Timely, NEW d \in Certs, AutoRenewed(d), Attended(d) PROVE Attended(d)'
      <4>1. CertOf("worker") # d
        BY <1>7, <3>1 DEF Timely, CertOf
      <4>2. \A q \in Callbacks : Renewing(q) /\ CertOf(q) = d => Renewing(q)' /\ CertOf(q)' = d
        BY <1>0, <1>2, <2>2 DEF Renewing, CertOf, Moves, Same, Procs, hsmVars
      <4> QED
        BY <1>2, <2>1, <3>1, <4>1, <4>2 DEF Attended, CertificateChanged
    <3> QED
      BY <1>0, <1>2, <2>1, <2>2, <3>1, TimeMoves DEF certVars, historyVars
  <2> QED
    BY <2>3, <2>4, <2>5, <2>6, <2>7
<1>8. CASE CertificateChanged(u) /\ ~Expired(c)
  <2>1. /\ SetCertificateTimer(c)
        /\ procs' = [procs EXCEPT !["worker"].rstatus = s, !["worker"].pc = "status"]
    BY <1>8 DEF CheckCertificates
  <2>2. Moves("worker", "status") /\ procs'["worker"].rstatus # "none"
    <3>1. "status" \in PCs
      BY DEF PCs
    <3> HIDE DEF s
    <3> QED
      BY <1>4, <1>5, <2>1, <3>1
  <2>a. /\ GetDurationToNextRenewal(c) \in Nat
        /\ \/ GetDurationToNextRenewal(c) <= now
           \/ GetDurationToNextRenewal(c) <= cert[c].exp - WarningPeriod
    <3>1. cert[c].exp \in Nat /\ now \in Nat /\ WarningPeriod \in Nat
      BY <1>3, ConstantsOK DEF TypeOK, Certificates
    <3> QED
      BY <3>1 DEF GetDurationToNextRenewal
  <2>b. /\ timers' \in [Certs -> Nat \cup {Never}]
        /\ timers'[c] # Never
        /\ \A d \in Certs : d # c => timers'[d] = timers[d]
        /\ timers'[c] = GetDurationToNextRenewal(c)
    BY <1>3, <2>1, <2>a DEF SetCertificateTimer, TypeOK, Never
  <2>3. TypeOK'
    BY <1>2, <2>b, <2>2 DEF TypeOK, Moves, certVars, hsmVars, historyVars
  <2>4. Course'
    BY <1>0, <1>6, <2>2, CourseMoves DEF Ecerts, Unset
  <2>5. KeyInv'
    BY <1>0, <1>1, <1>2, <2>2, KeysCalm DEF At, certVars, historyVars
  <2>6. OwnInv'
    BY <1>0, <1>1, <1>2, <2>2, OwnCalm DEF At, InJob, certVars, hsmVars, historyVars
  <2>7. TimeInv'
    <3>1. ASSUME NEW d \in Certs, Attended(d) PROVE Attended(d)'
      <4>1. CASE d = c
        BY <2>b, <4>1 DEF Attended
      <4>2. CASE d # c
        <5>1. \A q \in Callbacks : Renewing(q) /\ CertOf(q) = d => Renewing(q)' /\ CertOf(q)' = d
          BY <1>0, <1>2, <2>2 DEF Renewing, CertOf, Moves, Same, Procs, hsmVars
        <5> QED
          BY <1>2, <2>b, <3>1, <4>2, <5>1 DEF Attended, CertificateChanged, CertOf
      <4> QED
        BY <4>1, <4>2
    <3>2. \A d \in Certs : \/ timers'[d] = timers[d] \/ timers'[d] <= now
                           \/ timers'[d] <= cert[d].exp - WarningPeriod
      BY <2>a, <2>b
    <3> QED
      BY <1>0, <1>2, <2>2, <3>1, <3>2, TimeMoves DEF certVars, historyVars
  <2> QED
    BY <2>3, <2>4, <2>5, <2>6, <2>7
<1>9. CASE ~CertificateChanged(u)
  <2> DEFINE pc == IF u \in Requests THEN "read" ELSE "status"
  <2>1. /\ procs' = [procs EXCEPT !["worker"].rstatus = s, !["worker"].pc = pc]
        /\ UNCHANGED timers
    BY <1>9 DEF CheckCertificates
  <2>2. pc \in PCs /\ pc \in {"read", "status"}
    BY DEF PCs
  <2> HIDE DEF pc, s
  <2>3. Moves("worker", pc) /\ procs'["worker"].upd = u /\ procs'["worker"].rstatus # "none"
    BY <1>4, <1>5, <2>1, <2>2
  <2>4. TypeOK'
    BY <1>2, <2>1, <2>3 DEF TypeOK, Moves, certVars, hsmVars, historyVars
  <2>5. Course'
    BY <1>0, <1>6, <2>2, <2>3, CourseMoves DEF Ecerts, Unset
  <2>6. KeyInv'
    BY <1>0, <1>1, <1>2, <2>2, <2>3, KeysCalm DEF At, certVars, historyVars
  <2>7. OwnInv'
    BY <1>0, <1>1, <1>2, <2>2, <2>3, OwnCalm DEF At, InJob, certVars, hsmVars, historyVars
  <2>8. TimeInv'
    BY <1>0, <1>2, <1>9, <2>1, <2>2, <2>3, TimeCalm DEF certVars, hsmVars, historyVars
  <2> QED
    BY <2>4, <2>5, <2>6, <2>7, <2>8
<1> QED
  BY <1>7, <1>8, <1>9

LEMMA SetStatusStep ==
  ASSUME IInv, SetStatus
  PROVE  IInv'
<1> USE DEF IInv
<1>0. "worker" \in Procs /\ "worker" \notin Callbacks
  BY DEF Procs, Callbacks
<1>1. At("worker", "status") /\ procs' = [procs EXCEPT !["worker"] = Idle]
  BY DEF SetStatus
<1>2. UNCHANGED <<setup, now, certVars, trust, hsmVars, backup, timers, up, historyVars>>
  BY DEF SetStatus
<1>3. Moves("worker", "idle")
  BY <1>0, <1>1, IdleType, ReplaceMoves DEF Idle
<1>4. updates \subseteq updates' /\ updates' \subseteq Updates
  BY DEF SetStatus, TypeOK, Updates, Retry
<1>5. status' \in {"Deployed", "Warning", "Error"}
  <2>1. procs["worker"].rstatus \in {"error", "Deployed", "Warning", "Error"}
    BY <1>0, <1>1 DEF TypeOK, Processes, Course, At
  <2> QED
    BY <2>1 DEF SetStatus
<1>6. TypeOK'
  BY <1>2, <1>3, <1>4, <1>5 DEF TypeOK, Moves, certVars, hsmVars, historyVars
<1>7. Course'
  <2>1. \A c \in Certs : IsFiniteSet(files'[c])
    BY <1>2 DEF Course, certVars
  <2> QED
    BY <1>0, <1>3, <2>1, CourseMoves DEF Ecerts, Unset
<1>8. KeyInv'
  BY <1>0, <1>1, <1>2, <1>3, KeysCalm DEF At, certVars, historyVars
<1>9. OwnInv'
  BY <1>0, <1>1, <1>2, <1>3, OwnCalm DEF At, InJob, certVars, hsmVars, historyVars
<1>10. TimeInv'
  BY <1>0, <1>1, <1>2, <1>3, <1>4, TimeCalm DEF At, certVars, hsmVars, historyVars
<1> QED
  BY <1>6, <1>7, <1>8, <1>9, <1>10

-----------------------------------------------------------------------------
(* Steps of the worker and of a timer's goroutine                          *)

\* A step before or after what the invariants are about.
LEMMA CalmStep ==
  ASSUME IInv, TypeOK', NEW p \in Procs, NEW pc, Moves(p, pc),
         UNCHANGED <<setup, now, cert, keystore, files, timers, up, jobs, rootTLS, clientCfg>>,
         mishaps \subseteq mishaps', updates \subseteq updates',
         procs[p].pc \notin {"custom", "check", "readkey", "keystore", "job", "active", "finished", "clean"},
         pc \notin {"readkey", "signcert", "keystore", "job", "active", "finished", "clean"},
         pc = "prepare" => procs'[p].upd[2] = "ecert",
         pc # "idle" => procs'[p].upd = procs[p].upd,
         p = "worker" /\ pc \notin Unset => procs'[p].rstatus # "none",
         ~At(p, "idle"),
         p \in Callbacks => pc \in Early \/ ~AutoRenewed(CertOf(p)) \/ mishaps' # {}
  PROVE  IInv'
<1> USE DEF IInv
<1>1. Course'
  <2>1. p \in Callbacks /\ pc # "idle" => procs'[p].upd[1] = "reenroll"
    BY DEF Course, At
  <2>2. \A c \in Certs : IsFiniteSet(files'[c])
    BY DEF Course
  <2>3. pc \in Ecerts => procs'[p].upd[2] = "ecert"
    BY DEF Ecerts
  <2> QED
    BY <2>1, <2>2, <2>3, CourseMoves
<1>2. KeyInv'
  BY KeysCalm DEF At
<1>3. OwnInv'
  BY OwnCalm DEF At, InJob
<1>4. TimeInv'
  <2>1. p \in Callbacks /\ Renewing(p) =>
           \/ mishaps' # {} \/ ~AutoRenewed(CertOf(p))
           \/ pc \in Early /\ procs'[p].upd = procs[p].upd
    BY DEF Early
  <2>2. pc \notin {"readkey", "signcert"} /\ procs[p].pc \notin {"custom", "check"}
    OBVIOUS
  <2>3. UNCHANGED <<setup, now, cert, timers, up, jobs>>
    OBVIOUS
  <2> QED
    BY <2>1, <2>2, <2>3, TimeCalm
<1> QED
  BY <1>1, <1>2, <1>3, <1>4

LEMMA TimerFiresStep ==
  ASSUME IInv, NEW p \in Callbacks, NEW c \in Certs, TimerFires(p, c)
  PROVE  IInv'
<1> USE DEF IInv
<1> DEFINE r == [Idle EXCEPT !.pc = "crstatus", !.upd = <<"reenroll", c>>]
<1>0. p \in Procs /\ p # "worker"
  BY DEF Procs, Callbacks
<1>1. r \in Processes /\ r.pc = "crstatus" /\ r.upd[1] = "reenroll" /\ r.upd[2] = c
  <2>1. <<"reenroll", c>> \in Updates
    BY DEF Updates, Requests
  <2> QED
    BY <2>1, IdleType DEF Processes, PCs, Idle
<1>2. procs' = [procs EXCEPT ![p] = r]
  BY DEF TimerFires
<1> HIDE DEF r
<1>3. Moves(p, "crstatus") /\ procs'[p] = r
  BY <1>0, <1>1, <1>2 DEF TypeOK, Moves, Same
<1>4. At(p, "idle") /\ timers' = [timers EXCEPT ![c] = Never]
  BY DEF TimerFires
<1>5. UNCHANGED <<setup, now, certVars, trust, hsmVars, backup, status, updates, up, historyVars>>
  BY DEF TimerFires
<1>6. /\ timers' \in [Certs -> Nat \cup {Never}]
      /\ timers'[c] = Never /\ \A d \in Certs : d # c => timers'[d] = timers[d]
  BY <1>4 DEF TypeOK
<1>7. TypeOK'
  BY <1>3, <1>5, <1>6 DEF TypeOK, Moves, certVars, hsmVars, historyVars
<1>8. Course'
  <2>1. \A d \in Certs : IsFiniteSet(files'[d])
    BY <1>5 DEF Course, certVars
  <2> QED
    BY <1>0, <1>1, <1>3, <2>1, CourseMoves DEF Ecerts
<1>9. KeyInv'
  BY <1>0, <1>3, <1>4, <1>5, KeysCalm DEF At, certVars, historyVars
<1>10. OwnInv'
  BY <1>0, <1>3, <1>4, <1>5, OwnCalm DEF At, InJob, certVars, hsmVars, historyVars
<1>11. TimeInv'
  <2>1. ASSUME NEW d \in Certs, Attended(d) PROVE Attended(d)'
    <3>1. CASE d = c
      <4>1. Renewing(p)' /\ CertOf(p)' = d
        BY <1>1, <1>3, <3>1 DEF Renewing, CertOf
      <4> QED
        BY <4>1 DEF Attended
    <3>2. CASE d # c
      <4>1. \A q \in Callbacks : Renewing(q) /\ CertOf(q) = d => Renewing(q)' /\ CertOf(q)' = d
        BY <1>4, <1>5, <1>3 DEF Renewing, CertOf, Moves, Same, Procs, hsmVars, At
      <4>2. Same("worker")
        BY <1>0, <1>3 DEF Moves, Procs
      <4> QED
        BY <1>5, <1>6, <2>1, <3>2, <4>1, <4>2 DEF Attended, CertificateChanged, CertOf, Same
    <3> QED
      BY <3>1, <3>2
  <2>2. \A d \in Certs : timers'[d] = timers[d] \/ timers'[d] <= now
    <3>1. Never <= now
      BY DEF TypeOK, Never
    <3> QED
      BY <1>6, <3>1
  <2> QED
    BY <1>0, <1>3, <1>5, <2>1, <2>2, TimeMoves DEF certVars, historyVars
<1> QED
  BY <1>7, <1>8, <1>9, <1>10, <1>11

LEMMA UpdateCRStatusStep ==
  ASSUME IInv, NEW p \in Callbacks, NEW renew \in BOOLEAN, UpdateCRStatus(p, renew),
         renew \/ ~AutoRenewed(CertOf(p))
  PROVE  IInv'
<1> USE DEF IInv
<1>0. p \in Procs /\ p # "worker"
  BY DEF Procs, Callbacks
<1>1. /\ At(p, "crstatus")
      /\ status' = CheckCertificatesForExpire
      /\ UNCHANGED <<setup, now, certVars, trust, hsmVars, backup, operatorVars, historyVars>>
  BY DEF UpdateCRStatus
<1>2. \E pc \in {"backup", "idle"} :
         /\ Moves(p, pc) /\ (pc = "idle" => ~renew)
         /\ pc # "idle" => procs'[p].upd = procs[p].upd
  <2>1. CASE renew
    <3>1. Goto(p, "backup") /\ "backup" \in PCs
      BY <2>1 DEF UpdateCRStatus, PCs
    <3> QED
      BY <1>0, <3>1, GotoMoves
  <2>2. CASE ~renew
    <3>1. Finish(p)
      BY <2>2 DEF UpdateCRStatus
    <3> QED
      BY <1>0, <2>2, <3>1, FinishMoves DEF After
  <2> QED
    BY <2>1, <2>2
<1>3. PICK pc \in {"backup", "idle"} :
         /\ Moves(p, pc) /\ (pc = "idle" => ~renew)
         /\ pc # "idle" => procs'[p].upd = procs[p].upd
  BY <1>2
<1>4. TypeOK'
  <2>1. status' \in {"Deployed", "Warning", "Error"}
    BY <1>1 DEF CheckCertificatesForExpire
  <2> QED
    BY <1>1, <1>3, <2>1 DEF TypeOK, Moves, certVars, hsmVars, operatorVars, historyVars
<1> QED
  BY <1>0, <1>1, <1>3, <1>4, CalmStep DEF At, Early, certVars, hsmVars, operatorVars, historyVars

LEMMA BackupCryptoStep ==
  ASSUME IInv, NEW p \in Procs, BackupCrypto(p)
  PROVE  IInv'
<1> USE DEF IInv
<1> DEFINE saw == [c \in Certs |-> GetCrypto(c)]
           seen == IF backup = NoBackup THEN "nothing" ELSE "current"
           r == [procs[p] EXCEPT !.pc = "saved", !.saw = saw, !.seen = seen]
<1>1. /\ At(p, "backup") /\ procs' = [procs EXCEPT ![p] = r]
      /\ UNCHANGED <<setup, now, certVars, trust, hsmVars, backup, status, operatorVars, historyVars>>
  BY DEF BackupCrypto
<1>2. r \in Processes /\ r.pc = "saved" /\ r.upd = procs[p].upd
  <2>1. saw \in [Certs -> Keys]
    BY DEF TypeOK, GetCrypto
  <2>2. seen \in {"nothing", "current", "stale"}
    OBVIOUS
  <2>3. procs[p] \in Processes
    BY DEF TypeOK
  <2> HIDE DEF saw, seen
  <2> QED
    BY <2>1, <2>2, <2>3 DEF Processes, PCs
<1> HIDE DEF r
<1>3. Moves(p, "saved") /\ procs'[p].upd = procs[p].upd
  BY <1>1, <1>2, ReplaceMoves
<1>4. TypeOK'
  BY <1>1, <1>3 DEF TypeOK, Moves, certVars, hsmVars, operatorVars, historyVars
<1> QED
  BY <1>1, <1>3, <1>4, CalmStep DEF At, Early, Unset, certVars, hsmVars, operatorVars, historyVars

LEMMA CertOfType ==
  ASSUME TypeOK, NEW p \in Procs
  PROVE  /\ procs[p] \in Processes /\ procs[p].upd \in Updates
         /\ CertOf(p) \in Certs
<1>1. procs[p] \in Processes /\ procs[p].upd \in Updates
  BY DEF TypeOK, Processes
<1>2. \A u \in Updates : u[2] \in Certs
  BY DEF Updates, Requests, Certs
<1> QED
  BY <1>1, <1>2 DEF CertOf

LEMMA UpdatedBackupType ==
  ASSUME NEW list \in Seq(Keys), Len(list) <= Iterations, NEW key \in Keys
  PROVE  GetUpdatedBackup(list, key) \in Seq(Keys) /\ Len(GetUpdatedBackup(list, key)) <= Iterations
<1>1. Iterations \in Nat \ {0} /\ Len(list) \in Nat
  BY ConstantsOK
<1>2. CASE Len(list) < Iterations
  BY <1>1, <1>2 DEF GetUpdatedBackup
<1>3. CASE ~(Len(list) < Iterations)
  <2>1. list # <<>>
    BY <1>1, <1>3
  <2>2. Tail(list) \in Seq(Keys) /\ Len(Tail(list)) = Len(list) - 1
    BY <2>1
  <2> QED
    BY <1>1, <1>3, <2>2 DEF GetUpdatedBackup
<1> QED
  BY <1>2, <1>3

LEMMA UpdateBackupSecretStep ==
  ASSUME IInv, NEW p \in Procs, UpdateBackupSecret(p)
  PROVE  IInv'
<1> USE DEF IInv
<1> DEFINE go == [Idle EXCEPT !.upd = procs[p].upd, !.pc = AfterBackup(p)]
<1>1. /\ At(p, "saved")
      /\ UNCHANGED <<setup, now, certVars, trust, hsmVars, status, operatorVars, events>>
  BY DEF UpdateBackupSecret
<1>2. go \in Processes /\ go.pc = AfterBackup(p) /\ go.upd = procs[p].upd
  <2>1. procs[p].upd \in Updates /\ AfterBackup(p) \in PCs
    BY CertOfType DEF AfterBackup, PCs
  <2> HIDE DEF AfterBackup
  <2> QED
    BY <2>1, IdleType DEF Processes, Idle
<1> HIDE DEF go
<1>3. ASSUME procs' = [q \in Procs |-> IF q = p THEN go
                           ELSE [procs[q] EXCEPT !.seen = IF @ = "current" THEN "stale" ELSE @]],
             backup' = UpdateBackupSecretData(procs[p].saw), UNCHANGED mishaps
      PROVE  IInv'
  <2>1. \A q \in Procs \ {p} : procs'[q] \in Processes /\ Same(q)
    BY <1>3 DEF TypeOK, Processes, Same
  <2>2. Moves(p, AfterBackup(p)) /\ procs'[p].upd = procs[p].upd
    BY <1>2, <1>3, <2>1 DEF Moves
  <2>3. backup' \in [Certs -> Seq(Keys)] /\ \A c \in Certs : Len(backup'[c]) <= Iterations
    <3>1. \A c \in Certs : backup[c] \in Seq(Keys) /\ Len(backup[c]) <= Iterations
                           /\ procs[p].saw[c] \in Keys
      BY DEF TypeOK, Processes
    <3>2. \A c \in Certs : LET new == GetUpdatedBackup(backup[c], procs[p].saw[c]) IN
                           new \in Seq(Keys) /\ Len(new) <= Iterations
      BY <3>1, UpdatedBackupType
    <3> QED
      BY <1>3, <3>2 DEF UpdateBackupSecretData
  <2>4. TypeOK'
    BY <1>1, <1>3, <2>2, <2>3 DEF TypeOK, Moves, certVars, hsmVars, operatorVars
  <2> QED
    BY <1>1, <1>3, <2>2, <2>4, CalmStep
    DEF At, Early, Unset, AfterBackup, Callbacks, certVars, hsmVars, operatorVars
<1>4. ASSUME procs' = [procs EXCEPT ![p] = go], UNCHANGED <<backup, mishaps>>
      PROVE  IInv'
  <2>1. Moves(p, AfterBackup(p)) /\ procs'[p].upd = procs[p].upd
    BY <1>2, <1>4 DEF TypeOK, Moves, Same
  <2>2. TypeOK'
    BY <1>1, <1>4, <2>1 DEF TypeOK, Moves, certVars, hsmVars, operatorVars
  <2> QED
    BY <1>1, <1>4, <2>1, <2>2, CalmStep
    DEF At, Early, Unset, AfterBackup, Callbacks, certVars, hsmVars, operatorVars
<1>5. ASSUME Abort(p), Note({"conflict"}), UNCHANGED backup
      PROVE  IInv'
  <2>1. /\ Moves(p, After(p))
        /\ p = "worker" => procs'[p].upd = procs[p].upd /\ procs'[p].rstatus = "error"
    BY <1>5, AbortMoves
  <2>2. mishaps' = mishaps \cup {"conflict"} /\ mishaps' # {}
    BY <1>5 DEF Note
  <2>3. TypeOK'
    BY <1>1, <1>5, <2>1, <2>2 DEF TypeOK, Moves, Mishaps, certVars, hsmVars, operatorVars
  <2> QED
    BY <1>1, <2>1, <2>2, <2>3, CalmStep DEF At, After, certVars, hsmVars, operatorVars
<1> QED
  BY <1>3, <1>4, <1>5 DEF UpdateBackupSecret, go

LEMMA RenewCertStep ==
  ASSUME IInv, NEW p \in Procs, RenewCert(p)
  PROVE  IInv'
<1> USE DEF IInv
<1> DEFINE pc == IF ByJob(CertOf(p)) THEN "prepare" ELSE "request"
           r == [GetSignCertAndKey(p) EXCEPT !.pc = pc]
<1>1. /\ At(p, "read") /\ procs' = [procs EXCEPT ![p] = r]
      /\ UNCHANGED <<certFrame, certVars, operatorVars, historyVars>>
  BY DEF RenewCert
<1>2. pc \in PCs /\ pc \in {"prepare", "request"} /\ (pc = "prepare" => CertOf(p) = "ecert")
  BY DEF PCs, ByJob
<1> HIDE DEF pc
<1>3. r \in Processes /\ r.pc = pc /\ r.upd = procs[p].upd /\ r.rstatus = procs[p].rstatus
  <2>1. cert[CertOf(p)] \in Certificates /\ keystore[CertOf(p)] \in Keys /\ procs[p] \in Processes
    BY CertOfType DEF TypeOK
  <2> QED
    BY <1>2, <2>1 DEF GetSignCertAndKey, Processes
<1> HIDE DEF r
<1>4. /\ Moves(p, pc)
      /\ procs'[p].upd = procs[p].upd /\ procs'[p].rstatus = procs[p].rstatus
  BY <1>1, <1>3 DEF TypeOK, Moves, Same
<1>5. TypeOK'
  BY <1>1, <1>4 DEF TypeOK, Moves, certFrame, certVars, hsmVars, operatorVars, historyVars
<1>6. p = "worker" => procs[p].rstatus # "none"
  BY <1>1 DEF Course, At
<1>7. pc = "prepare" => procs'[p].upd[2] = "ecert"
  BY <1>2, <1>4 DEF CertOf
<1>8. UNCHANGED <<setup, now, cert, keystore, files, timers, up, jobs, rootTLS, clientCfg, updates, mishaps>>
  BY <1>1 DEF certFrame, certVars, hsmVars, operatorVars, historyVars
<1> QED
  BY <1>1, <1>2, <1>4, <1>5, <1>6, <1>7, <1>8, CalmStep DEF At, Early

-----------------------------------------------------------------------------
(* Re-enrolment and enrolment in process                                   *)

WholePairs == mishaps \cap {"raced", "split"} = {} => \A c \in Certs : InHSM(c) \/ Pair(c)

\* A step of a process that is not between the two writes.
LEMMA PairsCalm ==
  ASSUME TypeOK, KeyInv, NEW p \in Procs, NEW pc, Moves(p, pc),
         UNCHANGED <<setup, cert, keystore>>, mishaps \subseteq mishaps',
         ~At(p, "keystore"), pc # "keystore"
  PROVE  WholePairs'
<1> SUFFICES ASSUME (mishaps \cap {"raced", "split"})' = {}, NEW c \in Certs, ~InHSM(c)'
             PROVE  Pair(c)'
  BY DEF WholePairs
<1>1. Pair(c)
  BY DEF KeyInv, InHSM
<1>2. \A q \in Procs : InKeystoreWrite(q, c)' <=> InKeystoreWrite(q, c)
  BY DEF InKeystoreWrite, At, CertOf, Moves, Same
<1>3. \A q \in Procs : InKeystoreWrite(q, c) =>
         procs'[q].key = procs[q].key /\ NewKey(q)' = NewKey(q)
  BY DEF InKeystoreWrite, At, NewKey, Moves, Same
<1> QED
  BY <1>1, <1>2, <1>3 DEF Pair

\* Only the worker asks for new keys.
LEMMA NewKeysAreTheWorkers ==
  ASSUME TypeOK, Course, NEW p \in Procs, ~At(p, "idle"), NewKey(p)
  PROVE  p = "worker"
BY DEF Course, NewKey, Procs

\* What the other processes have in hand stays in hand: a file is added for
\* the worker only, by itself.
LEMMA OthersInHand ==
  ASSUME TypeOK, Course, KeyInv, NEW p \in Procs, NEW pc, Moves(p, pc), UNCHANGED setup,
         ~At(p, "idle"),
         \A c \in Certs : files'[c] = files[c] \/ files'[c] = {} \/ NewKey(p),
         NEW q \in Procs \ {p}
  PROVE  InHand(q)'
<1>1. InHand(q) /\ Same(q) /\ CertOf(q) \in Certs
  BY CertOfType DEF KeyInv, Moves
<1>2. CASE At(q, "readkey") /\ NewKey(q) /\ ~InHSM(CertOf(q))
  <2>1. ~NewKey(p)
    BY <1>2, NewKeysAreTheWorkers DEF At
  <2>2. files'[CertOf(q)] = files[CertOf(q)] \/ files'[CertOf(q)] = {}
    BY <1>1, <2>1
  <2> QED
    BY <1>1, <1>2, <2>2 DEF InHand, Same, At, CertOf, NewKey, InHSM
<1>3. CASE ~(At(q, "readkey") /\ NewKey(q) /\ ~InHSM(CertOf(q)))
  BY <1>1, <1>3 DEF InHand, Same, At, CertOf, NewKey, InHSM
<1> QED
  BY <1>2, <1>3

LEMMA GenerateFacts ==
  ASSUME TypeOK, Course, NEW p \in Procs, Generate(p, generated + 1)
  PROVE  /\ generated' \in Keys /\ files' \in [Certs -> SUBSET Keys]
         /\ \A c \in Certs : IsFiniteSet(files'[c])
         /\ \A c \in Certs : \/ files'[c] = files[c]
                             \/ c = CertOf(p) /\ procs[p].upd[1] = "newkey"
         /\ procs[p].upd[1] = "newkey" /\ ~InHSM(CertOf(p)) => generated + 1 \in files'[CertOf(p)]
<1> DEFINE d == CertOf(p)
           new == If(generated + 1, procs[p].upd[1] = "newkey" /\ ~InHSM(d))
<1>1. d \in Certs
  BY CertOfType
<1>2. /\ generated' = IF NewKey(p) THEN generated + 1 ELSE generated
      /\ files' = [files EXCEPT ![d] = files[d] \cup new]
  BY DEF Generate
<1> HIDE DEF d
<1>3. generated \in Nat /\ generated' \in Keys
  BY <1>2 DEF TypeOK, Keys
<1>4. /\ new \in {{}, {generated + 1}} /\ new \subseteq Keys
      /\ procs[p].upd[1] # "newkey" => new = {}
      /\ procs[p].upd[1] = "newkey" /\ ~InHSM(d) => generated + 1 \in new
  BY <1>3 DEF If, Keys
<1> HIDE DEF new
<1>5. /\ files' \in [Certs -> SUBSET Keys] /\ files'[d] = files[d] \cup new
      /\ \A c \in Certs : c # d => files'[c] = files[c]
  BY <1>1, <1>2, <1>4 DEF TypeOK
<1>6. IsFiniteSet(files[d] \cup new)
  <2>1. IsFiniteSet(files[d])
    BY <1>1 DEF Course
  <2>2. IsFiniteSet(new)
    BY <1>4, FS_EmptySet, FS_Singleton
  <2> QED
    BY <2>1, <2>2, FS_Union
<1>7. \A c \in Certs : IsFiniteSet(files'[c])
  BY <1>5, <1>6 DEF Course
<1>8. /\ \A c \in Certs : files'[c] = files[c] \/ (c = d /\ procs[p].upd[1] = "newkey")
      /\ procs[p].upd[1] = "newkey" /\ ~InHSM(d) => generated + 1 \in files'[d]
  BY <1>4, <1>5
<1> QED
  BY <1>3, <1>5, <1>7, <1>8 DEF d

\* A request that is refused or not answered.
LEMMA NotAnswered ==
  ASSUME IInv, NEW p \in Procs, At(p, "request"), Generate(p, generated + 1), Abort(p),
         NEW name \in {"refused", "failed"}, Note({name}), events' \in 0..MaxEvents,
         UNCHANGED <<certFrame, cert, keystore, operatorVars>>
  PROVE  IInv'
<1> USE DEF IInv
<1>1. /\ generated' \in Keys /\ files' \in [Certs -> SUBSET Keys]
      /\ \A c \in Certs : IsFiniteSet(files'[c])
      /\ \A c \in Certs : files'[c] = files[c] \/ NewKey(p)
  BY GenerateFacts DEF NewKey
<1>2. /\ Moves(p, After(p))
      /\ p = "worker" => procs'[p].upd = procs[p].upd /\ procs'[p].rstatus = "error"
  BY AbortMoves
<1>3. mishaps' = mishaps \cup {name} /\ name \in mishaps' /\ name \in Mishaps
  BY DEF Note, Mishaps
<1>4. After(p) \in {"status", "idle"} /\ (p \in Callbacks => After(p) = "idle")
  BY DEF After, Callbacks
<1>5. TypeOK'
  BY <1>1, <1>2, <1>3 DEF TypeOK, Moves, certFrame, hsmVars, operatorVars
<1>6. Course'
  BY <1>1, <1>2, <1>4, CourseMoves DEF Ecerts
<1>7. KeyInv'
  <2>1. InHand(p)'
    BY <1>2, <1>4 DEF InHand, At, Moves
  <2>2. \A q \in Procs \ {p} : InHand(q)'
    BY <1>1, <1>2, OthersInHand DEF At, certFrame
  <2>3. WholePairs'
    BY <1>2, <1>3, <1>4, PairsCalm DEF At, certFrame
  <2> QED
    BY <2>1, <2>2, <2>3 DEF KeyInv, WholePairs
<1>8. OwnInv' /\ TimeInv'
  BY <1>3 DEF OwnInv, TimeInv
<1> QED
  BY <1>5, <1>6, <1>7, <1>8

LEMMA EventType ==
  ASSUME TypeOK, Event
  PROVE  events' \in 0..MaxEvents
<1>1. events \in 0..MaxEvents
  BY DEF TypeOK
<1> QED
  BY <1>1, ConstantsOK DEF Event

LEMMA RequestFailsStep ==
  ASSUME IInv, NEW p \in Procs, RequestFails(p)
  PROVE  IInv'
<1>1. events' \in 0..MaxEvents
  BY EventType DEF IInv, RequestFails
<1> QED
  BY <1>1, NotAnswered DEF RequestFails

LEMMA RequestStep ==
  ASSUME IInv, NEW p \in Procs, Request(p)
  PROVE  IInv'
<1> USE DEF IInv
<1>1. /\ At(p, "request") /\ Generate(p, generated + 1)
      /\ UNCHANGED <<certFrame, cert, keystore, operatorVars, events>>
  BY DEF Request
<1>2. CASE ~Accepted(p)
  <2>1. Abort(p) /\ Note({"refused"})
    BY <1>2 DEF Request
  <2>2. events' \in 0..MaxEvents
    BY <1>1 DEF TypeOK
  <2> QED
    BY <1>1, <2>1, <2>2, NotAnswered
<1>3. CASE Accepted(p)
  <2> DEFINE id == generated + 1
             pc == IF Enrolls(p) THEN "signcert" ELSE "readkey"
             key == IF Enrolls(p) THEN id ELSE procs[p].key
             got == Certificate(p, id)
             r == [procs[p] EXCEPT !.read = got, !.key = key, !.pc = pc]
  <2>1. procs' = [procs EXCEPT ![p] = r] /\ UNCHANGED mishaps
    BY <1>3 DEF Request
  <2>2. /\ procs[p] \in Processes /\ CertOf(p) \in Certs
        /\ procs[p].key \in Nat /\ procs[p].read.key \in Nat /\ id \in Nat
    BY CertOfType DEF TypeOK, Processes, Certificates, Keys
  <2>3. got \in Certificates /\ got.exp = now + Lifetime
    <3>1. now + Lifetime \in Nat
      BY ConstantsOK DEF TypeOK
    <3> QED
      BY <2>2, <3>1 DEF Certificate, Certificates, Keys
  <2>4. /\ NewKey(p) => got.key = id
        /\ ~NewKey(p) /\ ~InHSM(CertOf(p)) => got.key = procs[p].key
    BY DEF Certificate
  <2>5. /\ pc \in PCs /\ pc \in {"signcert", "readkey"} /\ key \in Keys
        /\ pc = "signcert" => NewKey(p) /\ key = id
        /\ pc = "readkey" => /\ key = procs[p].key
                             /\ NewKey(p) => procs[p].upd[1] = "newkey"
    BY <2>2 DEF PCs, Keys, Enrolls, NewKey
  <2> HIDE DEF pc, key, got
  <2>6. /\ r \in Processes /\ r.pc = pc /\ r.read = got /\ r.key = key
        /\ r.upd = procs[p].upd /\ r.rstatus = procs[p].rstatus
    BY <2>2, <2>3, <2>5 DEF Processes
  <2> HIDE DEF r
  <2>7. Moves(p, pc) /\ procs'[p] = r
    BY <2>1, <2>6 DEF TypeOK, Moves, Same
  <2>8. /\ generated' \in Keys /\ files' \in [Certs -> SUBSET Keys]
        /\ \A c \in Certs : IsFiniteSet(files'[c])
        /\ \A c \in Certs : files'[c] = files[c] \/ (c = CertOf(p) /\ procs[p].upd[1] = "newkey")
        /\ procs[p].upd[1] = "newkey" /\ ~InHSM(CertOf(p)) => id \in files'[CertOf(p)]
    BY <1>1, GenerateFacts
  <2> HIDE DEF id
  <2>9. TypeOK'
    BY <1>1, <2>1, <2>7, <2>8 DEF TypeOK, Moves, certFrame, hsmVars, operatorVars
  <2>10. Course'
    <3>1. p = "worker" => procs'[p].rstatus # "none"
      BY <1>1, <2>6, <2>7 DEF Course, At
    <3>2. p \in Callbacks => procs'[p].upd[1] = "reenroll"
      BY <1>1, <2>6, <2>7 DEF Course, At
    <3> QED
      BY <2>5, <2>7, <2>8, <3>1, <3>2, CourseMoves DEF Ecerts
  <2>11. KeyInv'
    <3>1. InHand(p)'
      <4>1. /\ CertOf(p)' = CertOf(p) /\ InHSM(CertOf(p))' = InHSM(CertOf(p)) /\ NewKey(p)' = NewKey(p)
            /\ procs'[p].read.key = got.key /\ procs'[p].key = key
            /\ procs'[p].pc = pc
        BY <1>1, <2>6, <2>7 DEF CertOf, InHSM, NewKey, certFrame
      <4>2. CASE InHSM(CertOf(p))
        BY <4>1, <4>2 DEF InHand
      <4>3. CASE ~InHSM(CertOf(p)) /\ pc = "signcert"
        BY <2>4, <2>5, <4>1, <4>3 DEF InHand, At
      <4>4. CASE ~InHSM(CertOf(p)) /\ pc = "readkey"
        BY <2>4, <2>5, <2>8, <4>1, <4>4 DEF InHand, At
      <4> QED
        BY <2>5, <4>2, <4>3, <4>4
    <3>2. \A q \in Procs \ {p} : InHand(q)'
      <4>1. \A c \in Certs : files'[c] = files[c] \/ files'[c] = {} \/ NewKey(p)
        BY <2>8 DEF NewKey
      <4>2. ~At(p, "idle") /\ UNCHANGED setup
        BY <1>1 DEF At, certFrame
      <4> QED
        BY <2>7, <4>1, <4>2, OthersInHand
    <3>3. WholePairs'
      BY <1>1, <2>1, <2>5, <2>7, PairsCalm DEF At, certFrame
    <3> QED
      BY <3>1, <3>2, <3>3 DEF KeyInv, WholePairs
  <2>12. OwnInv'
    <3> SUFFICES ASSUME (mishaps \subseteq {"conflict", "raced", "down"})' PROVE Owned'
      BY DEF OwnInv
    <3>1. Owned /\ UNCHANGED <<rootTLS, clientCfg, jobs>>
      BY <1>1, <2>1 DEF OwnInv, certFrame, hsmVars
    <3>2. \A q \in Procs : InJob(q)' <=> InJob(q)
      BY <1>1, <2>5, <2>7 DEF InJob, Moves, Same, At
    <3>3. \A q \in Procs : At(q, "readkey") => At(q, "readkey")' /\ CertOf(q)' = CertOf(q)
      BY <1>1, <2>7 DEF At, CertOf, Moves, Same
    <3>4. \A q \in Procs : jobs[q] # NoJob => procs'[q].pc \in {"active", "finished", "clean"}
      BY <1>1, <3>1, <2>7 DEF Owned, Moves, Same, At
    <3>5. ASSUME NEW c \in Certs, files'[c] # {}
          PROVE  \E q \in Procs : At(q, "readkey")' /\ CertOf(q)' = c
      <4>1. CASE files'[c] = files[c]
        BY <3>1, <3>3, <3>5, <4>1 DEF Owned
      <4>2. CASE c = CertOf(p) /\ procs[p].upd[1] = "newkey"
        <5>1. pc = "readkey"
          BY <4>2 DEF pc, Enrolls
        <5>2. At(p, "readkey")' /\ CertOf(p)' = c
          BY <2>6, <2>7, <4>2, <5>1 DEF At, CertOf
        <5> QED
          BY <5>2
      <4> QED
        BY <2>8, <4>1, <4>2
    <3> QED
      BY <3>1, <3>2, <3>4, <3>5 DEF Owned
  <2>13. TimeInv'
    <3>1. procs'[p].read.exp = now + Lifetime /\ procs'[p].upd = procs[p].upd /\ pc \in Early
      BY <2>3, <2>5, <2>6, <2>7 DEF Early
    <3>2. procs[p].pc \notin {"custom", "check"}
      BY <1>1 DEF At
    <3>3. UNCHANGED <<setup, now, cert, timers, up, jobs, updates, mishaps>>
      BY <1>1, <2>1 DEF certFrame, hsmVars, operatorVars
    <3> QED
      BY <2>7, <3>1, <3>2, <3>3, TimeCalm
  <2> QED
    BY <2>9, <2>10, <2>11, <2>12, <2>13
<1> QED
  BY <1>2, <1>3

LEMMA ReadKeyStep ==
  ASSUME IInv, NEW p \in Procs, ReadKey(p)
  PROVE  IInv'
<1> USE DEF IInv
<1> DEFINE c == CertOf(p)
           wanted == NewKey(p) /\ ~InHSM(c)
<1>1. /\ At(p, "readkey")
      /\ UNCHANGED <<certFrame, cert, keystore, generated, operatorVars, events>>
  BY DEF ReadKey
<1>a. procs[p] \in Processes /\ c \in Certs
  BY CertOfType
<1>2. CASE wanted /\ Cardinality(files[c]) # 1
  <2>1. Abort(p) /\ Note({"refused"}) /\ UNCHANGED files
    BY <1>2 DEF ReadKey
  <2>2. /\ Moves(p, After(p))
        /\ p = "worker" => procs'[p].upd = procs[p].upd /\ procs'[p].rstatus = "error"
    BY <2>1, AbortMoves
  <2>3. mishaps' = mishaps \cup {"refused"}
    BY <2>1 DEF Note
  <2>4. After(p) \in {"status", "idle"} /\ (p \in Callbacks => After(p) = "idle")
    BY DEF After, Callbacks
  <2>5. TypeOK'
    BY <1>1, <2>1, <2>2, <2>3 DEF TypeOK, Moves, Mishaps, certFrame, hsmVars, operatorVars
  <2>6. Course'
    <3>1. \A d \in Certs : IsFiniteSet(files'[d])
      BY <2>1 DEF Course
    <3> QED
      BY <2>2, <2>4, <3>1, CourseMoves DEF Ecerts
  <2>7. KeyInv'
    BY <1>1, <2>1, <2>2, <2>3, <2>4, KeysCalm DEF At, certFrame
  <2>8. OwnInv' /\ TimeInv'
    BY <2>3 DEF OwnInv, TimeInv
  <2> QED
    BY <2>5, <2>6, <2>7, <2>8
<1>3. CASE ~(wanted /\ Cardinality(files[c]) # 1)
  <2> DEFINE key == IF wanted THEN CHOOSE k \in files[c] : TRUE ELSE procs[p].key
             r == [procs[p] EXCEPT !.pc = "signcert", !.key = key]
  <2>1. procs' = [procs EXCEPT ![p] = r] /\ files' = [files EXCEPT ![c] = {}] /\ UNCHANGED mishaps
    BY <1>3 DEF ReadKey
  <2>2. files' \in [Certs -> SUBSET Keys] /\ files'[c] = {} /\ \A d \in Certs : d # c => files'[d] = files[d]
    <3> HIDE DEF c
    <3> QED
      BY <1>a, <2>1 DEF TypeOK
  <2>3. wanted => key = procs[p].read.key /\ key \in Keys
    <3> SUFFICES ASSUME wanted PROVE key = procs[p].read.key /\ key \in Keys
      OBVIOUS
    <3>1. Cardinality(files[c]) = 1 /\ IsFiniteSet(files[c]) /\ files[c] \subseteq Keys
      BY <1>3, <1>a DEF Course, TypeOK
    <3>2. PICK k : files[c] = {k}
      BY <3>1, FS_Singleton
    <3>3. files[c] = {} \/ procs[p].read.key \in files[c]
      BY <1>1 DEF KeyInv, InHand
    <3>4. key = k /\ k \in Keys
      BY <3>1, <3>2
    <3> QED
      BY <3>2, <3>3, <3>4
  <2>4. ~wanted => key = procs[p].key
    OBVIOUS
  <2>5. key \in Keys
    <3> HIDE DEF wanted, key
    <3> QED
      BY <1>a, <2>3, <2>4 DEF Processes
  <2> HIDE DEF key
  <2>6. /\ r \in Processes /\ r.pc = "signcert" /\ r.read = procs[p].read /\ r.key = key
        /\ r.upd = procs[p].upd /\ r.rstatus = procs[p].rstatus
    BY <1>a, <2>5 DEF Processes, PCs
  <2> HIDE DEF r
  <2>7. Moves(p, "signcert") /\ procs'[p] = r
    BY <2>1, <2>6 DEF TypeOK, Moves, Same
  <2>8. TypeOK'
    BY <1>1, <2>1, <2>2, <2>7 DEF TypeOK, Moves, certFrame, hsmVars, operatorVars
  <2>9. Course'
    <3>1. p = "worker" => procs'[p].rstatus # "none"
      BY <1>1, <2>6, <2>7 DEF Course, At
    <3>2. p \in Callbacks => procs'[p].upd[1] = "reenroll"
      BY <1>1, <2>6, <2>7 DEF Course, At
    <3>3. \A d \in Certs : IsFiniteSet(files'[d])
      BY <2>2, FS_EmptySet DEF Course
    <3> QED
      BY <2>7, <3>1, <3>2, <3>3, CourseMoves DEF Ecerts
  <2>10. KeyInv'
    <3>1. InHand(p)'
      <4>1. /\ CertOf(p)' = c /\ InHSM(CertOf(p))' = InHSM(c)
            /\ procs'[p].read = procs[p].read /\ procs'[p].key = key
            /\ procs'[p].pc = "signcert"
        BY <1>1, <2>6, <2>7 DEF CertOf, InHSM, certFrame
      <4>2. CASE InHSM(c)
        BY <4>1, <4>2 DEF InHand
      <4>3. CASE wanted
        BY <2>3, <4>1, <4>3 DEF InHand, At
      <4>4. CASE ~InHSM(c) /\ ~NewKey(p)
        <5>1. procs[p].read.key = procs[p].key
          BY <1>1, <4>4 DEF KeyInv, InHand
        <5> QED
          BY <2>4, <4>1, <4>4, <5>1 DEF InHand, At
      <4> QED
        BY <4>2, <4>3, <4>4
    <3>2. \A q \in Procs \ {p} : InHand(q)'
      <4>1. \A d \in Certs : files'[d] = files[d] \/ files'[d] = {} \/ NewKey(p)
        BY <2>2
      <4>2. ~At(p, "idle") /\ UNCHANGED setup
        BY <1>1 DEF At, certFrame
      <4> QED
        BY <2>7, <4>1, <4>2, OthersInHand
    <3>3. WholePairs'
      BY <1>1, <2>1, <2>7, PairsCalm DEF At, certFrame
    <3> QED
      BY <3>1, <3>2, <3>3 DEF KeyInv, WholePairs
  <2>11. OwnInv'
    <3> SUFFICES ASSUME (mishaps \subseteq {"conflict", "raced", "down"})' PROVE Owned'
      BY DEF OwnInv
    <3>1. Owned /\ UNCHANGED <<rootTLS, clientCfg, jobs>>
      BY <1>1, <2>1 DEF OwnInv, certFrame, hsmVars
    <3>2. \A q \in Procs : InJob(q)' <=> InJob(q)
      BY <1>1, <2>7 DEF InJob, Moves, Same, At
    <3>3. \A q \in Procs \ {p} : At(q, "readkey") => At(q, "readkey")' /\ CertOf(q)' = CertOf(q)
      BY <2>7 DEF At, CertOf, Moves, Same
    <3>4. \A q \in Procs : jobs[q] # NoJob => procs'[q].pc \in {"active", "finished", "clean"}
      BY <1>1, <3>1, <2>7 DEF Owned, Moves, Same, At
    <3>5. ASSUME NEW d \in Certs, files'[d] # {}
          PROVE  \E q \in Procs : At(q, "readkey")' /\ CertOf(q)' = d
      <4>1. d # c /\ files[d] # {}
        BY <2>2, <3>5
      <4>2. PICK q \in Procs : At(q, "readkey") /\ CertOf(q) = d
        BY <3>1, <4>1 DEF Owned
      <4> QED
        BY <3>3, <4>1, <4>2
    <3> QED
      BY <3>1, <3>2, <3>4, <3>5 DEF Owned
  <2>12. TimeInv'
    <3>1. procs'[p].upd = procs[p].upd /\ "signcert" \in Early
      BY <2>6, <2>7 DEF Early
    <3>2. procs[p].pc \notin {"custom", "check"}
      BY <1>1 DEF At
    <3>3. UNCHANGED <<setup, now, cert, timers, up, jobs, updates, mishaps>>
      BY <1>1, <2>1 DEF certFrame, hsmVars, operatorVars
    <3>4. procs'[p].read.exp = now + Lifetime \/ mishaps # {}
      BY <1>1, <2>6, <2>7 DEF TimeInv, Timely, At
    <3> QED
      BY <2>7, <3>1, <3>2, <3>3, <3>4, TimeCalm
  <2> QED
    BY <2>8, <2>9, <2>10, <2>11, <2>12
<1> QED
  BY <1>2, <1>3

\* The certificate is written: no mishap unless somebody else is between his
\* two writes, or has changed the key that this process has used again.
LEMMA UpdateSignCertStep ==
  ASSUME IInv, NEW p \in Procs, UpdateSignCert(p)
  PROVE  IInv'
<1> USE DEF IInv
<1> DEFINE c == CertOf(p)
           raced == \/ ~NewKey(p) /\ procs[p].key # keystore[c]
                    \/ \E q \in Procs \ {p} : At(q, "keystore") /\ CertOf(q) = c
<1>1. /\ At(p, "signcert") /\ Goto(p, "keystore") /\ "keystore" \in PCs
      /\ cert' = [cert EXCEPT ![c] = procs[p].read]
      /\ updates' = updates \cup {<<"updated", c>>}
      /\ UNCHANGED <<certFrame, keystore, generated, files, timers, up, events>>
  BY DEF UpdateSignCert, PCs
<1>2. mishaps' = mishaps \cup If("raced", raced)
  BY DEF UpdateSignCert, Note
<1>3. mishaps \subseteq mishaps' /\ mishaps' \subseteq Mishaps /\ (raced => "raced" \in mishaps')
  <2> HIDE DEF raced
  <2> QED
    BY <1>2 DEF If, TypeOK, Mishaps
<1>4. procs[p].read \in Certificates /\ c \in Certs /\ <<"updated", c>> \in Updates
  <2>1. procs[p] \in Processes /\ c \in Certs
    BY CertOfType
  <2> HIDE DEF c
  <2> QED
    BY <2>1 DEF Processes, Updates
<1>5. /\ Moves(p, "keystore")
      /\ procs'[p].upd = procs[p].upd /\ procs'[p].read = procs[p].read
      /\ procs'[p].key = procs[p].key /\ procs'[p].rstatus = procs[p].rstatus
  BY <1>1, GotoMoves
<1>6. /\ cert' \in [Certs -> Certificates] /\ cert'[c] = procs[p].read
      /\ \A d \in Certs : d # c => cert'[d] = cert[d]
  <2> HIDE DEF c
  <2> QED
    BY <1>1, <1>4 DEF TypeOK
<1>7. TypeOK'
  BY <1>1, <1>3, <1>4, <1>5, <1>6 DEF TypeOK, Moves, certFrame, hsmVars
<1>8. Course'
  <2>1. p = "worker" => procs'[p].rstatus # "none"
    BY <1>1, <1>5 DEF Course, At
  <2>2. p \in Callbacks => procs'[p].upd[1] = "reenroll"
    BY <1>1, <1>5 DEF Course, At
  <2>3. \A d \in Certs : IsFiniteSet(files'[d])
    BY <1>1 DEF Course
  <2> QED
    BY <1>5, <2>1, <2>2, <2>3, CourseMoves DEF Ecerts
<1>9. KeyInv'
  <2>1. InHand(p)'
    BY <1>5 DEF InHand, At, Moves
  <2>2. \A q \in Procs \ {p} : InHand(q)'
    <3>1. \A d \in Certs : files'[d] = files[d]
      BY <1>1
    <3>2. ~At(p, "idle") /\ UNCHANGED setup
      BY <1>1 DEF At, certFrame
    <3> QED
      BY <1>5, <3>1, <3>2, OthersInHand
  <2>3. ASSUME (mishaps \cap {"raced", "split"})' = {}, NEW d \in Certs, ~InHSM(d)'
        PROVE  Pair(d)'
    <3>1. Pair(d) /\ ~raced /\ ~InHSM(d)
      BY <1>1, <1>3, <2>3 DEF KeyInv, InHSM, certFrame
    <3>2. CASE d = c
      <4>1. \A q \in Procs : InKeystoreWrite(q, d)' => q = p
        BY <1>5, <3>1, <3>2 DEF InKeystoreWrite, At, CertOf, Moves, Same
      <4>2. InKeystoreWrite(p, d)'
        BY <1>5, <3>2 DEF InKeystoreWrite, At, CertOf, Moves
      <4>3. procs[p].read.key = procs[p].key /\ (~NewKey(p) => procs[p].key = keystore[c])
        BY <1>1, <3>1, <3>2 DEF KeyInv, InHand
      <4>4. cert'[d].key = IF NewKey(p)' THEN procs'[p].key ELSE keystore'[d]
        BY <1>1, <1>5, <1>6, <3>2, <4>3 DEF NewKey
      <4> QED
        BY <4>1, <4>2, <4>4 DEF Pair
    <3>3. CASE d # c
      <4>1. \A q \in Procs : InKeystoreWrite(q, d)' <=> InKeystoreWrite(q, d)
        BY <1>1, <1>5, <3>3 DEF InKeystoreWrite, At, CertOf, Moves, Same
      <4>2. \A q \in Procs : procs'[q].key = procs[q].key /\ NewKey(q)' = NewKey(q)
        BY <1>5 DEF NewKey, Moves, Same
      <4>3. cert'[d] = cert[d] /\ keystore' = keystore
        BY <1>1, <1>6, <3>3
      <4> QED
        BY <3>1, <4>1, <4>2, <4>3 DEF Pair
    <3> QED
      BY <3>2, <3>3
  <2> QED
    BY <2>1, <2>2, <2>3 DEF KeyInv
<1>10. OwnInv'
  BY <1>1, <1>3, <1>5, OwnCalm DEF At, InJob, certFrame, hsmVars
<1>11. TimeInv'
  <2> SUFFICES ASSUME mishaps' = {} PROVE Timely'
    BY DEF TimeInv
  <2>1. Timely /\ UNCHANGED <<setup, now, timers, up, jobs>>
    BY <1>1, <1>3 DEF TimeInv, certFrame, hsmVars
  <2>2. procs[p].read.exp = now + Lifetime
    BY <1>1, <2>1 DEF Timely, At
  <2>3. /\ now \in Nat /\ Lifetime \in Nat /\ WarningPeriod \in Nat /\ Lifetime > 0
        /\ \A d \in Certs : cert[d].exp \in Nat /\ timers[d] \in Int
    BY ConstantsOK DEF TypeOK, Certificates, Never
  <2>4. ASSUME NEW d \in Certs
        PROVE  /\ cert'[d].exp <= now + Lifetime /\ cert[d].exp <= cert'[d].exp
               /\ Expired(d)' => Expired(d)
               /\ timers[d] <= now \/ timers[d] <= cert'[d].exp - WarningPeriod
    <3>1. cert[d].exp <= now + Lifetime
          /\ (timers[d] <= now \/ timers[d] <= cert[d].exp - WarningPeriod)
      BY <2>1 DEF Timely
    <3>2. cert'[d].exp = now + Lifetime \/ cert'[d].exp = cert[d].exp
      BY <1>6, <2>2
    <3> QED
      BY <2>1, <2>3, <3>1, <3>2 DEF Expired
  <2>5. ASSUME NEW d \in Certs, Attended(d) PROVE Attended(d)'
    <3>1. CASE d = c
      <4>1. <<"updated", d>> \in updates' /\ CertificateChanged(<<"updated", d>>)
        BY <1>1, <3>1 DEF CertificateChanged
      <4> QED
        BY <4>1 DEF Attended, CertificateChanged
    <3>2. CASE d # c
      <4>1. \A q \in Callbacks : Renewing(q) /\ CertOf(q) = d => Renewing(q)' /\ CertOf(q)' = d
        BY <1>5, <2>1, <3>2 DEF Renewing, CertOf, Moves, Same, Procs
      <4>2. procs["worker"].pc \in {"custom", "check"} => Same("worker")
        BY <1>1, <1>5 DEF Moves, Procs, At
      <4>3. timers' = timers /\ updates \subseteq updates'
        BY <1>1
      <4> QED
        BY <2>5, <4>1, <4>2, <4>3 DEF Attended, CertificateChanged, CertOf, Same
    <3> QED
      BY <3>1, <3>2
  <2>6. \A d \in Certs : AutoRenewed(d)' = AutoRenewed(d)
    BY <2>1 DEF AutoRenewed
  <2>7. \A q \in Procs : procs'[q].pc \in {"readkey", "signcert"} => procs'[q].read.exp = now + Lifetime
    BY <1>5, <2>1 DEF Timely, Moves, Same
  <2> QED
    BY <2>1, <2>4, <2>5, <2>6, <2>7 DEF Timely
<1> QED
  BY <1>7, <1>8, <1>9, <1>10, <1>11

\* The key is written: the pair is whole again.
LEMMA UpdateKeyStep ==
  ASSUME IInv, NEW p \in Procs, UpdateKey(p)
  PROVE  IInv'
<1> USE DEF IInv
<1> DEFINE c == CertOf(p)
           key == IF NewKey(p) /\ ~InHSM(c) THEN procs[p].key ELSE keystore[c]
<1>1. /\ At(p, "keystore") /\ Finish(p) /\ keystore' = [keystore EXCEPT ![c] = key]
      /\ UNCHANGED <<certFrame, cert, generated, files, operatorVars, historyVars>>
  BY DEF UpdateKey
<1>2. c \in Certs /\ key \in Keys
  <2>1. procs[p] \in Processes /\ c \in Certs
    BY CertOfType
  <2> HIDE DEF c
  <2> QED
    BY <2>1 DEF TypeOK, Processes
<1>3. /\ Moves(p, After(p))
      /\ p = "worker" => procs'[p].upd = procs[p].upd /\ procs'[p].rstatus = procs[p].rstatus
  BY <1>1, FinishMoves
<1>4. After(p) \in {"status", "idle"} /\ (p \in Callbacks => After(p) = "idle")
  BY DEF After, Callbacks
<1>5. /\ keystore' \in [Certs -> Keys] /\ keystore'[c] = key
      /\ \A d \in Certs : d # c => keystore'[d] = keystore[d]
  <2> HIDE DEF c, key
  <2> QED
    BY <1>1, <1>2 DEF TypeOK
<1>6. TypeOK'
  BY <1>1, <1>3, <1>5 DEF TypeOK, Moves, certFrame, hsmVars, operatorVars, historyVars
<1>7. Course'
  <2>1. p = "worker" => procs'[p].rstatus # "none"
    BY <1>1, <1>3 DEF Course, At
  <2>2. \A d \in Certs : IsFiniteSet(files'[d])
    BY <1>1 DEF Course
  <2> QED
    BY <1>3, <1>4, <2>1, <2>2, CourseMoves DEF Ecerts
<1>8. KeyInv'
  <2>1. InHand(p)'
    BY <1>3, <1>4 DEF InHand, At, Moves
  <2>2. \A q \in Procs \ {p} : InHand(q)'
    <3>1. \A d \in Certs : files'[d] = files[d]
      BY <1>1
    <3>2. ~At(p, "idle") /\ UNCHANGED setup
      BY <1>1 DEF At, certFrame
    <3> QED
      BY <1>3, <3>1, <3>2, OthersInHand
  <2>3. ASSUME (mishaps \cap {"raced", "split"})' = {}, NEW d \in Certs, ~InHSM(d)'
        PROVE  Pair(d)'
    <3>1. Pair(d) /\ ~InHSM(d)
      BY <1>1, <2>3 DEF KeyInv, InHSM, certFrame, historyVars
    <3>2. CASE d = c
      <4>1. InKeystoreWrite(p, d)
        BY <1>1, <3>2 DEF InKeystoreWrite
      <4>2. \A q \in Procs : ~InKeystoreWrite(q, d)'
        BY <1>3, <1>4, <3>1, <4>1 DEF Pair, InKeystoreWrite, At, CertOf, Moves, Same
      <4>3. cert[d].key = IF NewKey(p) THEN procs[p].key ELSE keystore[d]
        BY <3>1, <4>1 DEF Pair
      <4>4. cert'[d].key = keystore'[d]
        BY <1>1, <1>5, <3>1, <3>2, <4>3
      <4> QED
        BY <4>2, <4>4 DEF Pair
    <3>3. CASE d # c
      <4>1. \A q \in Procs : InKeystoreWrite(q, d)' <=> InKeystoreWrite(q, d)
        BY <1>1, <1>3, <1>4, <3>3 DEF InKeystoreWrite, At, CertOf, Moves, Same
      <4>2. \A q \in Procs : InKeystoreWrite(q, d) =>
               procs'[q].key = procs[q].key /\ NewKey(q)' = NewKey(q)
        BY <1>3, <3>3 DEF InKeystoreWrite, CertOf, NewKey, Moves, Same
      <4>3. cert' = cert /\ keystore'[d] = keystore[d]
        BY <1>1, <1>5, <3>3
      <4> QED
        BY <3>1, <4>1, <4>2, <4>3 DEF Pair
    <3> QED
      BY <3>2, <3>3
  <2> QED
    BY <2>1, <2>2, <2>3 DEF KeyInv
<1>9. OwnInv'
  BY <1>1, <1>3, <1>4, OwnCalm DEF At, InJob, certFrame, hsmVars, historyVars
<1>10. TimeInv'
  <2>1. ~Renewing(p) /\ procs[p].pc \notin {"custom", "check"}
    BY <1>1 DEF Renewing, At
  <2>2. UNCHANGED <<setup, now, cert, timers, up, jobs, updates, mishaps>>
    BY <1>1 DEF certFrame, hsmVars, operatorVars, historyVars
  <2> QED
    BY <1>3, <1>4, <2>1, <2>2, TimeCalm
<1> QED
  BY <1>6, <1>7, <1>8, <1>9, <1>10

-----------------------------------------------------------------------------
(* ... and by a job                                                        *)

\* The part of the invariant that the jobs are not about.
LEMMA JobCalm ==
  ASSUME IInv, NEW p \in Procs, NEW pc, Moves(p, pc), procs[p].pc \in Ecerts,
         pc \in Ecerts \cup {"status", "idle"}, p \in Callbacks => pc # "status",
         pc # "idle" => procs'[p].upd = procs[p].upd,
         p = "worker" => procs'[p].rstatus = procs[p].rstatus \/ procs'[p].rstatus # "none",
         UNCHANGED <<setup, cert, keystore, files>>, mishaps \subseteq mishaps'
  PROVE  Course' /\ KeyInv'
<1> USE DEF IInv
<1>1. procs[p].upd[2] = "ecert"
  BY DEF Course, CertOf, Ecerts
<1>2. p \in Callbacks => procs[p].upd[1] = "reenroll"
  BY DEF Course, At, Ecerts
<1>3. p = "worker" => procs[p].rstatus # "none"
  BY DEF Course, Ecerts
<1>4. \A c \in Certs : IsFiniteSet(files'[c])
  BY DEF Course
<1>5. Course'
  <2>1. pc \in Ecerts => procs'[p].upd[2] = "ecert"
    BY <1>1 DEF Ecerts
  <2>2. p \in Callbacks /\ pc # "idle" => procs'[p].upd[1] = "reenroll"
    BY <1>2
  <2> QED
    BY <1>3, <1>4, <2>1, <2>2, CourseMoves
<1>6. KeyInv'
  <2>1. ~At(p, "keystore") /\ pc \notin {"readkey", "signcert", "keystore"}
    BY DEF At, Ecerts
  <2> QED
    BY <2>1, KeysCalm
<1> QED
  BY <1>5, <1>6

\* Goroutines that have not renewed their certificate go on.
LEMMA AttendedKept ==
  ASSUME NEW c \in Certs, Attended(c), UNCHANGED timers, updates \subseteq updates',
         \A q \in Callbacks : Renewing(q) /\ CertOf(q) = c => Renewing(q)' /\ CertOf(q)' = c,
         procs["worker"].pc \in {"custom", "check"} => Same("worker")
  PROVE  Attended(c)'
BY DEF Attended, CertificateChanged, CertOf, Same

LEMMA JobTime ==
  ASSUME TypeOK, TimeInv, NEW p \in Procs, NEW pc, Moves(p, pc), procs[p].pc \in Ecerts,
         UNCHANGED <<setup, now, cert, up, timers, updates>>, mishaps \subseteq mishaps',
         pc \notin {"readkey", "signcert"},
         \A q \in Procs \ {p} : jobs'[q] = jobs[q],
         p \in Callbacks /\ Renewing(p) => Renewing(p)' /\ procs'[p].upd = procs[p].upd
  PROVE  TimeInv'
<1>1. \A q \in Callbacks : Renewing(q) => Renewing(q)' /\ CertOf(q)' = CertOf(q)
  BY DEF Renewing, CertOf, Moves, Same, Procs
<1>2. procs["worker"].pc \in {"custom", "check"} => Same("worker")
  BY DEF Moves, Procs, Ecerts
<1>3. \A c \in Certs : Attended(c) => Attended(c)'
  BY <1>1, <1>2, AttendedKept
<1> QED
  BY <1>3, TimeMoves

LEMMA CreateRootTLSSecretStep ==
  ASSUME IInv, NEW p \in Procs, CreateRootTLSSecret(p)
  PROVE  IInv'
<1> USE DEF IInv
<1>1. /\ At(p, "prepare") /\ Goto(p, "job") /\ "job" \in PCs
      /\ rootTLS' = IF rootTLS = Absent THEN trust ELSE rootTLS
      /\ clientCfg' = TRUE
      /\ mishaps' = mishaps \cup If("leftover", rootTLS # Absent)
      /\ UNCHANGED <<jobFrame, jobs, events>>
  BY DEF CreateRootTLSSecret, PCs, Note
<1>2. /\ Moves(p, "job")
      /\ procs'[p].upd = procs[p].upd /\ procs'[p].rstatus = procs[p].rstatus
  BY <1>1, GotoMoves
<1>3. /\ mishaps \subseteq mishaps' /\ mishaps' \subseteq Mishaps
      /\ rootTLS # Absent => "leftover" \in mishaps'
  BY <1>1 DEF If, TypeOK, Mishaps
<1>4. rootTLS' \in Nat /\ rootTLS' # Absent /\ clientCfg' = TRUE
  BY <1>1 DEF TypeOK, Absent
<1>5. TypeOK'
  <2>1. clientCfg' \in BOOLEAN
    BY <1>1, Zenon
  <2> QED
    BY <1>1, <1>2, <1>3, <1>4, <2>1 DEF TypeOK, Moves, jobFrame, certVars, operatorVars
<1>6. Course' /\ KeyInv'
  BY <1>1, <1>2, <1>3, JobCalm DEF At, Ecerts, jobFrame, certVars
<1>7. OwnInv'
  <2> SUFFICES ASSUME (mishaps \subseteq {"conflict", "raced", "down"})' PROVE Owned'
    BY DEF OwnInv
  <2>1. Owned /\ rootTLS = Absent
    BY <1>3 DEF OwnInv
  <2>2. \A q \in Procs : ~InJob(q)
    BY <2>1 DEF Owned
  <2>3. \A q \in Procs : InJob(q)' => q = p
    BY <1>2, <2>2 DEF InJob, Moves, Same
  <2>4. InJob(p)'
    BY <1>2 DEF InJob, Moves
  <2>5. \A q \in Procs : jobs'[q] # NoJob => procs'[q].pc \in {"active", "finished", "clean"}
    BY <1>1, <2>1, <2>2 DEF Owned, InJob
  <2>6. \A c \in Certs : files'[c] # {} => \E q \in Procs : At(q, "readkey")' /\ CertOf(q)' = c
    BY <1>1, <1>2, <2>1 DEF Owned, At, CertOf, Moves, Same, jobFrame, certVars
  <2> QED
    BY <1>4, <2>3, <2>4, <2>5, <2>6 DEF Owned
<1>8. TimeInv'
  <2>1. Renewing(p)' /\ procs[p].pc \in Ecerts
    BY <1>1, <1>2 DEF Renewing, Moves, At, Ecerts
  <2>2. UNCHANGED <<setup, now, cert, up, timers, updates, jobs>>
    BY <1>1 DEF jobFrame, certVars, operatorVars
  <2> QED
    BY <1>2, <1>3, <2>1, <2>2, JobTime
<1> QED
  BY <1>5, <1>6, <1>7, <1>8

\* A process gives up its job, or takes it for done: a mishap.
LEMMA GivesUp ==
  ASSUME IInv, TypeOK', NEW p \in Procs, procs[p].pc \in Ecerts, Abort(p) \/ Finish(p),
         NEW name \in {"jobFailed", "pending", "collided"}, name \in mishaps',
         UNCHANGED <<setup, cert, keystore, files>>, mishaps \subseteq mishaps'
  PROVE  IInv'
<1> USE DEF IInv
<1>1. /\ Moves(p, After(p))
      /\ p = "worker" => /\ procs'[p].upd = procs[p].upd
                         /\ procs'[p].rstatus = procs[p].rstatus \/ procs'[p].rstatus # "none"
  <2>1. CASE Abort(p)
    BY <2>1, AbortMoves
  <2>2. CASE Finish(p)
    BY <2>2, FinishMoves
  <2> QED
    BY <2>1, <2>2
<1>2. After(p) \in {"status", "idle"} /\ (After(p) = "status" <=> p = "worker")
  BY DEF After
<1>3. p \in Callbacks => p # "worker"
  BY DEF Callbacks
<1>4. Course' /\ KeyInv'
  BY <1>1, <1>2, <1>3, JobCalm
<1>5. OwnInv' /\ TimeInv'
  BY DEF OwnInv, TimeInv
<1> QED
  BY <1>4, <1>5

\* Steps between the jobs' places.
LEMMA OwnJob ==
  ASSUME TypeOK, OwnInv, NEW p \in Procs, NEW pc, Moves(p, pc), InJob(p),
         pc \in {"active", "finished", "clean"},
         UNCHANGED <<rootTLS, clientCfg, files>>, mishaps \subseteq mishaps',
         \A q \in Procs \ {p} : jobs'[q] = jobs[q]
  PROVE  OwnInv'
<1> SUFFICES ASSUME (mishaps \subseteq {"conflict", "raced", "down"})' PROVE Owned'
  BY DEF OwnInv
<1>1. Owned
  BY DEF OwnInv
<1>2. \A q \in Procs : InJob(q)' <=> InJob(q)
  BY DEF InJob, Moves, Same
<1>3. \A q \in Procs : jobs'[q] # NoJob => procs'[q].pc \in {"active", "finished", "clean"}
  BY <1>1 DEF Owned, Moves, Same
<1>4. \A q \in Procs : At(q, "readkey") => At(q, "readkey")' /\ CertOf(q)' = CertOf(q)
  BY DEF At, CertOf, Moves, Same, InJob
<1> QED
  BY <1>1, <1>2, <1>3, <1>4 DEF Owned

LEMMA CreateJobStep ==
  ASSUME IInv, NEW p \in Procs, CreateJob(p)
  PROVE  IInv'
<1> USE DEF IInv
<1> DEFINE job == [NoJob EXCEPT !.state = "created", !.does = procs[p].upd[1]]
<1>1. /\ At(p, "job") /\ Goto(p, "active") /\ "active" \in PCs
      /\ jobs' = [jobs EXCEPT ![p] = job]
      /\ UNCHANGED <<jobFrame, rootTLS, clientCfg, historyVars>>
  BY DEF CreateJob, PCs
<1>2. /\ Moves(p, "active")
      /\ procs'[p].upd = procs[p].upd /\ procs'[p].rstatus = procs[p].rstatus
  BY <1>1, GotoMoves
<1>3. job \in Jobs /\ job.state = "created"
  <2>1. procs[p].upd \in Updates
    BY CertOfType
  <2>2. procs[p].upd[1] \in {"none", "reenroll", "newkey", "enroll", "created", "updated"}
    BY <2>1 DEF Updates, Requests
  <2> QED
    BY <2>2 DEF Jobs, JobStates, NoJob
<1> HIDE DEF job
<1>4. /\ jobs' \in [Procs -> Jobs] /\ jobs'[p] = job
      /\ \A q \in Procs \ {p} : jobs'[q] = jobs[q]
  BY <1>1, <1>3 DEF TypeOK
<1>5. TypeOK'
  BY <1>1, <1>2, <1>4 DEF TypeOK, Moves, jobFrame, certVars, operatorVars, historyVars
<1>6. Course' /\ KeyInv'
  BY <1>1, <1>2, JobCalm DEF At, Ecerts, jobFrame, certVars, historyVars
<1>7. OwnInv'
  BY <1>1, <1>2, <1>4, OwnJob DEF At, InJob, jobFrame, certVars, historyVars
<1>8. TimeInv'
  <2>1. Renewing(p)' /\ procs[p].pc \in Ecerts
    BY <1>1, <1>2, <1>3, <1>4 DEF Renewing, Moves, At, Ecerts
  <2>2. UNCHANGED <<setup, now, cert, up, timers, updates, mishaps>>
    BY <1>1 DEF jobFrame, certVars, operatorVars, historyVars
  <2> QED
    BY <1>2, <1>4, <2>1, <2>2, JobTime
<1> QED
  BY <1>5, <1>6, <1>7, <1>8

\* One step on, with the job.
LEMMA JobGoesOn ==
  ASSUME IInv, NEW p \in Procs, NEW pc \in {"finished", "clean"}, Goto(p, pc),
         procs[p].pc \in {"active", "finished"}, pc = "clean" => jobs[p].state = "done",
         UNCHANGED <<jobFrame, hsmVars, events>>, mishaps \subseteq mishaps', mishaps' \subseteq Mishaps
  PROVE  IInv'
<1> USE DEF IInv
<1>1. /\ Moves(p, pc)
      /\ procs'[p].upd = procs[p].upd /\ procs'[p].rstatus = procs[p].rstatus
  <2>1. pc \in PCs
    BY DEF PCs
  <2> QED
    BY <2>1, GotoMoves
<1>2. UNCHANGED <<setup, now, cert, keystore, files, up, timers, updates, jobs, rootTLS, clientCfg>>
  BY DEF jobFrame, certVars, operatorVars, hsmVars
<1>3. TypeOK'
  BY <1>1 DEF TypeOK, Moves, jobFrame, certVars, operatorVars, hsmVars
<1>4. procs[p].pc \in Ecerts /\ pc \in Ecerts /\ InJob(p)
  BY DEF Ecerts, InJob
<1>5. Course' /\ KeyInv'
  BY <1>1, <1>2, <1>4, JobCalm
<1>6. OwnInv'
  BY <1>1, <1>2, <1>4, OwnJob
<1>7. TimeInv'
  <2>1. Renewing(p) => Renewing(p)'
    BY <1>1, <1>2 DEF Renewing, Moves
  <2> QED
    BY <1>1, <1>2, <1>4, <2>1, JobTime
<1> QED
  BY <1>3, <1>5, <1>6, <1>7

\* The types, when only the process and the mishaps change.
LEMMA GaveUpType ==
  ASSUME TypeOK, NEW p \in Procs, Abort(p) \/ Finish(p), UNCHANGED <<jobFrame, hsmVars, events>>,
         mishaps' \subseteq Mishaps
  PROVE  TypeOK'
<1>1. procs' \in [Procs -> Processes]
  <2>1. CASE Abort(p)
    BY <2>1, AbortMoves DEF Moves
  <2>2. CASE Finish(p)
    BY <2>2, FinishMoves DEF Moves
  <2> QED
    BY <2>1, <2>2
<1> QED
  BY <1>1 DEF TypeOK, jobFrame, certVars, operatorVars, hsmVars

LEMMA WaitUntilActiveStep ==
  ASSUME IInv, NEW p \in Procs, WaitUntilActive(p)
  PROVE  IInv'
<1> USE DEF IInv
<1>1. At(p, "active") /\ UNCHANGED <<jobFrame, hsmVars, events>>
  BY DEF WaitUntilActive
<1>2. CASE jobs[p].state = "failed"
  <2>1. Abort(p) /\ mishaps' = mishaps \cup {"jobFailed"}
    BY <1>2 DEF WaitUntilActive, Note
  <2>2. mishaps' \subseteq Mishaps /\ mishaps \subseteq mishaps' /\ "jobFailed" \in mishaps'
    BY <2>1 DEF TypeOK, Mishaps
  <2>3. TypeOK'
    BY <1>1, <2>1, <2>2, GaveUpType
  <2>4. procs[p].pc \in Ecerts /\ UNCHANGED <<setup, cert, keystore, files>>
    BY <1>1 DEF At, Ecerts, jobFrame, certVars
  <2> QED
    BY <2>1, <2>2, <2>3, <2>4, GivesUp
<1>3. CASE jobs[p].state # "failed"
  <2>1. Goto(p, "finished") /\ UNCHANGED mishaps /\ mishaps' \subseteq Mishaps
    BY <1>3 DEF WaitUntilActive, TypeOK
  <2> QED
    BY <1>1, <2>1, JobGoesOn DEF At
<1> QED
  BY <1>2, <1>3

\* However a pending pod is taken.
LEMMA EndedStep ==
  ASSUME IInv, NEW p \in Procs, WaitUntilFinished(p) \/ WaitUntilContainerFinished(p)
  PROVE  IInv'
<1> USE DEF IInv
<1> DEFINE state == jobs[p].state
<1>1. /\ At(p, "finished") /\ UNCHANGED <<jobFrame, hsmVars, events>>
      /\ mishaps' = mishaps \cup (If("jobFailed", state = "failed") \cup If("pending", state = "pending"))
      /\ \/ state = "done" /\ Goto(p, "clean")
         \/ state = "failed" /\ Abort(p)
         \/ state = "pending" /\ (Abort(p) \/ Finish(p))
  BY DEF WaitUntilFinished, WaitUntilContainerFinished, Ended, Note
<1>2. /\ mishaps \subseteq mishaps' /\ mishaps' \subseteq Mishaps
      /\ state = "failed" => "jobFailed" \in mishaps'
      /\ state = "pending" => "pending" \in mishaps'
  <2> HIDE DEF state
  <2> QED
    BY <1>1 DEF TypeOK, Mishaps, If
<1>3. CASE state = "done" /\ Goto(p, "clean")
  BY <1>1, <1>2, <1>3, JobGoesOn DEF At
<1>4. CASE state \in {"failed", "pending"} /\ (Abort(p) \/ Finish(p))
  <2>1. TypeOK'
    BY <1>1, <1>2, <1>4, GaveUpType
  <2>2. procs[p].pc \in Ecerts /\ UNCHANGED <<setup, cert, keystore, files>>
    BY <1>1 DEF At, Ecerts, jobFrame, certVars
  <2>3. "jobFailed" \in mishaps' \/ "pending" \in mishaps'
    BY <1>2, <1>4
  <2> QED
    BY <1>2, <1>4, <2>1, <2>2, <2>3, GivesUp
<1> QED
  BY <1>1, <1>3, <1>4

\* The owner of secret and config map deletes them.
LEMMA CleanUpStep ==
  ASSUME IInv, NEW p \in Procs, CleanUp(p)
  PROVE  IInv'
<1> USE DEF IInv
<1>1. /\ At(p, "clean") /\ jobs' = [jobs EXCEPT ![p] = NoJob] /\ rootTLS' = Absent
      /\ UNCHANGED <<jobFrame, events>>
  BY DEF CleanUp
<1>2. /\ jobs' \in [Procs -> Jobs] /\ jobs'[p] = NoJob
      /\ \A q \in Procs \ {p} : jobs'[q] = jobs[q]
  <2>1. NoJob \in Jobs
    BY DEF NoJob, Jobs, JobStates
  <2> QED
    BY <1>1, <2>1 DEF TypeOK
<1>3. procs[p].pc \in Ecerts /\ ~Renewing(p)
  BY <1>1 DEF At, Ecerts, Renewing
<1>4. UNCHANGED <<setup, now, cert, keystore, files, up, timers, updates>>
  BY <1>1 DEF jobFrame, certVars, operatorVars
<1>5. CASE rootTLS = Absent
  <2>1. Abort(p) /\ mishaps' = mishaps \cup {"collided"} /\ UNCHANGED clientCfg
    BY <1>5 DEF CleanUp, Note
  <2>2. procs' \in [Procs -> Processes]
    BY <2>1, AbortMoves DEF Moves
  <2>3. mishaps' \subseteq Mishaps /\ mishaps \subseteq mishaps' /\ "collided" \in mishaps'
    BY <2>1 DEF TypeOK, Mishaps
  <2>4. TypeOK'
    BY <1>1, <1>2, <2>1, <2>2, <2>3 DEF TypeOK, jobFrame, certVars, operatorVars
  <2> QED
    BY <1>3, <1>4, <2>1, <2>3, <2>4, GivesUp
<1>6. CASE rootTLS # Absent
  <2>1. clientCfg' = FALSE /\ Finish(p) /\ UNCHANGED mishaps
    BY <1>6 DEF CleanUp
  <2>2. /\ Moves(p, After(p))
        /\ p = "worker" => procs'[p].upd = procs[p].upd /\ procs'[p].rstatus = procs[p].rstatus
    BY <2>1, FinishMoves
  <2>3. /\ After(p) \in {"status", "idle"} /\ (After(p) = "status" <=> p = "worker")
        /\ p \in Callbacks => p # "worker"
    BY DEF After, Callbacks
  <2>4. TypeOK'
    <3>1. clientCfg' \in BOOLEAN
      BY <2>1, Zenon
    <3> QED
      BY <1>1, <1>2, <2>1, <2>2, <3>1 DEF TypeOK, Moves, jobFrame, certVars, operatorVars
  <2>5. Course' /\ KeyInv'
    BY <1>3, <1>4, <2>1, <2>2, <2>3, JobCalm
  <2>6. OwnInv'
    <3> SUFFICES ASSUME (mishaps \subseteq {"conflict", "raced", "down"})' PROVE Owned'
      BY DEF OwnInv
    <3>1. Owned /\ InJob(p)
      BY <1>1, <2>1 DEF OwnInv, InJob, At
    <3>2. \A q \in Procs : ~InJob(q)'
      BY <2>2, <2>3, <3>1 DEF Owned, InJob, Moves, Same
    <3>3. \A q \in Procs : jobs'[q] # NoJob => procs'[q].pc \in {"active", "finished", "clean"}
      BY <1>2, <2>2, <3>1 DEF Owned, Moves, Same
    <3>4. \A q \in Procs : At(q, "readkey") => At(q, "readkey")' /\ CertOf(q)' = CertOf(q)
      BY <1>1, <2>2 DEF At, CertOf, Moves, Same
    <3> QED
      BY <1>1, <1>4, <2>1, <3>1, <3>2, <3>3, <3>4 DEF Owned
  <2>7. TimeInv'
    BY <1>2, <1>3, <1>4, <2>1, <2>2, <2>3, JobTime
  <2> QED
    BY <2>4, <2>5, <2>6, <2>7
<1> QED
  BY <1>5, <1>6

\* A step of a job leaves the processes alone.
LEMMA OwnJobState ==
  ASSUME TypeOK, OwnInv, NEW p \in Procs, jobs[p].state # "none",
         UNCHANGED <<procs, rootTLS, clientCfg, files, mishaps>>,
         \A q \in Procs \ {p} : jobs'[q] = jobs[q]
  PROVE  OwnInv'
<1>1. jobs[p] # NoJob
  BY DEF NoJob
<1> QED
  BY <1>1 DEF OwnInv, Owned, InJob, At, CertOf

LEMMA JobStartsStep ==
  ASSUME IInv, NEW p \in Procs, JobStarts(p)
  PROVE  IInv'
<1> USE DEF IInv
<1>1. /\ jobs[p].state \in {"created", "pending"}
      /\ UNCHANGED <<jobFrame, rootTLS, clientCfg, procs, historyVars>>
  BY DEF JobStarts
<1>2. /\ jobs' \in [Procs -> Jobs] /\ jobs'[p].state # "done"
      /\ \A q \in Procs \ {p} : jobs'[q] = jobs[q]
  <2>1. jobs \in [Procs -> Jobs] /\ rootTLS \in Nat \cup {Absent}
    BY DEF TypeOK
  <2>2. CASE JobIs(p, "pending")
    BY <2>1, <2>2 DEF JobIs, Jobs, JobStates
  <2>3. CASE jobs' = [jobs EXCEPT ![p].state = "running", ![p].root = rootTLS]
    BY <2>1, <2>3 DEF Jobs, JobStates
  <2> QED
    BY <2>2, <2>3 DEF JobStarts
<1>3. TypeOK'
  BY <1>1, <1>2 DEF TypeOK, jobFrame, certVars, operatorVars, historyVars
<1>4. UNCHANGED <<setup, now, cert, keystore, files, up, timers, updates, procs, mishaps>>
  BY <1>1 DEF jobFrame, certVars, operatorVars, historyVars
<1>5. Course' /\ KeyInv'
  BY <1>4 DEF Course, KeyInv, InHand, Pair, InKeystoreWrite, At, CertOf, NewKey, InHSM
<1>6. OwnInv'
  BY <1>1, <1>2, <1>4, OwnJobState
<1>7. TimeInv'
  <2>1. \A q \in Callbacks : Renewing(q) => Renewing(q)' /\ CertOf(q)' = CertOf(q)
    BY <1>2, <1>4 DEF Renewing, CertOf, Procs
  <2>2. \A c \in Certs : Attended(c) => Attended(c)'
    BY <1>4, <2>1, AttendedKept DEF Same
  <2> QED
    BY <1>4, <2>2 DEF TimeInv, Timely, AutoRenewed, Expired
<1> QED
  BY <1>3, <1>5, <1>6, <1>7

\* The container writes the certificate of a key that is in the HSM.
LEMMA RunsStep ==
  ASSUME IInv, NEW p \in Procs, NEW newKey \in BOOLEAN, Runs(p, newKey), setup[2] \in {"hsm", "daemon"}
  PROVE  IInv'
<1> USE DEF IInv
<1>1. /\ jobs[p].state = "running"
      /\ UNCHANGED <<setup, now, trust, keystore, files, rootTLS, clientCfg, backup, status, timers, up,
                     procs, historyVars>>
  BY DEF Runs
<1>2. InHSM("ecert") /\ InHSM("ecert")'
  BY <1>1 DEF InHSM
<1>3. ASSUME NEW state \in {"done", "failed"}, JobIs(p, state)
      PROVE  /\ jobs' \in [Procs -> Jobs] /\ jobs'[p].state = state
             /\ \A q \in Procs \ {p} : jobs'[q] = jobs[q]
  BY <1>3 DEF JobIs, TypeOK, Jobs, JobStates
<1>4. CASE jobs[p].root = trust
  <2> DEFINE new == [exp |-> now + Lifetime, key |-> IF newKey THEN generated + 1 ELSE cert["ecert"].key]
  <2>1. /\ JobIs(p, "done")
        /\ generated' = IF newKey THEN generated + 1 ELSE generated
        /\ cert' = [cert EXCEPT !["ecert"] = new]
        /\ updates' = updates \cup If(<<"updated", "ecert">>, up)
    BY <1>4 DEF Runs
  <2>2. new \in Certificates /\ new.exp = now + Lifetime /\ generated' \in Keys
    <3>1. /\ now + Lifetime \in Nat /\ generated \in Nat /\ "ecert" \in Certs
          /\ cert["ecert"].key \in Nat
      BY ConstantsOK DEF TypeOK, Certificates, Keys, Certs
    <3> QED
      BY <2>1, <3>1 DEF Certificates, Keys
  <2> HIDE DEF new
  <2>3. cert' \in [Certs -> Certificates] /\ cert'["ecert"] = new /\ cert'["tls"] = cert["tls"]
    BY <2>1, <2>2 DEF TypeOK, Certs
  <2>4. /\ updates' \subseteq Updates /\ updates \subseteq updates'
        /\ up => <<"updated", "ecert">> \in updates'
    <3>1. <<"updated", "ecert">> \in Updates
      BY DEF Updates, Certs
    <3> QED
      BY <2>1, <3>1 DEF If, TypeOK
  <2>5. /\ jobs' \in [Procs -> Jobs]
        /\ \A q \in Procs \ {p} : jobs'[q] = jobs[q]
    BY <1>3, <2>1
  <2>6. TypeOK'
    BY <1>1, <2>2, <2>3, <2>4, <2>5 DEF TypeOK, historyVars
  <2>7. Course'
    BY <1>1 DEF Course, At, CertOf
  <2>8. KeyInv'
    <3>1. \A q \in Procs : InHand(q)'
      BY <1>1 DEF KeyInv, InHand, At, CertOf, NewKey, InHSM
    <3>2. ASSUME (mishaps \cap {"raced", "split"})' = {}, NEW c \in Certs, ~InHSM(c)' PROVE Pair(c)'
      <4>1. c = "tls" /\ cert'[c] = cert[c]
        BY <1>2, <2>3, <3>2 DEF Certs
      <4>2. Pair(c)
        BY <1>1, <3>2 DEF KeyInv, InHSM, historyVars
      <4> QED
        BY <1>1, <4>1, <4>2 DEF Pair, InKeystoreWrite, At, CertOf, NewKey
    <3> QED
      BY <3>1, <3>2 DEF KeyInv
  <2>9. OwnInv'
    BY <1>1, <2>5, OwnJobState DEF historyVars
  <2>10. TimeInv'
    <3> SUFFICES ASSUME mishaps' = {} PROVE Timely'
      BY DEF TimeInv
    <3>1. Timely /\ UNCHANGED <<setup, now, timers, up, procs>>
      BY <1>1 DEF TimeInv, historyVars
    <3>2. /\ now \in Nat /\ Lifetime \in Nat /\ WarningPeriod \in Nat /\ Lifetime > 0
          /\ \A d \in Certs : cert[d].exp \in Nat /\ timers[d] \in Int
      BY ConstantsOK DEF TypeOK, Certificates, Never
    <3>3. ASSUME NEW d \in Certs
          PROVE  /\ cert'[d].exp <= now + Lifetime
                 /\ Expired(d)' => Expired(d)
                 /\ timers[d] <= now \/ timers[d] <= cert'[d].exp - WarningPeriod
      <4>1. cert[d].exp <= now + Lifetime
            /\ (timers[d] <= now \/ timers[d] <= cert[d].exp - WarningPeriod)
        BY <3>1 DEF Timely
      <4>2. cert'[d].exp = now + Lifetime \/ cert'[d].exp = cert[d].exp
        BY <2>2, <2>3 DEF Certs
      <4> QED
        BY <3>1, <3>2, <4>1, <4>2 DEF Expired
    <3>4. ASSUME NEW d \in Certs, Attended(d) PROVE Attended(d)'
      <4>1. CASE d = "ecert"
        <5>1. <<"updated", d>> \in updates' /\ CertificateChanged(<<"updated", d>>)
          BY <2>4, <3>1, <4>1 DEF CertificateChanged, Timely
        <5> QED
          BY <5>1 DEF Attended, CertificateChanged
      <4>2. CASE d # "ecert"
        <5>1. \A q \in Callbacks : Renewing(q) /\ CertOf(q) = d => Renewing(q)' /\ CertOf(q)' = d
          BY <2>5, <3>1, <4>2 DEF Renewing, CertOf, Procs, Course
        <5> QED
          BY <2>4, <3>1, <3>4, <5>1, AttendedKept DEF Same
      <4> QED
        BY <4>1, <4>2
    <3> QED
      BY <3>1, <3>3, <3>4 DEF Timely, AutoRenewed
  <2> QED
    BY <2>6, <2>7, <2>8, <2>9, <2>10
<1>5. CASE jobs[p].root # trust
  <2>1. JobIs(p, "failed") /\ UNCHANGED <<generated, cert, updates>>
    BY <1>5 DEF Runs
  <2>2. /\ jobs' \in [Procs -> Jobs] /\ jobs'[p].state = "failed"
        /\ \A q \in Procs \ {p} : jobs'[q] = jobs[q]
    BY <1>3, <2>1
  <2>3. TypeOK'
    BY <1>1, <2>1, <2>2 DEF TypeOK, historyVars
  <2>4. Course' /\ KeyInv'
    BY <1>1, <2>1 DEF Course, KeyInv, InHand, Pair, InKeystoreWrite, At, CertOf, NewKey, InHSM, historyVars
  <2>5. OwnInv'
    BY <1>1, <2>2, OwnJobState DEF historyVars
  <2>6. TimeInv'
    <3>1. \A q \in Callbacks : Renewing(q) => Renewing(q)' /\ CertOf(q)' = CertOf(q)
      BY <1>1, <2>2 DEF Renewing, CertOf, Procs
    <3>2. \A c \in Certs : Attended(c) => Attended(c)'
      BY <1>1, <2>1, <3>1, AttendedKept DEF Same
    <3> QED
      BY <1>1, <2>1, <3>2 DEF TimeInv, Timely, AutoRenewed, Expired, historyVars
  <2> QED
    BY <2>3, <2>4, <2>5, <2>6
<1> QED
  BY <1>4, <1>5

-----------------------------------------------------------------------------
(* Failures, users and time                                                *)

LEMMA FailStep ==
  ASSUME IInv, NEW p \in Procs, Fail(p)
  PROVE  IInv'
<1> USE DEF IInv
<1>1. /\ procs[p].pc \notin {"idle", "custom", "request", "status"} /\ Event
      /\ mishaps' = mishaps \cup ({"failed"} \cup If("split", At(p, "keystore")))
      /\ UNCHANGED <<setup, now, certVars, trust, hsmVars, backup, status, operatorVars>>
  BY DEF Fail, Note
<1>2. /\ mishaps \subseteq mishaps' /\ mishaps' \subseteq Mishaps /\ "failed" \in mishaps'
      /\ At(p, "keystore") => "split" \in mishaps'
  BY <1>1 DEF If, TypeOK, Mishaps
<1>3. \E pc \in {"backup", "status", "idle"} :
         /\ Moves(p, pc)
         /\ p \in Callbacks => pc # "status"
         /\ pc # "idle" => procs'[p].upd = procs[p].upd
         /\ p = "worker" /\ pc # "backup" => procs'[p].rstatus = "error"
  <2>1. CASE At(p, "crstatus")
    <3>1. Goto(p, "backup") /\ "backup" \in PCs
      BY <2>1 DEF Fail, PCs
    <3> QED
      BY <3>1, GotoMoves
  <2>2. CASE ~At(p, "crstatus")
    <3>1. Abort(p)
      BY <2>2 DEF Fail
    <3>2. /\ Moves(p, After(p))
          /\ p = "worker" => procs'[p].upd = procs[p].upd /\ procs'[p].rstatus = "error"
      BY <3>1, AbortMoves
    <3>3. After(p) \in {"status", "idle"} /\ (After(p) = "status" <=> p = "worker")
      BY DEF After
    <3>4. p \in Callbacks => p # "worker"
      BY DEF Callbacks
    <3> QED
      BY <3>2, <3>3, <3>4
  <2> QED
    BY <2>1, <2>2
<1>4. PICK pc \in {"backup", "status", "idle"} :
         /\ Moves(p, pc)
         /\ p \in Callbacks => pc # "status"
         /\ pc # "idle" => procs'[p].upd = procs[p].upd
         /\ p = "worker" /\ pc # "backup" => procs'[p].rstatus = "error"
  BY <1>3
<1>5. TypeOK'
  BY <1>1, <1>2, <1>4, EventType DEF TypeOK, Moves, certVars, hsmVars, operatorVars
<1>6. Course'
  <2>1. p \in Callbacks /\ pc # "idle" => procs'[p].upd[1] = "reenroll"
    BY <1>1, <1>4 DEF Course, At
  <2>2. \A c \in Certs : IsFiniteSet(files'[c])
    BY <1>1 DEF Course, certVars
  <2> QED
    BY <1>4, <2>1, <2>2, CourseMoves DEF Ecerts, Unset
<1>7. KeyInv'
  BY <1>1, <1>2, <1>4, KeysCalm DEF certVars
<1>8. OwnInv' /\ TimeInv'
  BY <1>2 DEF OwnInv, TimeInv
<1> QED
  BY <1>5, <1>6, <1>7, <1>8

LEMMA CrashStep ==
  ASSUME IInv, Crash
  PROVE  IInv'
<1> USE DEF IInv
<1> DEFINE split == \E p \in Procs : At(p, "keystore")
<1>1. /\ Event /\ up' = FALSE /\ updates' = {} /\ timers' = [c \in Certs |-> Never]
      /\ procs' = [p \in Procs |-> Idle] /\ files' = [c \in Certs |-> {}]
      /\ mishaps' = mishaps \cup ({"crashed"} \cup If("split", split))
      /\ UNCHANGED <<setup, now, cert, keystore, generated, trust, hsmVars, backup, status>>
  BY DEF Crash, Note
<1>2. /\ mishaps \subseteq mishaps' /\ mishaps' \subseteq Mishaps /\ "crashed" \in mishaps'
      /\ split => "split" \in mishaps'
  <2> HIDE DEF split
  <2> QED
    BY <1>1 DEF If, TypeOK, Mishaps
<1>3. procs' \in [Procs -> Processes] /\ \A p \in Procs : procs'[p] = Idle /\ procs'[p].pc = "idle"
  BY <1>1, IdleType DEF Idle
<1>4. TypeOK'
  <2>1. up' \in BOOLEAN
    BY <1>1, Zenon
  <2>2. timers' \in [Certs -> Nat \cup {Never}] /\ files' \in [Certs -> SUBSET Keys]
    BY <1>1
  <2> QED
    BY <1>1, <1>2, <1>3, <2>1, <2>2, EventType DEF TypeOK, hsmVars
<1>5. Course'
  <2>1. \A c \in Certs : IsFiniteSet(files'[c])
    BY <1>1, FS_EmptySet
  <2> QED
    BY <1>3, <2>1 DEF Course, At, Procs
<1>6. KeyInv'
  <2>1. \A p \in Procs : InHand(p)'
    BY <1>3 DEF InHand, At
  <2>2. ASSUME (mishaps \cap {"raced", "split"})' = {}, NEW c \in Certs, ~InHSM(c)' PROVE Pair(c)'
    <3>1. Pair(c) /\ ~split
      BY <1>1, <1>2, <2>2 DEF KeyInv, InHSM
    <3>2. cert[c].key = keystore[c]
      BY <3>1 DEF Pair, InKeystoreWrite
    <3>3. \A p \in Procs : ~InKeystoreWrite(p, c)'
      BY <1>3 DEF InKeystoreWrite, At
    <3> QED
      BY <1>1, <3>2, <3>3 DEF Pair
  <2> QED
    BY <2>1, <2>2 DEF KeyInv
<1>7. OwnInv' /\ TimeInv'
  BY <1>2 DEF OwnInv, TimeInv
<1> QED
  BY <1>4, <1>5, <1>6, <1>7

LEMMA RestartStep ==
  ASSUME IInv, Restart
  PROVE  IInv'
<1> USE DEF IInv
<1>1. /\ ~up /\ up' = TRUE /\ updates' = {"created"} \X Certs
      /\ UNCHANGED <<setup, now, certVars, trust, hsmVars, backup, status, timers, procs, historyVars>>
  BY DEF Restart
<1>2. TypeOK'
  <2>1. up' \in BOOLEAN
    BY <1>1, Zenon
  <2>2. updates' \subseteq Updates
    BY <1>1 DEF Updates
  <2> QED
    BY <1>1, <2>1, <2>2 DEF TypeOK, certVars, hsmVars, historyVars
<1>3. Course' /\ KeyInv'
  BY <1>1 DEF Course, KeyInv, InHand, Pair, InKeystoreWrite, At, CertOf, NewKey, InHSM, certVars, historyVars
<1>4. OwnInv'
  BY <1>1 DEF OwnInv, Owned, InJob, At, CertOf, certVars, hsmVars, historyVars
<1>5. TimeInv'
  BY <1>1 DEF TimeInv, Timely, historyVars
<1> QED
  BY <1>2, <1>3, <1>4, <1>5

LEMMA AskStep ==
  ASSUME IInv, NEW request \in Requests, Ask(request) \/ NewCATLS
  PROVE  IInv'
<1> USE DEF IInv
<1>1. /\ Event /\ updates \subseteq updates' /\ updates' \subseteq Updates /\ trust' \in Nat
      /\ UNCHANGED <<setup, now, certVars, hsmVars, backup, status, timers, up, procs, mishaps>>
  BY DEF Ask, NewCATLS, TypeOK, Updates, operatorVars
<1>2. TypeOK'
  BY <1>1, EventType DEF TypeOK, certVars, hsmVars
<1>3. Course' /\ KeyInv'
  BY <1>1 DEF Course, KeyInv, InHand, Pair, InKeystoreWrite, At, CertOf, NewKey, InHSM, certVars
<1>4. OwnInv'
  BY <1>1 DEF OwnInv, Owned, InJob, At, CertOf, certVars, hsmVars
<1>5. TimeInv'
  <2>1. \A q \in Callbacks : Renewing(q) => Renewing(q)' /\ CertOf(q)' = CertOf(q)
    BY <1>1 DEF Renewing, CertOf, hsmVars
  <2>2. \A c \in Certs : Attended(c) => Attended(c)'
    BY <1>1, <2>1, AttendedKept DEF Same
  <2> QED
    BY <1>1, <2>2 DEF TimeInv, Timely, AutoRenewed, Expired, certVars
<1> QED
  BY <1>2, <1>3, <1>4, <1>5

\* A day passes when everything is done, so each certificate that is renewed
\* by itself has a timer, which is not due yet.
LEMMA TickStep ==
  ASSUME IInv, Tick
  PROVE  IInv'
<1> USE DEF IInv
<1>1. /\ now < MaxTime /\ now' = now + 1
      /\ up => /\ \A p \in Procs : At(p, "idle")
               /\ updates = {}
               /\ \A c \in Certs : timers[c] = Never \/ timers[c] > now
      /\ mishaps' = mishaps \cup If("down", ~up)
      /\ UNCHANGED <<setup, certVars, trust, hsmVars, backup, status, operatorVars, procs, events>>
  BY DEF Tick, Note
<1>2. mishaps \subseteq mishaps' /\ mishaps' \subseteq Mishaps /\ (~up => "down" \in mishaps')
  BY <1>1 DEF If, TypeOK, Mishaps
<1>3. TypeOK'
  <2>1. now' \in 0..MaxTime
    BY <1>1, ConstantsOK DEF TypeOK
  <2> QED
    BY <1>1, <1>2, <2>1 DEF TypeOK, certVars, hsmVars, operatorVars
<1>4. Course'
  BY <1>1 DEF Course, At, CertOf, certVars
<1>5. KeyInv'
  <2>1. mishaps' \cap {"raced", "split"} = {} => mishaps \cap {"raced", "split"} = {}
    BY <1>2
  <2> QED
    BY <1>1, <2>1 DEF KeyInv, InHand, Pair, InKeystoreWrite, At, CertOf, NewKey, InHSM, certVars
<1>6. OwnInv'
  <2>1. mishaps' \subseteq {"conflict", "raced", "down"} => mishaps \subseteq {"conflict", "raced", "down"}
    BY <1>2
  <2> QED
    BY <1>1, <2>1 DEF OwnInv, Owned, InJob, At, CertOf, certVars, hsmVars
<1>7. TimeInv'
  <2> SUFFICES ASSUME mishaps' = {} PROVE Timely'
    BY DEF TimeInv
  <2>1. Timely /\ up
    BY <1>2 DEF TimeInv
  <2>2. UNCHANGED <<setup, cert, timers, up, procs, updates>>
    BY <1>1 DEF certVars, operatorVars
  <2>3. ASSUME NEW c \in Certs
        PROVE  /\ cert'[c].exp <= now' + Lifetime
               /\ timers'[c] <= now' \/ timers'[c] <= cert'[c].exp - WarningPeriod
               /\ AutoRenewed(c)' => ~Expired(c)' /\ Attended(c)'
    <3>1. /\ now \in Nat /\ Lifetime \in Nat /\ WarningPeriod \in Nat \ {0}
          /\ cert[c].exp \in Nat /\ timers[c] \in Int
      BY ConstantsOK DEF TypeOK, Certificates, Never
    <3>2. /\ cert[c].exp <= now + Lifetime
          /\ timers[c] <= now \/ timers[c] <= cert[c].exp - WarningPeriod
          /\ AutoRenewed(c) => Attended(c)
      BY <2>1 DEF Timely
    <3>3. Attended(c) => timers[c] # Never
      BY <1>1, <2>1 DEF Attended, Renewing, At, Procs
    <3>4. AutoRenewed(c) => timers[c] # Never /\ timers[c] > now
      BY <1>1, <2>1, <3>2, <3>3
    <3>5. AutoRenewed(c)' = AutoRenewed(c)
      BY <2>2 DEF AutoRenewed
    <3>6. AutoRenewed(c) => ~Expired(c)'
      BY <1>1, <2>2, <3>1, <3>2, <3>4 DEF Expired
    <3>7. AutoRenewed(c) => Attended(c)'
      BY <2>2, <3>4 DEF Attended
    <3>8. /\ cert'[c].exp <= now' + Lifetime
          /\ timers'[c] <= now' \/ timers'[c] <= cert'[c].exp - WarningPeriod
      BY <1>1, <2>2, <3>1, <3>2
    <3> QED
      BY <3>5, <3>6, <3>7, <3>8
  <2>4. \A q \in Procs : procs'[q].pc \notin {"readkey", "signcert"}
    BY <1>1, <2>1, <2>2 DEF At
  <2> QED
    BY <2>1, <2>2, <2>3, <2>4 DEF Timely
<1> QED
  BY <1>3, <1>4, <1>5, <1>6, <1>7

-----------------------------------------------------------------------------
(* The theorems                                                            *)

LEMMA InitInv == Init => IInv
<1> SUFFICES ASSUME Init PROVE IInv
  OBVIOUS
<1>1. PICK start \in Starts : /\ cert = [c \in Certs |-> [key |-> 0, exp |-> start[c]]]
                              /\ events = start.events
  BY DEF Init
<1>2. /\ Lifetime \in Nat /\ \A c \in Certs : start[c] \in 1..Lifetime
      /\ start.events \in 0..MaxEvents
  BY ConstantsOK DEF Certs
<1>3. /\ cert \in [Certs -> Certificates]
      /\ \A c \in Certs : cert[c].key = 0 /\ cert[c].exp \in 1..Lifetime
  BY <1>1, <1>2 DEF Certificates, Keys
<1>4. procs \in [Procs -> Processes] /\ \A p \in Procs : procs[p] = Idle /\ procs[p].pc = "idle"
  BY IdleType DEF Init, Idle
<1>5. /\ jobs \in [Procs -> Jobs] /\ \A p \in Procs : jobs[p] = NoJob
  <2>1. NoJob \in Jobs
    BY DEF NoJob, Jobs, JobStates
  <2> QED
    BY <2>1 DEF Init
<1>6. /\ updates \subseteq Updates
      /\ \A c \in Certs : <<"created", c>> \in updates
  BY DEF Init, Updates
<1>7. TypeOK
  <2>1. up \in BOOLEAN /\ clientCfg \in BOOLEAN
    BY Zenon DEF Init
  <2>2. backup \in [Certs -> Seq(Keys)] /\ \A c \in Certs : Len(backup[c]) <= Iterations
    BY ConstantsOK DEF Init, NoBackup
  <2>3. now \in 0..MaxTime /\ events \in 0..MaxEvents
    BY <1>1, <1>2, ConstantsOK DEF Init
  <2>4. keystore \in [Certs -> Keys] /\ files \in [Certs -> SUBSET Keys] /\ generated \in Keys
    BY DEF Init, Keys
  <2>5. timers \in [Certs -> Nat \cup {Never}]
    BY DEF Init
  <2>6. setup \in Setups /\ trust \in Nat /\ rootTLS \in Nat \cup {Absent} /\ mishaps \subseteq Mishaps
        /\ status \in {"Deployed", "Warning", "Error"}
    BY DEF Init
  <2> QED
    BY <1>3, <1>4, <1>5, <1>6, <2>1, <2>2, <2>3, <2>4, <2>5, <2>6 DEF TypeOK
<1>8. Course
  <2>1. \A c \in Certs : IsFiniteSet(files[c])
    BY FS_EmptySet DEF Init
  <2> QED
    BY <1>4, <2>1 DEF Course, At, Procs
<1>9. KeyInv
  <2>1. \A p \in Procs : InHand(p)
    BY <1>4 DEF InHand, At
  <2>2. \A c \in Certs : Pair(c)
    BY <1>3, <1>4 DEF Init, Pair, InKeystoreWrite, At
  <2> QED
    BY <2>1, <2>2 DEF KeyInv
<1>10. OwnInv
  BY <1>4, <1>5 DEF Init, OwnInv, Owned, InJob
<1>11. TimeInv
  <2>1. \A c \in Certs : Attended(c)
    <3>1. \A c \in Certs : CertificateChanged(<<"created", c>>)
      BY DEF CertificateChanged
    <3> QED
      BY <1>6, <3>1 DEF Attended
  <2>2. \A c \in Certs : /\ cert[c].exp <= now + Lifetime /\ timers[c] <= now /\ ~Expired(c)
    BY <1>2, <1>3 DEF Init, Expired, Never
  <2>3. up
    BY DEF Init
  <2> QED
    BY <1>4, <2>1, <2>2, <2>3 DEF TimeInv, Timely
<1> QED
  BY <1>7, <1>8, <1>9, <1>10, <1>11 DEF IInv

LEMMA ProcStepInv ==
  ASSUME IInv, NEW p \in Procs, ProcStep(p)
  PROVE  IInv'
<1>1. CASE BackupCrypto(p) \/ UpdateBackupSecret(p) \/ RenewCert(p)
  BY <1>1, BackupCryptoStep, UpdateBackupSecretStep, RenewCertStep
<1>2. CASE Request(p) \/ ReadKey(p) \/ UpdateSignCert(p) \/ UpdateKey(p)
  BY <1>2, RequestStep, ReadKeyStep, UpdateSignCertStep, UpdateKeyStep
<1>3. CASE HSMReenroll(p) \/ HSMDaemonReenroll(p) \/ HSMEnroll(p) \/ HSMDaemonEnroll(p)
  <2>1. CreateRootTLSSecret(p)
    BY <1>3 DEF HSMReenroll, HSMDaemonReenroll, HSMEnroll, HSMDaemonEnroll
  <2> QED
    BY <2>1, CreateRootTLSSecretStep
<1>4. CASE CreateJob(p) \/ WaitUntilActive(p)
  BY <1>4, CreateJobStep, WaitUntilActiveStep
<1>5. CASE WaitUntilFinished(p) \/ WaitUntilContainerFinished(p)
  BY <1>5, EndedStep
<1>6. CASE CleanUp(p)
  BY <1>6, CleanUpStep
<1> QED
  BY <1>1, <1>2, <1>3, <1>4, <1>5, <1>6 DEF ProcStep

LEMMA JobStepInv ==
  ASSUME IInv, NEW p \in Procs, JobStep(p)
  PROVE  IInv'
<1>1. CASE JobStarts(p)
  BY <1>1, JobStartsStep
<1>2. CASE ~JobStarts(p)
  <2>1. setup[2] \in {"hsm", "daemon"}
    BY <1>2 DEF JobStep, HSMReenrollJob, HSMDaemonReenrollJob, HSMEnrollJob, HSMDaemonEnrollJob
  <2>2. Runs(p, jobs[p].does = "newkey") \/ Runs(p, TRUE)
    BY <1>2 DEF JobStep, HSMReenrollJob, HSMDaemonReenrollJob, HSMEnrollJob, HSMDaemonEnrollJob
  <2>3. (jobs[p].does = "newkey") \in BOOLEAN /\ TRUE \in BOOLEAN
    BY Zenon
  <2> QED
    BY <2>1, <2>2, <2>3, RunsStep
<1> QED
  BY <1>1, <1>2

LEMMA NextInv == IInv /\ [Next]_vars => IInv'
<1> SUFFICES ASSUME IInv, [Next]_vars PROVE IInv'
  OBVIOUS
<1>0. "worker" \in Procs /\ Callbacks \subseteq Procs
  BY DEF Procs
<1>1. CASE WorkerStep
  <2>1. CASE \E u \in Updates : Start(u)
    BY <2>1, StartStep
  <2>2. CASE CustomLogic \/ CheckCertificates \/ SetStatus
    BY <2>2, CustomLogicStep, CheckStep, SetStatusStep
  <2>3. CASE ProcStep("worker")
    BY <1>0, <2>3, ProcStepInv
  <2> QED
    BY <1>1, <2>1, <2>2, <2>3 DEF WorkerStep
<1>2. CASE Fires
  BY <1>2, TimerFiresStep DEF Fires
<1>3. ASSUME NEW p \in Callbacks, CallbackStep(p) PROVE IInv'
  <2>1. CASE PeerTimer(p)
    <3>1. UpdateCRStatus(p, TRUE) /\ TRUE \in BOOLEAN
      BY <2>1 DEF PeerTimer
    <3> QED
      BY <3>1, UpdateCRStatusStep
  <2>2. CASE OrdererTimer(p)
    <3> DEFINE renew == AutoRenewed(CertOf(p))
    <3>1. UpdateCRStatus(p, renew)
      BY <2>2 DEF OrdererTimer
    <3>2. renew \in BOOLEAN
      BY Zenon DEF AutoRenewed
    <3>3. renew \/ ~AutoRenewed(CertOf(p))
      OBVIOUS
    <3> HIDE DEF renew
    <3> QED
      BY <3>1, <3>2, <3>3, UpdateCRStatusStep
  <2>3. CASE ProcStep(p)
    BY <1>0, <2>3, ProcStepInv
  <2> QED
    BY <1>3, <2>1, <2>2, <2>3 DEF CallbackStep
<1>4. ASSUME NEW p \in Procs, JobStep(p) \/ Fail(p) \/ RequestFails(p) PROVE IInv'
  BY <1>4, JobStepInv, FailStep, RequestFailsStep
<1>5. ASSUME NEW request \in Requests, Ask(request) PROVE IInv'
  BY <1>5, AskStep
<1>6. CASE NewCATLS
  <2>1. <<"reenroll", "tls">> \in Requests
    BY DEF Requests, Certs
  <2> QED
    BY <1>6, <2>1, AskStep
<1>7. CASE Crash \/ Restart \/ Tick
  BY <1>7, CrashStep, RestartStep, TickStep
<1>8. CASE UNCHANGED vars
  <2>1. UNCHANGED <<setup, now, certVars, trust, hsmVars, backup, status, operatorVars, procs, historyVars>>
    BY <1>8 DEF vars
  <2>2. TypeOK'
    BY <2>1 DEF IInv, TypeOK, certVars, hsmVars, operatorVars, historyVars
  <2>3. Course' /\ KeyInv'
    BY <2>1 DEF IInv, Course, KeyInv, InHand, Pair, InKeystoreWrite, At, CertOf, NewKey, InHSM,
                certVars, historyVars
  <2>4. OwnInv'
    BY <2>1 DEF IInv, OwnInv, Owned, InJob, At, CertOf, certVars, hsmVars, historyVars
  <2>5. TimeInv'
    BY <2>1 DEF IInv, TimeInv, Timely, AutoRenewed, Expired, Attended, Renewing, CertOf,
                CertificateChanged, certVars, hsmVars, operatorVars, historyVars
  <2> QED
    BY <2>2, <2>3, <2>4, <2>5 DEF IInv
<1> QED
  BY <1>1, <1>2, <1>3, <1>4, <1>5, <1>6, <1>7, <1>8 DEF Next

\* The invariant holds in every behaviour of the renewal of certificates, for
\* every kind of node, lifetime, warning period and number of events.
LEMMA Inductive == Spec => []IInv
<1>1. Init => IInv
  BY InitInv
<1>2. IInv /\ [Next]_vars => IInv'
  BY NextInv
<1> QED
  BY <1>1, <1>2, PTL DEF Spec

\* Certificates, keys, jobs, timers and processes keep their types, and no
\* list of backups grows past its length.
THEOREM TypeCorrect == Spec => []TypeOK
<1>1. IInv => TypeOK
  BY DEF IInv
<1> QED
  BY <1>1, Inductive, PTL

\* ReenrollCert writes certificate and key to two secrets: but for a failure
\* or crash between the writes, and two renewals of a certificate at once, the
\* key in the keystore is that of the certificate beside it.
THEOREM KeysMatch == Spec => []KeysPaired
<1>1. IInv => KeysPaired
  <2> SUFFICES ASSUME IInv, mishaps \cap {"raced", "split"} = {}, NEW c \in Certs
               PROVE  \/ InHSM(c) \/ cert[c].key = keystore[c]
                      \/ \E p \in Procs : At(p, "keystore") /\ CertOf(p) = c
    BY DEF KeysPaired
  <2>1. InHSM(c) \/ Pair(c)
    BY DEF IInv, KeyInv
  <2> QED
    BY <2>1 DEF Pair, InKeystoreWrite
<1> QED
  BY <1>1, Inductive, PTL

\* The timers renew in time: no certificate that is renewed by itself expires,
\* as long as no call fails, nobody collides and the operator runs.
THEOREM NoneExpires == Spec => []RenewedInTime
<1>1. IInv => RenewedInTime
  BY DEF IInv, TimeInv, Timely, RenewedInTime
<1> QED
  BY <1>1, Inductive, PTL

\* A renewal that is done has removed its job, secret, config map and files.
THEOREM CleanedUp == Spec => []NothingLeftBehind
<1>1. IInv => NothingLeftBehind
  <2> SUFFICES ASSUME IInv, AllIdle, mishaps \subseteq {"conflict", "raced", "down"}
               PROVE  /\ rootTLS = Absent /\ ~clientCfg
                      /\ \A p \in Procs : jobs[p] = NoJob
                      /\ \A c \in Certs : files[c] = {}
    BY DEF NothingLeftBehind
  <2>1. Owned
    BY DEF IInv, OwnInv
  <2>2. \A p \in Procs : ~InJob(p) /\ procs[p].pc = "idle"
    BY DEF AllIdle, At, InJob
  <2> QED
    BY <2>1, <2>2 DEF Owned, At
<1> QED
  BY <1>1, Inductive, PTL

=============================================================================
