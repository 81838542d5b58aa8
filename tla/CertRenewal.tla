------------------------------ MODULE CertRenewal ------------------------------
(***************************************************************************)
(* The certificates of a deployed peer or orderer node: their expiry, the  *)
(* timers that renew them, re-enrolment and enrolment on request, in       *)
(* process or by the job of an HSM, and the backup of what they replace    *)
(* (pkg/certificate, pkg/initializer/common/enroller, the secret manager,  *)
(* pkg/offering/common/backupcrypto.go and the offerings' CustomLogic).    *)
(*                                                                         *)
(* Timers run in goroutines of their own, beside the controller's worker.  *)
(* Time passes in days, a call takes minutes: a day passes when every call *)
(* is done (or the operator is down).  Pods run, and edits reach the       *)
(* controller at once (FabricNode and UpdateStack have the rest).          *)
(***************************************************************************)
EXTENDS Integers, Sequences, FiniteSets, SequencesExt

CONSTANTS
    Setups,         \* kind of node, where the key of its ecert is, renewal of its TLS certificate
    Lifetime,       \* days a certificate is valid
    Starts,         \* days the node's certificates expire at first, and events to come (a bound)
    WarningPeriod,  \* NumSecondsWarningPeriod, in days
    Iterations,     \* length of the list of backups (ITERATIONS)
    MaxTime,        \* bound: days
    MaxEvents       \* bound: most requests, new CA certificates, failures and crashes

ASSUME ConstantsOK ==
    /\ Setups \subseteq {"peer", "orderer"} \X {"secret", "proxy", "hsm", "daemon"} \X {"auto", "manual"}
    /\ Lifetime \in Nat /\ WarningPeriod < Lifetime
    /\ WarningPeriod \in Nat \ {0}  \* a zero in the spec stands for 30 days
    /\ Starts \subseteq [ecert : 1..Lifetime, tls : 1..Lifetime, events : 0..MaxEvents]
    /\ Iterations \in Nat \ {0}
    /\ MaxTime \in Nat /\ MaxEvents \in Nat

VARIABLES
    setup,      \* a member of Setups
    now,        \* the day
    cert,       \* the secrets <type>-<name>-signcert: the key that is certified, and expiry
    keystore,   \* the secrets <type>-<name>-keystore: the key in them
    generated,  \* keys generated so far
    files,      \* keys in the re-enroller's directory, by type
    trust,      \* revision of the CA's TLS certificate, as in the spec
    rootTLS,    \* the secret <name>-init-roottls
    clientCfg,  \* the config map <name>-init-config is there
    jobs,       \* the HSM job that each process started last
    backup,     \* the secret <name>-crypto-backup: keys by type
    status,     \* type of the status
    updates,    \* updates that wait for a reconcile
    timers,     \* RenewCertTimers: the day each fires
    procs,      \* the worker and the goroutines of timers that have fired
    up,         \* the operator runs
    events,     \* events that may still come
    mishaps     \* history: which of the known hazards have happened

certVars == <<cert, keystore, generated, files>>
hsmVars == <<rootTLS, clientCfg, jobs>>
operatorVars == <<updates, timers, up>>
historyVars == <<events, mishaps>>
vars == <<setup, now, certVars, trust, hsmVars, backup, status, operatorVars, procs, historyVars>>

-----------------------------------------------------------------------------
Certs == {"ecert", "tls"}
Absent == -1
Never == -1
Keys == Nat

\* The worker of the controller, and two timers' goroutines (a bound).
Callbacks == {"first", "second"}
Procs == {"worker"} \cup Callbacks

Requests == {"reenroll", "newkey", "enroll"} \X Certs

\* Update: one flag each, or none after an error.
Updates == Requests \cup ({"created", "updated"} \X Certs) \cup {<<"none", "ecert">>}

Retry == <<"none", "ecert">>

\* The ecert's key is in the HSM; without a proxy a job of its own has access to it.
InHSM(c) == c = "ecert" /\ setup[2] # "secret"
ByJob(c) == c = "ecert" /\ setup[2] \in {"hsm", "daemon"}

Idle == [pc |-> "idle", upd |-> Retry, saw |-> [c \in Certs |-> 0], seen |-> "nothing",
         read |-> [key |-> 0, exp |-> 0], key |-> 0, rstatus |-> "none"]

NoBackup == [c \in Certs |-> <<>>]

NoJob == [state |-> "none", root |-> Absent, does |-> "none"]

PCs == {"idle", "custom", "crstatus", "backup", "saved", "check", "read", "request", "readkey",
        "signcert", "keystore", "prepare", "job", "active", "finished", "clean", "status"}

Mishaps == {"failed", "refused", "conflict", "raced", "split", "pending", "jobFailed", "collided",
            "leftover", "down", "crashed"}

Certificates == [key : Keys, exp : Nat]

JobStates == {"none", "created", "pending", "running", "done", "failed"}

Jobs == [state : JobStates, root : Nat \cup {Absent},
         does : {"none", "reenroll", "newkey", "enroll", "created", "updated"}]

Processes == [pc : PCs, upd : Updates, saw : [Certs -> Keys], seen : {"nothing", "current", "stale"},
              read : Certificates, key : Keys,
              rstatus : {"none", "error", "Deployed", "Warning", "Error"}]

TypeOK ==
    /\ setup \in Setups
    /\ now \in 0..MaxTime /\ events \in 0..MaxEvents /\ trust \in Nat
    /\ cert \in [Certs -> Certificates] /\ keystore \in [Certs -> Keys]
    /\ generated \in Keys /\ files \in [Certs -> SUBSET Keys]
    /\ rootTLS \in Nat \cup {Absent} /\ clientCfg \in BOOLEAN
    /\ jobs \in [Procs -> Jobs]
    /\ backup \in [Certs -> Seq(Keys)] /\ \A c \in Certs : Len(backup[c]) <= Iterations
    /\ status \in {"Deployed", "Warning", "Error"}
    /\ updates \subseteq Updates
    /\ timers \in [Certs -> Nat \cup {Never}]
    /\ procs \in [Procs -> Processes]
    /\ up \in BOOLEAN
    /\ mishaps \subseteq Mishaps

\* A node just deployed: the events of its new secrets wait.
Init ==
    /\ setup \in Setups
    /\ now = 0
    /\ \E start \in Starts : /\ cert = [c \in Certs |-> [key |-> 0, exp |-> start[c]]]
                            /\ events = start.events
    /\ keystore = [c \in Certs |-> 0]
    /\ generated = 0
    /\ files = [c \in Certs |-> {}]
    /\ trust = 0
    /\ rootTLS = Absent /\ clientCfg = FALSE
    /\ jobs = [p \in Procs |-> NoJob]
    /\ backup = NoBackup
    /\ status = "Deployed"
    /\ updates = {"created"} \X Certs
    /\ timers = [c \in Certs |-> Never]
    /\ procs = [p \in Procs |-> Idle]
    /\ up = TRUE
    /\ mishaps = {}

Event == events > 0 /\ events' = events - 1

Note(names) == mishaps' = mishaps \cup names

If(name, condition) == IF condition THEN {name} ELSE {}

At(p, pc) == procs[p].pc = pc

\* The certificate that a process is about, and whether its key is to be new.
CertOf(p) == procs[p].upd[2]
NewKey(p) == procs[p].upd[1] \in {"newkey", "enroll"}

Enrolls(p) == procs[p].upd[1] = "enroll"

Goto(p, pc) == procs' = [procs EXCEPT ![p].pc = pc]

\* A goroutine of a timer is done; the worker goes on to set the status.
Finish(p) ==
    procs' = [procs EXCEPT ![p] = IF p = "worker" THEN [@ EXCEPT !.pc = "status"] ELSE Idle]

\* The worker's reconcile ends with an error; a goroutine only logs it.
Abort(p) ==
    procs' = [procs EXCEPT ![p] = IF p = "worker" THEN [@ EXCEPT !.pc = "status", !.rstatus = "error"]
                                  ELSE Idle]

-----------------------------------------------------------------------------
(* Expiry                                                                  *)

\* Expires: the warning period has begun.
Expires(c) == cert[c].exp - now <= WarningPeriod

Expired(c) == cert[c].exp <= now

CheckCertificatesForExpire ==
    IF \A c \in Certs : ~Expires(c) THEN "Deployed"
    ELSE IF \E c \in Certs : Expired(c) THEN "Error" ELSE "Warning"

\* Seeded fault: the timer waits until the certificate expires.
RenewalAtExpiry(c) == cert[c].exp

\* The day a timer fires; a day that has passed is now.
GetDurationToNextRenewal(c) ==
    IF cert[c].exp - WarningPeriod < now THEN now ELSE cert[c].exp - WarningPeriod

\* The day passes.
Tick ==
    /\ now < MaxTime
    /\ now' = now + 1
    /\ up => /\ \A p \in Procs : At(p, "idle")
             /\ updates = {}
             /\ \A c \in Certs : timers[c] = Never \/ timers[c] > now
    /\ \A p \in Procs : jobs[p].state \notin {"created", "running"}
    /\ Note(If("down", ~up))
    /\ UNCHANGED <<setup, certVars, trust, hsmVars, backup, status, operatorVars, procs, events>>

-----------------------------------------------------------------------------
(* Reconcile: CustomLogic                                                  *)

\* A user asks for a certificate action.
Ask(request) ==
    /\ Event
    /\ up
    /\ updates' = updates \cup {request}
    /\ UNCHANGED <<setup, now, certVars, trust, hsmVars, backup, status, timers, up, procs, mishaps>>

\* The CA has a new TLS certificate, and the spec is edited.
NewCATLS ==
    /\ Event
    /\ trust' = trust + 1
    /\ UNCHANGED <<setup, now, certVars, hsmVars, backup, status, operatorVars, procs, mishaps>>

Start(u) ==
    /\ up /\ At("worker", "idle")
    /\ u \in updates
    /\ updates' = updates \ {u}
    /\ procs' = [procs EXCEPT !["worker"] = [Idle EXCEPT !.pc = "custom", !.upd = u]]
    /\ UNCHANGED <<setup, now, certVars, trust, hsmVars, backup, status, timers, up, historyVars>>

\* A timer is set only for a node that is Deployed or in Warning; until then the
\* update is put back, with the status that the pods give.
CanSetCertificateTimer(u) ==
    u[1] \in {"created", "updated"} => status \in {"Deployed", "Warning"}

CryptoBackupNeeded(u) == u \in Requests

CustomLogic ==
    LET u == procs["worker"].upd IN
    /\ At("worker", "custom")
    /\ IF CanSetCertificateTimer(u)
       THEN /\ Goto("worker", IF CryptoBackupNeeded(u) THEN "backup" ELSE "check")
            /\ UNCHANGED <<updates, status>>
       ELSE /\ procs' = [procs EXCEPT !["worker"] = Idle]
            /\ updates' = updates \cup {u}
            /\ status' = "Deployed"
    /\ UNCHANGED <<setup, now, certVars, trust, hsmVars, backup, timers, up, historyVars>>

\* SetCertificateTimer stops the timer there was, not a goroutine it has started.
SetCertificateTimer(c) == timers' = [timers EXCEPT ![c] = GetDurationToNextRenewal(c)]

\* Seeded fault: a renewed certificate gets no timer.
OnlyCreated(u) == u[1] = "created"

\* CertificateCreated, EcertUpdated or TLSCertUpdated.
CertificateChanged(u) == u[1] \in {"created", "updated"}

\* CheckCertificates, and the timer of a certificate that is new.  An expired
\* one has no next renewal: an error.
CheckCertificates ==
    LET u == procs["worker"].upd
        c == u[2]
        checked(pc) == procs' = [procs EXCEPT !["worker"].rstatus = CheckCertificatesForExpire,
                                              !["worker"].pc = pc] IN
    /\ At("worker", "check")
    /\ IF CertificateChanged(u)
       THEN IF Expired(c) THEN Abort("worker") /\ UNCHANGED timers
            ELSE SetCertificateTimer(c) /\ checked("status")
       ELSE checked(IF u \in Requests THEN "read" ELSE "status") /\ UNCHANGED timers
    /\ UNCHANGED <<setup, now, certVars, trust, hsmVars, backup, status, updates, up, historyVars>>

\* SetStatus: an error is tried again, without the update.
SetStatus ==
    LET failed == procs["worker"].rstatus = "error" IN
    /\ At("worker", "status")
    /\ status' = IF failed THEN "Error" ELSE procs["worker"].rstatus
    /\ updates' = updates \cup (IF failed THEN {Retry} ELSE {})
    /\ procs' = [procs EXCEPT !["worker"] = Idle]
    /\ UNCHANGED <<setup, now, certVars, trust, hsmVars, backup, timers, up, historyVars>>

-----------------------------------------------------------------------------
(* A timer has fired                                                       *)

\* The goroutine is started; its timer is no longer there to be stopped.
TimerFires(p, c) ==
    /\ up /\ At(p, "idle") /\ (p = "second" => ~At("first", "idle"))
    /\ timers[c] # Never /\ timers[c] <= now
    /\ timers' = [timers EXCEPT ![c] = Never]
    /\ procs' = [procs EXCEPT ![p] = [Idle EXCEPT !.pc = "crstatus", !.upd = <<"reenroll", c>>]]
    /\ UNCHANGED <<setup, now, certVars, trust, hsmVars, backup, status, updates, up, historyVars>>

\* The TLS certificate of an orderer is renewed only where that is not
\* disabled, and from Fabric 1.4.9 and 2.2.1 on.
AutoRenewed(c) == ~(c = "tls" /\ setup[1] = "orderer" /\ setup[3] = "manual")

\* UpdateCRStatus writes the status past the reconcile.
UpdateCRStatus(p, renew) ==
    /\ At(p, "crstatus")
    /\ status' = CheckCertificatesForExpire
    /\ IF renew THEN Goto(p, "backup") ELSE Finish(p)
    /\ UNCHANGED <<setup, now, certVars, trust, hsmVars, backup, operatorVars, historyVars>>

PeerTimer(p) == setup[1] = "peer" /\ UpdateCRStatus(p, TRUE)
OrdererTimer(p) == setup[1] = "orderer" /\ UpdateCRStatus(p, AutoRenewed(CertOf(p)))

-----------------------------------------------------------------------------
(* Backup                                                                  *)

GetCrypto(c) == keystore[c]

\* BackupCrypto reads the crypto of both types, and the backup.
BackupCrypto(p) ==
    /\ At(p, "backup")
    /\ procs' = [procs EXCEPT ![p].pc = "saved", ![p].saw = [c \in Certs |-> GetCrypto(c)],
                              ![p].seen = IF backup = NoBackup THEN "nothing" ELSE "current"]
    /\ UNCHANGED <<setup, now, certVars, trust, hsmVars, backup, status, operatorVars, historyVars>>

\* The newest at the end; a full list loses its oldest entry.
GetUpdatedBackup(list, key) ==
    IF Len(list) < Iterations THEN Append(list, key) ELSE Append(Tail(list), key)

UpdateBackupSecretData(saw) == [c \in Certs |-> GetUpdatedBackup(backup[c], saw[c])]

AfterBackup(p) == IF p = "worker" THEN "check" ELSE "read"

\* A backup that is there is replaced if it is the one that was read, or else
\* nothing is renewed.  The first one is created; if there is one by then it
\* stays.
UpdateBackupSecret(p) ==
    LET seen == procs[p].seen
        go == [Idle EXCEPT !.upd = procs[p].upd, !.pc = AfterBackup(p)] IN
    /\ At(p, "saved")
    /\ \/ /\ seen = "current" \/ backup = NoBackup
          /\ backup' = UpdateBackupSecretData(procs[p].saw)
          /\ procs' = [q \in Procs |-> IF q = p THEN go
                                      ELSE [procs[q] EXCEPT !.seen = IF @ = "current" THEN "stale" ELSE @]]
          /\ UNCHANGED mishaps
       \/ /\ seen = "nothing" /\ backup # NoBackup
          /\ procs' = [procs EXCEPT ![p] = go]
          /\ UNCHANGED <<backup, mishaps>>
       \/ /\ seen = "stale"
          /\ Abort(p)
          /\ Note({"conflict"})
          /\ UNCHANGED backup
    /\ UNCHANGED <<setup, now, certVars, trust, hsmVars, status, operatorVars, events>>

-----------------------------------------------------------------------------
(* Re-enrolment and enrolment in process                                   *)

certFrame == <<setup, now, trust, hsmVars, backup, status>>

GetSignCertAndKey(p) ==
    [procs[p] EXCEPT !.read = cert[CertOf(p)], !.key = keystore[CertOf(p)]]

\* The choice of a re-enroller or enroller.
RenewCert(p) ==
    /\ At(p, "read")
    /\ procs' = [procs EXCEPT ![p] = [GetSignCertAndKey(p) EXCEPT
                                         !.pc = IF ByJob(CertOf(p)) THEN "prepare" ELSE "request"]]
    /\ UNCHANGED <<certFrame, certVars, operatorVars, historyVars>>

\* The CA signs for an identity with the key of its certificate, until that
\* expires; for an enrolment it asks for the secret of the spec.
Accepted(p) ==
    LET read == procs[p].read IN
    \/ Enrolls(p)
    \/ now < read.exp /\ (InHSM(CertOf(p)) \/ read.key = procs[p].key)

Certificate(p, id) ==
    [exp |-> now + Lifetime,
     key |-> IF NewKey(p) THEN id ELSE IF InHSM(CertOf(p)) THEN procs[p].read.key ELSE procs[p].key]

\* A new key is written into the directory, for a re-enrolment one that is kept.
Generate(p, id) ==
    /\ generated' = IF NewKey(p) THEN id ELSE generated
    /\ files' = [files EXCEPT ![CertOf(p)] =
                    @ \cup If(id, procs[p].upd[1] = "newkey" /\ ~InHSM(CertOf(p)))]

Request(p) ==
    LET id == generated + 1 IN
    /\ At(p, "request")
    /\ Generate(p, id)
    /\ IF Accepted(p)
       THEN /\ procs' = [procs EXCEPT ![p].read = Certificate(p, id),
                             ![p].key = IF Enrolls(p) THEN id ELSE @,
                             ![p].pc = IF Enrolls(p) THEN "signcert" ELSE "readkey"]
            /\ UNCHANGED mishaps
       ELSE Abort(p) /\ Note({"refused"})
    /\ UNCHANGED <<certFrame, cert, keystore, operatorVars, events>>

\* The CA does not answer any more; the key file stays.
RequestFails(p) ==
    /\ At(p, "request")
    /\ Event
    /\ Generate(p, generated + 1)
    /\ Abort(p)
    /\ Note({"failed"})
    /\ UNCHANGED <<certFrame, cert, keystore, operatorVars>>

\* ReadKey wants exactly one key file for a new key; then all are deleted.
ReadKey(p) ==
    LET c == CertOf(p)
        wanted == NewKey(p) /\ ~InHSM(c) IN
    /\ At(p, "readkey")
    /\ IF wanted /\ Cardinality(files[c]) # 1
       THEN Abort(p) /\ Note({"refused"}) /\ UNCHANGED files
       ELSE /\ files' = [files EXCEPT ![c] = {}]
            /\ procs' = [procs EXCEPT ![p].pc = "signcert",
                                      ![p].key = IF wanted THEN CHOOSE k \in files[c] : TRUE ELSE @]
            /\ UNCHANGED mishaps
    /\ UNCHANGED <<certFrame, cert, keystore, generated, operatorVars, events>>

\* The certificate is written first.  A key that was reused has to be the one
\* in the keystore still, and nobody may be between his two writes.
UpdateSignCert(p) ==
    LET c == CertOf(p) IN
    /\ At(p, "signcert")
    /\ cert' = [cert EXCEPT ![c] = procs[p].read]
    /\ updates' = updates \cup {<<"updated", c>>}
    /\ Goto(p, "keystore")
    /\ Note(If("raced", \/ ~NewKey(p) /\ procs[p].key # keystore[c]
                        \/ \E q \in Procs \ {p} : At(q, "keystore") /\ CertOf(q) = c))
    /\ UNCHANGED <<certFrame, keystore, generated, files, timers, up, events>>

\* Seeded fault: the key is not written.
KeyNotUpdated(p) ==
    /\ At(p, "keystore")
    /\ Finish(p)
    /\ UNCHANGED <<certFrame, certVars, operatorVars, historyVars>>

\* Then the key, if there is a new one that is not in the HSM.
UpdateKey(p) ==
    LET c == CertOf(p) IN
    /\ At(p, "keystore")
    /\ keystore' = [keystore EXCEPT ![c] = IF NewKey(p) /\ ~InHSM(c) THEN procs[p].key ELSE @]
    /\ Finish(p)
    /\ UNCHANGED <<certFrame, cert, generated, files, operatorVars, historyVars>>

-----------------------------------------------------------------------------
(* ... and by a job that has access to the HSM                             *)

jobFrame == <<setup, now, trust, certVars, backup, status, operatorVars>>

\* The config map of the CA client is made anew; a secret that is there is
\* kept, whatever it holds.
CreateRootTLSSecret(p) ==
    /\ At(p, "prepare")
    /\ rootTLS' = IF rootTLS = Absent THEN trust ELSE rootTLS
    /\ clientCfg' = TRUE
    /\ Goto(p, "job")
    /\ Note(If("leftover", rootTLS # Absent))
    /\ UNCHANGED <<jobFrame, jobs, events>>

\* Re-enrollers and enrollers of either kind of HSM prepare the same way.
HSMReenroll(p) == setup[2] = "hsm" /\ ~Enrolls(p) /\ CreateRootTLSSecret(p)
HSMDaemonReenroll(p) == setup[2] = "daemon" /\ ~Enrolls(p) /\ CreateRootTLSSecret(p)
HSMEnroll(p) == setup[2] = "hsm" /\ Enrolls(p) /\ CreateRootTLSSecret(p)
HSMDaemonEnroll(p) == setup[2] = "daemon" /\ Enrolls(p) /\ CreateRootTLSSecret(p)

\* The job's name is new: one that the process left over is forgotten here.
CreateJob(p) ==
    /\ At(p, "job")
    /\ jobs' = [jobs EXCEPT ![p] = [NoJob EXCEPT !.state = "created", !.does = procs[p].upd[1]]]
    /\ Goto(p, "active")
    /\ UNCHANGED <<jobFrame, rootTLS, clientCfg, historyVars>>

\* Active or succeeded; a job that has failed by then is waited for in vain.
WaitUntilActive(p) ==
    /\ At(p, "active") /\ jobs[p].state \in {"pending", "running", "done", "failed"}
    /\ IF jobs[p].state = "failed" THEN Abort(p) /\ Note({"jobFailed"})
       ELSE Goto(p, "finished") /\ UNCHANGED mishaps
    /\ UNCHANGED <<jobFrame, hsmVars, events>>

\* How it ended; a pod that is pending counts as terminated.
Ended(p, pending) ==
    LET state == jobs[p].state IN
    /\ At(p, "finished") /\ state \in {"pending", "done", "failed"}
    /\ \/ state = "done" /\ Goto(p, "clean")
       \/ state = "failed" /\ Abort(p)
       \/ state = "pending" /\ pending
    /\ Note(If("jobFailed", state = "failed") \cup If("pending", state = "pending"))
    /\ UNCHANGED <<jobFrame, hsmVars, events>>

\* podsTerminated holds of a pod that has no containers yet; Status calls its
\* job failed.
WaitUntilFinished(p) == setup[2] = "hsm" /\ Ended(p, Abort(p))

\* So does containerTerminated; ContainerStatus calls its container unknown,
\* which is taken for success, and nothing is cleaned up.
WaitUntilContainerFinished(p) == setup[2] = "daemon" /\ Ended(p, Finish(p))

\* Seeded fault: the secret stays.
RootTLSKept(p) ==
    /\ At(p, "clean")
    /\ jobs' = [jobs EXCEPT ![p] = NoJob]
    /\ clientCfg' = FALSE
    /\ Finish(p)
    /\ UNCHANGED <<jobFrame, rootTLS, historyVars>>

\* Job, secret and config map are deleted.  A secret that somebody else has
\* deleted is an error, though the certificate was renewed.
CleanUp(p) ==
    /\ At(p, "clean")
    /\ jobs' = [jobs EXCEPT ![p] = NoJob]
    /\ rootTLS' = Absent
    /\ IF rootTLS = Absent
       THEN Abort(p) /\ Note({"collided"}) /\ UNCHANGED clientCfg
       ELSE clientCfg' = FALSE /\ Finish(p) /\ UNCHANGED mishaps
    /\ UNCHANGED <<jobFrame, events>>

JobIs(p, state) == jobs' = [jobs EXCEPT ![p].state = state]

\* A pod is made, and starts once it can mount the secret and the config map.
JobStarts(p) ==
    /\ \/ jobs[p].state = "created" /\ JobIs(p, "pending")
       \/ /\ jobs[p].state = "pending" /\ rootTLS # Absent /\ clientCfg
          /\ jobs' = [jobs EXCEPT ![p].state = "running", ![p].root = rootTLS]
    /\ UNCHANGED <<jobFrame, rootTLS, clientCfg, procs, historyVars>>

\* Its container asks the CA, if that is the one it trusts, and writes the
\* certificate; the key stays in the HSM.
Runs(p, newKey) ==
    LET id == generated + 1 IN
    /\ jobs[p].state = "running"
    /\ IF jobs[p].root = trust
       THEN /\ JobIs(p, "done")
            /\ generated' = IF newKey THEN id ELSE generated
            /\ cert' = [cert EXCEPT !["ecert"] = [exp |-> now + Lifetime,
                                                  key |-> IF newKey THEN id ELSE @.key]]
            /\ updates' = updates \cup If(<<"updated", "ecert">>, up)
       ELSE JobIs(p, "failed") /\ UNCHANGED <<generated, cert, updates>>
    /\ UNCHANGED <<setup, now, trust, keystore, files, rootTLS, clientCfg, backup, status, timers, up,
                   procs, historyVars>>

\* "enroller node reenroll" and "enroller node enroll", beside the library of
\* the HSM or its daemon.
HSMReenrollJob(p) == setup[2] = "hsm" /\ jobs[p].does # "enroll" /\ Runs(p, jobs[p].does = "newkey")
HSMDaemonReenrollJob(p) == setup[2] = "daemon" /\ jobs[p].does # "enroll" /\ Runs(p, jobs[p].does = "newkey")
HSMEnrollJob(p) == setup[2] = "hsm" /\ jobs[p].does = "enroll" /\ Runs(p, TRUE)
HSMDaemonEnrollJob(p) == setup[2] = "daemon" /\ jobs[p].does = "enroll" /\ Runs(p, TRUE)

JobStep(p) ==
    JobStarts(p) \/ HSMReenrollJob(p) \/ HSMDaemonReenrollJob(p) \/ HSMEnrollJob(p) \/ HSMDaemonEnrollJob(p)

-----------------------------------------------------------------------------
(* Failures                                                                *)

\* A call fails.
Fail(p) ==
    /\ procs[p].pc \notin {"idle", "custom", "request", "status"}
    /\ Event
    /\ IF At(p, "crstatus") THEN Goto(p, "backup") ELSE Abort(p)
    /\ Note({"failed"} \cup If("split", At(p, "keystore")))
    /\ UNCHANGED <<setup, now, certVars, trust, hsmVars, backup, status, operatorVars>>

\* The operator's pod goes, with timers, goroutines and files.
Crash ==
    /\ up /\ Event
    /\ up' = FALSE
    /\ updates' = {}
    /\ timers' = [c \in Certs |-> Never]
    /\ procs' = [p \in Procs |-> Idle]
    /\ files' = [c \in Certs |-> {}]
    /\ Note({"crashed"} \cup If("split", \E p \in Procs : At(p, "keystore")))
    /\ UNCHANGED <<setup, now, cert, keystore, generated, trust, hsmVars, backup, status>>

\* The informers list the secrets when the operator starts.
Restart ==
    /\ ~up
    /\ up' = TRUE
    /\ updates' = {"created"} \X Certs
    /\ UNCHANGED <<setup, now, certVars, trust, hsmVars, backup, status, timers, procs, historyVars>>

-----------------------------------------------------------------------------
ProcStep(p) ==
    \/ BackupCrypto(p) \/ UpdateBackupSecret(p)
    \/ RenewCert(p) \/ Request(p) \/ ReadKey(p) \/ UpdateSignCert(p) \/ UpdateKey(p)
    \/ HSMReenroll(p) \/ HSMDaemonReenroll(p) \/ HSMEnroll(p) \/ HSMDaemonEnroll(p)
    \/ CreateJob(p) \/ WaitUntilActive(p) \/ WaitUntilFinished(p) \/ WaitUntilContainerFinished(p) \/ CleanUp(p)

WorkerStep ==
    \/ \E u \in Updates : Start(u)
    \/ CustomLogic \/ CheckCertificates \/ SetStatus \/ ProcStep("worker")

CallbackStep(p) == PeerTimer(p) \/ OrdererTimer(p) \/ ProcStep(p)

Fires == \E p \in Callbacks, c \in Certs : TimerFires(p, c)

Next ==
    \/ WorkerStep \/ Fires
    \/ \E p \in Callbacks : CallbackStep(p)
    \/ \E p \in Procs : JobStep(p) \/ Fail(p) \/ RequestFails(p)
    \/ \E request \in Requests : Ask(request)
    \/ NewCATLS \/ Crash \/ Restart \/ Tick

Spec == Init /\ [][Next]_vars

\* The worker and the goroutines run, timers fire, jobs run, the operator is
\* started again.
Fairness ==
    /\ WF_vars(WorkerStep) /\ WF_vars(Fires) /\ WF_vars(Restart)
    /\ \A p \in Callbacks : WF_vars(CallbackStep(p))
    /\ \A p \in Procs : WF_vars(JobStep(p))

FairSpec == Spec /\ Fairness

-----------------------------------------------------------------------------
(* Properties                                                              *)

AllIdle == \A p \in Procs : At(p, "idle")

Quiet == up /\ AllIdle /\ updates = {} /\ \A c \in Certs : timers[c] = Never \/ timers[c] > now

\* The key in the keystore (or in the HSM) is that of the certificate beside
\* it, except between ReenrollCert's two writes: unless one of them was not
\* done, or a timer and the worker have renewed the same certificate at once.
KeysPaired ==
    mishaps \cap {"raced", "split"} = {} =>
        \A c \in Certs : \/ InHSM(c) \/ cert[c].key = keystore[c]
                         \/ \E p \in Procs : At(p, "keystore") /\ CertOf(p) = c

\* No certificate that the operator renews by itself expires while it runs,
\* unless a mishap has happened.
RenewedInTime == mishaps = {} => \A c \in Certs : AutoRenewed(c) => ~Expired(c)

\* What a re-enrolment or enrolment needed on its way (job, secret, config map,
\* key files) is gone when it is done, unless a call has failed: the next one
\* does not trip over it.
NothingLeftBehind ==
    AllIdle /\ mishaps \subseteq {"conflict", "raced", "down"} =>
        /\ rootTLS = Absent /\ ~clientCfg
        /\ \A p \in Procs : jobs[p] = NoJob
        /\ \A c \in Certs : files[c] = {}

\* In the end the node is Deployed, with timers for both certificates, unless
\* a mishap has happened or the TLS certificate is left to the user.
CertsSettle ==
    \/ <>(mishaps # {}) \/ setup[3] = "manual"
    \/ <>[](Quiet /\ status = "Deployed" /\ \A c \in Certs : timers[c] # Never)

\* "It detects and automatically re-enrolls TLS certificates" (README.md:34):
\* while the operator runs and no call fails, the TLS certificate does not
\* expire.
AutoReenrolled == mishaps \subseteq {"conflict"} => ~Expired("tls")
=============================================================================
