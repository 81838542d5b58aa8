---------------------------- MODULE CAReconcileProofs ----------------------------
(***************************************************************************)
(* Proofs about CAReconcile: a root certificate is kept, a deployment can  *)
(* be mounted, nothing the spec asks for is forgotten and a CA at rest     *)
(* runs what is in the cluster, each but for the mishaps it names.         *)
(***************************************************************************)
EXTENDS CAReconcile, WellFoundedInduction, SequenceTheorems, TLAPS

-----------------------------------------------------------------------------
(* The inductive invariant                                                 *)

\* The place of a step in Reconcile; that of a step of Initialize is
\* Initialize's.
Rank(pc) ==
    CASE pc = "idle" -> 0
      [] pc = "version" -> 1
      [] pc = "checks" -> 2
      [] pc = "tlscrypto" -> 3
      [] pc = "rbac" -> 4
      [] pc = "daemonpvc" -> 5
      [] pc \in InitSteps \cup {"init"} -> 6
      [] pc = "overrides" -> 7
      [] pc = "pvc" -> 8
      [] pc = "service" -> 9
      [] pc = "managersrbac" -> 10
      [] pc = "deployment" -> 11
      [] pc = "ingress" -> 12
      [] pc = "caroute" -> 13
      [] pc = "opsroute" -> 14
      [] pc = "migration" -> 15
      [] pc = "profile" -> 16
      [] pc = "states" -> 17
      [] pc = "certificates" -> 18
      [] pc = "crypto" -> 19
      [] pc = "actions" -> 20
      [] pc = "trigger" -> 21
      [] pc = "status" -> 22

\* The reconcile under way has come past a step, and has not been broken off.
Done(step) == worker.result = "ok" /\ Rank(worker.pc) > Rank(step)

\* The CA has been handled by Initialize.
CADone(c) == worker.result = "ok" /\ (Rank(worker.pc) > 6 \/ (c = "ca" /\ worker.which = "tls"))

Stacked == UNION Range(stack)

\* What the worker knows at a point of its course.
Course ==
    /\ At("idle") => worker = Idle
    /\ ~up => worker = Idle
    /\ worker.result # "ok" => At("status")
    /\ worker.pc \in {"idle"} \cup InitSteps \cup Range(Steps)
    /\ Rank(worker.pc) < 6 => worker.which = "ca"
    /\ worker.pc \in {"hsmsecret", "hsmconfig", "hsmjob", "hsmwait"} => worker.resp = "create"
    /\ worker.pc \in {"secret", "config"} => worker.resp \in {"create", "update"}
    /\ worker.pc \in {"secret", "config"} /\ worker.resp = "update" => HasFlag(worker.which)
    /\ ~spec.over => spec.ca = 0 /\ spec.tls = 0

\* Revisions only grow on their way to the pod.
RevsGrow ==
    /\ spec.rest <= events
    /\ ~At("idle") => worker.inst.rest <= spec.rest /\ made["deployment"] <= worker.inst.rest
    /\ made["deployment"] <= spec.rest
    /\ pod.rev <= made["deployment"]
    /\ pod.up => made["deployment"] # Absent

\* An edit made during a reconcile is on the stack.
EditsStacked ==
    ~At("idle") =>
        /\ spec.ca # worker.inst.ca => "caOverrides" \in Stacked
        /\ spec.tls # worker.inst.tls => "tlscaOverrides" \in Stacked
        /\ spec.rest # worker.inst.rest => "specUpdated" \in Stacked

\* Between the creation of the secret and the end of the initialisation.
Creating(c) ==
    /\ worker.which = c /\ worker.resp = "create"
    /\ worker.pc \in {"config", "hsmconfig", "hsmjob", "hsmwait"}

\* A root certificate is made where there is none, once.
RootInv ==
    "misread" \notin mishaps =>
        \A c \in CAs :
            /\ secret.root[c] = Absent => job[c] = "none"
            /\ job[c] = "active" => secret.root[c] = 0
            /\ worker.which = c /\ worker.resp = "create" /\ worker.pc \in {"secret", "hsmsecret"} =>
                  secret.root[c] = Absent
            /\ worker.which = c /\ worker.pc \in {"hsmconfig", "hsmjob"} =>
                  secret.root[c] = 0 /\ job[c] = "none"

\* A CA whose initialisation is not under way has all of it or nothing.
InitInv ==
    mishaps \cap {"halfway", "misread"} = {} =>
        /\ \A c \in CAs :
            /\ secret.root[c] = Absent => cfg[c] = Absent
            /\ secret.root[c] # Absent /\ ~Creating(c) =>
                  secret.root[c] >= 1 /\ cfg[c] # Absent /\ (c = "ca" => cfg.files)
            /\ Creating(c) =>
                  /\ made["deployment"] = Absent
                  /\ IF worker.pc \in {"config", "hsmconfig"} THEN cfg[c] = Absent
                     ELSE cfg[c] = worker.inst[c]
                  /\ At("config") => secret.root[c] >= 1
            /\ worker.which = c /\ At("config") => secret.root[c] # Absent
            /\ job[c] # "none" => worker.which = c /\ At("hsmwait")
            /\ job[c] = "succeeded" => secret.root[c] >= 1
            /\ CADone(c) /\ ~At("status") => secret.root[c] # Absent
        /\ made["deployment"] # Absent => \A c \in CAs : secret.root[c] # Absent

\* A reconcile that was broken off had no flags, or a mishap tells of it.
BrokenOff ==
    /\ worker.result = "error" => worker.upd = {} \/ mishaps \cap {"failed", "halfway", "misread"} # {}
    /\ worker.result = "breaking" => mishaps \cap {"stopped", "halfway", "misread"} # {}

\* What is behind the spec has its flag on the stack, or in the reconcile under
\* way and that has not come past the step that serves it.
OverridesServed ==
    up /\ mishaps \subseteq {"lateMigration"} =>
        /\ spec.ca # 0 /\ cfg.ca \notin {Absent, spec.ca} =>
              "caOverrides" \in Stacked \/ ("caOverrides" \in worker.upd /\ ~CADone("ca"))
        /\ spec.tls # 0 /\ cfg.tls \notin {Absent, spec.tls} =>
              "tlscaOverrides" \in Stacked \/ ("tlscaOverrides" \in worker.upd /\ ~CADone("tls"))

\* The same of the objects, the actions and the TLS certificate.
Served ==
    up /\ mishaps \subseteq {"lateMigration"} =>
        /\ \A o \in {"ingress", "caroute", "opsroute"} : made[o] \notin {Absent, spec.rest} =>
              "specUpdated" \in Stacked \/ ("specUpdated" \in worker.upd /\ ~Done(o))
        /\ spec.restart =>
              "restartNeeded" \in Stacked \/ ("restartNeeded" \in worker.upd /\ ~Done("actions"))
        /\ spec.renew =>
              "renewTLSCert" \in Stacked \/ ("renewTLSCert" \in worker.upd /\ ~Done("actions"))
        /\ pod.up /\ ~pod.tls /\ restart = {} =>
              "caCryptoUpdated" \in Stacked \/ ("caCryptoUpdated" \in worker.upd /\ ~Done("crypto"))

\* Only the objects of the offering are made.
OfferingObjects ==
    \A o \in {"ingress", "caroute", "opsroute"} : made[o] # Absent => o \in Range(Steps)

\* There is something to do.
Busy(step) == work \/ stack # <<>> \/ (~At("idle") /\ ~Done(step))

\* A deployment, profile or pod that is not the latest will be seen to.
RestInv ==
    mishaps = {} =>
        /\ Done("deployment") => made["deployment"] # Absent
        /\ up => /\ made["deployment"] # spec.rest => Busy("states")
                 /\ profile # "current" => Busy("profile")
                 /\ Unrestarted /\ pod.rev = made["deployment"] =>
                      \/ ConfigOverridesUpdated(Stacked)
                      \/ ConfigOverridesUpdated(worker.upd) /\ ~Done("overrides")

IInv ==
    /\ TypeOK /\ Course /\ RevsGrow /\ EditsStacked /\ RootInv /\ InitInv /\ BrokenOff
    /\ OverridesServed /\ Served /\ OfferingObjects /\ RestInv

-----------------------------------------------------------------------------
(* The order of the steps                                                  *)

LEMMA Ranks ==
  /\ Rank("idle") = 0 /\ Rank("version") = 1 /\ Rank("checks") = 2 /\ Rank("tlscrypto") = 3
  /\ Rank("rbac") = 4 /\ Rank("daemonpvc") = 5
  /\ Rank("init") = 6 /\ Rank("secret") = 6 /\ Rank("config") = 6 /\ Rank("hsmsecret") = 6
  /\ Rank("hsmconfig") = 6 /\ Rank("hsmjob") = 6 /\ Rank("hsmwait") = 6
  /\ Rank("overrides") = 7 /\ Rank("pvc") = 8 /\ Rank("service") = 9
  /\ Rank("managersrbac") = 10 /\ Rank("deployment") = 11 /\ Rank("ingress") = 12
  /\ Rank("caroute") = 13 /\ Rank("opsroute") = 14 /\ Rank("migration") = 15
  /\ Rank("profile") = 16 /\ Rank("states") = 17 /\ Rank("certificates") = 18
  /\ Rank("crypto") = 19 /\ Rank("actions") = 20 /\ Rank("trigger") = 21 /\ Rank("status") = 22
  BY DEF Rank, InitSteps

LEMMA K8sRanks ==
  /\ Len(K8sSteps) = 20 /\ DOMAIN K8sSteps = 1..20
  /\ \A i \in 1..20 : Rank(K8sSteps[i]) = IF i <= 12 THEN i ELSE i + 2
  BY Ranks DEF K8sSteps

LEMMA OpenshiftRanks ==
  /\ Len(OpenshiftSteps) = 21 /\ DOMAIN OpenshiftSteps = 1..21
  /\ \A i \in 1..21 : Rank(OpenshiftSteps[i]) = IF i <= 11 THEN i ELSE i + 1
  BY Ranks DEF OpenshiftSteps

LEMMA BaseRanks ==
  /\ Len(BaseSteps) = 17 /\ DOMAIN BaseSteps = 1..17
  /\ \A i \in 1..17 : Rank(BaseSteps[i]) = IF i <= 11 THEN i ELSE IF i <= 13 THEN i + 4 ELSE i + 5
  BY Ranks DEF BaseSteps

\* All that the proofs need of the offering's list of steps: it is in order.
LEMMA StepsInOrder ==
  ASSUME setup \in Setups
  PROVE  /\ Len(Steps) \in Nat /\ Len(Steps) > 1 /\ DOMAIN Steps = 1..Len(Steps)
         /\ \A i, j \in 1..Len(Steps) : i < j => Rank(Steps[i]) < Rank(Steps[j])
         /\ Steps[Len(Steps)] = "status"
<1>1. setup[2] \in {"k8s", "openshift", "base"}
  BY ConstantsOK
<1>2. CASE setup[2] = "k8s"
  <2>1. Steps = K8sSteps
    BY <1>2 DEF Steps
  <2>2. K8sSteps[20] = "status"
    BY DEF K8sSteps
  <2> QED
    BY <2>1, <2>2, K8sRanks
<1>3. CASE setup[2] = "openshift"
  <2>1. Steps = OpenshiftSteps
    BY <1>3 DEF Steps
  <2>2. OpenshiftSteps[21] = "status"
    BY DEF OpenshiftSteps
  <2> QED
    BY <2>1, <2>2, OpenshiftRanks
<1>4. CASE setup[2] = "base"
  <2>1. Steps = BaseSteps
    BY <1>4 DEF Steps
  <2>2. BaseSteps[17] = "status"
    BY DEF BaseSteps
  <2> QED
    BY <2>1, <2>2, BaseRanks
<1> QED
  BY <1>1, <1>2, <1>3, <1>4

\* The steps of all offerings, and those that only some have.
LEMMA StepsOfOffering ==
  ASSUME setup \in Setups
  PROVE  /\ {"init", "overrides", "deployment", "profile", "states", "crypto", "actions",
             "status"} \subseteq Range(Steps)
         /\ Range(Steps) \subseteq PCs \ ({"idle"} \cup InitSteps)
<1>1. setup[2] \in {"k8s", "openshift", "base"}
  BY ConstantsOK
<1>2. Steps \in {K8sSteps, OpenshiftSteps, BaseSteps}
  BY <1>1 DEF Steps
<1>3. /\ K8sSteps[6] = "init" /\ K8sSteps[7] = "overrides" /\ K8sSteps[11] = "deployment"
      /\ K8sSteps[14] = "profile" /\ K8sSteps[15] = "states" /\ K8sSteps[17] = "crypto"
      /\ K8sSteps[18] = "actions" /\ K8sSteps[20] = "status"
  BY DEF K8sSteps
<1>4. /\ OpenshiftSteps[6] = "init" /\ OpenshiftSteps[7] = "overrides"
      /\ OpenshiftSteps[11] = "deployment" /\ OpenshiftSteps[15] = "profile"
      /\ OpenshiftSteps[16] = "states" /\ OpenshiftSteps[18] = "crypto"
      /\ OpenshiftSteps[19] = "actions" /\ OpenshiftSteps[21] = "status"
  BY DEF OpenshiftSteps
<1>5. /\ BaseSteps[6] = "init" /\ BaseSteps[7] = "overrides" /\ BaseSteps[11] = "deployment"
      /\ BaseSteps[12] = "profile" /\ BaseSteps[13] = "states" /\ BaseSteps[14] = "crypto"
      /\ BaseSteps[15] = "actions" /\ BaseSteps[17] = "status"
  BY DEF BaseSteps
<1>6. {"init", "overrides", "deployment", "profile", "states", "crypto", "actions", "status"}
         \subseteq Range(Steps)
  BY <1>2, <1>3, <1>4, <1>5, K8sRanks, OpenshiftRanks, BaseRanks DEF Range
<1>7. \A i \in 1..17 : BaseSteps[i] = K8sSteps[IF i <= 11 THEN i ELSE IF i <= 13 THEN i + 2 ELSE i + 3]
  BY DEF K8sSteps, BaseSteps
<1>8. Range(BaseSteps) \subseteq Range(K8sSteps)
  BY <1>7, K8sRanks, BaseRanks DEF Range
<1>9. \A s \in Range(K8sSteps) \cup Range(OpenshiftSteps) : s \notin {"idle"} \cup InitSteps
  BY K8sRanks, OpenshiftRanks DEF Range, K8sSteps, OpenshiftSteps, InitSteps
<1> QED
  BY <1>2, <1>6, <1>8, <1>9 DEF PCs

LEMMA Least ==
  ASSUME NEW S \in SUBSET Nat, S # {}
  PROVE  \E m \in S : \A k \in S : m <= k
<1> DEFINE Less == {ss \in Nat \X Nat : ss[1] < ss[2]}
<1>1. IsWellFoundedOn(Less, Nat)
  <2>1. Less \cap (Nat \X Nat) \subseteq OpToRel(<, Nat)
    BY DEF OpToRel
  <2> HIDE DEF Less
  <2> QED
    BY <2>1, NatLessThanWellFounded, IsWellFoundedOnSubrelation
<1>2. PICK m \in S : \A k \in S : ~(<<k, m>> \in Less)
  <2> HIDE DEF Less
  <2> QED
    BY <1>1, WFMin
<1>3. \A j, k \in Nat : j < k => <<j, k>> \in Less
  OBVIOUS
<1> HIDE DEF Less
<1>4. ASSUME NEW k \in S PROVE m <= k
  <2>1. ~(<<k, m>> \in Less)
    BY <1>2
  <2>2. ~(k < m)
    BY <1>3, <2>1
  <2> QED
    BY <2>2
<1> QED
  BY <1>4

\* FirstNeeded: the steps before it have nothing to do.
LEMMA FirstNeededIs ==
  ASSUME setup \in Setups, NEW call, NEW i \in 1..Len(Steps)
  PROVE  \E j \in i..Len(Steps) : /\ FirstNeeded(call, i) = Steps[j]
                                  /\ \A k \in i..(j-1) : ~Needed(Steps[k], call)
<1> DEFINE S == {j \in i..Len(Steps) : Needed(Steps[j], call)}
<1>1. Len(Steps) \in S
  <2>1. Needed("status", call)
    BY DEF Needed
  <2> QED
    BY <2>1, StepsInOrder
<1>2. PICK m \in S : \A k \in S : m <= k
  <2>1. S \in SUBSET Nat
    BY StepsInOrder
  <2> QED
    BY <1>1, <2>1, Least
<1>3. \A k \in i..(m-1) : ~Needed(Steps[k], call)
  BY <1>2, StepsInOrder
<1> DEFINE First(j) == Needed(Steps[j], call) /\ \A k \in i..(j-1) : ~Needed(Steps[k], call)
<1>4. m \in i..Len(Steps) /\ First(m)
  BY <1>2, <1>3
<1>5. FirstNeeded(call, i) = Steps[CHOOSE j \in i..Len(Steps) : First(j)]
  BY DEF FirstNeeded
<1> HIDE DEF First
<1>6. PICK j \in i..Len(Steps) : First(j) /\ FirstNeeded(call, i) = Steps[j]
  BY <1>4, <1>5
<1> QED
  BY <1>6 DEF First

\* A call that has come past rank r goes on to step n: nothing to do between.
Goes(call, r, n) ==
    /\ n \in Range(Steps) /\ Rank(n) > r
    /\ \A s \in Range(Steps) : r < Rank(s) /\ Rank(s) < Rank(n) => ~Needed(s, call)

LEMMA RankType ==
  /\ \A pc \in PCs : Rank(pc) \in 0..22
  /\ \A pc \in PCs : Rank(pc) = 0 <=> pc = "idle"
  /\ \A pc \in PCs : Rank(pc) = 6 <=> pc \in InitSteps \cup {"init"}
  /\ \A pc \in PCs : Rank(pc) = 22 <=> pc = "status"
<1>1. \A pc \in Range(K8sSteps) : Rank(pc) \in 1..22 /\ (Rank(pc) = 6 <=> pc = "init")
                                  /\ (Rank(pc) = 22 <=> pc = "status")
  BY K8sRanks, Ranks DEF Range, K8sSteps
<1>2. \A pc \in Range(OpenshiftSteps) : Rank(pc) \in 1..22 /\ (Rank(pc) = 6 <=> pc = "init")
                                        /\ (Rank(pc) = 22 <=> pc = "status")
  BY OpenshiftRanks, Ranks DEF Range, OpenshiftSteps
<1>3. \A pc \in InitSteps : Rank(pc) = 6 /\ pc \notin {"idle", "status"}
  BY Ranks DEF InitSteps
<1>4. Rank("idle") = 0
  BY Ranks
<1> QED
  BY <1>1, <1>2, <1>3, <1>4, Ranks DEF PCs

\* The ranks are numbers.
LEMMA Numbers ==
  \A n : /\ n \in 0..22 /\ n # 0 => n \in 1..22
         /\ n \in 1..22 => n \in Int /\ n > 0
  OBVIOUS

LEMMA GoesFrom ==
  ASSUME setup \in Setups, NEW call, NEW i \in 1..Len(Steps), NEW r \in Int,
         i = 1 => r = 0,
         i > 1 => r = Rank(Steps[i - 1])
  PROVE  Goes(call, r, FirstNeeded(call, i))
<1>1. PICK j \in i..Len(Steps) : /\ FirstNeeded(call, i) = Steps[j]
                                 /\ \A k \in i..(j-1) : ~Needed(Steps[k], call)
  BY FirstNeededIs
<1>2. DOMAIN Steps = 1..Len(Steps) /\ Len(Steps) \in Nat
  BY StepsInOrder
<1>3. ASSUME NEW k \in 1..Len(Steps)
      PROVE  Steps[k] \in Range(Steps) /\ Rank(Steps[k]) \in 1..22 /\ Rank(Steps[k]) \in Int
             /\ Rank(Steps[k]) > 0
  <2>1. Steps[k] \in Range(Steps)
    BY <1>2 DEF Range
  <2>2. Steps[k] \in PCs /\ Steps[k] # "idle"
    BY <2>1, StepsOfOffering
  <2>3. Rank(Steps[k]) \in 0..22 /\ Rank(Steps[k]) # 0
    BY <2>2, RankType
  <2> QED
    BY <2>1, <2>3, Numbers, Zenon
<1>4. \A k, m \in 1..Len(Steps) : k < m => Rank(Steps[k]) < Rank(Steps[m])
  BY StepsInOrder
<1>5. j \in 1..Len(Steps)
  BY <1>2
<1>6. Rank(Steps[j]) > r
  <2>1. CASE i = 1
    <3>1. Rank(Steps[j]) > 0
      BY <1>3, <1>5, Zenon
    <3> QED
      BY <2>1, <3>1, Zenon
  <2>2. CASE i > 1
    <3>1. i - 1 \in 1..Len(Steps) /\ i - 1 < j
      BY <1>2, <2>2
    <3> QED
      BY <1>4, <1>5, <2>2, <3>1
  <2> QED
    BY <1>2, <2>1, <2>2
<1>7. ASSUME NEW s \in Range(Steps), r < Rank(s), Rank(s) < Rank(Steps[j])
      PROVE  ~Needed(s, call)
  <2>1. PICK k \in 1..Len(Steps) : s = Steps[k]
    BY <1>2 DEF Range
  <2>2. Rank(Steps[k]) \in Int /\ Rank(Steps[j]) \in Int
    BY <1>3, <1>5, Zenon
  <2>3. ~(j < k) /\ j # k
    <3>1. Rank(Steps[k]) < Rank(Steps[j])
      BY <1>7, <2>1
    <3>2. j < k => Rank(Steps[j]) < Rank(Steps[k])
      BY <1>4, <1>5
    <3> QED
      BY <2>2, <3>1, <3>2
  <2>4. k < j
    BY <1>2, <2>3
  <2>5. ~(k < i)
    <3> SUFFICES ASSUME k < i PROVE FALSE
      OBVIOUS
    <3>1. i - 1 \in 1..Len(Steps) /\ i > 1
      BY <1>2
    <3>2. k < i - 1 \/ k = i - 1
      BY <1>2
    <3>3. Rank(Steps[k]) < Rank(Steps[i - 1]) \/ Steps[k] = Steps[i - 1]
      BY <1>4, <3>1, <3>2
    <3> QED
      BY <1>7, <2>1, <2>2, <3>1, <3>3
  <2> QED
    BY <1>1, <1>2, <2>1, <2>4, <2>5
<1>8. Steps[j] \in Range(Steps)
  BY <1>3, <1>5
<1> QED
  BY <1>1, <1>6, <1>7, <1>8 DEF Goes

LEMMA AfterGoes ==
  ASSUME setup \in Setups, NEW pc \in Range(Steps), pc # "status"
  PROVE  Goes(worker, Rank(pc), After(pc))
<1> DEFINE i == CHOOSE i \in DOMAIN Steps : Steps[i] = pc
<1>1. i \in 1..Len(Steps) /\ Steps[i] = pc
  BY StepsInOrder DEF Range
<1>2. i + 1 \in 1..Len(Steps)
  BY <1>1, StepsInOrder
<1>3. Rank(pc) \in Int
  BY StepsOfOffering, RankType
<1>4. After(pc) = FirstNeeded(worker, 1 + i)
  BY DEF After
<1> HIDE DEF i
<1>5. 1 + i = i + 1 /\ i + 1 > 1 /\ (i + 1) - 1 = i
  BY <1>1
<1> QED
  BY <1>1, <1>2, <1>3, <1>4, <1>5, GoesFrom

LEMMA FirstGoes ==
  ASSUME setup \in Setups, NEW call
  PROVE  Goes(call, 0, FirstNeeded(call, 1))
  BY GoesFrom, StepsInOrder

\* What a call that goes on has not passed over.
LEMMA GoesOn ==
  ASSUME setup \in Setups, NEW call, NEW r \in Int, NEW n, Goes(call, r, n)
  PROVE  /\ n \in PCs /\ n \notin {"idle"} \cup InitSteps /\ n \in Range(Steps)
         /\ Rank(n) \in 1..22 /\ Rank(n) > r
         /\ Rank(n) > 2 => r >= 2 \/ call.inst.filled \/ "checks" \notin Range(Steps)
         /\ Rank(n) > 6 => r >= 6
         /\ Rank(n) > 7 /\ ConfigOverridesUpdated(call.upd) => r >= 7
         /\ Rank(n) > 11 => r >= 11 \/ (made["deployment"] # Absent /\ "specUpdated" \notin call.upd)
         /\ \A o \in {"ingress", "caroute", "opsroute"} :
               o \in Range(Steps) /\ Rank(n) > Rank(o) =>
                  r >= Rank(o) \/ (made[o] # Absent /\ "specUpdated" \notin call.upd)
         /\ Rank(n) > 16 => r >= 16 \/ profile = "current"
         /\ Rank(n) > 17 => r >= 17 \/ made["deployment"] \in {Absent, call.inst.rest}
         /\ Rank(n) > 19 /\ "caCryptoUpdated" \in call.upd => r >= 19
         /\ Rank(n) > 20 /\ call.upd \cap {"renewTLSCert", "restartNeeded"} # {} => r >= 20
<1>1. n \in PCs /\ n \notin {"idle"} \cup InitSteps /\ n \in Range(Steps)
      /\ Rank(n) \in 1..22 /\ Rank(n) > r
  <2>1. n \in PCs /\ n \notin {"idle"} \cup InitSteps /\ n \in Range(Steps) /\ Rank(n) > r
    BY StepsOfOffering DEF Goes
  <2> QED
    BY <2>1, RankType
<1>2. \A s \in Range(Steps) : r < Rank(s) /\ Rank(s) < Rank(n) => ~Needed(s, call)
  BY DEF Goes
<1>3. {"init", "overrides", "deployment", "profile", "states", "crypto", "actions"} \subseteq Range(Steps)
  BY StepsOfOffering
<1>4. Needed("checks", call) <=> ~call.inst.filled
  BY DEF Needed
<1>5. Needed("init", call)
  BY DEF Needed
<1>6. Needed("overrides", call) <=> ConfigOverridesUpdated(call.upd)
  BY DEF Needed
<1>7. \A o \in {"deployment", "ingress", "caroute", "opsroute"} :
         Needed(o, call) <=> made[o] = Absent \/ "specUpdated" \in call.upd
  BY DEF Needed
<1>8. Needed("profile", call) <=> profile # "current"
  BY DEF Needed
<1>9. Needed("states", call) <=> made["deployment"] \notin {Absent, call.inst.rest}
  BY DEF Needed
<1>10. Needed("crypto", call) <=> "caCryptoUpdated" \in call.upd
  BY DEF Needed
<1>11. Needed("actions", call) <=> call.upd \cap {"renewTLSCert", "restartNeeded"} # {}
  BY DEF Needed
<1>12. \A o \in {"ingress", "caroute", "opsroute"} : Rank(o) \in Int
  BY Ranks
<1>13. Rank(n) > 2 => r >= 2 \/ call.inst.filled \/ "checks" \notin Range(Steps)
  BY <1>1, <1>2, <1>4, Ranks
<1>14. /\ Rank(n) > 6 => r >= 6
       /\ Rank(n) > 7 /\ ConfigOverridesUpdated(call.upd) => r >= 7
  BY <1>1, <1>2, <1>3, <1>5, <1>6, Ranks
<1>15. Rank(n) > 11 => r >= 11 \/ (made["deployment"] # Absent /\ "specUpdated" \notin call.upd)
  BY <1>1, <1>2, <1>3, <1>7, Ranks
<1>16. \A o \in {"ingress", "caroute", "opsroute"} :
               o \in Range(Steps) /\ Rank(n) > Rank(o) =>
                  r >= Rank(o) \/ (made[o] # Absent /\ "specUpdated" \notin call.upd)
  BY <1>1, <1>2, <1>7, <1>12
<1>17. /\ Rank(n) > 16 => r >= 16 \/ profile = "current"
       /\ Rank(n) > 17 => r >= 17 \/ made["deployment"] \in {Absent, call.inst.rest}
  BY <1>1, <1>2, <1>3, <1>8, <1>9, Ranks
<1>18. /\ Rank(n) > 19 /\ "caCryptoUpdated" \in call.upd => r >= 19
       /\ Rank(n) > 20 /\ call.upd \cap {"renewTLSCert", "restartNeeded"} # {} => r >= 20
  BY <1>1, <1>2, <1>3, <1>10, <1>11, Ranks
<1> QED
  BY <1>1, <1>13, <1>14, <1>15, <1>16, <1>17, <1>18

-----------------------------------------------------------------------------
(* The stack                                                               *)

\* The flags on a stack with one more update, and with one less.
LEMMA PushFacts ==
  ASSUME NEW s \in Seq(SUBSET Flags), NEW u \in SUBSET Flags
  PROVE  /\ Push(s, u) \in Seq(SUBSET Flags) /\ Push(s, u) # <<>>
         /\ UNION Range(Push(s, u)) = (UNION Range(s)) \cup u
<1>1. Len(s) \in Nat /\ DOMAIN s = 1..Len(s)
  BY LenProperties
<1>2. CASE u \in Range(s)
  <2>1. Push(s, u) = s
    BY <1>2 DEF Push
  <2>2. s # <<>>
    BY <1>1, <1>2 DEF Range
  <2>3. UNION Range(s) = (UNION Range(s)) \cup u
    BY <1>2
  <2> QED
    BY <2>1, <2>2, <2>3
<1>3. CASE u \notin Range(s)
  <2> DEFINE a == Append(s, u)
  <2>1. /\ a \in Seq(SUBSET Flags) /\ Len(a) = Len(s) + 1 /\ a # <<>>
        /\ \A i \in 1..Len(s) : a[i] = s[i]
        /\ a[Len(s) + 1] = u
    BY AppendProperties
  <2>2. DOMAIN a = 1..(Len(s) + 1)
    BY <2>1, LenProperties
  <2>3. Push(s, u) = a
    BY <1>3 DEF Push
  <2> HIDE DEF a
  <2>4. Range(a) = Range(s) \cup {u}
    <3>1. ASSUME NEW x \in Range(a) PROVE x \in Range(s) \cup {u}
      <4>1. PICK i \in 1..(Len(s) + 1) : x = a[i]
        BY <2>2 DEF Range
      <4>2. i \in 1..Len(s) \/ i = Len(s) + 1
        BY <1>1, <4>1
      <4> QED
        BY <1>1, <2>1, <4>1, <4>2 DEF Range
    <3>2. Range(s) \subseteq Range(a)
      <4>1. \A i \in 1..Len(s) : i \in DOMAIN a
        BY <1>1, <2>2
      <4> QED
        BY <1>1, <2>1, <4>1 DEF Range
    <3>3. u \in Range(a)
      <4>1. Len(s) + 1 \in DOMAIN a
        BY <1>1, <2>2
      <4> QED
        BY <2>1, <4>1 DEF Range
    <3> QED
      BY <3>1, <3>2, <3>3
  <2>5. UNION Range(a) = (UNION Range(s)) \cup u
    BY <2>4
  <2> QED
    BY <2>1, <2>3, <2>5
<1> QED
  BY <1>2, <1>3

LEMMA PopFacts ==
  ASSUME NEW s \in Seq(SUBSET Flags), s # <<>>
  PROVE  /\ Head(s) \in SUBSET Flags /\ Tail(s) \in Seq(SUBSET Flags)
         /\ UNION Range(s) = Head(s) \cup UNION Range(Tail(s))
<1>1. /\ Head(s) \in SUBSET Flags /\ Tail(s) \in Seq(SUBSET Flags)
      /\ Head(s) = s[1]
      /\ Len(Tail(s)) = Len(s) - 1
      /\ \A i \in 1..Len(Tail(s)) : Tail(s)[i] = s[i+1]
  BY HeadTailProperties
<1>2. /\ Len(s) \in Nat /\ DOMAIN s = 1..Len(s)
      /\ DOMAIN Tail(s) = 1..Len(Tail(s)) /\ Len(s) > 0
  BY <1>1, LenProperties, EmptySeq
<1>3. ASSUME NEW i \in 1..Len(s)
      PROVE  s[i] \in Range(Tail(s)) \cup {Head(s)}
  <2>1. CASE i = 1
    BY <1>1, <2>1
  <2>2. CASE i # 1
    <3>1. i - 1 \in 1..Len(Tail(s)) /\ Tail(s)[i - 1] = s[i]
      BY <1>1, <1>2, <2>2
    <3> QED
      BY <1>2, <3>1 DEF Range
  <2> QED
    BY <2>1, <2>2
<1>4. ASSUME NEW i \in 1..Len(Tail(s))
      PROVE  Tail(s)[i] \in Range(s)
  <2>1. i + 1 \in 1..Len(s) /\ Tail(s)[i] = s[i + 1]
    BY <1>1, <1>2
  <2> QED
    BY <1>2, <2>1 DEF Range
<1>5. Head(s) \in Range(s)
  <2>1. 1 \in DOMAIN s
    BY <1>2
  <2> QED
    BY <1>1, <2>1 DEF Range
<1>6. Range(s) = Range(Tail(s)) \cup {Head(s)}
  <2>1. Range(s) \subseteq Range(Tail(s)) \cup {Head(s)}
    BY <1>2, <1>3 DEF Range
  <2>2. Range(Tail(s)) \subseteq Range(s)
    BY <1>2, <1>4 DEF Range
  <2> QED
    BY <1>5, <2>1, <2>2
<1>7. UNION Range(s) = Head(s) \cup UNION Range(Tail(s))
  BY <1>6
<1> QED
  BY <1>1, <1>7

LEMMA ShortStacks ==
  /\ UNION Range(<<>>) = {} /\ <<>> \in Seq(SUBSET Flags)
  /\ \A u \in SUBSET Flags : /\ UNION Range(<<u>>) = u /\ <<u>> \in Seq(SUBSET Flags)
                             /\ <<u>> # <<>>
<1>1. Range(<<>>) = {}
  BY DEF Range
<1>2. ASSUME NEW u \in SUBSET Flags
      PROVE  UNION Range(<<u>>) = u /\ <<u>> \in Seq(SUBSET Flags) /\ <<u>> # <<>>
  <2>1. Range(<<u>>) = {u}
    <3>1. DOMAIN <<u>> = {1} /\ <<u>>[1] = u
      OBVIOUS
    <3> QED
      BY <3>1 DEF Range
  <2> QED
    BY <2>1
<1> QED
  BY <1>1, <1>2

-----------------------------------------------------------------------------
(* What TypeOK says of the parts                                           *)

LEMMA SpecTypes ==
  ASSUME NEW s \in Specs
  PROVE  /\ s.rest \in Revs /\ s.ca \in Revs /\ s.tls \in Revs /\ s.tag \in Revs
         /\ s.over \in BOOLEAN /\ s.gen \in BOOLEAN /\ s.filled \in BOOLEAN
         /\ s.renew \in BOOLEAN /\ s.restart \in BOOLEAN
         /\ s.rest \in Int /\ s.ca \in Int /\ s.tls \in Int /\ s.rest >= 0 /\ s.ca >= 0 /\ s.tls >= 0
<1>1. /\ s.rest \in Revs /\ s.ca \in Revs /\ s.tls \in Revs /\ s.tag \in Revs
      /\ s.over \in BOOLEAN /\ s.gen \in BOOLEAN /\ s.filled \in BOOLEAN
      /\ s.renew \in BOOLEAN /\ s.restart \in BOOLEAN
  BY DEF Specs
<1>2. MaxEvents \in Nat
  BY ConstantsOK
<1> QED
  BY <1>1, <1>2 DEF Revs

LEMMA Types ==
  ASSUME TypeOK
  PROVE  /\ MaxEvents \in Nat /\ events \in 0..MaxEvents /\ events \in Nat
         /\ spec \in Specs /\ worker.inst \in Specs /\ ~spec.gen
         /\ \A o \in Objects : made[o] \in -1..MaxEvents
         /\ DOMAIN made = Objects
         /\ pod.rev \in -1..MaxEvents /\ pod.up \in BOOLEAN /\ pod.tls \in BOOLEAN
         /\ pod.cfg \in Configs /\ cfg \in Configs
         /\ cfg.ca \in -1..MaxEvents /\ cfg.tls \in -1..MaxEvents /\ cfg.files \in BOOLEAN
         /\ worker.pc \in PCs /\ worker.which \in CAs /\ worker.upd \in SUBSET Flags
         /\ worker.result \in {"ok", "requeue", "error", "breaking"}
         /\ worker.resp \in {"none", "create", "update"}
         /\ stack \in Seq(SUBSET Flags) /\ setup \in Setups
         /\ \A c \in CAs : /\ secret.root[c] \in Nat \cup {Absent}
                           /\ job[c] \in {"none", "active", "succeeded", "failed"}
<1>1. MaxEvents \in Nat
  BY ConstantsOK
<1>2. /\ spec \in Specs /\ worker.inst \in Specs /\ ~spec.gen /\ events \in 0..MaxEvents
      /\ worker.pc \in PCs /\ worker.which \in CAs /\ worker.upd \in SUBSET Flags
      /\ worker.result \in {"ok", "requeue", "error", "breaking"}
      /\ worker.resp \in {"none", "create", "update"}
  BY DEF TypeOK, Calls
<1>3. /\ \A o \in Objects : made[o] \in -1..MaxEvents
      /\ DOMAIN made = Objects
      /\ stack \in Seq(SUBSET Flags) /\ setup \in Setups
  BY DEF TypeOK
<1>4. /\ pod.rev \in -1..MaxEvents /\ pod.up \in BOOLEAN /\ pod.tls \in BOOLEAN
      /\ pod.cfg \in Configs /\ cfg \in Configs
  BY DEF TypeOK
<1>5. cfg.ca \in -1..MaxEvents /\ cfg.tls \in -1..MaxEvents /\ cfg.files \in BOOLEAN
  BY <1>4 DEF Configs
<1>6. \A c \in CAs : /\ secret.root[c] \in Nat \cup {Absent}
                     /\ job[c] \in {"none", "active", "succeeded", "failed"}
  BY DEF TypeOK
<1> QED
  BY <1>1, <1>2, <1>3, <1>4, <1>5, <1>6

LEMMA IdleType ==
  /\ Idle \in Calls
  /\ Idle.pc = "idle" /\ Idle.which = "ca" /\ Idle.upd = {} /\ Idle.resp = "none" /\ Idle.result = "ok"
<1>1. 0 \in Revs
  BY ConstantsOK DEF Revs
<1>2. NewSpec \in Specs
  BY <1>1 DEF NewSpec, Specs
<1>3. "idle" \in PCs /\ "ca" \in CAs /\ {} \in SUBSET Flags /\ "none" \in Statuses
  BY DEF PCs, CAs, Statuses
<1> QED
  BY <1>2, <1>3 DEF Idle, Calls

-----------------------------------------------------------------------------
(* A reconcile goes on                                                     *)

\* What the worker comes past has nothing to do, but for the step it leaves.
Onward ==
    /\ worker.result = "ok" /\ worker'.result = "ok" /\ worker'.upd = worker.upd
    /\ Rank(worker.pc) \in 1..21 /\ Rank(worker'.pc) \in 1..22
    /\ Rank(worker.pc) <= Rank(worker'.pc)
    /\ Rank(worker'.pc) > 6 => Rank(worker.pc) >= 6
    /\ Rank(worker'.pc) > 7 /\ ConfigOverridesUpdated(worker.upd) => Rank(worker.pc) >= 7
    /\ Rank(worker'.pc) > 11 =>
          Rank(worker.pc) >= 11 \/ (made["deployment"] # Absent /\ "specUpdated" \notin worker.upd)
    /\ \A o \in {"ingress", "caroute", "opsroute"} :
          o \in Range(Steps) /\ Rank(worker'.pc) > Rank(o) =>
             Rank(worker.pc) >= Rank(o) \/ (made[o] # Absent /\ "specUpdated" \notin worker.upd)
    /\ Rank(worker'.pc) > 16 => Rank(worker.pc) >= 16 \/ profile = "current"
    /\ Rank(worker'.pc) > 17 =>
          Rank(worker.pc) >= 17 \/ made["deployment"] \in {Absent, worker.inst.rest}
    /\ Rank(worker'.pc) > 19 /\ "caCryptoUpdated" \in worker.upd => Rank(worker.pc) >= 19
    /\ Rank(worker'.pc) > 20 /\ worker.upd \cap {"renewTLSCert", "restartNeeded"} # {} =>
          Rank(worker.pc) >= 20

\* No two steps of Reconcile have a rank in common.
LEMMA RankIsStep ==
  ASSUME NEW pc \in PCs
  PROVE  \A s \in {"overrides", "deployment", "ingress", "caroute", "opsroute", "profile",
                   "states", "crypto", "actions"} :
            Rank(s) \in Int /\ (Rank(pc) = Rank(s) => pc = s)
<1>1. CASE pc \in {"idle"} \cup InitSteps
  BY <1>1, Ranks DEF InitSteps
<1>2. CASE pc \in Range(K8sSteps)
  BY <1>2, Ranks, K8sRanks DEF Range, K8sSteps
<1>3. CASE pc \in Range(OpenshiftSteps)
  BY <1>3, Ranks, OpenshiftRanks DEF Range, OpenshiftSteps
<1> QED
  BY <1>1, <1>2, <1>3 DEF PCs

\* Reconcile before the status.
LEMMA Underway ==
  ASSUME IInv, ~At("idle"), ~At("status")
  PROVE  /\ worker.result = "ok" /\ up /\ setup \in Setups /\ Rank(worker.pc) \in 1..21
         /\ worker.pc \in PCs
<1>1. worker.result = "ok" /\ up
  <2>1. worker # Idle
    BY DEF Idle, At
  <2> QED
    BY <2>1 DEF IInv, Course
<1>2. setup \in Setups /\ worker.pc \in PCs
  BY DEF IInv, TypeOK, Calls
<1>3. Rank(worker.pc) \in 0..22 /\ Rank(worker.pc) # 0 /\ Rank(worker.pc) # 22
  BY <1>2, RankType DEF At
<1> QED
  BY <1>1, <1>2, <1>3

LEMMA OnwardByGoing ==
  ASSUME IInv, ~At("idle"), ~At("status"),
         Goes(worker, Rank(worker.pc), worker'.pc),
         worker'.result = worker.result, worker'.upd = worker.upd
  PROVE  Onward
<1>1. worker.result = "ok" /\ setup \in Setups /\ Rank(worker.pc) \in 1..21
  BY Underway
<1> DEFINE n == worker'.pc
           r == Rank(worker.pc)
<1>2. r \in Int /\ Goes(worker, r, n)
  BY <1>1
<1>3. /\ Rank(n) \in 1..22 /\ Rank(n) > r
      /\ Rank(n) > 6 => r >= 6
      /\ Rank(n) > 7 /\ ConfigOverridesUpdated(worker.upd) => r >= 7
      /\ Rank(n) > 11 => r >= 11 \/ (made["deployment"] # Absent /\ "specUpdated" \notin worker.upd)
      /\ \A o \in {"ingress", "caroute", "opsroute"} :
            o \in Range(Steps) /\ Rank(n) > Rank(o) =>
               r >= Rank(o) \/ (made[o] # Absent /\ "specUpdated" \notin worker.upd)
      /\ Rank(n) > 16 => r >= 16 \/ profile = "current"
      /\ Rank(n) > 17 => r >= 17 \/ made["deployment"] \in {Absent, worker.inst.rest}
      /\ Rank(n) > 19 /\ "caCryptoUpdated" \in worker.upd => r >= 19
      /\ Rank(n) > 20 /\ worker.upd \cap {"renewTLSCert", "restartNeeded"} # {} => r >= 20
  <2> HIDE DEF n, r
  <2> QED
    BY <1>1, <1>2, GoesOn
<1>4. r <= Rank(n)
  BY <1>1, <1>3
<1> QED
  BY <1>1, <1>3, <1>4 DEF Onward

\* Within Initialize.
LEMMA OnwardByStaying ==
  ASSUME IInv, Rank(worker.pc) = 6, Rank(worker'.pc) = 6, worker.result = "ok",
         worker'.result = worker.result, worker'.upd = worker.upd
  PROVE  Onward
<1>1. \A o \in {"ingress", "caroute", "opsroute"} : ~(6 > Rank(o))
  BY Ranks
<1>2. \A o \in {"ingress", "caroute", "opsroute"} : ~(Rank(worker'.pc) > Rank(o))
  BY <1>1
<1>3. 6 \in 1..21 /\ 6 \in 1..22 /\ 6 <= 6 /\ ~(6 > 6) /\ ~(6 > 7) /\ ~(6 > 11) /\ ~(6 > 16) /\ ~(6 > 17)
      /\ ~(6 > 19) /\ ~(6 > 20)
  OBVIOUS
<1> QED
  BY <1>2, <1>3, Zenon DEF Onward

\* The step that is left has nothing to do, or has done it.
LEMMA OnwardServes ==
  ASSUME IInv, Onward,
         UNCHANGED <<setup, up, spec>>, mishaps \subseteq mishaps',
         pod' = pod, Stacked \subseteq Stacked', ~At("actions"),
         restart # {} => restart' # {},
         At("crypto") => restart' # {},
         \A o \in {"ingress", "caroute", "opsroute"} :
            /\ made'[o] \in {made[o], worker.inst.rest}
            /\ At(o) /\ "specUpdated" \in worker.upd => made'[o] = worker.inst.rest
  PROVE  Served'
<1> SUFFICES ASSUME up, mishaps \subseteq {"lateMigration"} PROVE Served'
  BY DEF Served
<1>1. worker.pc \in PCs /\ ~At("idle") /\ spec \in Specs
  <2>1. ~At("idle")
    BY Ranks DEF Onward, At
  <2> QED
    BY <2>1 DEF IInv, TypeOK, Calls
<1>2. Served /\ EditsStacked /\ OfferingObjects
  BY DEF IInv
<1>3. Rank(worker.pc) \in 1..21 /\ Rank(worker'.pc) \in 1..22 /\ Rank(worker.pc) <= Rank(worker'.pc)
      /\ worker.result = "ok" /\ worker'.result = "ok" /\ worker'.upd = worker.upd
  BY DEF Onward
<1>4. ASSUME NEW o \in {"ingress", "caroute", "opsroute"}, made'[o] \notin {Absent, spec.rest}
      PROVE  "specUpdated" \in Stacked' \/ ("specUpdated" \in worker'.upd /\ ~Done(o)')
  <2> SUFFICES ASSUME "specUpdated" \notin Stacked
               PROVE  "specUpdated" \in worker'.upd /\ ~Done(o)'
    OBVIOUS
  <2>1. worker.inst.rest = spec.rest
    BY <1>1, <1>2 DEF EditsStacked
  <2>2. made'[o] = made[o]
    BY <1>4, <2>1
  <2>3. "specUpdated" \in worker.upd /\ ~Done(o)
    BY <1>2, <1>4, <2>2 DEF Served
  <2>4. ~At(o)
    BY <1>4, <2>1, <2>3
  <2>5. Rank(o) \in Int /\ Rank(worker.pc) # Rank(o)
    BY <1>1, <2>4, RankIsStep DEF At
  <2>6. Rank(worker.pc) < Rank(o)
    BY <1>3, <2>3, <2>5 DEF Done
  <2>7. o \in Range(Steps)
    BY <1>2, <1>4, <2>2 DEF OfferingObjects
  <2>8. ~(Rank(worker'.pc) > Rank(o))
    BY <1>3, <2>3, <2>5, <2>6, <2>7 DEF Onward
  <2> QED
    BY <1>3, <2>3, <2>8 DEF Done
<1>5. spec.restart => "restartNeeded" \in Stacked' \/ ("restartNeeded" \in worker'.upd /\ ~Done("actions")')
  <2> SUFFICES ASSUME spec.restart, "restartNeeded" \notin Stacked
               PROVE  "restartNeeded" \in worker'.upd /\ ~Done("actions")'
    OBVIOUS
  <2>1. "restartNeeded" \in worker.upd /\ ~Done("actions")
    BY <1>2 DEF Served
  <2>2. Rank(worker.pc) # 20
    BY <1>1, RankIsStep, Ranks DEF At
  <2> QED
    BY <1>3, <2>1, <2>2, Ranks DEF Done, Onward
<1>6. spec.renew => "renewTLSCert" \in Stacked' \/ ("renewTLSCert" \in worker'.upd /\ ~Done("actions")')
  <2> SUFFICES ASSUME spec.renew, "renewTLSCert" \notin Stacked
               PROVE  "renewTLSCert" \in worker'.upd /\ ~Done("actions")'
    OBVIOUS
  <2>1. "renewTLSCert" \in worker.upd /\ ~Done("actions")
    BY <1>2 DEF Served
  <2>2. Rank(worker.pc) # 20
    BY <1>1, RankIsStep, Ranks DEF At
  <2> QED
    BY <1>3, <2>1, <2>2, Ranks DEF Done, Onward
<1>7. pod.up /\ ~pod.tls /\ restart' = {} =>
         "caCryptoUpdated" \in Stacked' \/ ("caCryptoUpdated" \in worker'.upd /\ ~Done("crypto")')
  <2> SUFFICES ASSUME pod.up, ~pod.tls, restart' = {}, "caCryptoUpdated" \notin Stacked
               PROVE  "caCryptoUpdated" \in worker'.upd /\ ~Done("crypto")'
    OBVIOUS
  <2>1. "caCryptoUpdated" \in worker.upd /\ ~Done("crypto")
    BY <1>2 DEF Served
  <2>2. Rank(worker.pc) # 19
    BY <1>1, RankIsStep, Ranks DEF At
  <2> QED
    BY <1>3, <2>1, <2>2, Ranks DEF Done, Onward
<1> QED
  BY <1>4, <1>5, <1>6, <1>7 DEF Served

LEMMA OnwardKeeps ==
  ASSUME IInv, Onward, worker.pc \notin InitSteps \cup {"init"}, worker'.pc \in Range(Steps),
         worker'.which = worker.which, worker'.resp = worker.resp,
         worker'.inst.ca \in {worker.inst.ca, spec.ca},
         worker'.inst.tls \in {worker.inst.tls, spec.tls},
         worker'.inst.rest \in {worker.inst.rest, spec.rest},
         UNCHANGED <<setup, up, job>>, mishaps \subseteq mishaps',
         spec'.ca = spec.ca, spec'.tls = spec.tls, spec'.rest = spec.rest, spec'.over = spec.over,
         Stacked \subseteq Stacked', secret'.root = secret.root,
         cfg'.ca = cfg.ca, cfg'.tls = cfg.tls, cfg'.files = cfg.files,
         made'["deployment"] # made["deployment"] => Rank(worker.pc) > 6
  PROVE  Course' /\ EditsStacked' /\ BrokenOff' /\ RootInv' /\ InitInv' /\ OverridesServed'
<1>1. /\ worker.result = "ok" /\ worker'.result = "ok" /\ worker'.upd = worker.upd
      /\ Rank(worker.pc) \in 1..21 /\ Rank(worker'.pc) \in 1..22
      /\ Rank(worker.pc) <= Rank(worker'.pc)
      /\ Rank(worker'.pc) > 6 => Rank(worker.pc) >= 6
  BY DEF Onward
<1>2. /\ setup \in Setups /\ worker.pc \in PCs /\ worker.pc # "idle"
      /\ worker'.pc \in PCs \ ({"idle"} \cup InitSteps)
  <2>1. setup \in Setups /\ worker.pc \in PCs
    BY DEF IInv, TypeOK, Calls
  <2>2. worker.pc # "idle"
    BY <1>1, Ranks
  <2> QED
    BY <2>1, <2>2, StepsOfOffering
<1>3. Rank(worker.pc) # 6 /\ up
  <2>1. up
    BY <1>2 DEF IInv, Course, Idle
  <2> QED
    BY <1>2, <2>1, RankType
<1>4. Steps' = Steps
  BY DEF Steps
<1>5. Course'
  <2>1. Course
    BY DEF IInv
  <2>2. worker'.which = "ca" \/ ~(Rank(worker'.pc) < 6)
    BY <1>1, <2>1 DEF Course
  <2>3. worker'.pc \notin {"idle", "hsmsecret", "hsmconfig", "hsmjob", "hsmwait", "secret", "config"}
    BY <1>2 DEF InitSteps
  <2>4. ~spec'.over => spec'.ca = 0 /\ spec'.tls = 0
    BY <2>1 DEF Course
  <2> QED
    BY <1>1, <1>3, <1>4, <2>2, <2>3, <2>4 DEF Course, At
<1>6. EditsStacked'
  BY <1>2 DEF EditsStacked, IInv, At
<1>7. BrokenOff'
  BY <1>1 DEF BrokenOff
<1>8. worker'.pc \notin InitSteps
  BY <1>2
<1>9. RootInv'
  BY <1>8 DEF RootInv, IInv, InitSteps, At
<1>10. InitInv'
  <2> SUFFICES ASSUME mishaps \cap {"halfway", "misread"} = {} PROVE InitInv'
    BY DEF InitInv
  <2>1. \A c \in CAs : cfg'[c] = cfg[c]
    BY DEF CAs
  <2>2. ~At("config")' /\ \A c \in CAs : ~Creating(c) /\ ~Creating(c)'
    BY <1>2 DEF Creating, InitSteps, At
  <2>3. \A c \in CAs : job[c] = "none"
    BY <1>2 DEF IInv, InitInv, InitSteps, At
  <2>4. \A c \in CAs : CADone(c)' => CADone(c)
    BY <1>1, <1>3 DEF CADone
  <2>5. ~At("status")
    BY <1>1, Ranks DEF At
  <2>6. \A c \in CAs : CADone(c) => secret.root[c] # Absent
    BY <2>5 DEF IInv, InitInv
  <2>7. made'["deployment"] # Absent => \A c \in CAs : secret.root[c] # Absent
    <3>1. CASE made'["deployment"] = made["deployment"]
      BY <3>1 DEF IInv, InitInv
    <3>2. CASE Rank(worker.pc) > 6
      BY <1>1, <2>6, <3>2 DEF CADone
    <3> QED
      BY <3>1, <3>2
  <2>8. \A c \in CAs : /\ secret.root[c] = Absent => cfg[c] = Absent
                       /\ secret.root[c] # Absent =>
                            secret.root[c] >= 1 /\ cfg[c] # Absent /\ (c = "ca" => cfg.files)
    BY <2>2 DEF IInv, InitInv
  <2> QED
    BY <2>1, <2>2, <2>3, <2>4, <2>6, <2>7, <2>8 DEF InitInv
<1>11. OverridesServed'
  <2>1. CADone("ca")' => CADone("ca")
    BY <1>1, <1>3 DEF CADone
  <2>2. CADone("tls")' => CADone("tls")
    BY <1>1, <1>3 DEF CADone
  <2> QED
    BY <1>1, <2>1, <2>2 DEF IInv, OverridesServed
<1> QED
  BY <1>5, <1>6, <1>7, <1>9, <1>10, <1>11

LEMMA OnwardRests ==
  ASSUME IInv, Onward, worker'.pc # "idle",
         UNCHANGED <<setup, up>>, mishaps \subseteq mishaps', spec'.rest = spec.rest,
         Stacked \subseteq Stacked', stack # <<>> => stack' # <<>>, work => work',
         pod'.up = pod.up, pod'.cfg = pod.cfg, pod'.rev = pod.rev,
         made'["deployment"] \in {made["deployment"], worker.inst.rest},
         At("deployment") \/ At("states") => made'["deployment"] = worker.inst.rest,
         profile' # "current" => (profile' = profile /\ ~At("profile")) \/ stack' # <<>>,
         restart # {} => restart' # {},
         At("overrides") /\ made["deployment"] # Absent => restart' # {},
         mishaps = {} =>
            \/ cfg' = cfg
            \/ ~(pod.up /\ pod.rev = made["deployment"]) /\ made' = made
            \/ ConfigOverridesUpdated(worker.upd) /\ Rank(worker.pc) = 6
  PROVE  RestInv'
<1> SUFFICES ASSUME mishaps = {} PROVE RestInv'
  BY DEF RestInv
<1>1. /\ worker.result = "ok" /\ worker'.result = "ok" /\ worker'.upd = worker.upd
      /\ Rank(worker.pc) \in 1..21 /\ Rank(worker'.pc) \in 1..22
      /\ Rank(worker.pc) <= Rank(worker'.pc)
  BY DEF Onward
<1>2. worker.pc \in PCs /\ worker.pc # "idle" /\ worker.inst.rest \in Revs /\ made \in [Objects -> -1..MaxEvents]
      /\ worker.inst \in Specs
  <2>1. worker.pc # "idle"
    BY <1>1, Ranks
  <2>2. worker.pc \in PCs /\ worker.inst \in Specs /\ made \in [Objects -> -1..MaxEvents]
    BY DEF IInv, TypeOK, Calls
  <2>3. worker.inst.rest \in Revs
    BY <2>2 DEF Specs
  <2> QED
    BY <2>1, <2>2, <2>3
<1>3. /\ Rank(worker.pc) = 11 => At("deployment")
      /\ Rank(worker.pc) = 17 => At("states")
      /\ Rank(worker.pc) = 16 => At("profile")
      /\ Rank(worker.pc) = 7 => At("overrides")
  <2>1. \A s \in {"overrides", "deployment", "profile", "states"} :
           Rank(worker.pc) = Rank(s) => worker.pc = s
    BY <1>2, RankIsStep
  <2> QED
    BY <2>1, Ranks DEF At
<1>4. MaxEvents \in Nat /\ worker.inst.rest # Absent
  BY <1>2, ConstantsOK DEF Revs, Absent
<1>5. spec.rest # worker.inst.rest => stack' # <<>>
  <2>1. spec.rest # worker.inst.rest => "specUpdated" \in Stacked
    BY <1>2 DEF IInv, EditsStacked, At
  <2> QED
    BY <2>1, ShortStacks DEF Stacked
<1>6. Done("deployment")' => made'["deployment"] # Absent
  <2> SUFFICES ASSUME Rank(worker'.pc) > 11 PROVE made'["deployment"] # Absent
    BY Ranks DEF Done
  <2>1. CASE made'["deployment"] # made["deployment"]
    BY <1>4, <2>1
  <2>2. CASE Rank(worker.pc) > 11
    <3>1. Done("deployment")
      BY <1>1, <2>2, Ranks DEF Done
    <3> QED
      BY <1>4, <3>1 DEF IInv, RestInv
  <2>3. CASE Rank(worker.pc) = 11
    BY <1>3, <1>4, <2>3
  <2>4. CASE Rank(worker.pc) < 11 /\ made'["deployment"] = made["deployment"]
    BY <1>1, <2>4 DEF Onward
  <2> QED
    BY <1>1, <2>1, <2>2, <2>3, <2>4
<1>7. ASSUME up, made'["deployment"] # spec.rest PROVE Busy("states")'
  <2> SUFFICES ASSUME stack' = <<>>, ~work', Rank(worker'.pc) > 17 PROVE FALSE
    BY <1>1, Ranks DEF Busy, Done, At
  <2>1. made'["deployment"] = made["deployment"] /\ worker.inst.rest = spec.rest
    BY <1>5, <1>7
  <2>2. Rank(worker.pc) # 17 /\ Rank(worker.pc) # 11
    BY <1>3, <1>5, <1>7
  <2>3. Busy("states")
    BY <1>7, <2>1 DEF IInv, RestInv
  <2>4. Rank(worker.pc) < 17
    BY <1>1, <2>2, <2>3, Ranks DEF Busy, Done
  <2>5. made["deployment"] = Absent
    BY <1>1, <1>7, <2>1, <2>4 DEF Onward
  <2>6. Rank(worker'.pc) > 11
    BY <1>1
  <2> QED
    BY <1>1, <1>6, <2>1, <2>5, <2>6, Ranks DEF Done
<1>8. ASSUME up, profile' # "current" PROVE Busy("profile")'
  <2> SUFFICES ASSUME stack' = <<>>, ~work', Rank(worker'.pc) > 16 PROVE FALSE
    BY <1>1, Ranks DEF Busy, Done, At
  <2>1. profile' = profile /\ Rank(worker.pc) # 16
    BY <1>3, <1>8
  <2>2. Busy("profile")
    BY <1>8, <2>1 DEF IInv, RestInv
  <2>3. Rank(worker.pc) < 16
    BY <1>1, <2>1, <2>2, Ranks DEF Busy, Done
  <2> QED
    BY <1>1, <1>8, <2>1, <2>3 DEF Onward
<1>9. ASSUME up, Unrestarted', pod'.rev = made'["deployment"]
      PROVE  ConfigOverridesUpdated(Stacked)' \/ (ConfigOverridesUpdated(worker.upd)' /\ ~Done("overrides")')
  <2>1. pod.up /\ restart = {} /\ restart' = {} /\ pod.cfg # cfg'
    BY <1>9 DEF Unrestarted
  <2>2. pod.rev = made["deployment"] /\ made["deployment"] # Absent
    <3>1. /\ pod.rev <= made["deployment"] /\ made["deployment"] <= worker.inst.rest
          /\ made["deployment"] # Absent
      BY <1>2, <2>1 DEF IInv, RevsGrow, At
    <3>2. made["deployment"] \in Int /\ worker.inst.rest \in Int /\ pod.rev \in Int
      BY <1>2, ConstantsOK DEF Objects, Revs, IInv, TypeOK
    <3> QED
      BY <1>9, <3>1, <3>2
  <2>3. cfg' = cfg \/ (ConfigOverridesUpdated(worker.upd) /\ Rank(worker.pc) = 6)
    BY <2>1, <2>2
  <2>4. ConfigOverridesUpdated(Stacked) \/ (ConfigOverridesUpdated(worker.upd) /\ ~Done("overrides"))
    <3>1. CASE cfg' = cfg
      BY <1>9, <2>1, <2>2, <3>1 DEF IInv, RestInv, Unrestarted
    <3>2. CASE ConfigOverridesUpdated(worker.upd) /\ Rank(worker.pc) = 6
      BY <3>2, Ranks DEF Done
    <3> QED
      BY <2>3, <3>1, <3>2
  <2>5. CASE ConfigOverridesUpdated(Stacked)
    BY <2>5 DEF ConfigOverridesUpdated
  <2>6. CASE ConfigOverridesUpdated(worker.upd) /\ ~Done("overrides")
    <3>1. Rank(worker.pc) # 7
      BY <1>3, <2>1, <2>2
    <3>2. Rank(worker.pc) < 7
      BY <1>1, <2>6, <3>1, Ranks DEF Done
    <3>3. ~(Rank(worker'.pc) > 7)
      BY <1>1, <2>6, <3>2 DEF Onward
    <3> QED
      BY <1>1, <2>6, <3>3, Ranks DEF Done, ConfigOverridesUpdated
  <2> QED
    BY <2>4, <2>5, <2>6
<1> QED
  BY <1>6, <1>7, <1>8, <1>9 DEF RestInv

-----------------------------------------------------------------------------
(* A reconcile is broken off                                               *)

LEMMA LeaveKeeps ==
  ASSUME IInv, ~At("idle"), ~At("status"),
         worker'.pc = "status", worker'.result # "ok", worker'.upd = worker.upd,
         worker'.which = worker.which,
         worker'.inst.ca = worker.inst.ca, worker'.inst.tls = worker.inst.tls,
         worker'.inst.rest = worker.inst.rest,
         UNCHANGED <<setup, up, secret, cfg, made, profile, job, pod, restart>>,
         spec'.ca = spec.ca, spec'.tls = spec.tls, spec'.rest = spec.rest, spec'.over = spec.over,
         spec'.renew = spec.renew, spec'.restart = spec.restart,
         Stacked \subseteq Stacked', events' \in Nat, events <= events',
         mishaps \subseteq mishaps',
         worker.pc \in {"config", "hsmconfig", "hsmjob", "hsmwait"} => "halfway" \in mishaps'
  PROVE  /\ Course' /\ RevsGrow' /\ EditsStacked' /\ RootInv' /\ InitInv'
         /\ OverridesServed' /\ Served' /\ OfferingObjects' /\ RestInv'
<1>1. worker.result = "ok" /\ up /\ setup \in Setups
  BY Underway
<1>2. Steps' = Steps
  BY DEF Steps
<1>3. Course'
  <2>1. "status" \in Range(Steps')
    BY <1>1, <1>2, StepsOfOffering
  <2>2. ~(Rank("status") < 6)
    BY Ranks
  <2> QED
    BY <1>1, <2>1, <2>2 DEF Course, At, IInv
<1>4. RevsGrow'
  <2>1. RevsGrow /\ spec.rest \in Int /\ events \in Int /\ events' \in Int
    BY Types, SpecTypes DEF IInv
  <2> QED
    BY <2>1 DEF RevsGrow, At
<1>5. EditsStacked'
  BY DEF EditsStacked, IInv, At
<1>6. RootInv'
  BY DEF RootInv, IInv, At
<1>7. InitInv'
  <2> SUFFICES ASSUME mishaps' \cap {"halfway", "misread"} = {} PROVE InitInv'
    BY DEF InitInv
  <2>1. worker.pc \notin {"config", "hsmconfig", "hsmjob", "hsmwait"}
    OBVIOUS
  <2>2. mishaps \cap {"halfway", "misread"} = {} /\ InitInv
    BY DEF IInv
  <2>3. \A c \in CAs : ~Creating(c) /\ ~Creating(c)' /\ job[c] = "none"
    BY <2>1, <2>2 DEF Creating, InitInv, At
  <2> QED
    BY <2>2, <2>3 DEF InitInv, At
<1>8. ~CADone("ca")' /\ ~CADone("tls")' /\ \A s : ~Done(s)'
  BY DEF CADone, Done
<1>9. OverridesServed'
  BY <1>8 DEF OverridesServed, IInv
<1>10. Served'
  BY <1>8 DEF Served, IInv
<1>11. OfferingObjects'
  BY <1>2 DEF OfferingObjects, IInv
<1>12. RestInv'
  <2>1. Busy("states")' /\ Busy("profile")'
    BY <1>8 DEF Busy, At
  <2> QED
    BY <1>8, <2>1 DEF RestInv, IInv, ConfigOverridesUpdated, Unrestarted
<1> QED
  BY <1>3, <1>4, <1>5, <1>6, <1>7, <1>9, <1>10, <1>11, <1>12

-----------------------------------------------------------------------------
(* Reconcile continues                                                     *)

LEMMA Continues ==
  ASSUME IInv, ~At("idle"), ~At("status"), worker.pc \notin InitSteps,
         worker'.pc = After(worker.pc), worker'.result = worker.result, worker'.upd = worker.upd
  PROVE  /\ Onward /\ worker'.pc \in Range(Steps) /\ worker'.pc \in PCs /\ worker'.pc # "idle"
         /\ worker.pc \in Range(Steps)
<1>1. setup \in Setups
  BY Underway
<1>2. worker.pc \in Range(Steps) /\ worker.pc # "status"
  BY DEF IInv, Course, At
<1>3. Goes(worker, Rank(worker.pc), worker'.pc)
  BY <1>1, <1>2, AfterGoes
<1>4. Onward
  BY <1>3, OnwardByGoing
<1>5. worker'.pc \in Range(Steps)
  BY <1>3 DEF Goes
<1>6. worker'.pc \in PCs /\ worker'.pc # "idle"
  BY <1>1, <1>5, StepsOfOffering
<1> QED
  BY <1>2, <1>4, <1>5, <1>6

\* What a step of Reconcile outside Initialize leaves of the worker.
SameCall ==
    /\ worker'.result = worker.result /\ worker'.upd = worker.upd
    /\ worker'.which = worker.which /\ worker'.resp = worker.resp
    /\ worker'.inst.ca = worker.inst.ca /\ worker'.inst.tls = worker.inst.tls
    /\ worker'.inst.rest = worker.inst.rest

\* What it does to the objects.
MadeByStep ==
    /\ \A o \in {"ingress", "caroute", "opsroute"} :
          /\ made'[o] \in {made[o], worker.inst.rest}
          /\ made'[o] # made[o] => At(o)
          /\ At(o) /\ "specUpdated" \in worker.upd => made'[o] = worker.inst.rest
    /\ made'["deployment"] \in {made["deployment"], worker.inst.rest}
    /\ made'["deployment"] # made["deployment"] => At("deployment") \/ At("states")
    /\ At("deployment") \/ At("states") => made'["deployment"] = worker.inst.rest

LEMMA ContinueKeepsBut ==
  ASSUME IInv, TypeOK', ~At("idle"), ~At("status"), ~At("init"), ~At("actions"),
         worker.pc \notin InitSteps,
         worker'.pc = After(worker.pc), SameCall, MadeByStep,
         UNCHANGED <<setup, up, spec, stack, secret, job, events, pod>>,
         mishaps \subseteq mishaps', work => work',
         cfg'.ca = cfg.ca, cfg'.tls = cfg.tls, cfg'.files = cfg.files,
         restart # {} => restart' # {},
         At("crypto") => restart' # {},
         RestInv'
  PROVE  IInv'
<1>1. /\ Onward /\ worker'.pc \in Range(Steps) /\ worker'.pc # "idle" /\ worker.pc \in Range(Steps)
  BY Continues DEF SameCall
<1>2. Stacked \subseteq Stacked'
  BY DEF Stacked
<1>3. Course' /\ EditsStacked' /\ BrokenOff' /\ RootInv' /\ InitInv' /\ OverridesServed'
  <2>1. made'["deployment"] # made["deployment"] => Rank(worker.pc) > 6
    BY Ranks DEF MadeByStep, At
  <2>2. worker.pc \notin InitSteps \cup {"init"}
    BY DEF At
  <2> QED
    BY <1>1, <1>2, <2>1, <2>2, OnwardKeeps DEF SameCall
<1>4. Served'
  BY <1>1, <1>2, OnwardServes DEF MadeByStep
<1>5. RevsGrow'
  <2>1. /\ RevsGrow /\ ~At("idle") /\ worker'.inst.rest = worker.inst.rest
        /\ made["deployment"] \in Int /\ worker.inst.rest \in Int /\ spec.rest \in Int /\ pod.rev \in Int
        /\ worker.inst.rest >= 0
    <3>1. /\ worker.inst \in Specs /\ spec \in Specs
          /\ \A o \in Objects : made[o] \in -1..MaxEvents
          /\ pod.rev \in -1..MaxEvents
      BY Types DEF IInv
    <3>2. worker.inst.rest \in Int /\ worker.inst.rest >= 0 /\ spec.rest \in Int
      BY <3>1, SpecTypes
    <3>3. "deployment" \in Objects /\ worker'.inst.rest = worker.inst.rest
      BY DEF Objects, SameCall
    <3> QED
      BY <3>1, <3>2, <3>3 DEF IInv
  <2>2. made'["deployment"] = made["deployment"] \/ made'["deployment"] = worker.inst.rest
    BY DEF MadeByStep
  <2> QED
    BY <2>1, <2>2 DEF RevsGrow, Absent
<1>6. OfferingObjects'
  <2>1. Steps' = Steps
    BY DEF Steps
  <2>2. \A o \in {"ingress", "caroute", "opsroute"} : made'[o] # made[o] => o \in Range(Steps)
    BY <1>1 DEF MadeByStep, At
  <2> QED
    BY <2>1, <2>2 DEF OfferingObjects, IInv
<1> QED
  BY <1>3, <1>4, <1>5, <1>6 DEF IInv

LEMMA ContinueKeeps ==
  ASSUME IInv, TypeOK', ~At("idle"), ~At("status"), ~At("init"), ~At("actions"),
         worker.pc \notin InitSteps,
         worker'.pc = After(worker.pc), SameCall, MadeByStep,
         UNCHANGED <<setup, up, spec, stack, secret, job, events, pod>>,
         mishaps \subseteq mishaps', work => work',
         cfg'.ca = cfg.ca, cfg'.tls = cfg.tls, cfg'.files = cfg.files,
         cfg' = cfg \/ ( ~(pod.up /\ pod.rev = made["deployment"]) /\ made' = made),
         profile' # "current" => profile' = profile /\ ~At("profile"),
         restart # {} => restart' # {},
         At("crypto") => restart' # {},
         At("overrides") /\ made["deployment"] # Absent => restart' # {}
  PROVE  IInv'
<1>1. /\ Onward /\ worker'.pc \in Range(Steps) /\ worker'.pc # "idle" /\ worker.pc \in Range(Steps)
  BY Continues DEF SameCall
<1>2. Stacked \subseteq Stacked'
  BY DEF Stacked
<1>3. RestInv'
  <2>1. profile' # "current" => (profile' = profile /\ ~At("profile")) \/ stack' # <<>>
    OBVIOUS
  <2> QED
    BY <1>1, <1>2, <2>1, OnwardRests DEF MadeByStep, SameCall
<1> QED
  BY <1>3, ContinueKeepsBut

\* The pc of a step of Reconcile is where the worker is.
LEMMA AtStep ==
  ASSUME IInv, NEW pc \in PCs \ ({"idle", "init", "status"} \cup InitSteps), worker.pc = pc
  PROVE  ~At("idle") /\ ~At("status") /\ ~At("init") /\ worker.pc \notin InitSteps
  BY DEF At

LEMMA StepNames ==
  {"version", "checks", "tlscrypto", "rbac", "daemonpvc", "overrides", "pvc", "service",
   "managersrbac", "deployment", "ingress", "caroute", "opsroute", "migration", "profile",
   "states", "certificates", "crypto", "actions", "trigger"}
     \subseteq PCs \ ({"idle", "init", "status"} \cup InitSteps)
<1>1. {"version", "checks", "tlscrypto", "rbac", "daemonpvc", "overrides", "pvc", "service",
       "managersrbac", "deployment", "ingress", "migration", "profile",
       "states", "certificates", "crypto", "actions", "trigger"} \subseteq Range(K8sSteps)
  <2>1. /\ K8sSteps[1] = "version" /\ K8sSteps[2] = "checks" /\ K8sSteps[3] = "tlscrypto"
        /\ K8sSteps[4] = "rbac" /\ K8sSteps[5] = "daemonpvc" /\ K8sSteps[7] = "overrides"
        /\ K8sSteps[8] = "pvc" /\ K8sSteps[9] = "service" /\ K8sSteps[10] = "managersrbac"
        /\ K8sSteps[11] = "deployment" /\ K8sSteps[12] = "ingress" /\ K8sSteps[13] = "migration"
        /\ K8sSteps[14] = "profile" /\ K8sSteps[15] = "states" /\ K8sSteps[16] = "certificates"
        /\ K8sSteps[17] = "crypto" /\ K8sSteps[18] = "actions" /\ K8sSteps[19] = "trigger"
    BY DEF K8sSteps
  <2> QED
    BY <2>1, K8sRanks DEF Range
<1>2. {"caroute", "opsroute"} \subseteq Range(OpenshiftSteps)
  <2>1. OpenshiftSteps[12] = "caroute" /\ OpenshiftSteps[13] = "opsroute"
    BY DEF OpenshiftSteps
  <2> QED
    BY <2>1, OpenshiftRanks DEF Range
<1> QED
  BY <1>1, <1>2 DEF PCs, InitSteps

\* Where the worker goes is a step.
LEMMA AfterType ==
  ASSUME IInv, NEW pc \in PCs \ ({"idle", "init", "status"} \cup InitSteps), worker.pc = pc
  PROVE  After(worker.pc) \in PCs
<1>1. setup \in Setups /\ worker.pc \in Range(Steps) /\ worker.pc # "status"
  BY Types DEF IInv, Course
<1>2. Goes(worker, Rank(worker.pc), After(worker.pc))
  BY <1>1, AfterGoes
<1> QED
  BY <1>1, <1>2, StepsOfOffering DEF Goes

LEMMA AddTLSCryptoIfMissingKeeps ==
  ASSUME IInv, AddTLSCryptoIfMissing
  PROVE  IInv'
<1> USE DEF AddTLSCryptoIfMissing
<1>1. /\ ~At("idle") /\ ~At("status") /\ ~At("init") /\ ~At("actions")
      /\ worker.pc \notin InitSteps /\ worker.pc \in PCs
  BY StepNames DEF At
<1>2. After(worker.pc) \in PCs
  BY StepNames, AfterType DEF At
<1>3. worker'.pc = After(worker.pc) /\ SameCall
  BY DEF Continue, SameCall, IInv, TypeOK, Calls, Specs
<1>4. TypeOK'
  <2>1. worker' \in Calls
    BY <1>2 DEF IInv, TypeOK, Calls, Specs
  <2> QED
    BY <2>1 DEF IInv, TypeOK, frame, queueVars, clusterVars, podVars, historyVars
<1>5. UNCHANGED <<setup, up, spec, stack, secret, job, events, pod>> /\ mishaps \subseteq mishaps' /\ (work => work')
  BY DEF frame, queueVars, clusterVars, podVars, historyVars
<1>6. MadeByStep
  BY <1>1 DEF MadeByStep, At, frame, queueVars, clusterVars, podVars, historyVars
<1> QED
  BY <1>1, <1>3, <1>4, <1>5, <1>6, ContinueKeeps DEF At, frame, queueVars, clusterVars, podVars, historyVars

LEMMA CreateIfMissingKeeps ==
  ASSUME IInv, NEW o \in {"rbac", "pvc", "service"},
         NEW pc \in {"rbac", "daemonpvc", "pvc", "service", "managersrbac"}, CreateIfMissing(o, pc)
  PROVE  IInv'
<1> USE DEF CreateIfMissing
<1>1. /\ ~At("idle") /\ ~At("status") /\ ~At("init") /\ ~At("actions")
      /\ worker.pc \notin InitSteps /\ worker.pc \in PCs
  BY StepNames DEF At
<1>2. After(worker.pc) \in PCs
  BY StepNames, AfterType DEF At
<1>3. worker'.pc = After(worker.pc) /\ SameCall
  BY DEF Continue, SameCall, IInv, TypeOK, Calls
<1>4. TypeOK'
  <2>1. worker' \in Calls
    BY <1>2 DEF IInv, TypeOK, Continue, Calls
  <2>2. made' \in [Objects -> -1..MaxEvents]
    <3>1. /\ worker.inst.rest \in -1..MaxEvents /\ made[o] \in -1..MaxEvents
          /\ made \in [Objects -> -1..MaxEvents]
      <4>1. MaxEvents \in Nat /\ worker.inst \in Specs /\ o \in Objects
        BY Types DEF IInv, Objects
      <4>2. worker.inst.rest \in 0..MaxEvents
        BY <4>1, SpecTypes DEF Revs
      <4> QED
        BY <4>1, <4>2 DEF IInv, TypeOK
    <3>2. \E v \in -1..MaxEvents : made' = [made EXCEPT ![o] = v]
      BY <3>1
    <3> QED
      BY <3>1, <3>2
  <2> QED
    BY <2>1, <2>2 DEF IInv, TypeOK, frame, managerFrame, podVars, historyVars
<1>5. UNCHANGED <<setup, up, spec, stack, secret, job, events, pod>> /\ mishaps \subseteq mishaps' /\ (work => work')
  BY DEF frame, managerFrame, podVars, historyVars
<1>6. MadeByStep
  <2>1. DOMAIN made = Objects
    BY Types DEF IInv
  <2>2. \A x \in {"ingress", "caroute", "opsroute", "deployment"} : made'[x] = made[x]
    BY <2>1 DEF Objects
  <2> QED
    BY <2>2 DEF MadeByStep, At
<1> QED
  BY <1>1, <1>3, <1>4, <1>5, <1>6, ContinueKeeps DEF At, frame, managerFrame, podVars, historyVars

LEMMA CreateOrUpdateKeeps ==
  ASSUME IInv, NEW o \in {"ingress", "caroute", "opsroute"}, CreateOrUpdate(o)
  PROVE  IInv'
<1> USE DEF CreateOrUpdate
<1>1. /\ ~At("idle") /\ ~At("status") /\ ~At("init") /\ ~At("actions")
      /\ worker.pc \notin InitSteps /\ worker.pc \in PCs
  BY StepNames DEF At
<1>2. After(worker.pc) \in PCs
  BY StepNames, AfterType DEF At
<1>3. worker'.pc = After(worker.pc) /\ SameCall
  BY DEF Continue, SameCall, IInv, TypeOK, Calls
<1>4. TypeOK'
  <2>1. worker' \in Calls
    BY <1>2 DEF IInv, TypeOK, Continue, Calls
  <2>2. made' \in [Objects -> -1..MaxEvents]
    <3>1. /\ worker.inst.rest \in -1..MaxEvents /\ made[o] \in -1..MaxEvents
          /\ made \in [Objects -> -1..MaxEvents]
      <4>1. MaxEvents \in Nat /\ worker.inst \in Specs /\ o \in Objects
        BY Types DEF IInv, Objects
      <4>2. worker.inst.rest \in 0..MaxEvents
        BY <4>1, SpecTypes DEF Revs
      <4> QED
        BY <4>1, <4>2 DEF IInv, TypeOK
    <3>2. \E v \in -1..MaxEvents : made' = [made EXCEPT ![o] = v]
      BY <3>1
    <3> QED
      BY <3>1, <3>2
  <2> QED
    BY <2>1, <2>2 DEF IInv, TypeOK, frame, managerFrame, podVars, historyVars
<1>5. UNCHANGED <<setup, up, spec, stack, secret, job, events, pod>> /\ mishaps \subseteq mishaps' /\ (work => work')
  BY DEF frame, managerFrame, podVars, historyVars
<1>6. MadeByStep
  <2>1. DOMAIN made = Objects /\ o \in Objects
    BY Types DEF IInv, Objects
  <2>2. made'[o] \in {made[o], worker.inst.rest} /\ ("specUpdated" \in worker.upd => made'[o] = worker.inst.rest)
    BY <2>1
  <2>3. \A x \in Objects \ {o} : made'[x] = made[x]
    BY <2>1
  <2> QED
    BY <2>2, <2>3 DEF MadeByStep, At, Objects
<1> QED
  BY <1>1, <1>3, <1>4, <1>5, <1>6, ContinueKeeps DEF At, frame, managerFrame, podVars, historyVars

LEMMA ReconcileDeploymentKeeps ==
  ASSUME IInv, ReconcileDeployment
  PROVE  IInv'
<1> USE DEF ReconcileDeployment, WriteDeployment
<1>1. /\ ~At("idle") /\ ~At("status") /\ ~At("init") /\ ~At("actions")
      /\ worker.pc \notin InitSteps /\ worker.pc \in PCs
  BY StepNames DEF At
<1>2. After(worker.pc) \in PCs
  BY StepNames, AfterType DEF At
<1>3. worker'.pc = After(worker.pc) /\ SameCall
  BY DEF Continue, SameCall, IInv, TypeOK, Calls
<1>4. TypeOK'
  <2>1. worker' \in Calls
    BY <1>2 DEF IInv, TypeOK, Continue, Calls
  <2>2. made' \in [Objects -> -1..MaxEvents]
    <3>1. /\ worker.inst.rest \in -1..MaxEvents /\ made["deployment"] \in -1..MaxEvents
          /\ made \in [Objects -> -1..MaxEvents]
      BY Types, SpecTypes DEF IInv, TypeOK, Objects, Revs
    <3>2. \E v \in -1..MaxEvents : made' = [made EXCEPT !["deployment"] = v]
      BY <3>1
    <3> QED
      BY <3>1, <3>2
  <2> QED
    BY <2>1, <2>2 DEF IInv, TypeOK, frame, managerFrame, podVars, historyVars
<1>5. UNCHANGED <<setup, up, spec, stack, secret, job, events, pod>> /\ mishaps \subseteq mishaps' /\ (work => work')
  BY DEF frame, managerFrame, podVars, historyVars
<1>6. MadeByStep
  <2>1. made = [x \in Objects |-> made[x]] /\ "deployment" \in Objects
    BY DEF IInv, TypeOK, Objects
  <2>2. made'["deployment"] = worker.inst.rest /\ \A x \in Objects \ {"deployment"} : made'[x] = made[x]
    BY <2>1
  <2> QED
    BY <1>1, <2>2 DEF MadeByStep, At, Objects
<1> QED
  BY <1>1, <1>3, <1>4, <1>5, <1>6, ContinueKeeps DEF At, frame, managerFrame, podVars, historyVars

LEMMA CheckStatesKeeps ==
  ASSUME IInv, CheckStates
  PROVE  IInv'
<1> USE DEF CheckStates, WriteDeployment
<1>1. /\ ~At("idle") /\ ~At("status") /\ ~At("init") /\ ~At("actions")
      /\ worker.pc \notin InitSteps /\ worker.pc \in PCs
  BY StepNames DEF At
<1>2. After(worker.pc) \in PCs
  BY StepNames, AfterType DEF At
<1>3. worker'.pc = After(worker.pc) /\ SameCall
  BY DEF Continue, SameCall, IInv, TypeOK, Calls
<1>4. TypeOK'
  <2>1. worker' \in Calls
    BY <1>2 DEF IInv, TypeOK, Continue, Calls
  <2>2. made' \in [Objects -> -1..MaxEvents]
    <3>1. /\ worker.inst.rest \in -1..MaxEvents /\ made["deployment"] \in -1..MaxEvents
          /\ made \in [Objects -> -1..MaxEvents]
      BY Types, SpecTypes DEF IInv, TypeOK, Objects, Revs
    <3>2. \E v \in -1..MaxEvents : made' = [made EXCEPT !["deployment"] = v]
      BY <3>1
    <3> QED
      BY <3>1, <3>2
  <2> QED
    BY <2>1, <2>2 DEF IInv, TypeOK, frame, managerFrame, podVars, historyVars
<1>5. UNCHANGED <<setup, up, spec, stack, secret, job, events, pod>> /\ mishaps \subseteq mishaps' /\ (work => work')
  BY DEF frame, managerFrame, podVars, historyVars
<1>6. MadeByStep
  <2>1. made = [x \in Objects |-> made[x]] /\ "deployment" \in Objects
    BY DEF IInv, TypeOK, Objects
  <2>2. made'["deployment"] = worker.inst.rest /\ \A x \in Objects \ {"deployment"} : made'[x] = made[x]
    BY <2>1
  <2> QED
    BY <1>1, <2>2 DEF MadeByStep, At, Objects
<1> QED
  BY <1>1, <1>3, <1>4, <1>5, <1>6, ContinueKeeps DEF At, frame, managerFrame, podVars, historyVars

LEMMA RestartForConfigOverrideKeeps ==
  ASSUME IInv, RestartForConfigOverride
  PROVE  IInv'
<1> USE DEF RestartForConfigOverride
<1>1. /\ ~At("idle") /\ ~At("status") /\ ~At("init") /\ ~At("actions")
      /\ worker.pc \notin InitSteps /\ worker.pc \in PCs
  BY StepNames DEF At
<1>2. After(worker.pc) \in PCs
  BY StepNames, AfterType DEF At
<1>3. worker'.pc = After(worker.pc) /\ SameCall
  BY DEF Continue, SameCall, IInv, TypeOK, Calls
<1>4. TypeOK'
  <2>1. worker' \in Calls
    BY <1>2 DEF IInv, TypeOK, Continue, Calls
  <2>2. restart' \in SUBSET {"wanted", "queued"}
    BY DEF IInv, TypeOK, If
  <2> QED
    BY <2>1, <2>2 DEF IInv, TypeOK, frame, queueVars, clusterVars, historyVars
<1>5. UNCHANGED <<setup, up, spec, stack, secret, job, events, pod>> /\ mishaps \subseteq mishaps' /\ (work => work')
  BY DEF frame, queueVars, clusterVars, historyVars
<1>6. MadeByStep
  BY <1>1 DEF MadeByStep, At, frame, queueVars, clusterVars, historyVars
<1> QED
  BY <1>1, <1>3, <1>4, <1>5, <1>6, ContinueKeeps DEF At, If, frame, queueVars, clusterVars, historyVars

LEMMA UpdateConnectionProfileKeeps ==
  ASSUME IInv, UpdateConnectionProfile
  PROVE  IInv'
<1> USE DEF UpdateConnectionProfile
<1>1. /\ ~At("idle") /\ ~At("status") /\ ~At("init") /\ ~At("actions")
      /\ worker.pc \notin InitSteps /\ worker.pc \in PCs
  BY StepNames DEF At
<1>2. After(worker.pc) \in PCs
  BY StepNames, AfterType DEF At
<1>3. worker'.pc = After(worker.pc) /\ SameCall
  BY DEF Continue, SameCall, IInv, TypeOK, Calls
<1>4. TypeOK'
  <2>1. worker' \in Calls
    BY <1>2 DEF IInv, TypeOK, Continue, Calls
  <2> QED
    BY <2>1 DEF IInv, TypeOK, frame, queueVars, podVars, historyVars
<1>5. UNCHANGED <<setup, up, spec, stack, secret, job, events, pod>> /\ mishaps \subseteq mishaps' /\ (work => work')
  BY DEF frame, queueVars, podVars, historyVars
<1>6. MadeByStep
  BY <1>1 DEF MadeByStep, At, frame, queueVars, podVars, historyVars
<1> QED
  BY <1>1, <1>3, <1>4, <1>5, <1>6, ContinueKeeps DEF At, frame, queueVars, podVars, historyVars

LEMMA CheckCertificatesKeeps ==
  ASSUME IInv, CheckCertificates
  PROVE  IInv'
<1> USE DEF CheckCertificates
<1>1. /\ ~At("idle") /\ ~At("status") /\ ~At("init") /\ ~At("actions")
      /\ worker.pc \notin InitSteps /\ worker.pc \in PCs
  BY StepNames DEF At
<1>2. After(worker.pc) \in PCs
  BY StepNames, AfterType DEF At
<1>3. worker'.pc = After(worker.pc) /\ SameCall
  BY DEF Continue, SameCall, IInv, TypeOK, Calls
<1>4. TypeOK'
  <2>1. worker' \in Calls
    BY <1>2 DEF IInv, TypeOK, Calls, Statuses
  <2> QED
    BY <2>1 DEF IInv, TypeOK, frame, queueVars, clusterVars, podVars, historyVars
<1>5. UNCHANGED <<setup, up, spec, stack, secret, job, events, pod>> /\ mishaps \subseteq mishaps' /\ (work => work')
  BY DEF frame, queueVars, clusterVars, podVars, historyVars
<1>6. MadeByStep
  BY <1>1 DEF MadeByStep, At, frame, queueVars, clusterVars, podVars, historyVars
<1> QED
  BY <1>1, <1>3, <1>4, <1>5, <1>6, ContinueKeeps DEF At, frame, queueVars, clusterVars, podVars, historyVars

LEMMA RestartForTLSReenrollKeeps ==
  ASSUME IInv, RestartForTLSReenroll
  PROVE  IInv'
<1> USE DEF RestartForTLSReenroll
<1>1. /\ ~At("idle") /\ ~At("status") /\ ~At("init") /\ ~At("actions")
      /\ worker.pc \notin InitSteps /\ worker.pc \in PCs
  BY StepNames DEF At
<1>2. After(worker.pc) \in PCs
  BY StepNames, AfterType DEF At
<1>3. worker'.pc = After(worker.pc) /\ SameCall
  BY DEF Continue, SameCall, IInv, TypeOK, Calls
<1>4. TypeOK'
  <2>1. worker' \in Calls
    BY <1>2 DEF IInv, TypeOK, Continue, Calls
  <2>2. restart' \in SUBSET {"wanted", "queued"}
    BY DEF IInv, TypeOK, If
  <2> QED
    BY <2>1, <2>2 DEF IInv, TypeOK, frame, queueVars, clusterVars, historyVars
<1>5. UNCHANGED <<setup, up, spec, stack, secret, job, events, pod>> /\ mishaps \subseteq mishaps' /\ (work => work')
  BY DEF frame, queueVars, clusterVars, historyVars
<1>6. MadeByStep
  BY <1>1 DEF MadeByStep, At, frame, queueVars, clusterVars, historyVars
<1> QED
  BY <1>1, <1>3, <1>4, <1>5, <1>6, ContinueKeeps DEF At, frame, queueVars, clusterVars, historyVars

LEMMA HandleRestartKeeps ==
  ASSUME IInv, HandleRestart
  PROVE  IInv'
<1> USE DEF HandleRestart
<1>1. /\ ~At("idle") /\ ~At("status") /\ ~At("init") /\ ~At("actions")
      /\ worker.pc \notin InitSteps /\ worker.pc \in PCs
  BY StepNames DEF At
<1>2. After(worker.pc) \in PCs
  BY StepNames, AfterType DEF At
<1>3. worker'.pc = After(worker.pc) /\ SameCall
  BY DEF Continue, SameCall, IInv, TypeOK, Calls
<1>4. TypeOK'
  <2>1. worker' \in Calls
    BY <1>2 DEF IInv, TypeOK, Continue, Calls
  <2>2. restart' \in SUBSET {"wanted", "queued"}
    BY DEF IInv, TypeOK, If
  <2> QED
    BY <2>1, <2>2 DEF IInv, TypeOK, frame, queueVars, clusterVars, historyVars
<1>5. UNCHANGED <<setup, up, spec, stack, secret, job, events, pod>> /\ mishaps \subseteq mishaps' /\ (work => work')
  BY DEF frame, queueVars, clusterVars, historyVars
<1>6. MadeByStep
  BY <1>1 DEF MadeByStep, At, frame, queueVars, clusterVars, historyVars
<1> QED
  BY <1>1, <1>3, <1>4, <1>5, <1>6, ContinueKeeps DEF At, frame, queueVars, clusterVars, historyVars

LEMMA ReconcileFabricCAMigrationKeeps ==
  ASSUME IInv, ReconcileFabricCAMigration
  PROVE  IInv'
<1>1. /\ ~At("idle") /\ ~At("status") /\ ~At("init") /\ ~At("actions") /\ ~At("profile")
      /\ ~At("crypto") /\ ~At("overrides") /\ ~At("deployment") /\ ~At("states")
      /\ worker.pc = "migration" /\ worker.pc \notin InitSteps
  BY StepNames DEF At, ReconcileFabricCAMigration
<1>2. /\ UNCHANGED <<setup, up, status, saved, spec, versioned, stack, work, secret, made, profile, job,
                     pod, restart, events>>
  BY DEF ReconcileFabricCAMigration, frame, queueVars, podVars
<1>3. CASE cfg.ca = Absent
  <2>1. Leave("error") /\ UNCHANGED <<cfg, mishaps>>
    BY <1>3 DEF ReconcileFabricCAMigration
  <2>2. worker' \in Calls
    <3>1. "status" \in PCs
      BY Underway, <1>1, StepsOfOffering
    <3> QED
      BY <2>1, <3>1 DEF Leave, Calls, IInv, TypeOK
  <2>3. TypeOK'
    BY <1>2, <2>1, <2>2 DEF IInv, TypeOK
  <2>4. BrokenOff'
    <3>1. mishaps \cap {"halfway", "misread"} # {}
      <4> SUFFICES ASSUME mishaps \cap {"halfway", "misread"} = {} PROVE FALSE
        OBVIOUS
      <4>1. CADone("ca") /\ ~Creating("ca")
        BY <1>1, Underway, Ranks DEF CADone, Creating
      <4> QED
        BY <1>1, <1>3, <4>1 DEF IInv, InitInv, CAs
    <3> QED
      BY <2>1, <3>1 DEF BrokenOff, Leave, IInv, TypeOK, Calls
  <2>5. /\ worker'.pc = "status" /\ worker'.result # "ok" /\ worker'.upd = worker.upd
        /\ worker'.which = worker.which
        /\ worker'.inst.ca = worker.inst.ca /\ worker'.inst.tls = worker.inst.tls
        /\ worker'.inst.rest = worker.inst.rest
    BY <2>1 DEF Leave, IInv, TypeOK, Calls
  <2>6. Stacked \subseteq Stacked' /\ events <= events' /\ events' \in Nat /\ mishaps \subseteq mishaps'
    BY <1>2, <2>1, Types DEF Stacked, IInv
  <2> QED
    BY <1>1, <1>2, <2>1, <2>3, <2>4, <2>5, <2>6, LeaveKeeps DEF IInv
<1>4. CASE cfg.ca # Absent
  <2>1. /\ cfg' = [cfg EXCEPT !.expiry = TRUE] /\ Continue
        /\ mishaps' = mishaps \cup (IF pod.up /\ cfg' # cfg /\ pod.rev = made["deployment"]
                                    THEN {"lateMigration"} ELSE {})
    BY <1>4 DEF ReconcileFabricCAMigration, NoteIf
  <2>2. After(worker.pc) \in PCs
    BY <1>1, StepNames, AfterType
  <2>3. worker'.pc = After(worker.pc) /\ SameCall
    BY <2>1 DEF Continue, SameCall, IInv, TypeOK, Calls
  <2>4. worker' \in Calls
    BY <2>1, <2>2 DEF IInv, TypeOK, Continue, Calls
  <2>5. cfg' \in Configs /\ cfg'.ca = cfg.ca /\ cfg'.tls = cfg.tls /\ cfg'.files = cfg.files
    BY <2>1, Types DEF IInv, Configs
  <2>6. mishaps \subseteq mishaps' /\ mishaps' \in SUBSET Mishaps
    BY <2>1 DEF IInv, TypeOK, Mishaps
  <2>7. TypeOK'
    BY <1>2, <2>4, <2>5, <2>6 DEF IInv, TypeOK
  <2>8. MadeByStep
    BY <1>1, <1>2 DEF MadeByStep, At
  <2>9. CASE mishaps' = mishaps /\ "lateMigration" \notin mishaps
    <3>1. cfg' = cfg \/ (~(pod.up /\ pod.rev = made["deployment"]) /\ made' = made)
      BY <1>2, <2>1, <2>9
    <3> QED
      BY <1>1, <1>2, <2>3, <2>5, <2>6, <2>7, <2>8, <3>1, ContinueKeeps
  <2>10. CASE "lateMigration" \in mishaps'
    <3>1. RestInv'
      BY <2>10 DEF RestInv
    <3> QED
      BY <1>1, <1>2, <2>3, <2>5, <2>6, <2>7, <2>8, <3>1, ContinueKeepsBut
  <2> QED
    BY <2>1, <2>9, <2>10
<1> QED
  BY <1>3, <1>4

LEMMA LeaveType ==
  ASSUME IInv, ~At("idle"), ~At("status"), NEW result \in {"requeue", "error", "breaking"}, Leave(result)
  PROVE  /\ worker' \in Calls /\ worker'.result = result
         /\ worker'.pc = "status" /\ worker'.result # "ok" /\ worker'.upd = worker.upd
         /\ worker'.which = worker.which
         /\ worker'.inst.ca = worker.inst.ca /\ worker'.inst.tls = worker.inst.tls
         /\ worker'.inst.rest = worker.inst.rest
<1>1. "status" \in PCs
  BY Underway, StepsOfOffering
<1> QED
  BY <1>1 DEF Leave, IInv, TypeOK, Calls

LEMMA SetVersionKeeps ==
  ASSUME IInv, SetVersion
  PROVE  IInv'
<1>1. ~At("idle") /\ ~At("status") /\ worker.pc = "version" /\ Leave("requeue")
  BY DEF At, SetVersion
<1>2. UNCHANGED <<setup, up, status, saved, spec, stack, work, secret, cfg, made, profile, job,
                  pod, restart, events, mishaps>> /\ versioned' = TRUE
  BY DEF SetVersion, frame, queueVars, clusterVars, podVars, historyVars
<1>3. worker' \in Calls /\ worker'.result = "requeue"
  BY <1>1, LeaveType
<1>4. TypeOK'
  BY <1>2, <1>3 DEF IInv, TypeOK
<1>5. BrokenOff'
  BY <1>3 DEF BrokenOff
<1>6. Stacked \subseteq Stacked' /\ events <= events' /\ events' \in Nat /\ mishaps \subseteq mishaps'
  BY <1>2, Types DEF Stacked, IInv
<1> QED
  BY <1>1, <1>2, <1>4, <1>5, <1>6, LeaveType, LeaveKeeps DEF IInv

LEMMA FailKeeps ==
  ASSUME IInv, NEW step \in PCs \ {"idle"}, Fail(step)
  PROVE  IInv'
<1> DEFINE result == IF step \in Breaking THEN "breaking" ELSE "error"
<1>1. ~At("idle") /\ ~At("status") /\ worker.pc = step /\ Leave(result) /\ result \in {"requeue", "error", "breaking"}
  BY DEF At, Fail
<1>2. /\ UNCHANGED <<setup, up, status, saved, spec, versioned, stack, work, secret, cfg, made, profile, job,
                     pod, restart>>
      /\ events' = events + 1 /\ events < MaxEvents
      /\ mishaps' = mishaps \cup If("failed", worker.upd # {}) \cup If("halfway", step \in InitSteps)
                            \cup If("stopped", step \in Breaking)
  BY DEF Fail, frame, queueVars, clusterVars, podVars, Event
<1>3. /\ worker' \in Calls /\ worker'.result = result
      /\ worker'.pc = "status" /\ worker'.result # "ok" /\ worker'.upd = worker.upd
      /\ worker'.which = worker.which
      /\ worker'.inst.ca = worker.inst.ca /\ worker'.inst.tls = worker.inst.tls
      /\ worker'.inst.rest = worker.inst.rest
  <2> HIDE DEF result
  <2> QED
    BY <1>1, LeaveType
<1>4. TypeOK'
  <2>1. events' \in 0..MaxEvents
    BY <1>2, Types DEF IInv
  <2>2. mishaps' \in SUBSET Mishaps
    BY <1>2 DEF IInv, TypeOK, Mishaps, If
  <2> QED
    BY <1>2, <1>3, <2>1, <2>2 DEF IInv, TypeOK
<1>5. BrokenOff'
  BY <1>2, <1>3 DEF BrokenOff, If
<1>6. Stacked \subseteq Stacked' /\ events <= events' /\ events' \in Nat /\ mishaps \subseteq mishaps'
  BY <1>2, Types DEF Stacked, IInv
<1>7. worker.pc \in {"config", "hsmconfig", "hsmjob", "hsmwait"} => "halfway" \in mishaps'
  BY <1>1, <1>2 DEF If, InitSteps
<1> QED
  BY <1>1, <1>2, <1>3, <1>4, <1>5, <1>6, <1>7, LeaveKeeps DEF IInv

-----------------------------------------------------------------------------
(* The spec changes                                                        *)

\* What UpdateFunc is told of: every difference that a reconcile has to see to.
LEMMA FlagFacts ==
  ASSUME NEW old \in Specs, NEW new \in Specs, ~old.gen, ~new.gen,
         ~old.over => old.ca = 0 /\ old.tls = 0,
         ~new.over => new.ca = 0 /\ new.tls = 0 /\ ~old.over
  PROVE  /\ UpdateFlags(old, new) \in SUBSET Flags
         /\ "specUpdated" \in UpdateFlags(old, new)
         /\ new.restart => "restartNeeded" \in UpdateFlags(old, new)
         /\ new.renew => "renewTLSCert" \in UpdateFlags(old, new)
         /\ old.ca # new.ca => "caOverrides" \in UpdateFlags(old, new)
         /\ old.tls # new.tls => "tlscaOverrides" \in UpdateFlags(old, new)
<1>1. UpdateFlags(old, new) \in SUBSET Flags
  BY DEF UpdateFlags, If, Flags
<1>2. /\ "specUpdated" \in UpdateFlags(old, new)
      /\ new.restart => "restartNeeded" \in UpdateFlags(old, new)
      /\ new.renew => "renewTLSCert" \in UpdateFlags(old, new)
  BY DEF UpdateFlags, If
<1>3. Overridden(old) = old.over /\ Overridden(new) = new.over
  BY SpecTypes DEF Overridden
<1>4. CASE old.over
  BY <1>1, <1>2, <1>3, <1>4 DEF UpdateFlags, If
<1>5. CASE ~old.over /\ new.over
  BY <1>1, <1>2, <1>3, <1>5 DEF UpdateFlags
<1>6. CASE ~old.over /\ ~new.over
  BY <1>1, <1>2, <1>6
<1> QED
  BY <1>4, <1>5, <1>6

LEMMA UpdateFuncFacts ==
  ASSUME IInv, up, NEW new \in Specs, ~new.gen,
         ~new.over => new.ca = 0 /\ new.tls = 0 /\ ~spec.over,
         UpdateFunc(new)
  PROVE  /\ stack' \in Seq(SUBSET Flags) /\ work' \in BOOLEAN
         /\ Stacked \subseteq Stacked' /\ (stack # <<>> => stack' # <<>>) /\ (work => work')
         /\ spec # new => stack' # <<>> /\ work' /\ "specUpdated" \in Stacked'
         /\ spec # new /\ new.restart => "restartNeeded" \in Stacked'
         /\ spec # new /\ new.renew => "renewTLSCert" \in Stacked'
         /\ spec.ca # new.ca => "caOverrides" \in Stacked'
         /\ spec.tls # new.tls => "tlscaOverrides" \in Stacked'
<1>1. stack \in Seq(SUBSET Flags) /\ work \in BOOLEAN /\ spec \in Specs /\ ~spec.gen
  BY DEF IInv, TypeOK
<1>2. CASE spec = new
  BY <1>1, <1>2 DEF UpdateFunc, queueVars, Stacked
<1>3. CASE spec # new
  <2> DEFINE flags == UpdateFlags(spec, new)
  <2>1. ~spec.over => spec.ca = 0 /\ spec.tls = 0
    BY DEF IInv, Course
  <2>2. /\ flags \in SUBSET Flags
        /\ "specUpdated" \in flags
        /\ new.restart => "restartNeeded" \in flags
        /\ new.renew => "renewTLSCert" \in flags
        /\ spec.ca # new.ca => "caOverrides" \in flags
        /\ spec.tls # new.tls => "tlscaOverrides" \in flags
    BY <1>1, <2>1, FlagFacts
  <2>3. stack' = Push(stack, flags) /\ work' = TRUE
    BY <1>3 DEF UpdateFunc
  <2> HIDE DEF flags
  <2>4. stack' \in Seq(SUBSET Flags) /\ stack' # <<>> /\ Stacked' = Stacked \cup flags
    BY <1>1, <2>2, <2>3, PushFacts DEF Stacked
  <2> QED
    BY <1>3, <2>2, <2>3, <2>4
<1> QED
  BY <1>2, <1>3

LEMMA PreReconcileChecksKeeps ==
  ASSUME IInv, PreReconcileChecks
  PROVE  IInv'
<1> DEFINE new == IF spec = worker.inst THEN [spec EXCEPT !.filled = TRUE] ELSE spec
<1>1. /\ ~At("idle") /\ ~At("status") /\ worker.pc = "checks"
      /\ spec' = new /\ UpdateFunc(new)
      /\ worker' = [worker EXCEPT !.pc = "status", !.result = "requeue", !.inst.filled = TRUE]
  BY DEF At, PreReconcileChecks
<1>2. UNCHANGED <<setup, up, status, saved, versioned, secret, cfg, made, profile, job,
                  pod, restart, events, mishaps>>
  BY DEF PreReconcileChecks, frame, clusterVars, podVars, historyVars
<1>3. up /\ spec \in Specs /\ ~spec.gen /\ (~spec.over => spec.ca = 0 /\ spec.tls = 0)
  BY <1>1, Underway, Types DEF IInv, Course
<1>4. /\ new \in Specs /\ new.gen = spec.gen /\ new.ca = spec.ca /\ new.tls = spec.tls /\ new.over = spec.over
      /\ new.rest = spec.rest /\ new.renew = spec.renew /\ new.restart = spec.restart
  BY <1>3 DEF Specs
<1> HIDE DEF new
<1>5. /\ stack' \in Seq(SUBSET Flags) /\ work' \in BOOLEAN
      /\ Stacked \subseteq Stacked' /\ (stack # <<>> => stack' # <<>>) /\ (work => work')
  BY <1>1, <1>3, <1>4, UpdateFuncFacts
<1>6. worker' \in Calls
  <2>1. "status" \in PCs
    BY <1>1, Underway, StepsOfOffering
  <2> QED
    BY <1>1, <2>1 DEF Calls, Specs, IInv, TypeOK
<1>7. /\ worker'.pc = "status" /\ worker'.result = "requeue" /\ worker'.upd = worker.upd
      /\ worker'.which = worker.which
      /\ worker'.inst.ca = worker.inst.ca /\ worker'.inst.tls = worker.inst.tls
      /\ worker'.inst.rest = worker.inst.rest
  BY <1>1 DEF Calls, Specs, IInv, TypeOK
<1>8. TypeOK'
  BY <1>1, <1>2, <1>3, <1>4, <1>5, <1>6 DEF IInv, TypeOK
<1>9. BrokenOff'
  BY <1>7 DEF BrokenOff
<1>10. events' \in Nat /\ events <= events' /\ mishaps \subseteq mishaps'
  BY <1>2, Types DEF IInv
<1> QED
  BY <1>1, <1>2, <1>4, <1>5, <1>7, <1>8, <1>9, <1>10, LeaveKeeps DEF IInv

LEMMA HandleActionsKeeps ==
  ASSUME IInv, HandleActions
  PROVE  IInv'
<1> DEFINE renews == "renewTLSCert" \in worker.upd
           reset == ResetFlags(spec)
           pushed == IF renews THEN Push(stack, {"caCryptoUpdated"}) ELSE stack
<1>1. /\ worker.pc = "actions"
      /\ Renew(renews)
      /\ restart' = restart \cup If("wanted", "restartNeeded" \in worker.upd)
      /\ spec' = reset
      /\ stack' = IF reset # spec THEN Push(pushed, UpdateFlags(spec, reset)) ELSE pushed
      /\ work' = (work \/ stack' # stack)
      /\ worker' = [worker EXCEPT !.pc = After(@), !.inst = [reset EXCEPT !.gen = worker.inst.gen]]
  BY DEF HandleActions, At
<1>2. UNCHANGED <<setup, up, status, saved, versioned, cfg, made, job, events, mishaps>>
  BY DEF HandleActions, frame, historyVars
<1>3. /\ up /\ spec \in Specs /\ ~spec.gen /\ (~spec.over => spec.ca = 0 /\ spec.tls = 0)
      /\ worker.inst \in Specs /\ worker.result = "ok" /\ stack \in Seq(SUBSET Flags)
      /\ worker \in Calls /\ pod.up \in BOOLEAN
  BY <1>1, Underway, Types DEF IInv, Course, At, TypeOK
<1>4. /\ reset \in Specs /\ reset.gen = spec.gen /\ reset.ca = spec.ca /\ reset.tls = spec.tls
      /\ reset.over = spec.over /\ reset.rest = spec.rest
      /\ reset.restart => spec.restart /\ "restartNeeded" \notin worker.upd
      /\ reset.renew => spec.renew /\ "renewTLSCert" \notin worker.upd
  <2>1. spec.renew \in BOOLEAN /\ spec.restart \in BOOLEAN
    BY <1>3, SpecTypes
  <2> QED
    BY <1>3, <2>1 DEF Specs, ResetFlags
<1> HIDE DEF reset
<1>5. /\ pushed \in Seq(SUBSET Flags) /\ Stacked \subseteq UNION Range(pushed)
      /\ stack # <<>> => pushed # <<>>
      /\ renews => pushed # <<>> /\ "caCryptoUpdated" \in UNION Range(pushed)
  <2>1. {"caCryptoUpdated"} \in SUBSET Flags
    BY DEF Flags
  <2>2. CASE renews
    <3>1. pushed = Push(stack, {"caCryptoUpdated"})
      BY <2>2
    <3> HIDE DEF pushed
    <3>2. /\ pushed \in Seq(SUBSET Flags) /\ pushed # <<>>
          /\ UNION Range(pushed) = (UNION Range(stack)) \cup {"caCryptoUpdated"}
      BY <1>3, <2>1, <3>1, PushFacts
    <3> QED
      BY <3>2 DEF Stacked
  <2>3. CASE ~renews
    BY <1>3, <2>3 DEF Stacked
  <2> QED
    BY <2>2, <2>3
<1> HIDE DEF pushed
<1>6. /\ stack' \in Seq(SUBSET Flags) /\ Stacked \subseteq Stacked'
      /\ stack # <<>> => stack' # <<>>
      /\ renews => stack' # <<>> /\ "caCryptoUpdated" \in Stacked'
  <2>1. CASE reset = spec
    BY <1>1, <1>5, <2>1 DEF Stacked
  <2>2. CASE reset # spec
    <3> DEFINE flags == UpdateFlags(spec, reset)
    <3>1. flags \in SUBSET Flags
      BY <1>3, <1>4, FlagFacts
    <3>2. stack' = Push(pushed, flags)
      BY <1>1, <2>2
    <3> HIDE DEF flags
    <3>3. /\ stack' \in Seq(SUBSET Flags) /\ stack' # <<>>
          /\ UNION Range(stack') = (UNION Range(pushed)) \cup flags
      BY <1>5, <3>1, <3>2, PushFacts
    <3> QED
      BY <1>5, <3>3 DEF Stacked
  <2> QED
    BY <2>1, <2>2
<1>7. /\ ~At("idle") /\ ~At("status") /\ ~At("init") /\ ~At("crypto") /\ ~At("overrides") /\ ~At("profile")
      /\ ~At("deployment") /\ ~At("states")
      /\ worker.pc \notin InitSteps
  BY <1>1, StepNames DEF At
<1>8. After(worker.pc) \in PCs
  BY <1>1, StepNames, AfterType
<1>9. /\ worker' \in Calls /\ worker'.pc = After(worker.pc) /\ worker'.result = worker.result
      /\ worker'.upd = worker.upd /\ worker'.which = worker.which /\ worker'.resp = worker.resp
      /\ worker'.inst.ca = spec.ca /\ worker'.inst.tls = spec.tls /\ worker'.inst.rest = spec.rest
  <2> DEFINE inst == [reset EXCEPT !.gen = worker.inst.gen]
  <2>1. inst \in Specs /\ inst.ca = reset.ca /\ inst.tls = reset.tls /\ inst.rest = reset.rest
    BY <1>3, <1>4, SpecTypes DEF Specs
  <2>2. worker' = [worker EXCEPT !.pc = After(@), !.inst = inst]
    BY <1>1
  <2> HIDE DEF inst
  <2> QED
    BY <1>3, <1>4, <1>8, <2>1, <2>2 DEF Calls
<1>10. /\ Onward /\ worker'.pc \in Range(Steps) /\ worker'.pc # "idle"
  BY <1>7, <1>9, Continues
<1>11. /\ secret'.root = secret.root /\ pod'.up = pod.up /\ pod'.cfg = pod.cfg /\ pod'.rev = pod.rev
       /\ ~renews => pod' = pod
       /\ profile' # "current" => profile' = profile \/ renews
  BY <1>1 DEF Renew, IInv, TypeOK
<1>12. TypeOK'
  <2>1. secret' \in [root : [CAs -> Nat \cup {Absent}], age : {"fresh", "expiring", "expired"}]
    BY <1>1 DEF Renew, IInv, TypeOK
  <2>2. profile' \in {"none", "stale", "current"} /\ restart' \in SUBSET {"wanted", "queued"}
    BY <1>1 DEF Renew, IInv, TypeOK, If
  <2>3. pod' \in [up : BOOLEAN, cfg : Configs, tls : BOOLEAN, rev : -1..MaxEvents]
    BY <1>1 DEF Renew, IInv, TypeOK
  <2>4. work' \in BOOLEAN
    BY <1>1 DEF IInv, TypeOK
  <2> QED
    BY <1>1, <1>2, <1>3, <1>4, <1>6, <1>9, <2>1, <2>2, <2>3, <2>4 DEF IInv, TypeOK
<1>13. Course' /\ BrokenOff' /\ RootInv' /\ InitInv' /\ OverridesServed' /\ EditsStacked'
  <2>1. worker.pc \notin InitSteps \cup {"init"}
    BY <1>7 DEF At
  <2> QED
    BY <1>1, <1>2, <1>4, <1>6, <1>9, <1>10, <1>11, <2>1, OnwardKeeps
<1>14. RestInv'
  <2>1. profile' # "current" => (profile' = profile /\ ~At("profile")) \/ stack' # <<>>
    BY <1>6, <1>7, <1>11
  <2>2. (work => work') /\ (restart # {} => restart' # {})
    BY <1>1
  <2> QED
    BY <1>1, <1>2, <1>4, <1>6, <1>7, <1>10, <1>11, <2>1, <2>2, OnwardRests
<1>15. RevsGrow'
  <2>1. /\ RevsGrow /\ ~At("idle") /\ spec'.rest = spec.rest
        /\ made["deployment"] \in Int /\ worker.inst.rest \in Int /\ spec.rest \in Int /\ pod.rev \in Int
    BY <1>1, <1>4, <1>7, Types, SpecTypes DEF IInv, Objects
  <2> QED
    BY <1>2, <1>9, <1>11, <2>1 DEF RevsGrow
<1>16. OfferingObjects'
  <2>1. Steps' = Steps
    BY <1>2 DEF Steps
  <2> QED
    BY <1>2, <2>1 DEF OfferingObjects, IInv
<1>17. Served'
  <2> SUFFICES ASSUME up, mishaps \subseteq {"lateMigration"} PROVE Served'
    BY <1>2 DEF Served
  <2>1. Served
    BY DEF IInv
  <2>2. Rank(worker.pc) = 20 /\ worker'.result = "ok" /\ worker.result = "ok"
        /\ Rank(worker'.pc) \in 1..22 /\ Rank(worker'.pc) >= 20
    BY <1>1, <1>3, <1>9, <1>10, Ranks DEF Onward
  <2>3. \A s \in {"ingress", "caroute", "opsroute", "crypto"} : Done(s)
    BY <2>2, Ranks DEF Done
  <2>4. \A o \in {"ingress", "caroute", "opsroute"} : made[o] \notin {Absent, spec.rest} =>
           "specUpdated" \in Stacked'
    BY <1>6, <2>1, <2>3 DEF Served
  <2>5. spec'.restart => "restartNeeded" \in Stacked'
    BY <1>1, <1>4, <1>6, <2>1 DEF Served
  <2>6. spec'.renew => "renewTLSCert" \in Stacked'
    BY <1>1, <1>4, <1>6, <2>1 DEF Served
  <2>7. pod'.up /\ ~pod'.tls /\ restart' = {} => "caCryptoUpdated" \in Stacked'
    <3>1. restart' = {} => restart = {}
      BY <1>1
    <3>2. CASE renews
      BY <1>6, <3>2
    <3>3. CASE ~renews
      BY <1>6, <1>11, <2>1, <2>3, <3>1, <3>3 DEF Served
    <3> QED
      BY <3>2, <3>3
  <2> QED
    BY <1>1, <1>2, <1>4, <2>4, <2>5, <2>6, <2>7 DEF Served
<1> QED
  BY <1>12, <1>13, <1>14, <1>15, <1>16, <1>17 DEF IInv

LEMMA HandleActionsFailsKeeps ==
  ASSUME IInv, HandleActionsFails
  PROVE  IInv'
<1>1. /\ worker.pc = "actions" /\ events < MaxEvents /\ events' = events + 1
      /\ Renew(TRUE) /\ stack' = Push(stack, {"caCryptoUpdated"}) /\ work' = TRUE
      /\ worker' = [worker EXCEPT !.pc = "status", !.result = "error", !.inst = ResetFlags(@)]
      /\ mishaps' = mishaps \cup {"failed"}
      /\ UNCHANGED <<setup, up, status, saved, spec, versioned, cfg, made, job, restart>>
  BY DEF HandleActionsFails, At, Event, NoteIf, frame
<1>2. /\ ~At("idle") /\ ~At("status") /\ worker.pc \notin InitSteps
  BY <1>1, StepNames DEF At
<1>3. up /\ setup \in Setups /\ worker.result = "ok" /\ worker \in Calls /\ stack \in Seq(SUBSET Flags)
      /\ worker.inst \in Specs
  BY <1>2, Underway, Types DEF IInv, TypeOK
<1>4. /\ worker' \in Calls /\ worker'.pc = "status" /\ worker'.result = "error"
      /\ worker'.inst.ca = worker.inst.ca /\ worker'.inst.tls = worker.inst.tls
      /\ worker'.inst.rest = worker.inst.rest /\ worker'.which = worker.which
  <2> DEFINE inst == ResetFlags(worker.inst)
  <2>1. worker.inst.renew \in BOOLEAN /\ worker.inst.restart \in BOOLEAN
    BY <1>3, SpecTypes
  <2>2. /\ inst \in Specs /\ inst.ca = worker.inst.ca /\ inst.tls = worker.inst.tls
        /\ inst.rest = worker.inst.rest
    BY <1>3, <2>1 DEF Specs, ResetFlags
  <2>3. worker' = [worker EXCEPT !.pc = "status", !.result = "error", !.inst = inst]
    BY <1>1
  <2>4. "status" \in PCs
    BY <1>3, StepsOfOffering
  <2> HIDE DEF inst
  <2> QED
    BY <1>3, <2>2, <2>3, <2>4 DEF Calls
<1>5. stack' \in Seq(SUBSET Flags) /\ stack' # <<>> /\ Stacked \subseteq Stacked'
  <2>1. {"caCryptoUpdated"} \in SUBSET Flags
    BY DEF Flags
  <2>2. /\ Push(stack, {"caCryptoUpdated"}) \in Seq(SUBSET Flags) /\ Push(stack, {"caCryptoUpdated"}) # <<>>
        /\ UNION Range(Push(stack, {"caCryptoUpdated"})) = (UNION Range(stack)) \cup {"caCryptoUpdated"}
    BY <1>3, <2>1, PushFacts
  <2> QED
    BY <1>1, <2>2 DEF Stacked
<1>6. /\ secret'.root = secret.root /\ pod'.up = pod.up /\ pod'.rev = pod.rev
  BY <1>1 DEF Renew, IInv, TypeOK
<1>7. TypeOK'
  <2>1. secret' \in [root : [CAs -> Nat \cup {Absent}], age : {"fresh", "expiring", "expired"}]
    BY <1>1 DEF Renew, IInv, TypeOK
  <2>2. profile' \in {"none", "stale", "current"}
    BY <1>1 DEF Renew, IInv, TypeOK
  <2>3. pod' \in [up : BOOLEAN, cfg : Configs, tls : BOOLEAN, rev : -1..MaxEvents]
    BY <1>1 DEF Renew, IInv, TypeOK
  <2>4. events' \in 0..MaxEvents /\ mishaps' \in SUBSET Mishaps
    BY <1>1, Types DEF IInv, TypeOK, Mishaps
  <2> QED
    BY <1>1, <1>4, <1>5, <2>1, <2>2, <2>3, <2>4 DEF IInv, TypeOK
<1>8. Steps' = Steps
  BY <1>1 DEF Steps
<1>9. Course'
  <2>1. "status" \in Range(Steps') /\ ~(Rank("status") < 6)
    BY <1>3, <1>8, StepsOfOffering, Ranks
  <2> QED
    BY <1>1, <1>3, <1>4, <2>1 DEF Course, At, IInv
<1>10. RevsGrow'
  <2>1. RevsGrow /\ spec.rest \in Int /\ events \in Int /\ worker.inst.rest \in Int
    BY Types, SpecTypes DEF IInv
  <2> QED
    BY <1>1, <1>2, <1>4, <1>6, <2>1 DEF RevsGrow, At
<1>11. EditsStacked'
  BY <1>1, <1>2, <1>4, <1>5 DEF EditsStacked, IInv, At
<1>12. RootInv'
  BY <1>1, <1>4, <1>6 DEF RootInv, IInv, At
<1>13. InitInv'
  <2>1. \A c \in CAs : ~Creating(c) /\ ~Creating(c)'
    BY <1>1, <1>4 DEF Creating
  <2>2. ~At("hsmwait") /\ At("status")' /\ ~At("config")'
    BY <1>1, <1>4 DEF At
  <2> QED
    BY <1>1, <1>6, <2>1, <2>2 DEF InitInv, IInv
<1>14. BrokenOff' /\ OverridesServed' /\ Served' /\ RestInv'
  BY <1>1, <1>4 DEF BrokenOff, OverridesServed, Served, RestInv
<1>15. OfferingObjects'
  BY <1>1, <1>8 DEF OfferingObjects, IInv
<1> QED
  BY <1>7, <1>9, <1>10, <1>11, <1>12, <1>13, <1>14, <1>15 DEF IInv

-----------------------------------------------------------------------------
(* Reconcile begins and ends                                               *)

LEMMA StartKeeps ==
  ASSUME IInv, Start
  PROVE  IInv'
<1> DEFINE upd == IF stack = <<>> THEN {} ELSE Head(stack)
           call == [Idle EXCEPT !.inst = spec, !.upd = upd]
           n == FirstNeeded(call, 1)
<1>1. /\ up /\ worker.pc = "idle" /\ work /\ work' = FALSE
      /\ worker' = [call EXCEPT !.pc = n]
      /\ stack' = IF stack = <<>> THEN stack ELSE Tail(stack)
      /\ UNCHANGED <<setup, up, spec, versioned, status, saved, secret, cfg, made, profile, job,
                     pod, restart, events, mishaps>>
  BY DEF Start, crVars, clusterVars, podVars, historyVars
<1>2. /\ setup \in Setups /\ spec \in Specs /\ stack \in Seq(SUBSET Flags) /\ worker = Idle
  BY <1>1, Types DEF IInv, Course, At
<1>3. /\ upd \in SUBSET Flags /\ stack' \in Seq(SUBSET Flags) /\ Stacked = upd \cup Stacked'
  <2>1. CASE stack = <<>>
    BY <1>1, <1>2, <2>1, ShortStacks DEF Stacked
  <2>2. CASE stack # <<>>
    BY <1>1, <1>2, <2>2, PopFacts DEF Stacked
  <2> QED
    BY <2>1, <2>2
<1> HIDE DEF upd
<1>4. /\ call \in Calls /\ call.upd = upd /\ call.inst = spec
      /\ call.which = "ca" /\ call.resp = "none" /\ call.result = "ok"
  BY <1>2, <1>3, IdleType DEF Calls
<1> HIDE DEF call
<1>5. Goes(call, 0, n)
  BY <1>2, FirstGoes
<1> HIDE DEF n
<1>6. n \in PCs /\ n \notin {"idle"} \cup InitSteps /\ n \in Range(Steps)
  BY <1>2, <1>5, StepsOfOffering DEF Goes
<1>7. Rank(n) \in 1..6 /\ n # "status"
  <2>1. Rank(n) \in 0..22 /\ Rank(n) > 0
    BY <1>5, <1>6, RankType DEF Goes
  <2>2. ~(6 < Rank(n))
    <3>1. Needed("init", call) /\ "init" \in Range(Steps) /\ Rank("init") = 6
      BY <1>2, StepsOfOffering, Ranks DEF Needed
    <3> QED
      BY <1>5, <3>1 DEF Goes
  <2> QED
    BY <2>1, <2>2, Ranks
<1>8. worker' \in Calls
  BY <1>1, <1>4, <1>6 DEF Calls
<1>9. /\ worker'.pc = n /\ worker'.which = "ca" /\ worker'.upd = upd /\ worker'.inst = spec
      /\ worker'.resp = "none" /\ worker'.result = "ok"
  BY <1>1, <1>4 DEF Calls
<1>10. TypeOK'
  BY <1>1, <1>3, <1>8 DEF IInv, TypeOK
<1>11. Steps' = Steps
  BY <1>1 DEF Steps
<1>12. Course'
  BY <1>1, <1>6, <1>7, <1>9, <1>11 DEF Course, At, InitSteps, IInv
<1>13. RevsGrow'
  <2>1. RevsGrow /\ spec.rest \in Int
    BY <1>2, SpecTypes DEF IInv
  <2> QED
    BY <1>1, <1>9, <2>1 DEF RevsGrow
<1>14. EditsStacked'
  BY <1>1, <1>9 DEF EditsStacked
<1>15. RootInv'
  BY <1>1, <1>6, <1>9 DEF RootInv, IInv, InitSteps
<1>16. \A c \in CAs : ~Creating(c) /\ ~Creating(c)' /\ ~CADone(c)'
  BY <1>1, <1>7, <1>9 DEF Creating, CADone, CAs
<1>17. InitInv'
  <2>1. mishaps \cap {"halfway", "misread"} = {} => \A c \in CAs : job[c] = "none"
    BY <1>1 DEF IInv, InitInv, At
  <2>2. ~At("config")'
    BY <1>6, <1>9 DEF InitSteps, At
  <2> QED
    BY <1>1, <1>16, <2>1, <2>2 DEF InitInv, IInv
<1>18. BrokenOff'
  BY <1>9 DEF BrokenOff
<1>19. \A s \in {"ingress", "caroute", "opsroute", "actions", "crypto", "states", "profile", "overrides",
                 "deployment"} : ~Done(s)'
  BY <1>7, <1>9, Ranks DEF Done
<1>20. worker.upd = {}
  BY <1>2 DEF Idle
<1>21. OverridesServed'
  BY <1>1, <1>3, <1>9, <1>16, <1>20 DEF OverridesServed, IInv, CAs
<1>22. Served'
  BY <1>1, <1>3, <1>9, <1>19, <1>20 DEF Served, IInv
<1>23. OfferingObjects'
  BY <1>1, <1>11 DEF OfferingObjects, IInv
<1>24. RestInv'
  <2>1. Busy("states")' /\ Busy("profile")'
    BY <1>6, <1>9, <1>19 DEF Busy, At
  <2> QED
    BY <1>1, <1>3, <1>9, <1>19, <1>20, <2>1 DEF RestInv, IInv, Unrestarted, ConfigOverridesUpdated
<1> QED
  BY <1>10, <1>12, <1>13, <1>14, <1>15, <1>17, <1>18, <1>21, <1>22, <1>23, <1>24 DEF IInv

\* The worker is done, and what was not is back on the stack or a mishap.
LEMMA EndKeeps ==
  ASSUME IInv, TypeOK', At("status"), worker' = Idle,
         UNCHANGED <<setup, up, spec, secret, cfg, made, profile, job, pod, restart>>,
         events <= events', mishaps \subseteq mishaps', Stacked \subseteq Stacked',
         stack # <<>> => stack' # <<>>, work => work',
         worker.result = "requeue" =>
            (worker.upd \subseteq Stacked' /\ stack' # <<>>) \/ (worker.upd = {} /\ work') \/ "failed" \in mishaps',
         worker.result = "error" => work' \/ stack' # <<>>
  PROVE  IInv'
<1>1. /\ worker'.pc = "idle" /\ worker'.which = "ca" /\ worker'.upd = {} /\ worker'.resp = "none"
      /\ worker'.result = "ok" /\ worker.pc = "status"
  BY DEF Idle, At
<1>2. Steps' = Steps
  BY DEF Steps
<1>3. Course'
  BY <1>1 DEF Course, IInv, At
<1>4. RevsGrow'
  <2>1. RevsGrow /\ spec.rest \in Int /\ events \in Int /\ events' \in Int
    BY Types, SpecTypes DEF IInv, TypeOK
  <2> QED
    BY <1>1, <2>1 DEF RevsGrow, At
<1>5. EditsStacked' /\ BrokenOff'
  BY <1>1 DEF EditsStacked, BrokenOff, At
<1>6. RootInv'
  BY <1>1 DEF RootInv, IInv
<1>7. \A c \in CAs : ~Creating(c) /\ ~Creating(c)' /\ ~CADone(c)'
  BY <1>1, Ranks DEF Creating, CADone
<1>8. InitInv'
  BY <1>1, <1>7 DEF InitInv, IInv, At
<1>9. OfferingObjects'
  BY <1>2 DEF OfferingObjects, IInv
<1>10. \A s \in {"ingress", "caroute", "opsroute", "actions", "crypto", "states", "profile", "overrides",
                 "deployment"} : ~Done(s)' /\ (worker.result = "ok" => Done(s))
  BY <1>1, Ranks DEF Done
<1>11. worker.result = "ok" => CADone("ca") /\ CADone("tls")
  BY <1>1, Ranks DEF CADone
<1>12. worker.result \in {"ok", "requeue", "error", "breaking"}
  BY Types DEF IInv
<1>13. mishaps' \subseteq {"lateMigration"} => worker.result = "ok" \/ worker.upd \subseteq Stacked'
  <2> SUFFICES ASSUME mishaps' \subseteq {"lateMigration"}, worker.result # "ok"
               PROVE  worker.upd \subseteq Stacked'
    OBVIOUS
  <2> QED
    BY <1>12 DEF BrokenOff, IInv
<1>14. OverridesServed'
  BY <1>11, <1>13 DEF OverridesServed, IInv
<1>15. Served'
  BY <1>10, <1>13 DEF Served, IInv
<1>16. RestInv'
  <2> SUFFICES ASSUME mishaps' = {} PROVE RestInv'
    BY DEF RestInv
  <2>1. mishaps = {} /\ worker.result # "breaking"
    BY DEF BrokenOff, IInv
  <2>2. worker.result # "ok" => Busy("states")' /\ Busy("profile")'
    BY <1>12, <2>1 DEF Busy
  <2>3. worker.result = "ok" => (Busy("states") => Busy("states")') /\ (Busy("profile") => Busy("profile")')
    BY <1>10 DEF Busy
  <2>4. ConfigOverridesUpdated(Stacked) \/ (ConfigOverridesUpdated(worker.upd) /\ ~Done("overrides")) =>
           ConfigOverridesUpdated(Stacked')
    BY <1>10, <1>13 DEF ConfigOverridesUpdated
  <2>5. RestInv
    BY DEF IInv
  <2> QED
    BY <1>10, <2>1, <2>2, <2>3, <2>4, <2>5 DEF RestInv, Unrestarted
<1> QED
  BY <1>3, <1>4, <1>5, <1>6, <1>8, <1>9, <1>14, <1>15, <1>16 DEF IInv

LEMMA SetStatusKeeps ==
  ASSUME IInv, SetStatus
  PROVE  IInv'
<1> DEFINE pushed == IF worker.result = "requeue" THEN Push(stack, worker.upd) ELSE stack
<1>1. /\ At("status") /\ saved' = worker.inst /\ status' = NextStatus /\ stack' = pushed
      /\ work' = (work \/ worker.result = "error" \/ (worker.result # "breaking" /\ pushed # <<>>))
      /\ worker' = Idle
      /\ UNCHANGED <<setup, up, spec, versioned, secret, cfg, made, profile, job, pod, restart, events,
                     mishaps>>
  BY DEF SetStatus, clusterVars, podVars, historyVars
<1>2. stack \in Seq(SUBSET Flags) /\ worker.upd \in SUBSET Flags
  BY Types DEF IInv
<1>3. /\ stack' \in Seq(SUBSET Flags) /\ Stacked \subseteq Stacked' /\ (stack # <<>> => stack' # <<>>)
      /\ worker.result = "requeue" => worker.upd \subseteq Stacked' /\ stack' # <<>>
  <2>1. CASE worker.result = "requeue"
    <3>1. stack' = Push(stack, worker.upd)
      BY <1>1, <2>1
    <3>2. /\ stack' \in Seq(SUBSET Flags) /\ stack' # <<>>
          /\ UNION Range(stack') = (UNION Range(stack)) \cup worker.upd
      BY <1>2, <3>1, PushFacts
    <3> QED
      BY <3>2 DEF Stacked
  <2>2. CASE worker.result # "requeue"
    BY <1>1, <1>2, <2>2 DEF Stacked
  <2> QED
    BY <2>1, <2>2
<1> HIDE DEF pushed
<1>4. TypeOK'
  <2>1. Idle \in Calls
    BY IdleType
  <2>2. NextStatus \in Statuses
    BY DEF NextStatus, Statuses, IInv, TypeOK, Calls
  <2>3. worker.inst \in Specs /\ work' \in BOOLEAN
    BY <1>1, Types DEF IInv, TypeOK
  <2> QED
    BY <1>1, <1>3, <2>1, <2>2, <2>3 DEF IInv, TypeOK
<1>5. events <= events' /\ mishaps \subseteq mishaps'
  BY <1>1, Types DEF IInv
<1>6. work => work'
  BY <1>1
<1>7. worker.result = "error" => work'
  BY <1>1
<1> QED
  BY <1>1, <1>3, <1>4, <1>5, <1>6, <1>7, EndKeeps

LEMMA SetStatusErrorKeeps ==
  ASSUME IInv, SetStatusError
  PROVE  IInv'
<1>1. /\ At("status") /\ events < MaxEvents /\ events' = events + 1
      /\ saved' \in {saved, worker.inst} /\ work' = TRUE /\ worker' = Idle
      /\ mishaps' = mishaps \cup (IF worker.result = "requeue" /\ worker.upd # {} THEN {"failed"} ELSE {})
      /\ UNCHANGED <<setup, up, spec, versioned, status, stack, secret, cfg, made, profile, job, pod, restart>>
  BY DEF SetStatusError, Event, NoteIf, clusterVars, podVars
<1>2. TypeOK'
  <2>1. Idle \in Calls
    BY IdleType
  <2>2. saved' \in Specs /\ events' \in 0..MaxEvents
    BY <1>1, Types DEF IInv, TypeOK
  <2>3. mishaps' \in SUBSET Mishaps
    BY <1>1 DEF Mishaps, IInv, TypeOK
  <2> QED
    BY <1>1, <2>1, <2>2, <2>3 DEF IInv, TypeOK
<1>3. events <= events' /\ mishaps \subseteq mishaps' /\ Stacked \subseteq Stacked'
  BY <1>1, Types DEF IInv, Stacked
<1>4. worker.result = "requeue" => (worker.upd = {} /\ work') \/ "failed" \in mishaps'
  BY <1>1
<1> QED
  BY <1>1, <1>2, <1>3, <1>4, EndKeeps

-----------------------------------------------------------------------------
(* The operator, the user and the cluster                                  *)

\* The operator goes down, by itself or over an edit.
LEMMA OperatorDiesKeeps ==
  ASSUME IInv, TypeOK', OperatorDies,
         UNCHANGED <<setup, versioned, status, saved, secret, cfg, made, profile, job, pod, restart>>,
         spec.rest <= spec'.rest, spec'.rest <= events',
         ~spec'.over => spec'.ca = 0 /\ spec'.tls = 0
  PROVE  IInv'
<1>1. /\ up' = FALSE /\ stack' = <<>> /\ work' = FALSE /\ worker' = Idle
      /\ mishaps' = mishaps \cup (IF worker.pc \in InitSteps THEN {"halfway"} ELSE {})
  BY DEF OperatorDies, NoteIf
<1>2. /\ worker'.pc = "idle" /\ worker'.which = "ca" /\ worker'.upd = {} /\ worker'.resp = "none"
      /\ worker'.result = "ok"
  BY <1>1, IdleType
<1>3. Steps' = Steps
  BY DEF Steps
<1>4. Course'
  BY <1>1, <1>2 DEF Course, At, Idle
<1>5. RevsGrow'
  <2>1. /\ RevsGrow /\ made["deployment"] \in Int /\ spec.rest \in Int /\ spec'.rest \in Int
    BY Types, SpecTypes DEF IInv, Objects, TypeOK
  <2> QED
    BY <1>2, <2>1 DEF RevsGrow, At
<1>6. EditsStacked' /\ BrokenOff' /\ OverridesServed' /\ Served'
  BY <1>1, <1>2 DEF EditsStacked, BrokenOff, OverridesServed, Served, At
<1>7. RootInv'
  BY <1>1, <1>2 DEF RootInv, IInv
<1>8. \A c \in CAs : ~Creating(c)' /\ ~CADone(c)'
  BY <1>2, Ranks DEF Creating, CADone, CAs
<1>9. InitInv'
  <2> SUFFICES ASSUME mishaps' \cap {"halfway", "misread"} = {} PROVE InitInv'
    BY DEF InitInv
  <2>1. worker.pc \notin InitSteps /\ mishaps \cap {"halfway", "misread"} = {}
    BY <1>1
  <2>2. \A c \in CAs : ~Creating(c) /\ job[c] = "none"
    BY <2>1 DEF Creating, InitSteps, IInv, InitInv, At
  <2>3. ~At("config")'
    BY <1>2 DEF At
  <2> QED
    BY <1>8, <2>1, <2>2, <2>3 DEF InitInv, IInv
<1>10. OfferingObjects'
  BY <1>3 DEF OfferingObjects, IInv
<1>11. RestInv'
  BY <1>1, <1>2, Ranks DEF RestInv, Done
<1> QED
  BY <1>4, <1>5, <1>6, <1>7, <1>9, <1>10, <1>11 DEF IInv

LEMMA OperatorDiesType ==
  ASSUME IInv, OperatorDies
  PROVE  /\ stack' \in Seq(SUBSET Flags) /\ work' \in BOOLEAN /\ up' \in BOOLEAN
         /\ worker' \in Calls /\ mishaps' \in SUBSET Mishaps
  BY IdleType, ShortStacks DEF OperatorDies, NoteIf, Mishaps, IInv, TypeOK

LEMMA CrashKeeps ==
  ASSUME IInv, Crash
  PROVE  IInv'
<1>1. /\ OperatorDies /\ events < MaxEvents /\ events' = events + 1
      /\ UNCHANGED <<setup, spec, versioned, status, saved, secret, cfg, made, profile, job, pod, restart>>
  BY DEF Crash, Event, crVars, clusterVars, podVars
<1>2. TypeOK'
  <2>1. events' \in 0..MaxEvents
    BY <1>1, Types DEF IInv
  <2> QED
    BY <1>1, <2>1, OperatorDiesType DEF IInv, TypeOK
<1>3. spec.rest <= spec'.rest /\ spec'.rest <= events'
  <2>1. spec.rest \in Int /\ events \in Int /\ spec.rest <= events
    BY Types, SpecTypes DEF IInv, RevsGrow
  <2> QED
    BY <1>1, <2>1
<1>4. ~spec'.over => spec'.ca = 0 /\ spec'.tls = 0
  BY <1>1 DEF IInv, Course
<1> QED
  BY <1>1, <1>2, <1>3, <1>4, OperatorDiesKeeps

\* An edit is on the stack, and disturbs nothing else.
LEMMA SpecKeeps ==
  ASSUME IInv, TypeOK',
         UNCHANGED <<setup, up, worker, mishaps, secret, cfg, made, profile, job, pod, restart>>,
         spec.rest <= spec'.rest, spec'.rest <= events',
         ~spec'.over => spec'.ca = 0 /\ spec'.tls = 0,
         up => /\ Stacked \subseteq Stacked' /\ stack' # <<>>
               /\ "specUpdated" \in Stacked'
               /\ spec'.restart => "restartNeeded" \in Stacked'
               /\ spec'.renew => "renewTLSCert" \in Stacked'
               /\ spec.ca # spec'.ca => "caOverrides" \in Stacked'
               /\ spec.tls # spec'.tls => "tlscaOverrides" \in Stacked'
  PROVE  IInv'
<1>1. ~At("idle") => up
  BY DEF IInv, Course, Idle, At
<1>2. Steps' = Steps
  BY DEF Steps
<1>3. Course'
  BY <1>2 DEF Course, IInv, At, HasFlag
<1>4. RevsGrow'
  <2>1. /\ RevsGrow /\ made["deployment"] \in Int /\ spec.rest \in Int /\ spec'.rest \in Int
        /\ worker.inst.rest \in Int
    BY Types, SpecTypes DEF IInv, Objects, TypeOK
  <2> QED
    BY <2>1 DEF RevsGrow, At
<1>5. EditsStacked'
  BY <1>1 DEF EditsStacked, IInv, At
<1>6. RootInv' /\ BrokenOff'
  BY DEF RootInv, BrokenOff, IInv
<1>7. InitInv'
  BY DEF InitInv, IInv, Creating, CADone, At
<1>8. OverridesServed'
  BY DEF OverridesServed, IInv, CADone
<1>9. Served'
  BY DEF Served, IInv, Done
<1>10. OfferingObjects'
  BY <1>2 DEF OfferingObjects, IInv
<1>11. RestInv'
  <2>1. up => Busy("states")' /\ Busy("profile")'
    BY DEF Busy
  <2> QED
    BY <2>1 DEF RestInv, IInv, Done, Unrestarted, ConfigOverridesUpdated
<1> QED
  BY <1>3, <1>4, <1>5, <1>6, <1>7, <1>8, <1>9, <1>10, <1>11 DEF IInv

LEMMA EditKeeps ==
  ASSUME IInv, NEW change \in Changes, Edit(change)
  PROVE  IInv'
<1> DEFINE e == events + 1
           new == [spec EXCEPT !.ca = IF change \cap {"noca", "none"} # {} THEN 0
                                      ELSE IF "ca" \in change THEN e ELSE @,
                               !.tls = IF "none" \in change THEN 0 ELSE IF "tls" \in change THEN e ELSE @,
                               !.over = "none" \notin change /\ (@ \/ change \cap CAs # {}),
                               !.rest = IF change \cap {"rest", "tag"} # {} THEN e ELSE @,
                               !.tag = IF "tag" \in change THEN e ELSE @,
                               !.renew = @ \/ "renew" \in change,
                               !.restart = @ \/ "restart" \in change]
<1>1. /\ events < MaxEvents /\ events' = events + 1 /\ new # spec /\ spec' = new
      /\ IF up /\ spec.over /\ ~new.over
         THEN OperatorDies
         ELSE UpdateFunc(new) /\ UNCHANGED <<up, worker, mishaps>>
      /\ UNCHANGED <<setup, versioned, status, saved, secret, cfg, made, profile, job, pod, restart>>
  BY DEF Edit, Event, clusterVars, podVars
<1>2. /\ spec \in Specs /\ ~spec.gen /\ events \in Nat /\ MaxEvents \in Nat
      /\ ~spec.over => spec.ca = 0 /\ spec.tls = 0
  BY Types DEF IInv, Course
<1>3. /\ new \in Specs /\ new.gen = spec.gen
      /\ new.rest \in {spec.rest, events + 1}
      /\ ~new.over => new.ca = 0 /\ new.tls = 0
  <2>1. /\ spec.renew \in BOOLEAN /\ spec.restart \in BOOLEAN /\ spec.over \in BOOLEAN
        /\ 0 \in Revs /\ e \in Revs
        /\ spec.ca \in Revs /\ spec.tls \in Revs /\ spec.rest \in Revs /\ spec.tag \in Revs
    BY <1>1, <1>2, SpecTypes DEF Revs
  <2> HIDE DEF e
  <2>2. new \in Specs /\ new.gen = spec.gen
    <3> DEFINE ca == IF change \cap {"noca", "none"} # {} THEN 0 ELSE IF "ca" \in change THEN e ELSE spec.ca
               tls == IF "none" \in change THEN 0 ELSE IF "tls" \in change THEN e ELSE spec.tls
               over == "none" \notin change /\ (spec.over \/ change \cap CAs # {})
               rest == IF change \cap {"rest", "tag"} # {} THEN e ELSE spec.rest
               tag == IF "tag" \in change THEN e ELSE spec.tag
               renew == spec.renew \/ "renew" \in change
               again == spec.restart \/ "restart" \in change
    <3>1. /\ ca \in Revs /\ tls \in Revs /\ rest \in Revs /\ tag \in Revs
          /\ over \in BOOLEAN /\ renew \in BOOLEAN /\ again \in BOOLEAN
      BY <2>1
    <3>2. new = [spec EXCEPT !.ca = ca, !.tls = tls, !.over = over, !.rest = rest, !.tag = tag,
                             !.renew = renew, !.restart = again]
      OBVIOUS
    <3> HIDE DEF ca, tls, over, rest, tag, renew, again, new
    <3> QED
      BY <1>2, <3>1, <3>2 DEF Specs
  <2>3. new.rest \in {spec.rest, e}
    BY <1>2 DEF Specs
  <2>4. /\ new.ca = IF change \cap {"noca", "none"} # {} THEN 0
                    ELSE IF "ca" \in change THEN e ELSE spec.ca
        /\ new.tls = IF "none" \in change THEN 0 ELSE IF "tls" \in change THEN e ELSE spec.tls
        /\ new.over = ("none" \notin change /\ (spec.over \/ change \cap CAs # {}))
    BY <1>2 DEF Specs
  <2>5. ~new.over => new.ca = 0 /\ new.tls = 0
    BY <1>2, <2>1, <2>4 DEF CAs
  <2> QED
    BY <2>2, <2>3, <2>5 DEF e
<1> HIDE DEF new
<1>4. events' \in 0..MaxEvents
  BY <1>1, <1>2
<1>5. spec.rest <= spec'.rest /\ spec'.rest <= events' /\ spec.rest \in Int /\ spec'.rest \in Int
  <2>1. spec.rest \in Int /\ spec.rest <= events
    BY <1>2, SpecTypes DEF IInv, RevsGrow
  <2> QED
    BY <1>1, <1>2, <1>3, <2>1
<1>6. CASE up /\ spec.over /\ ~new.over
  <2>1. OperatorDies
    BY <1>1, <1>6
  <2>2. TypeOK'
    BY <1>1, <1>2, <1>3, <1>4, <2>1, OperatorDiesType DEF IInv, TypeOK
  <2> QED
    BY <1>1, <1>3, <1>5, <2>1, <2>2, OperatorDiesKeeps
<1>7. CASE ~(up /\ spec.over /\ ~new.over)
  <2>1. UpdateFunc(new) /\ UNCHANGED <<up, worker, mishaps>>
    BY <1>1, <1>7
  <2>2. CASE ~up
    <3>1. UNCHANGED <<stack, work>> /\ worker = Idle
      BY <2>1, <2>2 DEF UpdateFunc, queueVars, IInv, Course
    <3>2. TypeOK'
      BY <1>1, <1>2, <1>3, <1>4, <2>1, <3>1 DEF IInv, TypeOK
    <3> QED
      BY <1>1, <1>3, <1>5, <2>1, <2>2, <3>1, <3>2, SpecKeeps
  <2>3. CASE up
    <3>1. ~new.over => new.ca = 0 /\ new.tls = 0 /\ ~spec.over
      BY <1>3, <1>7, <2>3
    <3>2. /\ stack' \in Seq(SUBSET Flags) /\ work' \in BOOLEAN
          /\ Stacked \subseteq Stacked' /\ stack' # <<>> /\ work'
          /\ "specUpdated" \in Stacked'
          /\ new.restart => "restartNeeded" \in Stacked'
          /\ new.renew => "renewTLSCert" \in Stacked'
          /\ spec.ca # new.ca => "caOverrides" \in Stacked'
          /\ spec.tls # new.tls => "tlscaOverrides" \in Stacked'
      BY <1>1, <1>2, <1>3, <2>1, <2>3, <3>1, UpdateFuncFacts
    <3>3. TypeOK'
      BY <1>1, <1>2, <1>3, <1>4, <2>1, <3>2 DEF IInv, TypeOK
    <3> QED
      BY <1>1, <1>3, <1>5, <2>1, <3>2, <3>3, SpecKeeps
  <2> QED
    BY <2>2, <2>3
<1> QED
  BY <1>6, <1>7

\* Pods, jobs and certificates leave the worker and what it has written alone.
LEMMA ClusterKeeps ==
  ASSUME IInv, TypeOK',
         UNCHANGED <<setup, up, worker, spec, cfg, made, profile, mishaps>>,
         Stacked \subseteq Stacked', stack # <<>> => stack' # <<>>, work => work', events <= events',
         \/ pod' = pod /\ restart' = restart
         \/ /\ pod'.cfg = cfg /\ pod'.tls /\ pod'.rev = made["deployment"]
            /\ made["deployment"] # Absent,
         RootInv', InitInv'
  PROVE  IInv'
<1>1. Steps' = Steps
  BY DEF Steps
<1>2. Course'
  BY <1>1 DEF Course, IInv, At, HasFlag
<1>3. RevsGrow'
  <2>1. /\ RevsGrow /\ made["deployment"] \in Int /\ spec.rest \in Int /\ events \in Int /\ events' \in Int
    <3>1. /\ MaxEvents \in Nat /\ spec \in Specs /\ "deployment" \in Objects
          /\ \A o \in Objects : made[o] \in -1..MaxEvents
          /\ events \in 0..MaxEvents /\ events' \in 0..MaxEvents
      BY Types DEF IInv, Objects, TypeOK
    <3>2. spec.rest \in Int
      BY <3>1, SpecTypes
    <3> QED
      BY <3>1, <3>2 DEF IInv
  <2> QED
    BY <2>1 DEF RevsGrow, At
<1>4. EditsStacked' /\ BrokenOff'
  BY DEF EditsStacked, BrokenOff, IInv, At
<1>5. OverridesServed'
  BY DEF OverridesServed, IInv, CADone
<1>6. Served'
  BY DEF Served, IInv, Done
<1>7. OfferingObjects'
  BY <1>1 DEF OfferingObjects, IInv
<1>8. RestInv'
  <2>1. (Busy("states") => Busy("states")') /\ (Busy("profile") => Busy("profile")')
    BY DEF Busy, Done, At
  <2> QED
    BY <2>1 DEF RestInv, IInv, Done, Unrestarted, ConfigOverridesUpdated
<1> QED
  BY <1>2, <1>3, <1>4, <1>5, <1>6, <1>7, <1>8 DEF IInv

LEMMA PodLoadsKeeps ==
  ASSUME IInv, PodLoads, restart' \in SUBSET {"wanted", "queued"}
  PROVE  IInv'
<1>1. /\ made["deployment"] # Absent
      /\ pod' = [up |-> TRUE, cfg |-> cfg, tls |-> TRUE, rev |-> made["deployment"]]
      /\ work' = (work \/ up)
      /\ UNCHANGED <<setup, up, spec, versioned, status, saved, stack, worker, secret, cfg, made, profile,
                     job, events, mishaps>>
  BY DEF PodLoads, Mountable, crVars, clusterVars, historyVars
<1>2. TypeOK'
  <2>1. pod' \in [up : BOOLEAN, cfg : Configs, tls : BOOLEAN, rev : -1..MaxEvents]
    BY <1>1, Types DEF IInv, Objects
  <2>2. work' \in BOOLEAN
    BY <1>1 DEF IInv, TypeOK
  <2> QED
    BY <1>1, <2>1, <2>2 DEF IInv, TypeOK
<1>3. Stacked \subseteq Stacked' /\ (stack # <<>> => stack' # <<>>) /\ (work => work') /\ events <= events'
  <2>1. Stacked \subseteq Stacked' /\ (stack # <<>> => stack' # <<>>) /\ events <= events'
    BY <1>1, Types DEF Stacked, IInv
  <2>2. work => work'
    BY <1>1, Zenon
  <2> QED
    BY <2>1, <2>2
<1>4. pod'.cfg = cfg /\ pod'.tls /\ pod'.rev = made["deployment"]
  BY <1>1
<1>5. RootInv'
  BY <1>1 DEF RootInv, IInv
<1>6. InitInv'
  BY <1>1 DEF InitInv, IInv, Creating, CADone, At
<1> QED
  BY <1>1, <1>2, <1>3, <1>4, <1>5, <1>6, ClusterKeeps

LEMMA PodKeeps ==
  ASSUME IInv, PodStarts \/ PodRestarts
  PROVE  IInv'
<1>1. PodLoads /\ restart' \in SUBSET {"wanted", "queued"}
  BY DEF PodStarts, PodRestarts, IInv, TypeOK
<1> QED
  BY <1>1, PodLoadsKeeps

LEMMA CertAgesKeeps ==
  ASSUME IInv, CertAges
  PROVE  IInv'
<1>1. /\ events < MaxEvents /\ events' = events + 1
      /\ secret' = [secret EXCEPT !.age = IF @ = "fresh" THEN "expiring" ELSE "expired"]
      /\ UNCHANGED <<setup, up, spec, versioned, status, saved, stack, work, worker, cfg, made, profile,
                     job, pod, restart, mishaps>>
  BY DEF CertAges, Event, crVars, queueVars, podVars
<1>2. secret'.root = secret.root
      /\ secret' \in [root : [CAs -> Nat \cup {Absent}], age : {"fresh", "expiring", "expired"}]
  BY <1>1 DEF IInv, TypeOK
<1>3. TypeOK'
  <2>1. events' \in 0..MaxEvents
    BY <1>1, Types DEF IInv
  <2> QED
    BY <1>1, <1>2, <2>1 DEF IInv, TypeOK
<1>4. Stacked \subseteq Stacked' /\ events <= events'
  BY <1>1, Types DEF Stacked, IInv
<1>5. RootInv'
  BY <1>1, <1>2 DEF RootInv, IInv
<1>6. InitInv'
  BY <1>1, <1>2 DEF InitInv, IInv, Creating, CADone, At
<1> QED
  BY <1>1, <1>3, <1>4, <1>5, <1>6, ClusterKeeps

LEMMA JobFailsKeeps ==
  ASSUME IInv, NEW c \in CAs, JobFails(c)
  PROVE  IInv'
<1>1. /\ job[c] = "active" /\ events < MaxEvents /\ events' = events + 1
      /\ job' = [job EXCEPT ![c] = "failed"]
      /\ UNCHANGED <<setup, up, spec, versioned, status, saved, stack, work, worker, secret, cfg, made,
                     profile, pod, restart, mishaps>>
  BY DEF JobFails, Event, crVars, queueVars, podVars
<1>2. job' \in [CAs -> {"none", "active", "succeeded", "failed"}] /\ job'[c] = "failed"
      /\ \A d \in CAs : d # c => job'[d] = job[d]
  BY <1>1 DEF IInv, TypeOK
<1>3. TypeOK'
  <2>1. events' \in 0..MaxEvents
    BY <1>1, Types DEF IInv
  <2> QED
    BY <1>1, <1>2, <2>1 DEF IInv, TypeOK
<1>4. Stacked \subseteq Stacked' /\ events <= events'
  BY <1>1, Types DEF Stacked, IInv
<1>5. RootInv'
  BY <1>1, <1>2 DEF RootInv, IInv
<1>6. InitInv'
  BY <1>1, <1>2 DEF InitInv, IInv, Creating, CADone, At
<1> QED
  BY <1>1, <1>3, <1>4, <1>5, <1>6, ClusterKeeps

\* A secret's event leaves what is on the stack.
LEMMA SecretEventFacts ==
  ASSUME NEW c, NEW old, NEW new, NEW s \in Seq(SUBSET Flags)
  PROVE  /\ SecretEvent(c, old, new, s) \in Seq(SUBSET Flags)
         /\ UNION Range(s) \subseteq UNION Range(SecretEvent(c, old, new, s))
         /\ s # <<>> => SecretEvent(c, old, new, s) # <<>>
<1> DEFINE u == {IF old = Absent THEN "caCryptoCreated" ELSE "caCryptoUpdated"}
<1>1. u \in SUBSET Flags
  BY DEF Flags
<1>2. SecretEvent(c, old, new, s) \in {s, Push(s, u)}
  BY DEF SecretEvent
<1> HIDE DEF u
<1>3. /\ Push(s, u) \in Seq(SUBSET Flags) /\ Push(s, u) # <<>>
      /\ UNION Range(Push(s, u)) = (UNION Range(s)) \cup u
  BY <1>1, PushFacts
<1>4. UNION Range(s) \subseteq UNION Range(Push(s, u))
  BY <1>3
<1> QED
  BY <1>2, <1>3, <1>4

LEMMA JobRunsKeeps ==
  ASSUME IInv, NEW c \in CAs, JobRuns(c)
  PROVE  /\ IInv'
         /\ "misread" \notin mishaps => secret.root[c] = 0
         /\ \A d \in CAs : d # c => secret'.root[d] = secret.root[d]
<1>1. /\ job[c] = "active" /\ job' = [job EXCEPT ![c] = "succeeded"]
      /\ secret' = [secret EXCEPT !.root[c] = NewRoot(@)]
      /\ stack' = IF up THEN SecretEvent(c, secret.root[c], secret'.root[c], stack) ELSE stack
      /\ work' = (work \/ stack' # stack)
      /\ UNCHANGED <<setup, up, spec, versioned, status, saved, worker, cfg, made,
                     profile, pod, restart, events, mishaps>>
  BY DEF JobRuns, crVars, podVars, historyVars
<1>2. job' \in [CAs -> {"none", "active", "succeeded", "failed"}] /\ job'[c] = "succeeded"
      /\ \A d \in CAs : d # c => job'[d] = job[d]
  BY <1>1 DEF IInv, TypeOK
<1>3. NewRoot(secret.root[c]) \in Nat /\ NewRoot(secret.root[c]) >= 1
  BY Types DEF IInv, NewRoot, Absent
<1>4. /\ secret' \in [root : [CAs -> Nat \cup {Absent}], age : {"fresh", "expiring", "expired"}]
      /\ secret'.root[c] = NewRoot(secret.root[c])
      /\ \A d \in CAs : d # c => secret'.root[d] = secret.root[d]
  BY <1>1, <1>3 DEF IInv, TypeOK
<1>5. /\ stack' \in Seq(SUBSET Flags) /\ Stacked \subseteq Stacked' /\ (stack # <<>> => stack' # <<>>)
  BY <1>1, SecretEventFacts, Types DEF IInv, Stacked
<1>6. TypeOK'
  <2>1. work' \in BOOLEAN
    BY <1>1 DEF IInv, TypeOK
  <2> QED
    BY <1>1, <1>2, <1>4, <1>5, <2>1 DEF IInv, TypeOK
<1>7. events <= events' /\ (work => work')
  <2>1. events <= events'
    BY <1>1, Types DEF IInv
  <2>2. work => work'
    BY <1>1, Zenon
  <2> QED
    BY <2>1, <2>2
<1>8. "misread" \notin mishaps => secret.root[c] = 0
  BY <1>1 DEF RootInv, IInv
<1>9. RootInv'
  <2> SUFFICES ASSUME "misread" \notin mishaps PROVE RootInv'
    BY <1>1 DEF RootInv
  <2>1. secret.root[c] = 0 /\ secret'.root[c] = 1 /\ 1 # Absent /\ 0 # Absent
    BY <1>4, <1>8 DEF NewRoot, Absent
  <2>2. ~(worker.which = c /\ worker.resp = "create" /\ worker.pc \in {"secret", "hsmsecret"})
    BY <2>1 DEF RootInv, IInv
  <2>3. ~(worker.which = c /\ worker.pc \in {"hsmconfig", "hsmjob"})
    BY <1>1 DEF RootInv, IInv
  <2> QED
    BY <1>1, <1>2, <1>4, <2>1, <2>2, <2>3 DEF RootInv, IInv
<1>10. InitInv'
  <2> SUFFICES ASSUME mishaps \cap {"halfway", "misread"} = {} PROVE InitInv'
    BY <1>1 DEF InitInv
  <2>1. secret.root[c] = 0 /\ secret'.root[c] = 1 /\ 1 # Absent /\ 0 # Absent
    BY <1>4, <1>8 DEF NewRoot, Absent
  <2>2. worker.which = c /\ worker.pc = "hsmwait" /\ worker.resp = "create" /\ Creating(c) /\ Creating(c)'
    BY <1>1 DEF InitInv, IInv, Course, At, Creating
  <2>3. \A d \in CAs : (secret'.root[d] = Absent <=> secret.root[d] = Absent)
                        /\ (d # c => secret'.root[d] = secret.root[d])
    BY <1>4, <2>1
  <2>4. InitInv
    BY DEF IInv
  <2> QED
    BY <1>1, <1>2, <2>1, <2>2, <2>3, <2>4 DEF InitInv, Creating, CADone, At
<1>11. IInv'
  BY <1>1, <1>5, <1>6, <1>7, <1>9, <1>10, ClusterKeeps
<1> QED
  BY <1>4, <1>8, <1>11

\* When the operator starts the comparison of the specs has found what is
\* behind, or a mishap tells of it.
LEMMA UpKeeps ==
  ASSUME IInv, TypeOK', ~up, up', work',
         UNCHANGED <<setup, spec, worker, secret, cfg, made, profile, job, pod, restart>>,
         events <= events', mishaps \subseteq mishaps',
         \/ "unflagged" \in mishaps'
         \/ Owed \subseteq Stacked' /\ (Unrestarted => ConfigOverridesUpdated(Stacked'))
  PROVE  IInv'
<1>1. /\ worker = Idle /\ worker.pc = "idle" /\ worker.which = "ca" /\ worker.upd = {}
      /\ worker.resp = "none" /\ worker.result = "ok"
  BY IdleType DEF IInv, Course
<1>2. Steps' = Steps
  BY DEF Steps
<1>3. Course'
  BY <1>1, <1>2 DEF Course, IInv, At
<1>4. RevsGrow'
  <2>1. /\ RevsGrow /\ spec.rest \in Int /\ events \in Int /\ events' \in Int
    BY Types, SpecTypes DEF IInv, TypeOK
  <2> QED
    BY <1>1, <2>1 DEF RevsGrow, At
<1>5. EditsStacked' /\ BrokenOff'
  BY <1>1 DEF EditsStacked, BrokenOff, At
<1>6. RootInv'
  BY <1>1 DEF RootInv, IInv
<1>7. InitInv'
  BY <1>1 DEF InitInv, IInv, Creating, CADone, At
<1>8. OverridesServed'
  BY DEF OverridesServed, Owed, If
<1>9. Served'
  BY DEF Served, Owed, If
<1>10. OfferingObjects'
  BY <1>2 DEF OfferingObjects, IInv
<1>11. RestInv'
  <2>1. Busy("states")' /\ Busy("profile")' /\ ~Done("deployment")'
    BY <1>1, Ranks DEF Busy, Done
  <2> QED
    BY <2>1 DEF RestInv, Unrestarted
<1> QED
  BY <1>3, <1>4, <1>5, <1>6, <1>7, <1>8, <1>9, <1>10, <1>11 DEF IInv

LEMMA CreateFuncKeeps ==
  ASSUME IInv, CreateFunc
  PROVE  IInv'
<1> DEFINE flags == IF status = "none" THEN {} ELSE CreateFlags
<1>1. /\ ~up /\ up' = TRUE /\ work' = TRUE
      /\ stack' = IF status = "none" THEN <<>> ELSE <<flags>>
      /\ mishaps' = mishaps \cup (IF ~(Owed \subseteq flags) \/ (Unrestarted /\ ~ConfigOverridesUpdated(flags))
                                  THEN {"unflagged"} ELSE {})
      /\ UNCHANGED <<setup, spec, versioned, status, saved, worker, secret, cfg, made, profile, job, pod,
                     restart, events>>
  BY DEF CreateFunc, NoteIf, crVars, clusterVars, podVars
<1>2. flags \in SUBSET Flags
  BY DEF CreateFlags, If, Flags
<1>3. status = "none" => flags = {}
  OBVIOUS
<1> HIDE DEF flags
<1>4. stack' \in Seq(SUBSET Flags) /\ Stacked' = flags
  BY <1>1, <1>2, <1>3, ShortStacks DEF Stacked
<1>5. TypeOK'
  <2>1. mishaps' \in SUBSET Mishaps
    BY <1>1 DEF Mishaps, IInv, TypeOK
  <2> QED
    BY <1>1, <1>4, <2>1 DEF IInv, TypeOK
<1>6. events <= events' /\ mishaps \subseteq mishaps'
  BY <1>1, Types DEF IInv
<1> QED
  BY <1>1, <1>4, <1>5, <1>6, UpKeeps

LEMMA CreateFuncUnreadKeeps ==
  ASSUME IInv, CreateFuncUnread
  PROVE  IInv'
<1>1. /\ ~up /\ up' = TRUE /\ work' = TRUE /\ events < MaxEvents /\ events' = events + 1
      /\ mishaps' = mishaps \cup (IF Owed # {} \/ Unrestarted THEN {"unflagged"} ELSE {})
      /\ UNCHANGED <<setup, spec, versioned, status, saved, stack, worker, secret, cfg, made, profile, job,
                     pod, restart>>
  BY DEF CreateFuncUnread, Event, NoteIf, crVars, clusterVars, podVars
<1>2. TypeOK'
  <2>1. mishaps' \in SUBSET Mishaps /\ events' \in 0..MaxEvents
    BY <1>1, Types DEF Mishaps, IInv, TypeOK
  <2> QED
    BY <1>1, <2>1 DEF IInv, TypeOK
<1>3. events <= events' /\ mishaps \subseteq mishaps'
  BY <1>1, Types DEF IInv
<1> QED
  BY <1>1, <1>2, <1>3, UpKeeps

-----------------------------------------------------------------------------
(* Initialize                                                              *)

\* A step within Initialize, but for what it does to secret, job and
\* configuration.
LEMMA InitKeeps ==
  ASSUME IInv, TypeOK', worker.pc \in InitSteps \cup {"init"}, Onward,
         worker'.pc # "idle", worker'.inst = worker.inst,
         UNCHANGED <<setup, up, spec, made, profile, pod, restart, events>>,
         mishaps \subseteq mishaps', Stacked \subseteq Stacked', stack # <<>> => stack' # <<>>,
         work => work',
         mishaps = {} =>
            cfg' = cfg \/ made["deployment"] = Absent \/ ConfigOverridesUpdated(worker.upd),
         Course', RootInv', InitInv', OverridesServed'
  PROVE  IInv'
<1>1. /\ ~At("actions") /\ ~At("crypto") /\ ~At("ingress") /\ ~At("caroute") /\ ~At("opsroute")
      /\ ~At("deployment") /\ ~At("states") /\ ~At("profile") /\ ~At("overrides") /\ ~At("idle")
  BY DEF At, InitSteps
<1>2. worker.result = "ok" /\ worker'.result = "ok" /\ Rank(worker.pc) = 6
  BY Ranks DEF Onward, InitSteps
<1>3. Served'
  BY <1>1, OnwardServes
<1>4. RestInv'
  <2>1. mishaps = {} =>
            \/ cfg' = cfg
            \/ ~(pod.up /\ pod.rev = made["deployment"]) /\ made' = made
            \/ ConfigOverridesUpdated(worker.upd) /\ Rank(worker.pc) = 6
    BY <1>2 DEF IInv, RevsGrow
  <2>2. profile' # "current" => (profile' = profile /\ ~At("profile")) \/ stack' # <<>>
    BY <1>1
  <2> QED
    BY <1>1, <2>1, <2>2, OnwardRests
<1>5. RevsGrow' /\ EditsStacked' /\ BrokenOff'
  BY <1>1, <1>2 DEF RevsGrow, EditsStacked, BrokenOff, IInv, At
<1>6. OfferingObjects'
  BY DEF OfferingObjects, IInv, Steps
<1> QED
  BY <1>3, <1>4, <1>5, <1>6 DEF IInv

\* Within Initialize the worker is under way.
LEMMA InitUnderway ==
  ASSUME IInv, worker.pc \in InitSteps \cup {"init"}
  PROVE  /\ ~At("idle") /\ ~At("status") /\ worker.result = "ok" /\ up /\ setup \in Setups
         /\ Rank(worker.pc) = 6 /\ worker \in Calls
         /\ ~CADone("tls") /\ (CADone("ca") <=> worker.which = "tls")
<1>1. ~At("idle") /\ ~At("status") /\ Rank(worker.pc) = 6
  BY Ranks DEF InitSteps, At
<1>2. worker.result = "ok"
  BY <1>1, Underway
<1> QED
  BY <1>1, <1>2, Underway DEF CADone, IInv, TypeOK

LEMMA NextCAFacts ==
  ASSUME IInv, worker.pc \in InitSteps \cup {"init"}, UNCHANGED <<setup, up>>, NextCA
  PROVE  /\ worker' \in Calls /\ Onward
         /\ worker'.pc \in PCs \ ({"idle"} \cup InitSteps) /\ worker'.pc \in Range(Steps')
         /\ worker'.which = "tls" /\ worker'.resp = "none"
         /\ worker'.inst = worker.inst /\ worker'.result = "ok" /\ worker'.upd = worker.upd
         /\ Rank(worker'.pc) >= 6
         /\ CADone("ca")' /\ (CADone("tls")' => worker.which = "tls")
<1>1. /\ ~At("idle") /\ ~At("status") /\ worker.result = "ok" /\ setup \in Setups
      /\ Rank(worker.pc) = 6 /\ worker \in Calls
  BY InitUnderway
<1>2. Steps' = Steps
  BY DEF Steps
<1>3. "init" \in Range(Steps) /\ Rank("init") = 6 /\ "init" # "status"
  BY <1>1, StepsOfOffering, Ranks
<1>4. CASE worker.which = "ca"
  <2>1. worker' = [worker EXCEPT !.pc = "init", !.which = "tls", !.resp = "none"]
    BY <1>4 DEF NextCA
  <2>2. "init" \in PCs /\ "init" \notin {"idle"} \cup InitSteps
    BY <1>1, <1>3, StepsOfOffering
  <2>3. /\ worker' \in Calls /\ worker'.pc = "init" /\ worker'.which = "tls" /\ worker'.resp = "none"
        /\ worker'.inst = worker.inst /\ worker'.result = worker.result /\ worker'.upd = worker.upd
    BY <1>1, <2>1, <2>2 DEF Calls, CAs
  <2>4. Onward
    BY <1>1, <1>3, <2>3, OnwardByStaying
  <2>5. CADone("ca")' /\ ~CADone("tls")'
    BY <1>1, <1>3, <2>3 DEF CADone
  <2> QED
    BY <1>1, <1>2, <1>3, <2>2, <2>3, <2>4, <2>5
<1>5. CASE worker.which = "tls"
  <2>1. worker' = [worker EXCEPT !.pc = After("init"), !.resp = "none"]
    BY <1>5 DEF NextCA
  <2> DEFINE n == After("init")
  <2>2. Goes(worker, 6, n)
    BY <1>1, <1>3, AfterGoes
  <2> HIDE DEF n
  <2>3. n \in Range(Steps) /\ Rank(n) > 6
    BY <2>2 DEF Goes
  <2>4. n \in PCs \ ({"idle"} \cup InitSteps)
    BY <1>1, <2>3, StepsOfOffering
  <2>5. worker' = [worker EXCEPT !.pc = n, !.resp = "none"]
    BY <2>1 DEF n
  <2>6. /\ worker' \in Calls /\ worker'.pc = n /\ worker'.which = "tls" /\ worker'.resp = "none"
        /\ worker'.inst = worker.inst /\ worker'.result = worker.result /\ worker'.upd = worker.upd
    BY <1>1, <1>5, <2>4, <2>5 DEF Calls
  <2>7. Onward
    BY <1>1, <2>2, <2>6, OnwardByGoing
  <2>8. CADone("ca")' /\ Rank(n) >= 6
    <3>1. Rank(n) \in 0..22
      BY <2>4, RankType
    <3> QED
      BY <1>1, <2>3, <2>6, <3>1 DEF CADone
  <2> QED
    BY <1>1, <1>2, <1>5, <2>3, <2>4, <2>6, <2>7, <2>8
<1> QED
  BY <1>1, <1>4, <1>5 DEF Calls, CAs

\* The steps within the handling of one CA.
LEMMA InitStays ==
  ASSUME IInv, worker.pc \in InitSteps \cup {"init"}, NEW pc \in InitSteps,
         NEW resp \in {"none", "create", "update"},
         worker' = [worker EXCEPT !.pc = pc, !.resp = resp]
  PROVE  /\ worker' \in Calls /\ Onward
         /\ worker'.pc = pc /\ worker'.which = worker.which /\ worker'.resp = resp
         /\ worker'.inst = worker.inst /\ worker'.result = "ok" /\ worker'.upd = worker.upd
         /\ (CADone("ca")' <=> CADone("ca")) /\ (CADone("tls")' <=> CADone("tls"))
<1>1. worker.result = "ok" /\ Rank(worker.pc) = 6 /\ worker \in Calls
  BY InitUnderway
<1>2. pc \in PCs /\ Rank(pc) = 6
  BY Ranks DEF PCs, InitSteps
<1>3. /\ worker' \in Calls /\ worker'.pc = pc /\ worker'.which = worker.which /\ worker'.resp = resp
      /\ worker'.inst = worker.inst /\ worker'.result = worker.result /\ worker'.upd = worker.upd
  BY <1>1, <1>2 DEF Calls
<1>4. Onward
  BY <1>1, <1>2, <1>3, OnwardByStaying
<1>5. (CADone("ca")' <=> CADone("ca")) /\ (CADone("tls")' <=> CADone("tls"))
  BY <1>1, <1>2, <1>3 DEF CADone
<1> QED
  BY <1>1, <1>3, <1>4, <1>5

\* A CA is come past only if its override has not changed.
LEMMA OverridesStay ==
  ASSUME IInv, UNCHANGED <<up, spec>>, mishaps \subseteq mishaps', Stacked \subseteq Stacked',
         cfg'.ca = cfg.ca, cfg'.tls = cfg.tls,
         worker'.upd = worker.upd,
         CADone("ca")' => CADone("ca") \/ "caOverrides" \notin worker.upd,
         CADone("tls")' => CADone("tls") \/ "tlscaOverrides" \notin worker.upd
  PROVE  OverridesServed'
<1> SUFFICES ASSUME up, mishaps \subseteq {"lateMigration"} PROVE OverridesServed'
  BY DEF OverridesServed
<1>1. OverridesServed
  BY DEF IInv
<1>2. spec.ca # 0 /\ cfg.ca \notin {Absent, spec.ca} =>
         "caOverrides" \in Stacked' \/ ("caOverrides" \in worker'.upd /\ ~CADone("ca")')
  BY <1>1 DEF OverridesServed
<1>3. spec.tls # 0 /\ cfg.tls \notin {Absent, spec.tls} =>
         "tlscaOverrides" \in Stacked' \/ ("tlscaOverrides" \in worker'.upd /\ ~CADone("tls")')
  BY <1>1 DEF OverridesServed
<1> QED
  BY <1>2, <1>3 DEF OverridesServed

LEMMA HandleCAInitKeeps ==
  ASSUME IInv, NEW c \in CAs, HandleCAInit(c)
  PROVE  IInv'
<1>1. /\ worker.pc = "init" /\ worker.which = c
      /\ UNCHANGED <<setup, up, status, saved, spec, versioned, pod, restart, stack, work, secret, cfg, made,
                     profile, job, events, mishaps>>
  BY DEF HandleCAInit, At, initFrame, frame, podVars, queueVars, clusterVars, historyVars
<1>2. /\ worker.pc \in InitSteps \cup {"init"}
      /\ ~At("idle") /\ ~At("status") /\ worker.result = "ok" /\ up /\ setup \in Setups
      /\ Rank(worker.pc) = 6 /\ worker \in Calls
      /\ ~CADone("tls") /\ (CADone("ca") <=> worker.which = "tls")
  BY <1>1, InitUnderway
<1>3. /\ Stacked \subseteq Stacked' /\ events' \in Nat /\ events <= events' /\ mishaps \subseteq mishaps'
  BY <1>1, Types DEF Stacked, IInv
<1>4. Steps' = Steps
  BY <1>1 DEF Steps
<1>5. \A d \in CAs : ~Creating(d)
  BY <1>1 DEF Creating
<1>6. ASSUME NEW resp \in {"create", "update"}, Respond(resp),
             resp = "create" => secret.root[c] = Absent,
             resp = "update" => secret.root[c] # Absent /\ HasFlag(c)
      PROVE  IInv'
  <2> DEFINE pc == IF resp = "update" \/ kind = "SW" THEN "secret" ELSE "hsmsecret"
  <2>1. pc \in InitSteps /\ resp \in {"none", "create", "update"}
        /\ worker' = [worker EXCEPT !.pc = pc, !.resp = resp]
    BY <1>2, <1>6 DEF Respond, InitSteps, Calls
  <2>2. pc = "secret" \/ (pc = "hsmsecret" /\ resp = "create")
    BY <1>6
  <2> HIDE DEF pc
  <2>3. /\ worker' \in Calls /\ Onward
        /\ worker'.pc = pc /\ worker'.which = worker.which /\ worker'.resp = resp
        /\ worker'.inst = worker.inst /\ worker'.result = "ok" /\ worker'.upd = worker.upd
        /\ (CADone("ca")' <=> CADone("ca")) /\ (CADone("tls")' <=> CADone("tls"))
    BY <1>2, <2>1, InitStays
  <2>4. TypeOK'
    BY <1>1, <2>3 DEF IInv, TypeOK
  <2>5. Course'
    <3>1. Rank(pc) = 6
      BY <2>2, Ranks
    <3> QED
      BY <1>1, <1>2, <1>6, <2>2, <2>3, <3>1 DEF Course, IInv, At, InitSteps, HasFlag
  <2>6. RootInv'
    BY <1>1, <1>6, <2>2, <2>3 DEF RootInv, IInv
  <2>7. InitInv'
    <3>1. /\ ~At("status")' /\ ~At("config")' /\ ~At("hsmwait") /\ ~At("status")
          /\ \A d \in CAs : ~Creating(d)' /\ (CADone(d)' => CADone(d))
      BY <1>1, <2>2, <2>3 DEF Creating, At, CAs
    <3> QED
      BY <1>1, <1>5, <3>1 DEF InitInv, IInv
  <2>8. OverridesServed'
    BY <1>1, <1>3, <2>3, OverridesStay
  <2>9. worker'.pc # "idle"
    BY <2>2, <2>3
  <2> QED
    BY <1>1, <1>2, <1>3, <2>3, <2>4, <2>5, <2>6, <2>7, <2>8, <2>9, InitKeeps
<1>7. CASE secret.root[c] # Absent /\ ~HasFlag(c)
  <2>1. NextCA
    BY <1>7 DEF HandleCAInit
  <2>2. /\ worker' \in Calls /\ Onward
        /\ worker'.pc \in PCs \ ({"idle"} \cup InitSteps) /\ worker'.pc \in Range(Steps')
        /\ worker'.which = "tls" /\ worker'.resp = "none"
        /\ worker'.inst = worker.inst /\ worker'.result = "ok" /\ worker'.upd = worker.upd
        /\ Rank(worker'.pc) >= 6
        /\ CADone("ca")' /\ (CADone("tls")' => worker.which = "tls")
    BY <1>1, <1>2, <2>1, NextCAFacts
  <2>3. TypeOK'
    BY <1>1, <2>2 DEF IInv, TypeOK
  <2>4. Course'
    <3>1. Rank(worker'.pc) \in 0..22
      BY <2>2, RankType
    <3> QED
      BY <1>1, <1>2, <2>2, <3>1 DEF Course, IInv, At, InitSteps
  <2>5. RootInv'
    BY <1>1, <2>2 DEF RootInv, IInv, InitSteps
  <2>6. InitInv'
    <3>1. /\ ~At("config")' /\ ~At("hsmwait") /\ ~At("status")
          /\ \A d \in CAs : ~Creating(d)' /\ (CADone(d)' => CADone(d) \/ d = c)
      BY <1>1, <1>2, <2>2 DEF Creating, At, CAs, InitSteps
    <3> QED
      BY <1>1, <1>5, <1>7, <3>1 DEF InitInv, IInv
  <2>7. OverridesServed'
    <3>1. c = "ca" => "caOverrides" \notin worker.upd
      BY <1>7 DEF HasFlag
    <3>2. c = "tls" => "tlscaOverrides" \notin worker.upd
      BY <1>7 DEF HasFlag
    <3> QED
      BY <1>1, <1>2, <1>3, <2>2, <3>1, <3>2, OverridesStay DEF CAs
  <2> QED
    BY <1>1, <1>2, <1>3, <2>2, <2>3, <2>4, <2>5, <2>6, <2>7, InitKeeps
<1>8. CASE secret.root[c] # Absent /\ cfg[c] = Absent /\ HasFlag(c)
  <2>1. Leave("breaking")
    BY <1>8 DEF HandleCAInit
  <2>2. /\ worker' \in Calls /\ worker'.result = "breaking"
        /\ worker'.pc = "status" /\ worker'.result # "ok" /\ worker'.upd = worker.upd
        /\ worker'.which = worker.which
        /\ worker'.inst.ca = worker.inst.ca /\ worker'.inst.tls = worker.inst.tls
        /\ worker'.inst.rest = worker.inst.rest
    BY <1>2, <2>1, LeaveType
  <2>3. TypeOK'
    BY <1>1, <2>2 DEF IInv, TypeOK
  <2>4. mishaps \cap {"halfway", "misread"} # {}
    BY <1>5, <1>8 DEF IInv, InitInv
  <2>5. BrokenOff'
    BY <1>1, <2>2, <2>4 DEF BrokenOff
  <2> QED
    BY <1>1, <1>2, <1>3, <2>2, <2>3, <2>5, LeaveKeeps DEF IInv
<1>9. \/ secret.root[c] = Absent /\ Respond("create")
      \/ secret.root[c] # Absent /\ ~HasFlag(c)
      \/ secret.root[c] # Absent /\ HasFlag(c) /\ cfg[c] # Absent /\ Respond("update")
      \/ secret.root[c] # Absent /\ HasFlag(c) /\ cfg[c] = Absent
  BY DEF HandleCAInit
<1> QED
  BY <1>6, <1>7, <1>8, <1>9

LEMMA SecretMisreadKeeps ==
  ASSUME IInv, SecretMisread
  PROVE  IInv'
<1>1. /\ worker.pc = "init" /\ events < MaxEvents /\ events' = events + 1
      /\ mishaps' = mishaps \cup {"misread"} /\ Respond("create")
      /\ UNCHANGED <<setup, up, status, saved, spec, versioned, pod, restart, stack, work, secret, cfg, made,
                     profile, job>>
  BY DEF SecretMisread, At, Event, NoteIf, initFrame, frame, podVars, queueVars, clusterVars
<1>2. /\ worker.pc \in InitSteps \cup {"init"} /\ worker \in Calls /\ up /\ ~At("idle")
  BY <1>1, InitUnderway
<1> DEFINE pc == IF kind = "SW" THEN "secret" ELSE "hsmsecret"
<1>3. pc \in InitSteps /\ "create" \in {"none", "create", "update"}
      /\ worker' = [worker EXCEPT !.pc = pc, !.resp = "create"]
  BY <1>1, <1>2 DEF Respond, InitSteps, Calls
<1>4. pc \in {"secret", "hsmsecret"}
  OBVIOUS
<1> HIDE DEF pc
<1>5. /\ worker' \in Calls
      /\ worker'.pc = pc /\ worker'.which = worker.which /\ worker'.resp = "create"
      /\ worker'.inst = worker.inst /\ worker'.result = "ok" /\ worker'.upd = worker.upd
  BY <1>2, <1>3, InitStays
<1>6. TypeOK'
  <2>1. events' \in 0..MaxEvents /\ mishaps' \in SUBSET Mishaps
    BY <1>1, Types DEF IInv, TypeOK, Mishaps
  <2> QED
    BY <1>1, <1>5, <2>1 DEF IInv, TypeOK
<1>7. Course'
  <2>1. Rank(pc) = 6
    BY <1>4, Ranks
  <2> QED
    BY <1>1, <1>2, <1>4, <1>5, <2>1 DEF Course, IInv, At, InitSteps
<1>8. RevsGrow'
  <2>1. RevsGrow /\ spec.rest \in Int /\ events \in Int
    BY Types, SpecTypes DEF IInv
  <2> QED
    BY <1>1, <1>2, <1>5, <2>1 DEF RevsGrow, At
<1>9. EditsStacked' /\ BrokenOff'
  BY <1>1, <1>2, <1>5 DEF EditsStacked, BrokenOff, IInv, At, Stacked
<1>10. RootInv' /\ InitInv' /\ OverridesServed' /\ Served' /\ RestInv'
  BY <1>1 DEF RootInv, InitInv, OverridesServed, Served, RestInv
<1>11. OfferingObjects'
  BY <1>1 DEF OfferingObjects, IInv, Steps
<1> QED
  BY <1>6, <1>7, <1>8, <1>9, <1>10, <1>11 DEF IInv

\* What the secret of one CA becomes, and that of the other does not.
LEMMA WriteRootFacts ==
  ASSUME IInv, NEW c \in CAs, NEW new \in Nat \cup {Absent}, WriteRoot(c, new)
  PROVE  /\ secret' \in [root : [CAs -> Nat \cup {Absent}], age : {"fresh", "expiring", "expired"}]
         /\ secret'.root[c] = new /\ \A d \in CAs : d # c => secret'.root[d] = secret.root[d]
         /\ stack' \in Seq(SUBSET Flags) /\ Stacked \subseteq Stacked' /\ (stack # <<>> => stack' # <<>>)
         /\ work' \in BOOLEAN /\ (work => work')
<1>1. /\ secret' = [secret EXCEPT !.root[c] = new]
      /\ stack' = SecretEvent(c, secret.root[c], new, stack)
      /\ work' = (work \/ stack' # stack)
  BY DEF WriteRoot
<1>2. /\ secret' \in [root : [CAs -> Nat \cup {Absent}], age : {"fresh", "expiring", "expired"}]
      /\ secret'.root[c] = new /\ \A d \in CAs : d # c => secret'.root[d] = secret.root[d]
  BY <1>1 DEF IInv, TypeOK
<1>3. stack' \in Seq(SUBSET Flags) /\ Stacked \subseteq Stacked' /\ (stack # <<>> => stack' # <<>>)
  BY <1>1, SecretEventFacts, Types DEF IInv, Stacked
<1>4. work' \in BOOLEAN
  BY <1>1 DEF IInv, TypeOK
<1>5. work => work'
  BY <1>1, Zenon
<1> QED
  BY <1>2, <1>3, <1>4, <1>5

LEMMA ConfigResourcesSecretKeeps ==
  ASSUME IInv, ConfigResourcesSecret
  PROVE  /\ IInv'
         /\ \A d \in CAs : "misread" \notin mishaps /\ secret.root[d] >= 1 =>
                              secret'.root[d] = secret.root[d]
<1> DEFINE c == worker.which
           new == RootWritten
<1>1. /\ worker.pc = "secret"
      /\ UNCHANGED <<setup, up, status, saved, spec, versioned, pod, restart, cfg, made, profile, job, events>>
  BY DEF ConfigResourcesSecret, At, initFrame, frame, podVars
<1>2. /\ worker.pc \in InitSteps \cup {"init"}
      /\ ~At("idle") /\ ~At("status") /\ worker.result = "ok" /\ up /\ setup \in Setups
      /\ worker \in Calls
  BY <1>1, InitUnderway DEF InitSteps
<1>3. /\ c \in CAs /\ secret.root[c] \in Nat \cup {Absent}
      /\ worker.resp \in {"create", "update"}
      /\ worker.resp = "update" => HasFlag(c)
  BY <1>1, Types DEF IInv, Course
<1>4. \A d \in CAs : ~Creating(d)
  BY <1>1 DEF Creating
<1>5. CASE ConfigOverridesUpdated(worker.upd) /\ secret.root[c] = Absent
  <2>1. Leave("breaking") /\ mishaps' = mishaps \cup {"stopped"} /\ UNCHANGED <<secret, stack, work>>
    BY <1>5 DEF ConfigResourcesSecret, NoteIf, queueVars
  <2>2. /\ worker' \in Calls /\ worker'.result = "breaking"
        /\ worker'.pc = "status" /\ worker'.result # "ok" /\ worker'.upd = worker.upd
        /\ worker'.which = worker.which
        /\ worker'.inst.ca = worker.inst.ca /\ worker'.inst.tls = worker.inst.tls
        /\ worker'.inst.rest = worker.inst.rest
    BY <1>2, <2>1, LeaveType
  <2>3. TypeOK'
    <3>1. mishaps' \in SUBSET Mishaps
      BY <2>1 DEF Mishaps, IInv, TypeOK
    <3> QED
      BY <1>1, <2>1, <2>2, <3>1 DEF IInv, TypeOK
  <2>4. BrokenOff'
    BY <2>1, <2>2 DEF BrokenOff
  <2>5. Stacked \subseteq Stacked' /\ events' \in Nat /\ events <= events' /\ mishaps \subseteq mishaps'
    BY <1>1, <2>1, Types DEF Stacked, IInv
  <2>6. IInv'
    BY <1>1, <1>2, <2>1, <2>2, <2>3, <2>4, <2>5, LeaveKeeps DEF IInv
  <2> QED
    BY <2>1, <2>6
<1>6. CASE ~(ConfigOverridesUpdated(worker.upd) /\ secret.root[c] = Absent)
  <2>1. /\ WriteRoot(c, new) /\ mishaps' = mishaps
        /\ worker' = [worker EXCEPT !.pc = "config"]
    BY <1>6 DEF ConfigResourcesSecret
  <2>2. /\ new \in Nat \cup {Absent}
        /\ worker.resp = "update" => new = secret.root[c] /\ secret.root[c] # Absent
        /\ worker.resp = "create" => new >= 1 /\ new \in Nat /\ new # Absent
        /\ worker.resp = "create" /\ secret.root[c] = Absent => new = 1
    <3>1. worker.resp = "update" => ConfigOverridesUpdated(worker.upd)
      BY <1>3 DEF HasFlag, ConfigOverridesUpdated
    <3> QED
      BY <1>3, <1>6, <3>1 DEF RootWritten, NewRoot, Absent
  <2> HIDE DEF new
  <2>3. /\ secret' \in [root : [CAs -> Nat \cup {Absent}], age : {"fresh", "expiring", "expired"}]
        /\ secret'.root[c] = new /\ \A d \in CAs : d # c => secret'.root[d] = secret.root[d]
        /\ stack' \in Seq(SUBSET Flags) /\ Stacked \subseteq Stacked' /\ (stack # <<>> => stack' # <<>>)
        /\ work' \in BOOLEAN /\ (work => work')
    <3> HIDE DEF c
    <3> QED
      BY <1>3, <2>1, <2>2, WriteRootFacts
  <2>4. worker' = [worker EXCEPT !.pc = "config", !.resp = worker.resp]
    BY <1>2, <2>1 DEF Calls
  <2>5. /\ worker' \in Calls /\ Onward
        /\ worker'.pc = "config" /\ worker'.which = c /\ worker'.resp = worker.resp
        /\ worker'.inst = worker.inst /\ worker'.result = "ok" /\ worker'.upd = worker.upd
        /\ (CADone("ca")' <=> CADone("ca")) /\ (CADone("tls")' <=> CADone("tls"))
    <3>1. "config" \in InitSteps /\ worker.resp \in {"none", "create", "update"}
      BY <1>3 DEF InitSteps
    <3> QED
      BY <1>2, <2>4, <3>1, InitStays
  <2>6. TypeOK'
    BY <1>1, <2>1, <2>3, <2>5 DEF IInv, TypeOK
  <2>7. Course'
    BY <1>1, <1>2, <1>3, <2>5, Ranks DEF Course, IInv, At, InitSteps, HasFlag
  <2>8. "misread" \notin mishaps /\ worker.resp = "create" =>
           secret.root[c] = Absent /\ job[c] = "none" /\ new = 1
    BY <1>1, <1>3, <2>2 DEF RootInv, IInv
  <2>9. RootInv'
    <3> SUFFICES ASSUME "misread" \notin mishaps PROVE RootInv'
      BY <2>1 DEF RootInv
    <3>1. RootInv
      BY DEF IInv
    <3>2. /\ secret'.root[c] # Absent
          /\ job[c] = "active" => secret'.root[c] = 0
      BY <1>3, <2>2, <2>3, <2>8, <3>1 DEF RootInv
    <3> QED
      BY <1>1, <1>3, <2>3, <2>5, <3>1, <3>2 DEF RootInv
  <2>10. InitInv'
    <3> SUFFICES ASSUME mishaps \cap {"halfway", "misread"} = {} PROVE InitInv'
      BY <2>1 DEF InitInv
    <3>1. InitInv /\ ~At("hsmwait") /\ ~At("status") /\ ~At("config") /\ At("config")'
          /\ ~At("hsmwait")' /\ ~At("status")'
      BY <1>1, <2>5 DEF IInv, At
    <3>2. \A d \in CAs : d # c => ~Creating(d)'
      BY <2>5 DEF Creating
    <3>3. \A d \in CAs : job[d] = "none"
      BY <3>1 DEF InitInv
    <3>4. CASE worker.resp = "update"
      <4>1. ~Creating(c)' /\ secret'.root[c] = secret.root[c] /\ secret.root[c] # Absent
        BY <2>2, <2>3, <2>5, <3>4 DEF Creating
      <4>2. \A d \in CAs : secret'.root[d] = secret.root[d] /\ ~Creating(d)' /\ (CADone(d)' => CADone(d))
        BY <2>3, <2>5, <3>2, <4>1 DEF CAs
      <4> QED
        BY <1>1, <1>4, <2>5, <3>1, <3>3, <4>1, <4>2 DEF InitInv
    <3>5. CASE worker.resp = "create"
      <4>1. /\ secret.root[c] = Absent /\ secret'.root[c] = 1 /\ 1 # Absent
            /\ cfg[c] = Absent /\ made["deployment"] = Absent
        BY <1>3, <2>3, <2>8, <3>1, <3>5 DEF InitInv, Absent
      <4>2. \A d \in CAs : d # c => /\ secret.root[d] = Absent => cfg[d] = Absent
                                    /\ secret.root[d] # Absent =>
                                         secret.root[d] >= 1 /\ cfg[d] # Absent /\ (d = "ca" => cfg.files)
                                    /\ CADone(d) => secret.root[d] # Absent
        BY <1>4, <3>1 DEF InitInv
      <4>3. \A d \in CAs : CADone(d)' => CADone(d)
        BY <2>5 DEF CAs
      <4>4. Creating(c)'
        BY <2>5, <3>5 DEF Creating
      <4> QED
        BY <1>1, <1>3, <2>3, <2>5, <3>1, <3>2, <3>3, <4>1, <4>2, <4>3, <4>4 DEF InitInv
    <3> QED
      BY <1>3, <3>4, <3>5
  <2>11. OverridesServed'
    BY <1>1, <2>1, <2>3, <2>5, OverridesStay
  <2>12. IInv'
    BY <1>1, <1>2, <2>1, <2>3, <2>5, <2>6, <2>7, <2>9, <2>10, <2>11, InitKeeps
  <2>13. ASSUME NEW d \in CAs, "misread" \notin mishaps, secret.root[d] >= 1
         PROVE  secret'.root[d] = secret.root[d]
    BY <1>3, <2>2, <2>3, <2>8, <2>13 DEF Absent
  <2> QED
    BY <2>12, <2>13
<1> QED
  BY <1>5, <1>6

LEMMA HSMSecretKeeps ==
  ASSUME IInv, HSMSecret
  PROVE  /\ IInv'
         /\ \A d \in CAs : secret.root[d] >= 1 => secret'.root[d] = secret.root[d]
<1> DEFINE c == worker.which
           new == IF secret.root[c] = Absent THEN 0 ELSE secret.root[c]
<1>1. /\ worker.pc = "hsmsecret" /\ WriteRoot(c, new)
      /\ worker' = [worker EXCEPT !.pc = "hsmconfig"]
      /\ UNCHANGED <<setup, up, status, saved, spec, versioned, pod, restart, cfg, made, profile, job, events,
                     mishaps>>
  BY DEF HSMSecret, At, initFrame, frame, podVars, historyVars
<1>2. /\ worker.pc \in InitSteps \cup {"init"} /\ worker \in Calls /\ up
  BY <1>1, InitUnderway DEF InitSteps
<1>3. c \in CAs /\ secret.root[c] \in Nat \cup {Absent} /\ worker.resp = "create"
  BY <1>1, Types DEF IInv, Course
<1>4. /\ new \in Nat \cup {Absent} /\ new # Absent /\ (secret.root[c] # Absent => new = secret.root[c])
      /\ secret.root[c] = Absent => new = 0
  BY <1>3 DEF Absent
<1> HIDE DEF new
<1>5. /\ secret' \in [root : [CAs -> Nat \cup {Absent}], age : {"fresh", "expiring", "expired"}]
      /\ secret'.root[c] = new /\ \A d \in CAs : d # c => secret'.root[d] = secret.root[d]
      /\ stack' \in Seq(SUBSET Flags) /\ Stacked \subseteq Stacked' /\ (stack # <<>> => stack' # <<>>)
      /\ work' \in BOOLEAN /\ (work => work')
  <2> HIDE DEF c
  <2> QED
    BY <1>1, <1>3, <1>4, WriteRootFacts
<1>6. worker' = [worker EXCEPT !.pc = "hsmconfig", !.resp = "create"]
  BY <1>1, <1>2, <1>3 DEF Calls
<1>7. /\ worker' \in Calls /\ Onward
      /\ worker'.pc = "hsmconfig" /\ worker'.which = c /\ worker'.resp = "create"
      /\ worker'.inst = worker.inst /\ worker'.result = "ok" /\ worker'.upd = worker.upd
      /\ (CADone("ca")' <=> CADone("ca")) /\ (CADone("tls")' <=> CADone("tls"))
  <2>1. "hsmconfig" \in InitSteps /\ "create" \in {"none", "create", "update"}
    BY DEF InitSteps
  <2> QED
    BY <1>2, <1>6, <2>1, InitStays
<1>8. TypeOK'
  BY <1>1, <1>5, <1>7 DEF IInv, TypeOK
<1>9. Course'
  BY <1>1, <1>2, <1>7, Ranks DEF Course, IInv, At, InitSteps
<1>10. "misread" \notin mishaps => secret.root[c] = Absent /\ job[c] = "none" /\ new = 0
  BY <1>1, <1>3, <1>4 DEF RootInv, IInv
<1>11. RootInv'
  <2> SUFFICES ASSUME "misread" \notin mishaps PROVE RootInv'
    BY <1>1 DEF RootInv
  <2>1. RootInv
    BY DEF IInv
  <2> QED
    BY <1>1, <1>3, <1>4, <1>5, <1>7, <1>10, <2>1 DEF RootInv
<1>12. InitInv'
  <2> SUFFICES ASSUME mishaps \cap {"halfway", "misread"} = {} PROVE InitInv'
    BY <1>1 DEF InitInv
  <2>1. InitInv /\ ~At("hsmwait") /\ ~At("status") /\ ~At("config") /\ ~At("config")'
        /\ ~At("hsmwait")' /\ ~At("status")'
    BY <1>1, <1>7 DEF IInv, At
  <2>2. \A d \in CAs : ~Creating(d) /\ (d # c => ~Creating(d)') /\ job[d] = "none" /\ (CADone(d)' => CADone(d))
    BY <1>1, <1>7, <2>1 DEF Creating, InitInv, CAs
  <2>3. /\ secret.root[c] = Absent /\ secret'.root[c] # Absent
        /\ cfg[c] = Absent /\ made["deployment"] = Absent
    BY <1>3, <1>4, <1>5, <1>10, <2>1 DEF InitInv
  <2>4. Creating(c)'
    BY <1>7 DEF Creating
  <2> QED
    BY <1>1, <1>3, <1>5, <1>7, <2>1, <2>2, <2>3, <2>4 DEF InitInv
<1>13. OverridesServed'
  BY <1>1, <1>5, <1>7, OverridesStay
<1>14. IInv'
  BY <1>1, <1>2, <1>5, <1>7, <1>8, <1>9, <1>11, <1>12, <1>13, InitKeeps
<1> QED
  BY <1>3, <1>4, <1>5, <1>14 DEF Absent

\* The configuration that is written: the override of the CA at hand, unless it
\* was removed.
LEMMA NewConfigFacts ==
  ASSUME IInv, worker.resp \in {"create", "update"}
  PROVE  /\ NewConfig \in Configs
         /\ \A d \in CAs \ {worker.which} : NewConfig[d] = cfg[d]
         /\ \/ NewConfig[worker.which] = worker.inst[worker.which]
            \/ /\ worker.resp = "update" /\ worker.inst[worker.which] = 0
               /\ NewConfig[worker.which] = cfg[worker.which]
         /\ cfg.files => NewConfig.files
         /\ worker.resp = "create" /\ worker.which = "ca" => NewConfig.files
<1>1. /\ cfg \in Configs /\ worker.which \in {"ca", "tls"}
      /\ worker.inst.ca \in -1..MaxEvents /\ worker.inst.tls \in -1..MaxEvents
      /\ IsPostgres(worker.inst) \in BOOLEAN
  <2>1. worker.inst.ca \in Revs /\ worker.inst.tls \in Revs /\ MaxEvents \in Nat
    BY Types, SpecTypes DEF IInv
  <2> QED
    BY <2>1, Types DEF IInv, CAs, Revs, IsPostgres
<1>2. CASE worker.resp = "create" /\ worker.which = "ca"
  <2>1. NewConfig = [cfg EXCEPT !.ca = worker.inst.ca, !.files = TRUE, !.expiry = TRUE]
    BY <1>2 DEF NewConfig, CreateEnrollmentCAConfig
  <2> QED
    BY <1>1, <1>2, <2>1 DEF Configs, CAs
<1>3. CASE worker.resp = "create" /\ worker.which = "tls"
  <2>1. NewConfig = [cfg EXCEPT !.tls = worker.inst.tls, !.db = IsPostgres(worker.inst)]
    BY <1>3 DEF NewConfig, CreateTLSCAConfig
  <2> QED
    BY <1>1, <1>3, <2>1 DEF Configs, CAs
<1>4. CASE worker.resp = "update" /\ worker.which = "ca"
  <2>1. NewConfig = [cfg EXCEPT !.ca = IF worker.inst.ca = 0 THEN @ ELSE worker.inst.ca, !.expiry = TRUE]
    BY <1>4 DEF NewConfig, UpdateEnrollmentCAConfig
  <2> QED
    BY <1>1, <1>4, <2>1 DEF Configs, CAs
<1>5. CASE worker.resp = "update" /\ worker.which = "tls"
  <2>1. NewConfig = [cfg EXCEPT !.tls = IF worker.inst.tls = 0 THEN @ ELSE worker.inst.tls,
                                !.db = IF worker.inst.ca = 0 THEN @ ELSE IsPostgres(worker.inst)]
    BY <1>5 DEF NewConfig, UpdateTLSCAConfig
  <2> QED
    BY <1>1, <1>5, <2>1 DEF Configs, CAs
<1> QED
  BY <1>1, <1>2, <1>3, <1>4, <1>5

\* A configuration with the override the call was given is behind the spec only
\* if the spec was edited since.
LEMMA ConfigServes ==
  ASSUME IInv, ~At("idle"), worker.which \in CAs,
         UNCHANGED <<up, spec, stack, mishaps>>, worker'.upd = worker.upd,
         \A d \in CAs \ {worker.which} : cfg'[d] = cfg[d] /\ (CADone(d)' => CADone(d)),
         \/ cfg'[worker.which] = worker.inst[worker.which]
         \/ worker.inst[worker.which] = 0
  PROVE  OverridesServed'
<1> SUFFICES ASSUME up, mishaps \subseteq {"lateMigration"} PROVE OverridesServed'
  BY DEF OverridesServed
<1>1. OverridesServed /\ EditsStacked /\ Stacked' = Stacked
  BY DEF IInv, Stacked
<1>2. CASE worker.which = "ca"
  <2>1. spec.ca # 0 /\ cfg'.ca \notin {Absent, spec.ca} => "caOverrides" \in Stacked
    BY <1>1, <1>2 DEF EditsStacked
  <2>2. cfg'.tls = cfg.tls /\ (CADone("tls")' => CADone("tls"))
    BY <1>2 DEF CAs
  <2> QED
    BY <1>1, <2>1, <2>2 DEF OverridesServed
<1>3. CASE worker.which = "tls"
  <2>1. spec.tls # 0 /\ cfg'.tls \notin {Absent, spec.tls} => "tlscaOverrides" \in Stacked
    BY <1>1, <1>3 DEF EditsStacked
  <2>2. cfg'.ca = cfg.ca /\ (CADone("ca")' => CADone("ca"))
    BY <1>3 DEF CAs
  <2> QED
    BY <1>1, <2>1, <2>2 DEF OverridesServed
<1> QED
  BY <1>2, <1>3 DEF CAs

\* The CA at hand has its secret and its configuration: on to the next.
LEMMA CAFinishes ==
  ASSUME IInv, worker.pc \in {"config", "hsmwait"}, NextCA,
         UNCHANGED <<setup, up, spec, versioned, status, saved, stack, work, secret, made, profile,
                     pod, restart, events, mishaps>>,
         cfg' \in Configs, job' \in [CAs -> {"none", "active", "succeeded", "failed"}],
         \A d \in CAs \ {worker.which} : cfg'[d] = cfg[d] /\ job'[d] = job[d],
         job'[worker.which] \in {"none", job[worker.which]},
         worker.pc = "hsmwait" => job'[worker.which] = "none",
         cfg.files => cfg'.files,
         mishaps \cap {"halfway", "misread"} = {} =>
            /\ secret.root[worker.which] >= 1 /\ cfg'[worker.which] # Absent
            /\ worker.which = "ca" => cfg'.files
            /\ cfg'[worker.which] = worker.inst[worker.which] \/ worker.inst[worker.which] = 0
            /\ made["deployment"] = Absent \/ ConfigOverridesUpdated(worker.upd)
  PROVE  IInv'
<1> DEFINE c == worker.which
<1>1. /\ worker.pc \in InitSteps \cup {"init"} /\ c \in CAs
      /\ ~At("idle") /\ ~At("status") /\ worker.result = "ok" /\ up /\ setup \in Setups
      /\ Rank(worker.pc) = 6 /\ worker \in Calls
      /\ ~CADone("tls") /\ (CADone("ca") <=> worker.which = "tls")
  <2>1. worker.pc \in InitSteps \cup {"init"}
    BY DEF InitSteps
  <2> QED
    BY <2>1, InitUnderway, Types DEF IInv
<1>2. /\ worker' \in Calls /\ Onward
      /\ worker'.pc \in PCs \ ({"idle"} \cup InitSteps) /\ worker'.pc \in Range(Steps')
      /\ worker'.which = "tls" /\ worker'.resp = "none"
      /\ worker'.inst = worker.inst /\ worker'.result = "ok" /\ worker'.upd = worker.upd
      /\ Rank(worker'.pc) >= 6
      /\ CADone("ca")' /\ (CADone("tls")' => worker.which = "tls")
  BY <1>1, NextCAFacts
<1>3. TypeOK'
  BY <1>2 DEF IInv, TypeOK
<1>4. Course'
  <2>1. Rank(worker'.pc) \in 0..22
    BY <1>2, RankType
  <2> QED
    BY <1>1, <1>2, <2>1 DEF Course, IInv, At, InitSteps
<1>5. \A d \in CAs : job'[d] \in {"none", job[d]}
  BY <1>1
<1>6. RootInv'
  BY <1>2, <1>5 DEF RootInv, IInv, InitSteps
<1>7. \A d \in CAs : ~Creating(d)' /\ (d # c => ~Creating(d)) /\ (CADone(d)' => CADone(d) \/ d = c)
  BY <1>1, <1>2 DEF Creating, CAs, InitSteps
<1>8. InitInv'
  <2> SUFFICES ASSUME mishaps \cap {"halfway", "misread"} = {} PROVE InitInv'
    BY DEF InitInv
  <2>1. InitInv /\ ~At("status") /\ ~At("config")'
    BY <1>1, <1>2 DEF IInv, At, InitSteps
  <2>2. secret.root[c] >= 1 /\ secret.root[c] # Absent /\ cfg'[c] # Absent /\ (c = "ca" => cfg'.files)
    BY <1>1, Types DEF IInv, Absent
  <2>3. \A d \in CAs : job'[d] = "none"
    <3>1. CASE worker.pc = "hsmwait"
      BY <1>5, <2>1, <3>1 DEF InitInv
    <3>2. CASE worker.pc = "config"
      BY <1>5, <2>1, <3>2 DEF InitInv, At
    <3> QED
      BY <3>1, <3>2
  <2>4. ASSUME NEW d \in CAs, d # c
        PROVE  /\ secret.root[d] = Absent => cfg'[d] = Absent
               /\ secret.root[d] # Absent =>
                     secret.root[d] >= 1 /\ cfg'[d] # Absent /\ (d = "ca" => cfg'.files)
               /\ CADone(d)' => secret.root[d] # Absent
    BY <1>7, <2>1, <2>4 DEF InitInv
  <2>5. made["deployment"] # Absent => \A d \in CAs : secret.root[d] # Absent
    BY <2>1 DEF InitInv
  <2> HIDE DEF c
  <2>6. ASSUME NEW d \in CAs
        PROVE  /\ secret.root[d] = Absent => cfg'[d] = Absent
               /\ secret.root[d] # Absent =>
                     secret.root[d] >= 1 /\ cfg'[d] # Absent /\ (d = "ca" => cfg'.files)
               /\ CADone(d)' => secret.root[d] # Absent
    BY <2>2, <2>4
  <2> QED
    BY <1>7, <2>1, <2>3, <2>5, <2>6 DEF InitInv
<1>9. OverridesServed'
  <2> SUFFICES ASSUME mishaps \subseteq {"lateMigration"} PROVE OverridesServed'
    BY DEF OverridesServed
  <2>1. \/ cfg'[c] = worker.inst[c]
        \/ worker.inst[c] = 0
    OBVIOUS
  <2>2. \A d \in CAs \ {c} : cfg'[d] = cfg[d] /\ (CADone(d)' => CADone(d))
    BY <1>7
  <2> QED
    BY <1>1, <1>2, <2>1, <2>2, ConfigServes
<1>10. /\ Stacked' = Stacked /\ (mishaps = {} => made["deployment"] = Absent \/ ConfigOverridesUpdated(worker.upd))
       /\ worker'.pc # "idle"
  BY <1>2 DEF Stacked
<1> QED
  BY <1>1, <1>2, <1>3, <1>4, <1>6, <1>8, <1>9, <1>10, InitKeeps

LEMMA ConfigResourcesConfigKeeps ==
  ASSUME IInv, ConfigResourcesConfig
  PROVE  IInv'
<1>1. /\ worker.pc = "config" /\ cfg' = NewConfig /\ NextCA
      /\ UNCHANGED <<setup, up, spec, versioned, status, saved, stack, work, secret, made, profile, job,
                     pod, restart, events, mishaps>>
  BY DEF ConfigResourcesConfig, At, initFrame, frame, podVars, queueVars, historyVars
<1> DEFINE c == worker.which
<1>2. /\ c \in CAs /\ worker.resp \in {"create", "update"}
      /\ worker.resp = "update" => HasFlag(c)
      /\ job \in [CAs -> {"none", "active", "succeeded", "failed"}]
      /\ secret.root[c] \in Nat \cup {Absent} /\ worker.inst[c] # Absent
  <2>1. worker.inst.ca >= 0 /\ worker.inst.tls >= 0
    BY Types, SpecTypes DEF IInv
  <2> QED
    BY <1>1, <2>1, Types DEF IInv, Course, TypeOK, CAs, Absent
<1>3. /\ cfg' \in Configs
      /\ \A d \in CAs \ {c} : cfg'[d] = cfg[d]
      /\ \/ cfg'[c] = worker.inst[c]
         \/ worker.resp = "update" /\ worker.inst[c] = 0 /\ cfg'[c] = cfg[c]
      /\ cfg.files => cfg'.files
      /\ worker.resp = "create" /\ c = "ca" => cfg'.files
  BY <1>1, <1>2, NewConfigFacts
<1>4. ASSUME mishaps \cap {"halfway", "misread"} = {}
      PROVE  /\ secret.root[c] >= 1 /\ cfg'[c] # Absent
             /\ c = "ca" => cfg'.files
             /\ made["deployment"] = Absent \/ ConfigOverridesUpdated(worker.upd)
  <2>1. InitInv /\ At("config") /\ secret.root[c] # Absent
    BY <1>1, <1>2, <1>4 DEF IInv, InitInv, At
  <2>2. CASE worker.resp = "create"
    <3>1. Creating(c)
      BY <1>1, <2>2 DEF Creating
    <3>2. secret.root[c] >= 1 /\ made["deployment"] = Absent
      BY <1>2, <1>4, <2>1, <3>1 DEF InitInv
    <3>3. cfg'[c] = worker.inst[c]
      BY <1>3, <2>2
    <3> QED
      BY <1>2, <1>3, <2>2, <3>2, <3>3
  <2>3. CASE worker.resp = "update"
    <3>1. ~Creating(c)
      BY <2>3 DEF Creating
    <3>2. secret.root[c] >= 1 /\ cfg[c] # Absent /\ (c = "ca" => cfg.files)
      BY <1>2, <1>4, <2>1, <3>1 DEF InitInv
    <3>3. ConfigOverridesUpdated(worker.upd)
      BY <1>2, <2>3 DEF HasFlag, ConfigOverridesUpdated
    <3> QED
      BY <1>2, <1>3, <3>2, <3>3
  <2> QED
    BY <1>2, <2>2, <2>3
<1> QED
  BY <1>1, <1>2, <1>3, <1>4, CAFinishes

LEMMA HSMConfigKeeps ==
  ASSUME IInv, HSMConfig
  PROVE  IInv'
<1> DEFINE c == worker.which
<1>1. /\ worker.pc = "hsmconfig"
      /\ cfg' = IF cfg[c] # Absent THEN cfg ELSE [NewConfig EXCEPT !.files = cfg.files]
      /\ worker' = [worker EXCEPT !.pc = "hsmjob"]
      /\ UNCHANGED <<setup, up, spec, versioned, status, saved, stack, work, secret, made, profile, job,
                     pod, restart, events, mishaps>>
  BY DEF HSMConfig, At, initFrame, frame, podVars, queueVars, historyVars
<1>2. /\ worker.pc \in InitSteps \cup {"init"} /\ worker \in Calls /\ up /\ ~At("idle")
      /\ c \in CAs /\ secret.root[c] \in Nat \cup {Absent} /\ worker.resp = "create"
      /\ worker.inst[c] # Absent
  <2>1. worker.pc \in InitSteps \cup {"init"}
    BY <1>1 DEF InitSteps
  <2>2. worker.inst.ca >= 0 /\ worker.inst.tls >= 0
    BY Types, SpecTypes DEF IInv
  <2> QED
    BY <1>1, <2>1, <2>2, InitUnderway, Types DEF IInv, Course, CAs, Absent
<1>3. worker' = [worker EXCEPT !.pc = "hsmjob", !.resp = "create"]
  BY <1>1, <1>2 DEF Calls
<1>4. /\ worker' \in Calls /\ Onward
      /\ worker'.pc = "hsmjob" /\ worker'.which = c /\ worker'.resp = "create"
      /\ worker'.inst = worker.inst /\ worker'.result = "ok" /\ worker'.upd = worker.upd
      /\ (CADone("ca")' <=> CADone("ca")) /\ (CADone("tls")' <=> CADone("tls"))
  <2>1. "hsmjob" \in InitSteps /\ "create" \in {"none", "create", "update"}
    BY DEF InitSteps
  <2> QED
    BY <1>2, <1>3, <2>1, InitStays
<1>5. /\ NewConfig \in Configs
      /\ \A d \in CAs \ {c} : NewConfig[d] = cfg[d]
      /\ NewConfig[c] = worker.inst[c]
  BY <1>2, NewConfigFacts
<1>6. /\ cfg' \in Configs /\ cfg'.files = cfg.files
      /\ \A d \in CAs \ {c} : cfg'[d] = cfg[d]
      /\ cfg[c] = Absent => cfg'[c] = worker.inst[c]
      /\ cfg[c] # Absent => cfg' = cfg
  <2>1. cfg \in Configs
    BY Types DEF IInv
  <2>2. CASE cfg[c] = Absent
    <3>1. cfg' = [NewConfig EXCEPT !.files = cfg.files]
      BY <1>1, <2>2
    <3>2. cfg' \in Configs /\ cfg'.files = cfg.files /\ cfg'.ca = NewConfig.ca /\ cfg'.tls = NewConfig.tls
      BY <1>5, <2>1, <3>1 DEF Configs
    <3>3. \A d \in CAs : cfg'[d] = NewConfig[d]
      BY <3>2 DEF CAs
    <3> QED
      BY <1>2, <1>5, <2>2, <3>2, <3>3
  <2>3. CASE cfg[c] # Absent
    BY <1>1, <2>1, <2>3
  <2> QED
    BY <2>2, <2>3
<1>7. TypeOK'
  BY <1>1, <1>4, <1>6 DEF IInv, TypeOK
<1>8. Course'
  BY <1>1, <1>2, <1>4, Ranks DEF Course, IInv, At, InitSteps
<1>9. "misread" \notin mishaps => secret.root[c] = 0 /\ job[c] = "none"
  BY <1>1, <1>2 DEF RootInv, IInv
<1>10. RootInv'
  BY <1>1, <1>4, <1>9 DEF RootInv, IInv
<1>11. mishaps \cap {"halfway", "misread"} = {} => cfg[c] = Absent /\ made["deployment"] = Absent
  <2>1. Creating(c)
    BY <1>1, <1>2 DEF Creating
  <2> QED
    BY <1>1, <1>2, <2>1 DEF InitInv, IInv
<1>12. InitInv'
  <2> SUFFICES ASSUME mishaps \cap {"halfway", "misread"} = {} PROVE InitInv'
    BY <1>1 DEF InitInv
  <2>1. InitInv /\ ~At("hsmwait") /\ ~At("status") /\ ~At("config") /\ ~At("config")'
        /\ ~At("hsmwait")' /\ ~At("status")'
    BY <1>1, <1>4 DEF IInv, At
  <2>2. \A d \in CAs : (d # c => ~Creating(d) /\ ~Creating(d)') /\ job[d] = "none"
                       /\ (CADone(d)' => CADone(d))
    BY <1>1, <1>4, <2>1 DEF Creating, InitInv, CAs
  <2>3. /\ secret.root[c] # Absent /\ cfg'[c] = worker.inst[c] /\ made["deployment"] = Absent
        /\ Creating(c)' /\ worker'.pc = "hsmjob"
    BY <1>4, <1>6, <1>9, <1>11 DEF Creating, Absent
  <2> QED
    BY <1>1, <1>2, <1>4, <1>6, <2>1, <2>2, <2>3 DEF InitInv
<1>13. OverridesServed'
  <2> SUFFICES ASSUME mishaps \subseteq {"lateMigration"} PROVE OverridesServed'
    BY <1>1 DEF OverridesServed
  <2>1. cfg'[c] = worker.inst[c]
    BY <1>6, <1>11
  <2>2. \A d \in CAs \ {c} : cfg'[d] = cfg[d] /\ (CADone(d)' => CADone(d))
    BY <1>4, <1>6 DEF CAs
  <2> QED
    BY <1>1, <1>2, <1>4, <2>1, <2>2, ConfigServes
<1>14. /\ Stacked' = Stacked /\ worker'.pc # "idle"
       /\ mishaps = {} => made["deployment"] = Absent
  BY <1>1, <1>4, <1>11 DEF Stacked
<1> QED
  BY <1>1, <1>2, <1>4, <1>7, <1>8, <1>10, <1>12, <1>13, <1>14, InitKeeps

LEMMA CreateJobKeeps ==
  ASSUME IInv, CreateJob
  PROVE  IInv'
<1> DEFINE c == worker.which
<1>1. /\ worker.pc = "hsmjob"
      /\ job' = [job EXCEPT ![c] = IF @ = "none" THEN "active" ELSE @]
      /\ worker' = [worker EXCEPT !.pc = "hsmwait"]
      /\ UNCHANGED <<setup, up, spec, versioned, status, saved, stack, work, secret, cfg, made, profile,
                     pod, restart, events, mishaps>>
  BY DEF CreateJob, At, initFrame, frame, podVars, queueVars, historyVars
<1>2. /\ worker.pc \in InitSteps \cup {"init"} /\ worker \in Calls /\ up
      /\ c \in CAs /\ secret.root[c] \in Nat \cup {Absent} /\ worker.resp = "create"
  <2>1. worker.pc \in InitSteps \cup {"init"}
    BY <1>1 DEF InitSteps
  <2> QED
    BY <1>1, <2>1, InitUnderway, Types DEF IInv, Course
<1>3. worker' = [worker EXCEPT !.pc = "hsmwait", !.resp = "create"]
  BY <1>1, <1>2 DEF Calls
<1>4. /\ worker' \in Calls /\ Onward
      /\ worker'.pc = "hsmwait" /\ worker'.which = c /\ worker'.resp = "create"
      /\ worker'.inst = worker.inst /\ worker'.result = "ok" /\ worker'.upd = worker.upd
      /\ (CADone("ca")' <=> CADone("ca")) /\ (CADone("tls")' <=> CADone("tls"))
  <2>1. "hsmwait" \in InitSteps /\ "create" \in {"none", "create", "update"}
    BY DEF InitSteps
  <2> QED
    BY <1>2, <1>3, <2>1, InitStays
<1>5. /\ job' \in [CAs -> {"none", "active", "succeeded", "failed"}]
      /\ \A d \in CAs : d # c => job'[d] = job[d]
      /\ job[c] = "none" => job'[c] = "active"
  <2>1. job \in [CAs -> {"none", "active", "succeeded", "failed"}]
    BY DEF IInv, TypeOK
  <2> QED
    BY <1>1, <1>2, <2>1
<1>6. TypeOK'
  BY <1>1, <1>4, <1>5 DEF IInv, TypeOK
<1>7. Course'
  BY <1>1, <1>2, <1>4, Ranks DEF Course, IInv, At, InitSteps
<1>8. "misread" \notin mishaps => secret.root[c] = 0 /\ job[c] = "none" /\ 0 # Absent
  BY <1>1, <1>2 DEF RootInv, IInv, Absent
<1>9. RootInv'
  BY <1>1, <1>2, <1>4, <1>5, <1>8 DEF RootInv, IInv
<1>10. InitInv'
  <2> SUFFICES ASSUME mishaps \cap {"halfway", "misread"} = {} PROVE InitInv'
    BY <1>1 DEF InitInv
  <2>1. InitInv /\ ~At("hsmwait") /\ ~At("status") /\ ~At("config") /\ ~At("config")'
        /\ At("hsmwait")' /\ ~At("status")'
    BY <1>1, <1>4 DEF IInv, At
  <2>2. \A d \in CAs : (d # c => ~Creating(d) /\ ~Creating(d)') /\ job[d] = "none"
                       /\ (CADone(d)' => CADone(d))
    BY <1>1, <1>4, <2>1 DEF Creating, InitInv, CAs
  <2>3. /\ secret.root[c] # Absent /\ Creating(c) /\ Creating(c)' /\ job'[c] = "active"
        /\ \A d \in CAs : d # c => job'[d] = "none"
    BY <1>1, <1>2, <1>4, <1>5, <1>8, <2>2 DEF Creating
  <2>4. made["deployment"] = Absent /\ cfg[c] = worker.inst[c]
    BY <1>1, <1>2, <2>1, <2>3 DEF InitInv
  <2> QED
    BY <1>1, <1>2, <1>4, <2>1, <2>2, <2>3, <2>4 DEF InitInv
<1>11. OverridesServed'
  BY <1>1, <1>4, OverridesStay DEF Stacked
<1>12. Stacked' = Stacked /\ worker'.pc # "idle"
  BY <1>1, <1>4 DEF Stacked
<1> QED
  BY <1>1, <1>2, <1>4, <1>6, <1>7, <1>9, <1>10, <1>11, <1>12, InitKeeps

LEMMA JobSucceededKeeps ==
  ASSUME IInv, JobSucceeded
  PROVE  IInv'
<1> DEFINE c == worker.which
<1>1. /\ worker.pc = "hsmwait" /\ job[c] = "succeeded"
      /\ job' = [job EXCEPT ![c] = "none"]
      /\ cfg' = [cfg EXCEPT !.files = @ \/ c = "ca"] /\ NextCA
      /\ UNCHANGED <<setup, up, spec, versioned, status, saved, stack, work, secret, made, profile,
                     pod, restart, events, mishaps>>
  BY DEF JobSucceeded, UpdateCAConfigMap, At, initFrame, frame, podVars, queueVars, historyVars
<1>2. c \in CAs /\ worker.resp = "create" /\ worker.inst[c] # Absent
  <2>1. worker.inst.ca >= 0 /\ worker.inst.tls >= 0
    BY Types, SpecTypes DEF IInv
  <2> QED
    BY <1>1, <2>1, Types DEF IInv, Course, CAs, Absent
<1>3. /\ job' \in [CAs -> {"none", "active", "succeeded", "failed"}] /\ job'[c] = "none"
      /\ \A d \in CAs \ {c} : job'[d] = job[d]
  <2>1. job \in [CAs -> {"none", "active", "succeeded", "failed"}]
    BY DEF IInv, TypeOK
  <2> QED
    BY <1>1, <1>2, <2>1
<1>4. /\ cfg' \in Configs /\ \A d \in CAs : cfg'[d] = cfg[d]
      /\ cfg.files \/ c = "ca" => cfg'.files
  <2>1. cfg \in Configs
    BY Types DEF IInv
  <2>2. (cfg.files \/ c = "ca") \in BOOLEAN
    BY <2>1 DEF Configs
  <2>3. /\ cfg' \in Configs /\ cfg'.ca = cfg.ca /\ cfg'.tls = cfg.tls
        /\ cfg'.files = (cfg.files \/ c = "ca")
    BY <1>1, <2>1, <2>2 DEF Configs
  <2>4. cfg.files \/ c = "ca" => cfg'.files
    BY <2>3, Zenon
  <2> QED
    BY <2>3, <2>4 DEF CAs
<1>5. ASSUME mishaps \cap {"halfway", "misread"} = {}
      PROVE  secret.root[c] >= 1 /\ cfg[c] = worker.inst[c] /\ made["deployment"] = Absent
  <2>1. Creating(c)
    BY <1>1, <1>2 DEF Creating
  <2> QED
    BY <1>1, <1>2, <1>5, <2>1 DEF InitInv, IInv
<1> QED
  BY <1>1, <1>2, <1>3, <1>4, <1>5, CAFinishes

LEMMA JobFailedKeeps ==
  ASSUME IInv, JobFailed
  PROVE  IInv'
<1>1. /\ worker.pc = "hsmwait" /\ Leave("breaking")
      /\ mishaps' = mishaps \cup {"halfway", "stopped"}
      /\ UNCHANGED <<setup, up, spec, versioned, status, saved, stack, work, secret, cfg, made, profile, job,
                     pod, restart, events>>
  BY DEF JobFailed, At, initFrame, frame, podVars, queueVars, clusterVars
<1>2. ~At("idle") /\ ~At("status")
  BY <1>1 DEF At
<1>3. /\ worker' \in Calls /\ worker'.result = "breaking"
      /\ worker'.pc = "status" /\ worker'.result # "ok" /\ worker'.upd = worker.upd
      /\ worker'.which = worker.which
      /\ worker'.inst.ca = worker.inst.ca /\ worker'.inst.tls = worker.inst.tls
      /\ worker'.inst.rest = worker.inst.rest
  BY <1>1, <1>2, LeaveType
<1>4. TypeOK'
  <2>1. mishaps' \in SUBSET Mishaps
    BY <1>1 DEF Mishaps, IInv, TypeOK
  <2> QED
    BY <1>1, <1>3, <2>1 DEF IInv, TypeOK
<1>5. BrokenOff'
  BY <1>1, <1>3 DEF BrokenOff
<1>6. /\ Stacked \subseteq Stacked' /\ events' \in Nat /\ events <= events' /\ mishaps \subseteq mishaps'
      /\ "halfway" \in mishaps'
  BY <1>1, Types DEF Stacked, IInv
<1> QED
  BY <1>1, <1>2, <1>3, <1>4, <1>5, <1>6, LeaveKeeps DEF IInv

-----------------------------------------------------------------------------
(* The invariant is inductive                                              *)

LEMMA InitHolds == Init => IInv
<1> SUFFICES ASSUME Init PROVE IInv
  OBVIOUS
<1>1. PICK old \in BOOLEAN :
        /\ spec = [NewSpec EXCEPT !.filled = old]
        /\ saved = [NewSpec EXCEPT !.filled = old]
        /\ status = IF old THEN "Deployed" ELSE "none"
        /\ secret = IF old THEN [NoSecrets EXCEPT !.root = [c \in CAs |-> 1]] ELSE NoSecrets
        /\ cfg = IF old THEN [NoConfig EXCEPT !.ca = 0, !.tls = 0, !.files = TRUE] ELSE NoConfig
        /\ made = [o \in Objects |->
              IF old /\ o \in Range(Steps) \cup {"rbac"} THEN 0 ELSE Absent]
        /\ profile = IF old THEN "current" ELSE "none"
        /\ pod = IF old THEN [up |-> TRUE, cfg |-> cfg, tls |-> TRUE, rev |-> 0] ELSE NoPod
        /\ stack = IF old THEN <<{}>> ELSE <<>>
  BY DEF Init
<1>2. /\ setup \in Setups /\ versioned = FALSE /\ work = TRUE /\ worker = Idle
      /\ job = [c \in CAs |-> "none"] /\ restart = {} /\ up = TRUE /\ events = 0 /\ mishaps = {}
  BY DEF Init
<1>3. MaxEvents \in Nat /\ 0 \in Revs /\ 0 \in 0..MaxEvents /\ 0 \in -1..MaxEvents /\ -1 \in -1..MaxEvents
  BY ConstantsOK DEF Revs
<1>4. /\ worker \in Calls /\ worker.pc = "idle" /\ worker.which = "ca" /\ worker.upd = {}
      /\ worker.resp = "none" /\ worker.result = "ok"
  BY <1>2, IdleType
<1>5. spec \in Specs /\ saved \in Specs /\ ~spec.gen /\ spec.rest = 0 /\ spec.ca = 0 /\ spec.tls = 0
      /\ ~spec.renew /\ ~spec.restart
  <2>1. NewSpec \in Specs
    BY <1>3 DEF NewSpec, Specs
  <2> QED
    BY <1>1, <2>1 DEF NewSpec, Specs
<1>6. /\ cfg \in Configs
      /\ cfg.ca = (IF old THEN 0 ELSE Absent) /\ cfg.tls = (IF old THEN 0 ELSE Absent)
      /\ old => cfg.files
  BY <1>1, <1>3 DEF NoConfig, Configs, Absent
<1>7. /\ secret \in [root : [CAs -> Nat \cup {Absent}], age : {"fresh", "expiring", "expired"}]
      /\ \A c \in CAs : secret.root[c] = IF old THEN 1 ELSE Absent
  BY <1>1 DEF NoSecrets
<1>8. /\ made \in [Objects -> -1..MaxEvents]
      /\ \A o \in Objects : made[o] \in {0, Absent} /\ (~old => made[o] = Absent)
      /\ \A o \in Objects \ {"rbac"} : made[o] # Absent => o \in Range(Steps)
      /\ old => made["deployment"] = 0
  <2>1. "deployment" \in Range(Steps) /\ "deployment" \in Objects
    BY <1>2, StepsOfOffering DEF Objects
  <2> QED
    BY <1>1, <1>3, <2>1 DEF Absent
<1>9. stack \in Seq(SUBSET Flags) /\ Stacked = {}
  BY <1>1, ShortStacks DEF Stacked
<1>10. /\ pod \in [up : BOOLEAN, cfg : Configs, tls : BOOLEAN, rev : -1..MaxEvents]
       /\ pod.up => old /\ pod.cfg = cfg /\ pod.tls
       /\ pod.rev <= made["deployment"]
  <2>1. CASE old
    BY <1>1, <1>3, <1>6, <1>8, <2>1
  <2>2. CASE ~old
    <3>1. pod = NoPod /\ made["deployment"] = Absent
      BY <1>1, <1>8, <2>2 DEF Objects
    <3>2. NoConfig \in Configs
      BY <1>3 DEF NoConfig, Configs, Absent
    <3> QED
      BY <1>3, <3>1, <3>2 DEF NoPod, Absent
  <2> QED
    BY <2>1, <2>2
<1>11. TypeOK
  <2>1. status \in Statuses /\ profile \in {"none", "stale", "current"}
    BY <1>1 DEF Statuses
  <2> QED
    BY <1>2, <1>3, <1>4, <1>5, <1>6, <1>7, <1>8, <1>9, <1>10, <2>1 DEF TypeOK
<1>12. Course
  BY <1>2, <1>4, <1>5, Ranks DEF Course, At, InitSteps
<1>13. 1 # Absent /\ 0 # Absent /\ 1 >= 1 /\ Absent <= 0 /\ "deployment" \in Objects
  BY DEF Absent, Objects
<1>14. RevsGrow
  BY <1>2, <1>4, <1>5, <1>8, <1>10, <1>13 DEF RevsGrow, At
<1>15. EditsStacked /\ BrokenOff
  BY <1>4 DEF EditsStacked, BrokenOff, At
<1>16. RootInv
  BY <1>2, <1>4, <1>7 DEF RootInv
<1>17. InitInv
  <2>1. \A c \in CAs : cfg[c] = IF old THEN 0 ELSE Absent
    BY <1>6 DEF CAs
  <2>2. \A c \in CAs : job[c] = "none" /\ ~Creating(c) /\ ~CADone(c) /\ ~At("config")
    BY <1>2, <1>4, Ranks DEF Creating, CADone, At
  <2> QED
    BY <1>6, <1>7, <1>8, <1>13, <2>1, <2>2 DEF InitInv
<1>18. OverridesServed
  BY <1>5 DEF OverridesServed
<1>19. Served
  <2>1. \A o \in {"ingress", "caroute", "opsroute"} : made[o] \in {Absent, spec.rest}
    BY <1>5, <1>8 DEF Objects
  <2> QED
    BY <1>5, <1>10, <2>1 DEF Served
<1>20. OfferingObjects
  BY <1>8 DEF OfferingObjects, Objects
<1>21. RestInv
  <2>1. ~Done("deployment") /\ Busy("states") /\ Busy("profile") /\ ~Unrestarted
    BY <1>2, <1>4, <1>10, Ranks DEF Done, Busy, Unrestarted
  <2> QED
    BY <2>1 DEF RestInv
<1> QED
  BY <1>11, <1>12, <1>14, <1>15, <1>16, <1>17, <1>18, <1>19, <1>20, <1>21 DEF IInv

\* A step of the worker.
LEMMA WorkerKeeps ==
  ASSUME IInv, WorkerStep
  PROVE  IInv'
<1>1. CASE Start \/ SetVersion \/ PreReconcileChecks \/ AddTLSCryptoIfMissing
  BY <1>1, StartKeeps, SetVersionKeeps, PreReconcileChecksKeeps, AddTLSCryptoIfMissingKeeps
<1>2. CASE ReconcileRBAC \/ ReconcilePVC \/ ReconcileService
  BY <1>2, CreateIfMissingKeeps DEF ReconcileRBAC, ReconcilePVC, ReconcileService
<1>3. CASE ReconcileDeployment \/ CheckStates
  BY <1>3, ReconcileDeploymentKeeps, CheckStatesKeeps
<1>4. CASE ReconcileIngressManager \/ ReconcileRoutes
  BY <1>4, CreateOrUpdateKeeps DEF ReconcileIngressManager, ReconcileRoutes
<1>5. CASE HandleEnrollmentCAInit \/ HandleTLSCAInit
  BY <1>5, HandleCAInitKeeps DEF HandleEnrollmentCAInit, HandleTLSCAInit, CAs
<1>6. CASE ConfigResourcesSecret \/ ConfigResourcesConfig
  BY <1>6, ConfigResourcesSecretKeeps, ConfigResourcesConfigKeeps
<1>7. CASE HSMSecret \/ HSMConfig
  BY <1>7, HSMSecretKeeps, HSMConfigKeeps
<1>8. CASE HSMJob \/ HSMDaemonJob
  BY <1>8, CreateJobKeeps DEF HSMJob, HSMDaemonJob
<1>9. CASE WaitForJobPodToFinish \/ WaitUntilContainerFinished
  BY <1>9, JobSucceededKeeps, JobFailedKeeps DEF WaitForJobPodToFinish, WaitUntilContainerFinished
<1>10. CASE RestartForConfigOverride \/ ReconcileFabricCAMigration \/ UpdateConnectionProfile
  BY <1>10, RestartForConfigOverrideKeeps, ReconcileFabricCAMigrationKeeps, UpdateConnectionProfileKeeps
<1>11. CASE CheckCertificates \/ RestartForTLSReenroll
  BY <1>11, CheckCertificatesKeeps, RestartForTLSReenrollKeeps
<1>12. CASE HandleActions \/ HandleRestart \/ SetStatus
  BY <1>12, HandleActionsKeeps, HandleRestartKeeps, SetStatusKeeps
<1> QED
  BY <1>1, <1>2, <1>3, <1>4, <1>5, <1>6, <1>7, <1>8, <1>9, <1>10, <1>11, <1>12 DEF WorkerStep

LEMMA StutterKeeps ==
  ASSUME IInv, UNCHANGED vars
  PROVE  IInv'
<1>1. UNCHANGED <<setup, up, spec, versioned, status, saved, stack, work, worker, secret, cfg, made, profile,
                  job, pod, restart, events, mishaps>>
  BY DEF vars, crVars, queueVars, clusterVars, podVars, historyVars
<1>2. TypeOK'
  BY <1>1 DEF IInv, TypeOK
<1>3. Steps' = Steps
  BY <1>1 DEF Steps
<1>4. Course' /\ OfferingObjects'
  BY <1>1, <1>3 DEF IInv, Course, OfferingObjects, At, HasFlag
<1>5. RevsGrow' /\ EditsStacked' /\ BrokenOff'
  BY <1>1 DEF IInv, RevsGrow, EditsStacked, BrokenOff, At, Stacked
<1>6. RootInv' /\ InitInv'
  BY <1>1 DEF IInv, RootInv, InitInv, Creating, CADone, At
<1>7. OverridesServed' /\ Served'
  BY <1>1 DEF IInv, OverridesServed, Served, CADone, Done, Stacked
<1>8. RestInv'
  BY <1>1 DEF IInv, RestInv, Busy, Done, Unrestarted, Stacked, At
<1> QED
  BY <1>2, <1>4, <1>5, <1>6, <1>7, <1>8 DEF IInv

LEMMA StepHolds == IInv /\ [Next]_vars => IInv'
<1> SUFFICES ASSUME IInv, [Next]_vars PROVE IInv'
  OBVIOUS
<1>1. CASE WorkerStep
  BY <1>1, WorkerKeeps
<1>2. CASE \E change \in Changes : Edit(change)
  BY <1>2, EditKeeps
<1>3. CASE \E step \in PCs \ {"idle"} : Fail(step)
  BY <1>3, FailKeeps
<1>4. CASE \E c \in CAs : JobRuns(c) \/ JobFails(c)
  BY <1>4, JobRunsKeeps, JobFailsKeeps
<1>5. CASE SecretMisread \/ HandleActionsFails \/ SetStatusError
  BY <1>5, SecretMisreadKeeps, HandleActionsFailsKeeps, SetStatusErrorKeeps
<1>6. CASE Crash \/ CreateFunc \/ CreateFuncUnread
  BY <1>6, CrashKeeps, CreateFuncKeeps, CreateFuncUnreadKeeps
<1>7. CASE PodStarts \/ PodRestarts \/ CertAges
  BY <1>7, PodKeeps, CertAgesKeeps
<1>8. CASE UNCHANGED vars
  BY <1>8, StutterKeeps
<1> QED
  BY <1>1, <1>2, <1>3, <1>4, <1>5, <1>6, <1>7, <1>8 DEF Next

\* Only what was asked for makes root certificates, where there is none.
LEMMA RootStep ==
  ASSUME IInv, Next, "misread" \notin mishaps, NEW c \in CAs, secret.root[c] >= 1
  PROVE  secret'.root[c] = secret.root[c]
<1>1. CASE WorkerStep
  <2>1. CASE ConfigResourcesSecret \/ HSMSecret
    BY <2>1, ConfigResourcesSecretKeeps, HSMSecretKeeps
  <2>2. CASE HandleActions
    BY <2>2 DEF HandleActions, Renew, IInv, TypeOK
  <2>3. CASE Start \/ SetVersion \/ PreReconcileChecks \/ AddTLSCryptoIfMissing
    BY <2>3 DEF Start, SetVersion, PreReconcileChecks, AddTLSCryptoIfMissing, clusterVars
  <2>4. CASE ReconcileRBAC \/ ReconcilePVC \/ ReconcileService
    BY <2>4 DEF ReconcileRBAC, ReconcilePVC, ReconcileService, CreateIfMissing, managerFrame
  <2>5. CASE ReconcileDeployment \/ CheckStates \/ ReconcileIngressManager \/ ReconcileRoutes
    BY <2>5
    DEF ReconcileDeployment, CheckStates, ReconcileIngressManager, ReconcileRoutes, CreateOrUpdate,
        managerFrame
  <2>6. CASE HandleEnrollmentCAInit \/ HandleTLSCAInit
    BY <2>6 DEF HandleEnrollmentCAInit, HandleTLSCAInit, HandleCAInit, clusterVars
  <2>7. CASE ConfigResourcesConfig \/ HSMConfig \/ HSMJob \/ HSMDaemonJob
    BY <2>7 DEF ConfigResourcesConfig, HSMConfig, HSMJob, HSMDaemonJob, CreateJob
  <2>8. CASE WaitForJobPodToFinish \/ WaitUntilContainerFinished
    BY <2>8
    DEF WaitForJobPodToFinish, WaitUntilContainerFinished, JobSucceeded, JobFailed, clusterVars
  <2>9. CASE RestartForConfigOverride \/ ReconcileFabricCAMigration \/ UpdateConnectionProfile
    BY <2>9 DEF RestartForConfigOverride, ReconcileFabricCAMigration, UpdateConnectionProfile, clusterVars
  <2>10. CASE CheckCertificates \/ RestartForTLSReenroll \/ HandleRestart \/ SetStatus
    BY <2>10 DEF CheckCertificates, RestartForTLSReenroll, HandleRestart, SetStatus, clusterVars
  <2> QED
    BY <1>1, <2>1, <2>2, <2>3, <2>4, <2>5, <2>6, <2>7, <2>8, <2>9, <2>10 DEF WorkerStep
<1>2. CASE \E change \in Changes : Edit(change)
  BY <1>2 DEF Edit, clusterVars
<1>3. CASE \E step \in PCs \ {"idle"} : Fail(step)
  BY <1>3 DEF Fail, clusterVars
<1>4. CASE \E d \in CAs : JobRuns(d)
  <2>1. PICK d \in CAs : JobRuns(d)
    BY <1>4
  <2>2. c # d
    BY <2>1, JobRunsKeeps
  <2> QED
    BY <2>1, <2>2, JobRunsKeeps
<1>5. CASE \E d \in CAs : JobFails(d)
  BY <1>5 DEF JobFails
<1>6. CASE SecretMisread \/ SetStatusError \/ Crash \/ CreateFunc \/ CreateFuncUnread
  BY <1>6 DEF SecretMisread, SetStatusError, Crash, CreateFunc, CreateFuncUnread, clusterVars
<1>7. CASE HandleActionsFails
  BY <1>7 DEF HandleActionsFails, Renew, IInv, TypeOK
<1>8. CASE PodStarts \/ PodRestarts
  BY <1>8 DEF PodStarts, PodRestarts, PodLoads, clusterVars
<1>9. CASE CertAges
  BY <1>9 DEF CertAges, IInv, TypeOK
<1> QED
  BY <1>1, <1>2, <1>3, <1>4, <1>5, <1>6, <1>7, <1>8, <1>9 DEF Next

-----------------------------------------------------------------------------
(* Theorems                                                                *)

LEMMA Inductive == Spec => []IInv
<1> QED
  BY InitHolds, StepHolds, PTL DEF Spec

\* The custom resource, the call under way, the objects in the cluster and the
\* pod are well typed, for any overrides, offerings and number of events.
THEOREM TypeCorrect == Spec => []TypeOK
<1>1. IInv => TypeOK
  BY DEF IInv
<1> QED
  BY <1>1, Inductive, PTL

\* A root certificate of the enrolment CA or the TLS CA is never replaced, by
\* whichever reconcile, HSM job, renewal or restart of the operator, unless
\* SecretExists took an error for a missing secret.
THEOREM RootsKept == Spec => RootKept
<1>1. IInv /\ [Next]_vars =>
         [\A c \in CAs : secret.root[c] >= 1 =>
             secret'.root[c] = secret.root[c] \/ "misread" \in mishaps]_vars
  BY RootStep
<1> QED
  BY <1>1, Inductive, PTL DEF Spec, RootKept

\* A deployment is made only after both CAs have been initialised, in process
\* or by their jobs, unless an initialisation was cut off between its writes.
THEOREM Mounted == Spec => []DeploymentMountable
<1>1. IInv => DeploymentMountable
  <2> SUFFICES ASSUME IInv, made["deployment"] # Absent, mishaps \cap {"halfway", "misread"} = {},
                      NEW c \in CAs
               PROVE  secret.root[c] >= 1 /\ cfg[c] # Absent /\ cfg.files
    BY DEF DeploymentMountable
  <2>1. InitInv
    BY DEF IInv
  <2>2. \A d \in CAs : ~Creating(d) /\ secret.root[d] # Absent
    BY <2>1 DEF InitInv
  <2>3. \A d \in CAs : secret.root[d] >= 1 /\ cfg[d] # Absent /\ (d = "ca" => cfg.files)
    BY <2>1, <2>2 DEF InitInv
  <2>4. cfg.files
    BY <2>3 DEF CAs
  <2> QED
    BY <2>3, <2>4
<1> QED
  BY <1>1, Inductive, PTL

\* What is behind the spec has its flag on the stack of updates or in the
\* reconcile under way, however edits, reconciles and restarts of the operator
\* interleave, unless a call failed, the loop was stopped or the comparison
\* with the saved spec missed it.
THEOREM NothingIsForgotten == Spec => []NothingForgotten
<1>1. IInv => NothingForgotten
  <2> SUFFICES ASSUME IInv, up, mishaps \subseteq {"lateMigration"} PROVE Owed \subseteq Coming
    BY DEF NothingForgotten
  <2>1. /\ spec.ca # 0 /\ cfg.ca \notin {Absent, spec.ca} => "caOverrides" \in Coming
        /\ spec.tls # 0 /\ cfg.tls \notin {Absent, spec.tls} => "tlscaOverrides" \in Coming
    BY DEF IInv, OverridesServed, Coming, Stacked
  <2>2. /\ (\E o \in {"ingress", "caroute", "opsroute"} : made[o] \notin {Absent, spec.rest}) =>
              "specUpdated" \in Coming
        /\ spec.restart => "restartNeeded" \in Coming
        /\ spec.renew => "renewTLSCert" \in Coming
        /\ pod.up /\ ~pod.tls /\ restart = {} => "caCryptoUpdated" \in Coming
    BY DEF IInv, Served, Coming, Stacked
  <2> QED
    BY <2>1, <2>2 DEF Owed, If
<1> QED
  BY <1>1, Inductive, PTL

\* When nothing is queued any more the deployment is the spec's, its pod runs
\* what is in the cluster and the connection profile shows the certificate,
\* unless the migration came late or a call failed.
THEOREM LatestRuns == Spec => []PodRunsLatest
<1>1. IInv => PodRunsLatest
  <2> SUFFICES ASSUME IInv, AtRest, mishaps = {}
               PROVE  /\ made["deployment"] = spec.rest
                      /\ profile = "current"
                      /\ pod.up /\ pod.rev = made["deployment"] => pod.cfg = cfg /\ pod.tls
    BY DEF PodRunsLatest
  <2>1. up /\ At("idle") /\ ~work /\ stack = <<>> /\ restart = {} /\ Stacked = {} /\ worker.upd = {}
    BY ShortStacks, IdleType DEF AtRest, IInv, Course, At, Stacked
  <2>2. ~Busy("states") /\ ~Busy("profile")
    BY <2>1 DEF Busy
  <2>3. made["deployment"] = spec.rest /\ profile = "current"
    BY <2>1, <2>2 DEF IInv, RestInv
  <2>4. ASSUME pod.up, pod.rev = made["deployment"]
        PROVE  pod.cfg = cfg
    BY <2>1, <2>4 DEF IInv, RestInv, Unrestarted, ConfigOverridesUpdated
  <2>5. pod.up => pod.tls
    BY <2>1 DEF IInv, Served
  <2> QED
    BY <2>3, <2>4, <2>5
<1> QED
  BY <1>1, Inductive, PTL
=============================================================================
