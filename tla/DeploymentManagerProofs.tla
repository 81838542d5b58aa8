------------------------ MODULE DeploymentManagerProofs ------------------------
(***************************************************************************)
(* Machine-checked proofs about DeploymentManager, for any setups, any     *)
(* kinds of edits and any number of events.                                *)
(***************************************************************************)
EXTENDS DeploymentManager, TLAPS

Deployment == [Fields -> Int]

-----------------------------------------------------------------------------
(* What the overrides do to a deployment                                   *)

\* e is a deployment that differs from d in the fields F at most.
Changes(d, e, F) == e \in Deployment /\ \A g \in Fields \ F : e[g] = d[g]

\* One field is set, removed, or added if it is missing.
LEMMA FieldOps ==
    ASSUME NEW d \in Deployment, NEW f \in Fields, NEW v \in Int
    PROVE  /\ Changes(d, Set(d, f, v), {f}) /\ Set(d, f, v)[f] = v
           /\ Changes(d, AppendIfMissing(d, f, v), {f})
           /\ AppendIfMissing(d, f, v)[f] = IF d[f] = Absent THEN v ELSE d[f]
           /\ Changes(d, DeleteEnv(d, f), {f}) /\ DeleteEnv(d, f)[f] = Absent
  <1>1. Absent \in Int
    BY DEF Absent
  <1> QED BY <1>1 DEF Changes, Set, AppendIfMissing, DeleteEnv, Deployment

\* The entries of a spec are numbers.
LEMMA SpecFacts ==
    ASSUME NEW s \in Specs
    PROVE  /\ s.image \in Int /\ s.replicas \in Int /\ s.pull \in Int /\ s.affinity \in Int
           /\ s.address \in Int /\ s.endpoint \in Int /\ s.hsm \in Int /\ s.launcher \in Int
           /\ s.version \in 1..3
  BY ConstantsOK DEF Specs, Revs, Absent

\* The HSM parts: CreateDeployment adds them, UpdateDeployment sets them.
LEMMA HSMFacts ==
    ASSUME NEW d \in Deployment, NEW s \in Specs, NEW c, c = CreateHSM(d, s),
           NEW u, u = UpdateHSM(d, s)
    PROVE  /\ Changes(d, c, {"endpoint", "hsm"}) /\ Changes(d, u, {"endpoint", "hsm"})
           /\ c.endpoint = IF UsingHSMProxy(s) /\ d.endpoint = Absent THEN s.endpoint ELSE d.endpoint
           /\ c.hsm = IF ~UsingHSMProxy(s) /\ IsHSMEnabled(s) /\ d.hsm = Absent THEN s.hsm ELSE d.hsm
           /\ u.endpoint = IF UsingHSMProxy(s) THEN s.endpoint ELSE d.endpoint
           /\ u.hsm = IF ~UsingHSMProxy(s) /\ IsHSMEnabled(s) THEN s.hsm ELSE d.hsm
  <1>1. "endpoint" \in Fields /\ "hsm" \in Fields
    BY DEF Fields
  <1> DEFINE a == AppendIfMissing(d, "endpoint", s.endpoint)
             h == AppendIfMissing(d, "hsm", s.hsm)
             b == Set(d, "endpoint", s.endpoint)
             g == Set(d, "hsm", s.hsm)
  <1>2. /\ Changes(d, a, {"endpoint"}) /\ a.endpoint = IF d.endpoint = Absent THEN s.endpoint ELSE d.endpoint
        /\ Changes(d, h, {"hsm"}) /\ h.hsm = IF d.hsm = Absent THEN s.hsm ELSE d.hsm
        /\ Changes(d, b, {"endpoint"}) /\ b.endpoint = s.endpoint
        /\ Changes(d, g, {"hsm"}) /\ g.hsm = s.hsm
    <2>1. s.endpoint \in Int /\ s.hsm \in Int
      BY SpecFacts
    <2>2. /\ Changes(d, a, {"endpoint"}) /\ a["endpoint"] = IF d["endpoint"] = Absent THEN s.endpoint ELSE d["endpoint"]
          /\ Changes(d, b, {"endpoint"}) /\ b["endpoint"] = s.endpoint
      BY <1>1, <2>1, FieldOps, Zenon
    <2>3. /\ Changes(d, h, {"hsm"}) /\ h["hsm"] = IF d["hsm"] = Absent THEN s.hsm ELSE d["hsm"]
          /\ Changes(d, g, {"hsm"}) /\ g["hsm"] = s.hsm
      BY <1>1, <2>1, FieldOps, Zenon
    <2> HIDE DEF a, h, b, g
    <2> QED BY <2>2, <2>3
  <1>3. c = IF UsingHSMProxy(s) THEN a ELSE IF IsHSMEnabled(s) THEN h ELSE d
    BY DEF CreateHSM, hsmSettings
  <1>4. u = IF UsingHSMProxy(s) THEN b ELSE IF IsHSMEnabled(s) THEN g ELSE d
    BY DEF UpdateHSM, UpdateEnv, Set
  <1> HIDE DEF a, h, b, g
  <1> QED BY <1>1, <1>2, <1>3, <1>4 DEF Changes

\* A peer of Fabric 2.x has a chaincode launcher if the spec has one.
Launching(kind, s) == kind = "peer" /\ s.version > 1 /\ s.launcher # Absent
Launches(s) == Launching(Kind, s)

\* What CreateDeployment makes of d: the parts that SpecReached and RestartsKept are about
Created(d, e, s) ==
    /\ e \in Deployment /\ e.restart = d.restart
    /\ e.image = s.image /\ e.replicas = s.replicas /\ e.pull = s.pull
    /\ e.endpoint = IF UsingHSMProxy(s) /\ d.endpoint = Absent THEN s.endpoint ELSE d.endpoint
    /\ e.hsm = IF ~UsingHSMProxy(s) /\ IsHSMEnabled(s) /\ d.hsm = Absent THEN s.hsm ELSE d.hsm
    /\ e.launcher = IF Launches(s) /\ d.launcher = Absent THEN s.launcher ELSE d.launcher
    /\ e.runtimes = IF Launches(s) THEN Absent
                    ELSE IF Kind = "peer" /\ s.version = 1 /\ d.runtimes = Absent THEN 0
                    ELSE d.runtimes
    /\ e.https = IF Launches(s) /\ s.version = 3 THEN 0 ELSE d.https
    /\ IsPostgres(s) => e.pvc = d.pvc
    /\ ~IsPostgres(s) => e.shared = d.shared

\* What UpdateDeployment makes of it
Updated(d, e, s) ==
    /\ e \in Deployment /\ e.restart = d.restart
    /\ e.image = s.image /\ e.replicas = s.replicas /\ e.pull = d.pull
    /\ e.endpoint = IF UsingHSMProxy(s) THEN s.endpoint ELSE d.endpoint
    /\ e.hsm = IF ~UsingHSMProxy(s) /\ IsHSMEnabled(s) THEN s.hsm ELSE d.hsm
    /\ e.launcher = IF Launches(s) THEN s.launcher ELSE d.launcher
    /\ e.runtimes = IF Launches(s) /\ d.launcher = Absent THEN Absent
                    ELSE IF Kind = "peer" /\ s.version = 1 /\ d.runtimes = Absent THEN 0
                    ELSE d.runtimes
    /\ e.https = IF Launches(s) /\ s.version = 3 THEN 0 ELSE d.https
    /\ e.pvc = d.pvc /\ e.shared = d.shared

\* The image and the replicas, which all kinds set
LEMMA CommonFacts ==
    ASSUME NEW d \in Deployment, NEW s \in Specs, NEW c,
           c = Set(Set(d, "image", s.image), "replicas", s.replicas)
    PROVE  Changes(d, c, {"image", "replicas"}) /\ c.image = s.image /\ c.replicas = s.replicas
  <1>1. "image" \in Fields /\ "replicas" \in Fields
    BY DEF Fields
  <1> DEFINE a == Set(d, "image", s.image)
  <1>2. Changes(d, a, {"image"}) /\ a.image = s.image
    <2>1. s.image \in Int
      BY SpecFacts
    <2>2. Changes(d, a, {"image"}) /\ a["image"] = s.image
      BY <1>1, <2>1, FieldOps, Zenon
    <2> HIDE DEF a
    <2> QED BY <2>2
  <1>3. c = Set(a, "replicas", s.replicas)
    OBVIOUS
  <1> HIDE DEF a
  <1>4. Changes(a, c, {"replicas"}) /\ c.replicas = s.replicas
    <2>1. a \in Deployment
      BY <1>2 DEF Changes
    <2>2. s.replicas \in Int /\ "replicas" \in Fields
      BY <1>1, SpecFacts
    <2>3. LET e == Set(a, "replicas", s.replicas) IN
          Changes(a, e, {"replicas"}) /\ e.replicas = s.replicas
      BY <2>1, <2>2, FieldOps
    <2> QED BY <1>3, <2>3
  <1> QED BY <1>1, <1>2, <1>4 DEF Changes

\* CreateDeployment and UpdateDeployment of a CA and of an orderer
LEMMA CAFacts ==
    ASSUME NEW d \in Deployment, NEW s \in Specs, Kind # "peer"
    PROVE  /\ Created(d, CACreateDeployment(d, s), s) /\ Updated(d, CAUpdateDeployment(d, s), s)
           /\ Created(d, OrdererCreateDeployment(d, s), s)
           /\ Updated(d, OrdererUpdateDeployment(d, s), s)
  <1>1. /\ {"image", "replicas", "pull", "affinity", "pvc", "shared", "address", "restart",
             "endpoint", "hsm", "launcher", "runtimes", "https"} \subseteq Fields
    BY DEF Fields
  <1> DEFINE c == Set(Set(d, "image", s.image), "replicas", s.replicas)
             p == Set(c, "pull", s.pull)
  <1>2. Changes(d, c, {"image", "replicas"}) /\ c.image = s.image /\ c.replicas = s.replicas
    BY CommonFacts
  <1> HIDE DEF c
  <1>3. Changes(c, p, {"pull"}) /\ p.pull = s.pull
    <2>1. c \in Deployment
      BY <1>2 DEF Changes
    <2>2. s.pull \in Int /\ "pull" \in Fields
      BY <1>1, SpecFacts
    <2> QED BY <2>1, <2>2, FieldOps
  <1> HIDE DEF p
  <1>4. ASSUME NEW f \in {"pvc", "shared", "address"}, NEW v \in Int,
               IsPostgres(s) => f # "pvc", ~IsPostgres(s) => f # "shared"
        PROVE  Created(d, CreateHSM(SetAffinity(AppendIfMissing(p, f, v), s), s), s)
    <2> DEFINE a == AppendIfMissing(p, f, v)
               b == SetAffinity(a, s)
               e == CreateHSM(b, s)
    <2>1. Changes(p, a, {f})
      <3>1. p \in Deployment /\ f \in Fields
        BY <1>1, <1>3 DEF Changes
      <3> QED BY <3>1, FieldOps
    <2> HIDE DEF a
    <2>2. Changes(a, b, {"affinity"})
      <3>1. a \in Deployment
        BY <2>1 DEF Changes
      <3> QED BY <1>1, <3>1, SpecFacts, FieldOps DEF SetAffinity
    <2> HIDE DEF b
    <2>3. b \in Deployment
      BY <2>2 DEF Changes
    <2>4. /\ Changes(b, e, {"endpoint", "hsm"})
          /\ e.endpoint = IF UsingHSMProxy(s) /\ b.endpoint = Absent THEN s.endpoint ELSE b.endpoint
          /\ e.hsm = IF ~UsingHSMProxy(s) /\ IsHSMEnabled(s) /\ b.hsm = Absent THEN s.hsm ELSE b.hsm
      BY <2>3, HSMFacts
    <2> HIDE DEF e
    <2>5. /\ b.image = s.image /\ b.replicas = s.replicas /\ b.pull = s.pull
          /\ b.restart = d.restart /\ b.endpoint = d.endpoint /\ b.hsm = d.hsm
          /\ b.launcher = d.launcher /\ b.runtimes = d.runtimes /\ b.https = d.https
          /\ (IsPostgres(s) => b.pvc = d.pvc) /\ (~IsPostgres(s) => b.shared = d.shared)
      <3>1. /\ p.image = s.image /\ p.replicas = s.replicas /\ p.pull = s.pull
            /\ p.restart = d.restart /\ p.endpoint = d.endpoint /\ p.hsm = d.hsm
            /\ p.launcher = d.launcher /\ p.runtimes = d.runtimes /\ p.https = d.https
            /\ p.pvc = d.pvc /\ p.shared = d.shared
        BY <1>1, <1>2, <1>3 DEF Changes
      <3> QED BY <1>1, <1>4, <2>1, <2>2, <3>1 DEF Changes
    <2>6. /\ e \in Deployment
          /\ e.image = s.image /\ e.replicas = s.replicas /\ e.pull = s.pull
          /\ e.restart = d.restart
          /\ e.launcher = d.launcher /\ e.runtimes = d.runtimes /\ e.https = d.https
          /\ e.pvc = b.pvc /\ e.shared = b.shared
      BY <1>1, <2>4, <2>5 DEF Changes
    <2>7. Created(d, e, s)
      BY <2>4, <2>5, <2>6 DEF Created, Launches, Launching
    <2> QED BY <2>7 DEF a, b, e
  <1>5. Updated(d, UpdateHSM(c, s), s)
    <2> DEFINE e == UpdateHSM(c, s)
    <2>1. c \in Deployment
      BY <1>2 DEF Changes
    <2>2. /\ Changes(c, e, {"endpoint", "hsm"})
          /\ e.endpoint = IF UsingHSMProxy(s) THEN s.endpoint ELSE c.endpoint
          /\ e.hsm = IF ~UsingHSMProxy(s) /\ IsHSMEnabled(s) THEN s.hsm ELSE c.hsm
      BY <2>1, HSMFacts
    <2> HIDE DEF e
    <2>3. /\ e \in Deployment /\ e.image = s.image /\ e.replicas = s.replicas /\ e.pull = d.pull
          /\ e.restart = d.restart /\ c.endpoint = d.endpoint /\ c.hsm = d.hsm
          /\ e.launcher = d.launcher /\ e.runtimes = d.runtimes /\ e.https = d.https
          /\ e.pvc = d.pvc /\ e.shared = d.shared
      BY <1>1, <1>2, <2>2 DEF Changes
    <2>4. Updated(d, e, s)
      BY <2>2, <2>3 DEF Updated, Launches, Launching
    <2> QED BY <2>4 DEF e
  <1>6. 0 \in Int /\ s.address \in Int
    BY SpecFacts
  <1>7. CACreateDeployment(d, s) =
          CreateHSM(SetAffinity(AppendIfMissing(p, IF IsPostgres(s) THEN "shared" ELSE "pvc", 0), s), s)
    BY DEF CACreateDeployment, CACommonDeployment, p, c
  <1>8. OrdererCreateDeployment(d, s) =
          CreateHSM(SetAffinity(AppendIfMissing(p, "address", s.address), s), s)
    BY DEF OrdererCreateDeployment, OrdererCommonDeployment, p, c
  <1>9. Created(d, CACreateDeployment(d, s), s)
    <2>1. CASE IsPostgres(s)
      BY <1>4, <1>6, <1>7, <2>1
    <2>2. CASE ~IsPostgres(s)
      BY <1>4, <1>6, <1>7, <2>2
    <2> QED BY <2>1, <2>2
  <1>10. Created(d, OrdererCreateDeployment(d, s), s)
    BY <1>4, <1>6, <1>8
  <1>11. /\ CAUpdateDeployment(d, s) = UpdateHSM(c, s)
         /\ OrdererUpdateDeployment(d, s) = UpdateHSM(c, s)
    BY DEF CAUpdateDeployment, OrdererUpdateDeployment, CACommonDeployment,
           OrdererCommonDeployment, c
  <1> QED BY <1>5, <1>9, <1>10, <1>11

\* The parts of a peer that depend on the version of Fabric: CreateDeployment (c) adds a launcher,
\* UpdateDeployment (u) sets it.
LEMMA VersionFacts ==
    ASSUME NEW d \in Deployment, NEW s \in Specs, Kind = "peer", NEW c, NEW u,
           c = IF s.version = 1 THEN V1Deployment(d) ELSE V24Deployment(V2Deployment(d, s), s),
           u = IF s.version = 1 THEN V1Deployment(d)
               ELSE V24Deployment(V2DeploymentUpdate(d, s), s)
    PROVE  /\ \A e \in {c, u} :
                /\ Changes(d, e, {"launcher", "runtimes", "https"})
                /\ e.https = IF Launches(s) /\ s.version = 3 THEN 0 ELSE d.https
                /\ ~Launches(s) => /\ e.launcher = d.launcher
                                   /\ e.runtimes = IF s.version = 1 /\ d.runtimes = Absent THEN 0
                                                   ELSE d.runtimes
           /\ Launches(s) =>
                /\ c.launcher = IF d.launcher = Absent THEN s.launcher ELSE d.launcher
                /\ c.runtimes = Absent
                /\ u.launcher = s.launcher
                /\ u.runtimes = IF d.launcher = Absent THEN Absent ELSE d.runtimes
  <1>1. "launcher" \in Fields /\ "runtimes" \in Fields /\ "https" \in Fields
    BY DEF Fields
  <1>2. s.launcher \in Int /\ s.version \in 1..3 /\ 0 \in Int
    BY SpecFacts
  <1>3. CASE s.version = 1
    <2>1. c = AppendIfMissing(d, "runtimes", 0) /\ u = c
      BY <1>3 DEF V1Deployment
    <2>2. LET f == AppendIfMissing(d, "runtimes", 0) IN
          Changes(d, f, {"runtimes"}) /\ f.runtimes = IF d.runtimes = Absent THEN 0 ELSE d.runtimes
      BY <1>1, <1>2, FieldOps
    <2> QED BY <1>1, <1>3, <2>1, <2>2 DEF Changes, Launches, Launching
  <1>4. CASE s.version # 1
    <2> DEFINE a == AppendIfMissing(d, "launcher", s.launcher)
               b == DeleteEnv(a, "runtimes")
               l == Set(d, "launcher", s.launcher)
    <2>1. /\ Changes(d, a, {"launcher"})
          /\ a.launcher = IF d.launcher = Absent THEN s.launcher ELSE d.launcher
      BY <1>1, <1>2, FieldOps
    <2>2. Changes(d, l, {"launcher"}) /\ l.launcher = s.launcher
      BY <1>1, <1>2, FieldOps
    <2>3. Changes(a, b, {"runtimes"}) /\ b.runtimes = Absent
      <3>1. a \in Deployment
        BY <2>1 DEF Changes
      <3> HIDE DEF a
      <3> QED BY <1>1, <1>2, <3>1, FieldOps
    <2>4. V2Deployment(d, s) = IF s.launcher = Absent THEN d ELSE b
      BY DEF V2Deployment, CreateCCLauncherContainer
    <2>5. V2DeploymentUpdate(d, s) = IF s.launcher = Absent THEN d
                                     ELSE IF d.launcher = Absent THEN b ELSE l
      BY <2>4 DEF V2DeploymentUpdate
    <2> HIDE DEF a, b, l
    <2>6. ASSUME NEW x \in Deployment
          PROVE  LET y == V24Deployment(x, s) IN
                 /\ Changes(x, y, {"https"})
                 /\ y.https = IF s.version = 3 /\ s.launcher # Absent THEN 0 ELSE x.https
      <3>1. LET y == Set(x, "https", 0) IN Changes(x, y, {"https"}) /\ y.https = 0
        BY <1>1, <1>2, FieldOps
      <3>2. Changes(x, x, {"https"})
        BY DEF Changes
      <3> QED BY <3>1, <3>2 DEF V24Deployment
    <2>7. CASE s.launcher = Absent
      <3>1. c = V24Deployment(d, s) /\ u = c
        BY <1>4, <2>4, <2>5, <2>7
      <3>2. Changes(d, c, {"https"}) /\ c.https = d.https
        BY <2>6, <2>7, <3>1
      <3> QED BY <1>1, <1>4, <2>7, <3>1, <3>2 DEF Changes, Launches, Launching
    <2>8. CASE s.launcher # Absent
      <3>1. Launches(s)
        BY <1>2, <1>4, <2>8 DEF Launches, Launching
      <3>2. b \in Deployment /\ l \in Deployment
        BY <2>2, <2>3 DEF Changes
      <3>3. /\ Changes(d, V24Deployment(b, s), {"launcher", "runtimes", "https"})
            /\ V24Deployment(b, s).https = IF s.version = 3 THEN 0 ELSE d.https
            /\ V24Deployment(b, s).runtimes = Absent
            /\ V24Deployment(b, s).launcher = a.launcher
        <4> DEFINE y == V24Deployment(b, s)
        <4>1. Changes(b, y, {"https"}) /\ y.https = IF s.version = 3 THEN 0 ELSE b.https
          BY <2>6, <2>8, <3>2
        <4> HIDE DEF y
        <4>2. /\ Changes(d, y, {"launcher", "runtimes", "https"})
              /\ y.launcher = a.launcher /\ y.runtimes = Absent /\ b.https = d.https
          BY <1>1, <2>1, <2>3, <4>1 DEF Changes
        <4> QED BY <4>1, <4>2 DEF y
      <3>4. /\ Changes(d, V24Deployment(l, s), {"launcher", "runtimes", "https"})
            /\ V24Deployment(l, s).https = IF s.version = 3 THEN 0 ELSE d.https
            /\ V24Deployment(l, s).runtimes = d.runtimes
            /\ V24Deployment(l, s).launcher = s.launcher
        <4> DEFINE y == V24Deployment(l, s)
        <4>1. Changes(l, y, {"https"}) /\ y.https = IF s.version = 3 THEN 0 ELSE l.https
          BY <2>6, <2>8, <3>2
        <4> HIDE DEF y
        <4>2. /\ Changes(d, y, {"launcher", "runtimes", "https"})
              /\ y.launcher = s.launcher /\ y.runtimes = d.runtimes /\ l.https = d.https
          BY <1>1, <2>2, <4>1 DEF Changes
        <4> QED BY <4>1, <4>2 DEF y
      <3>5. c = V24Deployment(b, s) /\ u = IF d.launcher = Absent THEN c ELSE V24Deployment(l, s)
        BY <1>4, <2>4, <2>5, <2>8
      <3>6. CASE d.launcher = Absent
        BY <2>1, <3>1, <3>3, <3>5, <3>6
      <3>7. CASE d.launcher # Absent
        BY <2>1, <3>1, <3>3, <3>4, <3>5, <3>7
      <3> QED BY <3>6, <3>7
    <2> QED BY <2>7, <2>8
  <1> QED BY <1>3, <1>4

\* CreateDeployment and UpdateDeployment of a peer
LEMMA PeerFacts ==
    ASSUME NEW d \in Deployment, NEW s \in Specs, Kind = "peer", NEW fresh \in Int, NEW order \in Int
    PROVE  /\ Created(d, PeerCreateDeployment(d, s, fresh, order), s)
           /\ Updated(d, PeerUpdateDeployment(d, s), s)
  <1>1. /\ {"image", "replicas", "pull", "affinity", "address", "restart", "couchdb", "credentials",
            "rootcerts", "endpoint", "hsm", "launcher", "runtimes", "https", "pvc", "shared"}
             \subseteq Fields
    BY DEF Fields
  <1>2. s.address \in Int /\ s.pull \in Int /\ s.affinity \in Int
    BY SpecFacts
  <1>3. ASSUME NEW x \in Deployment
        PROVE  LET y == PeerCommonDeployment(x, s) IN
               /\ Changes(x, y, {"image", "replicas", "address"})
               /\ y.image = s.image /\ y.replicas = s.replicas
    <2> DEFINE c == Set(Set(x, "image", s.image), "replicas", s.replicas)
               y == AppendIfMissing(c, "address", s.address)
    <2>1. Changes(x, c, {"image", "replicas"}) /\ c.image = s.image /\ c.replicas = s.replicas
      BY CommonFacts
    <2> HIDE DEF c
    <2>2. c \in Deployment
      BY <2>1 DEF Changes
    <2>3. Changes(c, y, {"address"})
      BY <1>1, <1>2, <2>2, FieldOps
    <2> HIDE DEF y
    <2>4. Changes(x, y, {"image", "replicas", "address"}) /\ y.image = s.image /\ y.replicas = s.replicas
      BY <1>1, <2>1, <2>3 DEF Changes
    <2> QED BY <2>4 DEF y, c, PeerCommonDeployment
  <1>4. Created(d, PeerCreateDeployment(d, s, fresh, order), s)
    <2> DEFINE x == IF UsingCouchDB(s) THEN CreateCouchDBContainers(d, fresh) ELSE d
               y == PeerCommonDeployment(x, s)
               p == Set(y, "pull", s.pull)
               b == SetAffinity(p, s)
               o == Set(b, "rootcerts", order)
               h == CreateHSM(o, s)
               e == IF s.version = 1 THEN V1Deployment(h) ELSE V24Deployment(V2Deployment(h, s), s)
    <2>1. Changes(d, x, {"couchdb", "credentials"})
      <3> DEFINE q == AppendIfMissing(d, "couchdb", fresh)
                 r == AppendIfMissing(q, "credentials", fresh)
      <3>1. Changes(d, q, {"couchdb"})
        BY <1>1, FieldOps
      <3> HIDE DEF q
      <3>2. q \in Deployment
        BY <3>1 DEF Changes
      <3>3. Changes(q, r, {"credentials"})
        BY <1>1, <3>2, FieldOps
      <3> HIDE DEF r
      <3>4. Changes(d, r, {"couchdb", "credentials"})
        BY <3>1, <3>3 DEF Changes
      <3>5. x = d \/ x = r
        BY DEF CreateCouchDBContainers, q, r
      <3> HIDE DEF x
      <3> QED BY <3>4, <3>5 DEF Changes
    <2> HIDE DEF x
    <2>2. x \in Deployment
      BY <2>1 DEF Changes
    <2>3. Changes(x, y, {"image", "replicas", "address"}) /\ y.image = s.image /\ y.replicas = s.replicas
      BY <1>3, <2>2
    <2> HIDE DEF y
    <2>4. y \in Deployment
      BY <2>3 DEF Changes
    <2>5. Changes(y, p, {"pull"}) /\ p.pull = s.pull
      <3>1. "pull" \in Fields
        BY <1>1
      <3> QED BY <1>2, <2>4, <3>1, FieldOps
    <2> HIDE DEF p
    <2>6. p \in Deployment
      BY <2>5 DEF Changes
    <2>7. Changes(p, b, {"affinity"})
      BY <1>1, <1>2, <2>6, FieldOps DEF SetAffinity
    <2> HIDE DEF b
    <2>8. b \in Deployment
      BY <2>7 DEF Changes
    <2>9. Changes(b, o, {"rootcerts"})
      BY <1>1, <2>8, FieldOps
    <2> HIDE DEF o
    <2>10. /\ o \in Deployment /\ o.image = s.image /\ o.replicas = s.replicas /\ o.pull = s.pull
           /\ o.restart = d.restart /\ o.endpoint = d.endpoint /\ o.hsm = d.hsm
           /\ o.launcher = d.launcher /\ o.runtimes = d.runtimes /\ o.https = d.https
           /\ o.pvc = d.pvc /\ o.shared = d.shared
      <3>1. /\ p.image = s.image /\ p.replicas = s.replicas /\ p.pull = s.pull
            /\ p.restart = d.restart /\ p.endpoint = d.endpoint /\ p.hsm = d.hsm
            /\ p.launcher = d.launcher /\ p.runtimes = d.runtimes /\ p.https = d.https
            /\ p.pvc = d.pvc /\ p.shared = d.shared
        BY <1>1, <2>1, <2>3, <2>5 DEF Changes
      <3> QED BY <1>1, <2>7, <2>9, <3>1 DEF Changes
    <2>11. /\ Changes(o, h, {"endpoint", "hsm"})
           /\ h.endpoint = IF UsingHSMProxy(s) /\ o.endpoint = Absent THEN s.endpoint ELSE o.endpoint
           /\ h.hsm = IF ~UsingHSMProxy(s) /\ IsHSMEnabled(s) /\ o.hsm = Absent THEN s.hsm ELSE o.hsm
      BY <2>10, HSMFacts
    <2> HIDE DEF h
    <2>12. h \in Deployment
      BY <2>11 DEF Changes
    <2>13. /\ Changes(h, e, {"launcher", "runtimes", "https"})
           /\ e.https = IF Launches(s) /\ s.version = 3 THEN 0 ELSE h.https
           /\ ~Launches(s) => /\ e.launcher = h.launcher
                              /\ e.runtimes = IF s.version = 1 /\ h.runtimes = Absent THEN 0
                                              ELSE h.runtimes
           /\ Launches(s) =>
                /\ e.launcher = IF h.launcher = Absent THEN s.launcher ELSE h.launcher
                /\ e.runtimes = Absent
      BY <2>12, VersionFacts
    <2> HIDE DEF e
    <2>14. /\ h.image = s.image /\ h.replicas = s.replicas /\ h.pull = s.pull
           /\ h.restart = d.restart
           /\ h.launcher = d.launcher /\ h.runtimes = d.runtimes /\ h.https = d.https
           /\ h.pvc = d.pvc /\ h.shared = d.shared
      BY <1>1, <2>10, <2>11 DEF Changes
    <2>15. /\ e.image = s.image /\ e.replicas = s.replicas /\ e.pull = s.pull
           /\ e.restart = d.restart /\ e.endpoint = h.endpoint /\ e.hsm = h.hsm /\ e \in Deployment
           /\ e.pvc = d.pvc /\ e.shared = d.shared
      BY <1>1, <2>13, <2>14 DEF Changes
    <2>16. Created(d, e, s)
      <3>1. /\ e.endpoint = IF UsingHSMProxy(s) /\ d.endpoint = Absent THEN s.endpoint ELSE d.endpoint
            /\ e.hsm = IF ~UsingHSMProxy(s) /\ IsHSMEnabled(s) /\ d.hsm = Absent THEN s.hsm ELSE d.hsm
        BY <2>10, <2>11, <2>15
      <3>2. CASE Launches(s)
        BY <2>13, <2>14, <2>15, <3>1, <3>2 DEF Created
      <3>3. CASE ~Launches(s)
        BY <2>13, <2>14, <2>15, <3>1, <3>3 DEF Created
      <3> QED BY <3>2, <3>3
    <2>17. PeerCreateDeployment(d, s, fresh, order) = e
      BY DEF PeerCreateDeployment, x, y, p, b, o, h, e
    <2> QED BY <2>16, <2>17
  <1>5. Updated(d, PeerUpdateDeployment(d, s), s)
    <2> DEFINE y == PeerCommonDeployment(d, s)
               v == IF s.version = 1 THEN V1Deployment(y)
                    ELSE V24Deployment(V2DeploymentUpdate(y, s), s)
               e == UpdateHSM(v, s)
    <2>1. Changes(d, y, {"image", "replicas", "address"}) /\ y.image = s.image /\ y.replicas = s.replicas
      BY <1>3
    <2> HIDE DEF y
    <2>2. y \in Deployment
      BY <2>1 DEF Changes
    <2>3. /\ Changes(y, v, {"launcher", "runtimes", "https"})
          /\ v.https = IF Launches(s) /\ s.version = 3 THEN 0 ELSE y.https
          /\ ~Launches(s) => /\ v.launcher = y.launcher
                             /\ v.runtimes = IF s.version = 1 /\ y.runtimes = Absent THEN 0
                                             ELSE y.runtimes
          /\ Launches(s) =>
               /\ v.launcher = s.launcher
               /\ v.runtimes = IF y.launcher = Absent THEN Absent ELSE y.runtimes
      BY <2>2, VersionFacts
    <2> HIDE DEF v
    <2>4. v \in Deployment
      BY <2>3 DEF Changes
    <2>5. /\ Changes(v, e, {"endpoint", "hsm"})
          /\ e.endpoint = IF UsingHSMProxy(s) THEN s.endpoint ELSE v.endpoint
          /\ e.hsm = IF ~UsingHSMProxy(s) /\ IsHSMEnabled(s) THEN s.hsm ELSE v.hsm
      BY <2>4, HSMFacts
    <2> HIDE DEF e
    <2>6. /\ v.image = s.image /\ v.replicas = s.replicas /\ v.pull = d.pull
          /\ v.restart = d.restart /\ v.endpoint = d.endpoint /\ v.hsm = d.hsm
          /\ y.launcher = d.launcher /\ y.runtimes = d.runtimes /\ y.https = d.https
          /\ v.pvc = d.pvc /\ v.shared = d.shared
      BY <1>1, <2>1, <2>3 DEF Changes
    <2>7. /\ e.image = s.image /\ e.replicas = s.replicas /\ e.pull = d.pull
          /\ e.restart = d.restart /\ e \in Deployment
          /\ e.launcher = v.launcher /\ e.runtimes = v.runtimes /\ e.https = v.https
          /\ e.pvc = d.pvc /\ e.shared = d.shared
      BY <1>1, <2>5, <2>6 DEF Changes
    <2>8. Launches(s) => ~(s.version = 1)
      BY SpecFacts DEF Launches, Launching
    <2>9. Updated(d, e, s)
      BY <2>3, <2>5, <2>6, <2>7, <2>8 DEF Updated
    <2>10. PeerUpdateDeployment(d, s) = e
      BY DEF PeerUpdateDeployment, y, v, e
    <2> QED BY <2>9, <2>10
  <1> QED BY <1>4, <1>5

\* GenerateRandomString: seven strings and at most six in use, so there is one.
LEMMA RandomFacts ==
    ASSUME TypeOK
    PROVE  Random \in 1..7
  <1> DEFINE U == {dep, cache.obj} \cup (IF worker = Idle THEN {} ELSE {worker.obj})
             P(n) == \A d \in U : n \notin {d.couchdb, d.credentials}
  <1>1. \E n \in 1..7 : P(n)
    <2> DEFINE o == IF worker = Idle THEN dep ELSE worker.obj
               v1 == dep.couchdb
               v2 == dep.credentials
               v3 == cache.obj.couchdb
               v4 == cache.obj.credentials
               v5 == o.couchdb
               v6 == o.credentials
    <2>1. U \subseteq {dep, cache.obj, o}
      OBVIOUS
    <2>2. \A n \in 1..7 : n \notin {v1, v2, v3, v4, v5, v6} => P(n)
      BY <2>1
    <2> HIDE DEF v1, v2, v3, v4, v5, v6, o, U
    <2>3. \E n \in 1..7 : n \notin {v1, v2, v3, v4, v5, v6}
      OBVIOUS
    <2> QED BY <2>2, <2>3
  <1>2. Random = CHOOSE n \in 1..7 : P(n)
    BY DEF Random
  <1> HIDE DEF P
  <1> QED BY <1>1, <1>2

\* Override.Deployment for any kind
LEMMA OverrideFacts ==
    ASSUME TypeOK, NEW d \in Deployment, NEW s \in Specs
    PROVE  /\ \A order \in Orders : Created(d, Create(d, s, Random, order), s)
           /\ Updated(d, Update(d, s), s)
  <1>1. Kind \in Kinds /\ setup.certs \in 1..2
    BY ConstantsOK DEF TypeOK, Kind
  <1>2. Random \in Int /\ 0 \in Int /\ \A order \in Orders : order \in Int
    BY <1>1, RandomFacts DEF Orders, Absent
  <1>3. CASE Kind = "ca"
    BY <1>3, CAFacts DEF Create, Update
  <1>4. CASE Kind = "orderer"
    BY <1>4, CAFacts DEF Create, Update
  <1>5. CASE Kind = "peer"
    BY <1>2, <1>5, PeerFacts DEF Create, Update
  <1> QED BY <1>1, <1>3, <1>4, <1>5 DEF Kinds

-----------------------------------------------------------------------------
(* The inductive invariant                                                 *)

\* None of the mishaps that SpecReached excepts
Clean == mishaps \cap {"conflict", "overwritten", "exists", "hidden", "database"} = {}

Patching == worker # Idle /\ worker.pc = "patch"

\* A copy that is of age 0 is the deployment.
CacheIsCurrent == cache.age = 0 => cache.obj = dep

\* What the deployment controller rolls out is there.
RolloutOfOne == rollout => dep # Nothing

\* The object that is held, the cache and the deployment.  Before the first try succeeds the
\* object has the restart annotation of the cached one that it was made from; after that it is
\* what was stored then.
HeldObject ==
    Patching =>
        /\ worker.tries > 0 /\ (cache.obj = Nothing => dep = Nothing)
        /\ ~worker.written =>
              /\ worker.age = 0 => cache.age = 0
              /\ worker.age = cache.age => worker.obj.restart = cache.obj.restart
        /\ worker.written =>
              /\ worker.age = 0 => worker.obj = dep
              /\ worker.age = cache.age => worker.obj = cache.obj

\* The annotation is the number of an event that has happened.
RestartsAreEvents == -1 <= dep.restart /\ dep.restart <= MaxEvents - events

\* A flagged update is in the queue, and a spec that was edited since it was read is flagged.
UpdateIsQueued == update => queue
ReadIsCurrent == worker # Idle /\ ~update => worker.inst = spec

\* Unless its database has changed, a CA has one kind of volume, and others have none.
Postgres(kind, s) == kind = "ca" /\ s.external

OneVolume(postgres, d) == IF postgres THEN d.pvc = Absent ELSE d.shared = Absent

VolumesAgree ==
    "database" \notin mishaps =>
        LET postgres == Postgres(setup.kind, setup.spec) IN
        /\ Postgres(setup.kind, spec) <=> postgres
        /\ OneVolume(postgres, dep) /\ OneVolume(postgres, cache.obj)
        /\ worker # Idle => (Postgres(setup.kind, worker.inst) <=> postgres)
        /\ Patching => OneVolume(postgres, worker.obj)

\* The fields that only UpdateDeployment changes once they are there, and whether they are as
\* the spec asks
Sticky == {"endpoint", "hsm", "launcher"}

Fits(kind, d, s) ==
    /\ UsingHSMProxy(s) => d.endpoint = s.endpoint
    /\ IsHSMEnabled(s) /\ ~UsingHSMProxy(s) => d.hsm = s.hsm
    /\ Launching(kind, s) => d.launcher = s.launcher

\* Revisions only grow: from the cache to the deployment to the spec.
RevisionsGrow ==
    Clean => \A f \in Sticky :
        /\ -1 <= dep[f] /\ dep[f] <= spec[f] /\ spec[f] <= MaxEvents - events
        /\ cache.obj[f] <= spec[f] /\ (dep # Nothing => cache.obj[f] <= dep[f])
        /\ worker # Idle =>
              /\ dep[f] <= worker.inst[f] /\ cache.obj[f] <= worker.inst[f]
              /\ worker.inst[f] <= spec[f]
        /\ Patching =>
              /\ worker.obj[f] <= worker.inst[f]
              /\ ~worker.written /\ worker.age = cache.age => cache.obj[f] <= worker.obj[f]

\* A reconcile is about to carry an update to the deployment.
Carrying ==
    /\ worker # Idle /\ worker.upd
    /\ worker.pc = "deployment" \/ (worker.pc = "patch" /\ worker.then = "check" /\ ~worker.written)

\* An update is flagged, or under way, or has arrived.
UpdatesArrive ==
    Clean /\ spec.wrong = "nothing" /\ dep # Nothing /\ ~update /\ ~Carrying => Fits(setup.kind, dep, spec)

\* What CreateDeployment sets in any case
Complete(kind, d, s) ==
    /\ d.image = s.image /\ d.replicas = s.replicas /\ d.pull = s.pull
    /\ Launching(kind, s) => d.runtimes = Absent /\ (s.version = 3 => d.https = 0)

\* Objects that are held for UpdateDeployment fit; those for RestoreState are complete and
\* change none of the sticky fields.
HeldIsWanted ==
    Patching /\ ~worker.written =>
        /\ worker.then = "check" => Fits(setup.kind, worker.obj, worker.inst)
        /\ worker.then = "idle" =>
              /\ Complete(setup.kind, worker.obj, worker.inst)
              /\ worker.age = cache.age =>
                    \A f \in Sticky : cache.obj[f] # Absent => worker.obj[f] = cache.obj[f]

\* A reconcile that has found no deployment has made one, or will be called again.
FoundOrMade ==
    /\ worker # Idle /\ worker.pc = "check" /\ ~queue /\ cache.obj = Nothing => cache.age > 0
    /\ worker # Idle /\ worker.pc = "restore" /\ ~queue => cache.obj # Nothing

\* When nothing is left to do, CheckState has found nothing, or RestoreState had nothing to patch.
Checked ==
    /\ Clean /\ spec.wrong = "nothing" /\ ~queue /\ cache.age = 0
    /\ worker = Idle \/ (Patching /\ worker.then = "idle" /\ worker.written)
    => dep # Nothing /\ Complete(setup.kind, dep, spec)

\* The inductive invariant: all of the above
IInv ==
    /\ TypeOK
    /\ CacheIsCurrent /\ RolloutOfOne /\ HeldObject /\ RestartsAreEvents
    /\ UpdateIsQueued /\ ReadIsCurrent /\ VolumesAgree
    /\ RevisionsGrow /\ UpdatesArrive /\ HeldIsWanted
    /\ FoundOrMade /\ Checked

-----------------------------------------------------------------------------
(* Steps of others: kubectl, restarts, the deployment controller           *)

\* A reconcile under way, and none
LEMMA WorkerFacts ==
    ASSUME TypeOK
    PROVE  /\ worker # Idle => worker \in Reconciling
           /\ worker = Idle => worker.pc = "idle"
           /\ worker.pc \in {"deployment", "patch", "check", "restore"} => worker # Idle
           /\ \A w \in Reconciling : w # Idle
  <1>1. \A w \in Reconciling : w.pc # "idle"
    BY DEF Reconciling
  <1>2. Idle.pc = "idle"
    BY DEF Idle
  <1> QED BY <1>1, <1>2 DEF TypeOK

\* The deployments, their fields and their ages
LEMMA TypeFacts ==
    ASSUME TypeOK
    PROVE  /\ dep \in Deployment /\ cache.obj \in Deployment /\ cache.age \in Nat
           /\ cache = [obj |-> cache.obj, age |-> cache.age]
           /\ Nothing \in Deployment /\ \A f \in Fields : Nothing[f] = Absent
           /\ Sticky \subseteq Fields /\ "restart" \in Fields /\ Absent \in Int
           /\ {"pvc", "shared"} \subseteq Fields
           /\ worker # Idle => /\ worker.inst \in Specs /\ worker.obj \in Deployment
                               /\ worker.age \in Nat /\ worker.tries \in 0..3
                               /\ worker.pc \in {"deployment", "patch", "check", "restore"}
                               /\ worker.then \in {"check", "idle"}
                               /\ worker.upd \in BOOLEAN /\ worker.written \in BOOLEAN
           /\ events \in Int /\ MaxEvents \in Int /\ events <= MaxEvents /\ 0 <= events
  BY WorkerFacts, ConstantsOK
  DEF TypeOK, Deployment, Nothing, Absent, Reconciling, Sticky, Fields

\* A write makes the object that is held older.
LEMMA OlderFacts ==
    ASSUME TypeOK, worker' = Older(worker)
    PROVE  /\ worker' = Idle <=> worker = Idle
           /\ worker # Idle =>
                /\ worker' \in Reconciling
                /\ worker'.pc = worker.pc /\ worker'.inst = worker.inst /\ worker'.upd = worker.upd
                /\ worker'.obj = worker.obj /\ worker'.age = worker.age + 1
                /\ worker'.tries = worker.tries /\ worker'.then = worker.then
                /\ worker'.written = worker.written
  <1>1. CASE worker = Idle
    BY <1>1 DEF Older
  <1>2. CASE worker # Idle
    <2>1. worker \in Reconciling /\ worker' = [worker EXCEPT !.age = @ + 1]
      BY <1>2, WorkerFacts DEF Older
    <2>2. worker.age + 1 \in Nat
      BY <2>1 DEF Reconciling
    <2>3. /\ worker' \in Reconciling
          /\ worker'.pc = worker.pc /\ worker'.inst = worker.inst /\ worker'.upd = worker.upd
          /\ worker'.obj = worker.obj /\ worker'.age = worker.age + 1
          /\ worker'.tries = worker.tries /\ worker'.then = worker.then
          /\ worker'.written = worker.written
      BY <2>1, <2>2 DEF Reconciling
    <2> QED BY <1>2, <2>3, WorkerFacts
  <1> QED BY <1>1, <1>2

\* Somebody else writes the deployment: the copies of it are older, and what the operator wants
\* of it is the same, or the deployment is gone.
LEMMA OutsideStep ==
    ASSUME IInv, UNCHANGED <<setup, spec, update, queue>>, worker' = Older(worker),
           cache' = [cache EXCEPT !.age = @ + 1],
           dep' \in Deployment, dep # Nothing, rollout' \in BOOLEAN, rollout' => dep' # Nothing,
           events' \in 0..MaxEvents, events' <= events,
           mishaps \subseteq mishaps', mishaps' \subseteq Mishaps,
           -1 <= dep'.restart, dep'.restart <= MaxEvents - events',
           dep'.pvc \in {dep.pvc, Absent}, dep'.shared \in {dep.shared, Absent},
           dep' = Nothing \/ (Clean' => \A f \in Sticky : dep'[f] = dep[f])
    PROVE  IInv'
  <1>1. TypeOK
    BY DEF IInv
  <1>2. cache'.obj = cache.obj /\ cache'.age = cache.age + 1 /\ cache'.age > 0
        /\ cache' \in [obj : Deployment, age : Nat]
    BY <1>1, TypeFacts
  <1>3. Clean' => Clean
    BY DEF Clean
  <1>4. TypeOK'
    BY <1>1, <1>2, OlderFacts DEF TypeOK, Deployment
  <1>5. CacheIsCurrent'
    BY <1>2, <1>1, TypeFacts DEF CacheIsCurrent
  <1>6. Patching' => Patching
    BY <1>1, OlderFacts DEF Patching
  <1>7. Patching => /\ worker'.obj = worker.obj /\ worker'.inst = worker.inst
                    /\ worker'.age = worker.age + 1 /\ worker'.tries = worker.tries
                    /\ worker'.then = worker.then /\ worker'.written = worker.written
                    /\ worker.age \in Nat /\ cache.age \in Nat
    BY <1>1, OlderFacts, TypeFacts DEF Patching
  <1>8. HeldObject'
    <2> SUFFICES ASSUME Patching'
                 PROVE  /\ worker'.tries > 0 /\ (cache'.obj = Nothing => dep' = Nothing)
                        /\ ~worker'.written =>
                              /\ worker'.age = 0 => cache'.age = 0
                              /\ worker'.age = cache'.age => worker'.obj.restart = cache'.obj.restart
                        /\ worker'.written =>
                              /\ worker'.age = 0 => worker'.obj = dep'
                              /\ worker'.age = cache'.age => worker'.obj = cache'.obj
      BY DEF HeldObject, Nothing
    <2>1. /\ worker.tries > 0 /\ cache.obj # Nothing
          /\ ~worker.written /\ worker.age = cache.age => worker.obj.restart = cache.obj.restart
          /\ worker.written /\ worker.age = cache.age => worker.obj = cache.obj
      BY <1>6 DEF IInv, HeldObject
    <2>2. worker'.age # 0 /\ (worker'.age = cache'.age => worker.age = cache.age)
      BY <1>2, <1>6, <1>7
    <2> QED BY <1>2, <1>6, <1>7, <2>1, <2>2
  <1>9. RestartsAreEvents'
    BY <1>1, TypeFacts DEF RestartsAreEvents
  <1>10. UpdateIsQueued' /\ ReadIsCurrent'
    BY <1>1, OlderFacts DEF IInv, UpdateIsQueued, ReadIsCurrent
  <1>11. VolumesAgree'
    BY <1>1, <1>2, <1>6, <1>7, OlderFacts DEF IInv, VolumesAgree, OneVolume
  <1>12. RevisionsGrow'
    <2> SUFFICES ASSUME Clean', NEW f \in Sticky
                 PROVE  /\ -1 <= dep'[f] /\ dep'[f] <= spec'[f] /\ spec'[f] <= MaxEvents - events'
                        /\ cache'.obj[f] <= spec'[f] /\ (dep' # Nothing => cache'.obj[f] <= dep'[f])
                        /\ worker' # Idle =>
                              /\ dep'[f] <= worker'.inst[f] /\ cache'.obj[f] <= worker'.inst[f]
                              /\ worker'.inst[f] <= spec'[f]
                        /\ Patching' =>
                              /\ worker'.obj[f] <= worker'.inst[f]
                              /\ ~worker'.written /\ worker'.age = cache'.age
                                    => cache'.obj[f] <= worker'.obj[f]
      BY DEF RevisionsGrow, Nothing
    <2>1. /\ -1 <= dep[f] /\ dep[f] <= spec[f] /\ spec[f] <= MaxEvents - events
          /\ cache.obj[f] <= spec[f] /\ cache.obj[f] <= dep[f]
          /\ worker # Idle => /\ dep[f] <= worker.inst[f] /\ cache.obj[f] <= worker.inst[f]
                              /\ worker.inst[f] <= spec[f]
          /\ Patching => /\ worker.obj[f] <= worker.inst[f]
                         /\ ~worker.written /\ worker.age = cache.age => cache.obj[f] <= worker.obj[f]
      BY <1>3 DEF IInv, RevisionsGrow
    <2>2. /\ dep[f] \in Int /\ dep'[f] \in Int /\ spec[f] \in Int
          /\ worker # Idle => worker.inst[f] \in Int
      BY <1>1, TypeFacts, SpecFacts DEF TypeOK, Deployment, Sticky
    <2>3. dep'[f] = dep[f] \/ (dep' = Nothing /\ dep'[f] = -1)
      BY <1>1, TypeFacts DEF Absent
    <2>4. -1 <= dep'[f] /\ dep'[f] <= dep[f]
      BY <2>1, <2>2, <2>3
    <2>5. dep'[f] <= spec[f] /\ (worker # Idle => dep'[f] <= worker.inst[f])
      BY <2>1, <2>2, <2>4
    <2>6. spec[f] <= MaxEvents - events'
      BY <1>1, <2>1, <2>2, TypeFacts
    <2>7. dep' # Nothing => cache.obj[f] <= dep'[f]
      BY <2>1, <2>3
    <2>8. Patching' => (worker'.age = cache'.age => worker.age = cache.age)
      BY <1>2, <1>6, <1>7
    <2> QED BY <1>1, <1>2, <1>6, <1>7, <2>1, <2>4, <2>5, <2>6, <2>7, <2>8, OlderFacts
  <1>13. Carrying' <=> Carrying
    BY <1>1, OlderFacts DEF Carrying
  <1>14. UpdatesArrive'
    <2> SUFFICES ASSUME Clean', spec.wrong = "nothing", dep' # Nothing, ~update, ~Carrying
                 PROVE  Fits(setup.kind, dep', spec)
      BY <1>13 DEF UpdatesArrive, Nothing
    <2>1. Fits(setup.kind, dep, spec)
      BY <1>3 DEF IInv, UpdatesArrive
    <2>2. dep'.endpoint = dep.endpoint /\ dep'.hsm = dep.hsm /\ dep'.launcher = dep.launcher
      BY DEF Sticky
    <2> QED BY <2>1, <2>2 DEF Fits
  <1>15. HeldIsWanted'
    <2>1. Patching' => (worker'.age = cache'.age => worker.age = cache.age)
      BY <1>2, <1>6, <1>7
    <2> QED BY <1>2, <1>6, <1>7, <2>1 DEF IInv, HeldIsWanted
  <1>16. FoundOrMade'
    BY <1>1, <1>2, OlderFacts DEF IInv, FoundOrMade, Nothing
  <1>17. Checked'
    BY <1>1, <1>2, TypeFacts DEF Checked
  <1>18. RolloutOfOne'
    BY DEF RolloutOfOne, Nothing
  <1> QED BY <1>4, <1>5, <1>8, <1>9, <1>10, <1>11, <1>12, <1>14, <1>15, <1>16, <1>17, <1>18 DEF IInv

\* Kubectl, KubectlDelete, Restart and RolloutStatus are such writes.
LEMMA OutsideSteps ==
    ASSUME IInv,
           \/ \E f \in {"replicas", "affinity", "launcher", "couchdb"} : Kubectl(f)
           \/ KubectlDelete \/ Restart \/ RolloutStatus
    PROVE  IInv'
  <1>1. TypeOK /\ rollout \in BOOLEAN /\ mishaps \subseteq Mishaps
    BY DEF IInv, TypeOK
  <1>2. -1 <= dep.restart /\ dep.restart <= MaxEvents - events /\ dep.restart \in Int
    BY <1>1, TypeFacts DEF IInv, RestartsAreEvents, Deployment
  <1>3. ASSUME NEW f \in {"replicas", "affinity", "launcher", "couchdb"}, Kubectl(f)
        PROVE  IInv'
    <2> DEFINE v == IF f = "couchdb" THEN Absent ELSE Rev
    <2>1. /\ dep' = [dep EXCEPT ![f] = v] /\ rollout' = (dep' # Nothing)
          /\ cache' = [cache EXCEPT !.age = @ + 1]
          /\ worker' = Older(worker) /\ UNCHANGED <<setup, spec, update, queue>>
          /\ events > 0 /\ events' = events - 1 /\ dep[f] # Absent
      BY <1>3 DEF Kubectl, Store, Event, Nothing
    <2>2. mishaps' = mishaps \cup If("hidden", f = "launcher") \cup If("removed", f = "couchdb")
      BY <1>3 DEF Kubectl, Note
    <2>3. f \in Fields /\ v \in Int
      BY <1>1, TypeFacts DEF Fields, Rev
    <2> HIDE DEF v
    <2>4. dep' \in Deployment /\ \A g \in Fields \ {f} : dep'[g] = dep[g]
      BY <1>1, <2>1, <2>3, TypeFacts DEF Deployment
    <2>5. dep # Nothing
      BY <1>1, <2>1, <2>3, TypeFacts
    <2>6. rollout' \in BOOLEAN
      BY <2>1, Zenon
    <2>7. mishaps \subseteq mishaps' /\ mishaps' \subseteq Mishaps
      BY <1>1, <2>2 DEF If, Mishaps
    <2>8. Clean' => f # "launcher"
      BY <2>2 DEF Clean, If
    <2>9. Clean' => \A g \in Sticky : dep'[g] = dep[g]
      BY <1>1, <2>4, <2>8, TypeFacts DEF Sticky
    <2>10. events' \in 0..MaxEvents /\ events' <= events /\ MaxEvents - events <= MaxEvents - events'
      BY <1>1, <2>1, TypeFacts
    <2>11. dep'.restart = dep.restart /\ dep'.pvc = dep.pvc /\ dep'.shared = dep.shared
      BY <1>1, <2>4, TypeFacts
    <2>12. dep'.restart <= MaxEvents - events'
      BY <1>1, <1>2, <2>10, <2>11, TypeFacts
    <2> QED BY <1>2, <2>1, <2>4, <2>5, <2>6, <2>7, <2>9, <2>10, <2>11, <2>12, OutsideStep
  <1>4. CASE KubectlDelete
    <2>1. /\ dep # Nothing /\ dep' = Nothing /\ rollout' = FALSE
          /\ cache' = [cache EXCEPT !.age = @ + 1]
          /\ worker' = Older(worker) /\ UNCHANGED <<setup, spec, update, queue, mishaps>>
          /\ events > 0 /\ events' = events - 1
      BY <1>4 DEF KubectlDelete, Store, Event
    <2>2. rollout' \in BOOLEAN
      BY <2>1, Zenon
    <2>3. events' \in 0..MaxEvents /\ events' <= events
      BY <1>1, <2>1, TypeFacts
    <2>4. /\ dep' \in Deployment /\ dep'.restart = -1 /\ dep'.pvc = Absent /\ dep'.shared = Absent
      BY <1>1, <2>1, TypeFacts DEF Absent
    <2>5. -1 <= dep'.restart /\ dep'.restart <= MaxEvents - events'
      BY <1>1, <2>3, <2>4, TypeFacts
    <2> QED BY <1>1, <2>1, <2>2, <2>3, <2>4, <2>5, OutsideStep
  <1>5. CASE Restart
    <2>1. /\ dep # Nothing /\ dep' = [dep EXCEPT !.restart = Rev] /\ rollout' = (dep' # Nothing)
          /\ cache' = [cache EXCEPT !.age = @ + 1]
          /\ worker' = Older(worker) /\ UNCHANGED <<setup, spec, update, queue, mishaps>>
          /\ events > 0 /\ events' = events - 1
      BY <1>5 DEF Restart, Store, Event, Nothing
    <2>2. rollout' \in BOOLEAN
      BY <2>1, Zenon
    <2>3. events' \in 0..MaxEvents /\ events' <= events /\ Rev \in Int /\ -1 <= Rev /\ Rev = MaxEvents - events'
      BY <1>1, <2>1, TypeFacts DEF Rev
    <2>4. /\ dep' \in Deployment /\ dep'.restart = Rev
          /\ \A g \in Fields \ {"restart"} : dep'[g] = dep[g]
      BY <1>1, <2>1, <2>3, TypeFacts DEF Deployment
    <2>5. dep'.pvc = dep.pvc /\ dep'.shared = dep.shared /\ \A g \in Sticky : dep'[g] = dep[g]
      BY <1>1, <2>4, TypeFacts DEF Sticky
    <2>6. -1 <= dep'.restart /\ dep'.restart <= MaxEvents - events'
      BY <2>3, <2>4
    <2> QED BY <1>1, <2>1, <2>2, <2>3, <2>4, <2>5, <2>6, OutsideStep
  <1>6. CASE RolloutStatus
    <2> dep # Nothing
      BY <1>6 DEF RolloutStatus, IInv, RolloutOfOne
    <2>1. /\ rollout' = FALSE /\ cache' = [cache EXCEPT !.age = @ + 1] /\ worker' = Older(worker)
          /\ UNCHANGED <<setup, spec, dep, update, queue, events, mishaps>>
      BY <1>6 DEF RolloutStatus, historyVars
    <2>2. rollout' \in BOOLEAN
      BY <2>1, Zenon
    <2>3. events \in 0..MaxEvents /\ events <= events
      BY <1>1, TypeFacts DEF TypeOK
    <2> QED BY <1>1, <1>2, <1>6, <2>1, <2>2, <2>3, TypeFacts, OutsideStep
  <1> QED BY <1>3, <1>4, <1>5, <1>6

-----------------------------------------------------------------------------
(* Edits and the cache                                                     *)

\* An edit makes a spec whose revisions are not older.
LEMMA EditFacts ==
    ASSUME TypeOK, NEW f \in Edits[Kind], Edit(f)
    PROVE  /\ spec' \in Specs
           /\ events > 0 /\ events' = events - 1
           /\ \A g \in Sticky : spec'[g] = spec[g] \/ spec'[g] = MaxEvents - events'
           /\ spec'.external = spec.external \/ f = "external"
  <1>1. PICK v \in EditedTo(f) : spec' = [spec EXCEPT ![f] = v]
    BY DEF Edit
  <1>2. events > 0 /\ events' = events - 1
    BY DEF Edit, Event
  <1>3. Rev \in Revs /\ Rev = MaxEvents - events' /\ Rev \in Int
    BY <1>2, TypeFacts DEF Rev, Revs
  <1>4. f \in {"image", "pull", "affinity", "address", "endpoint", "hsm", "launcher", "version",
               "external", "wrong"}
    <2>1. Kind \in Kinds
      BY ConstantsOK DEF TypeOK, Kind
    <2> QED BY <2>1, ConstantsOK
  <1>5. spec \in Specs
    BY DEF TypeOK
  <1>6. CASE f = "version"
    <2>1. v \in 1..3
      BY <1>5, <1>6 DEF EditedTo, Specs
    <2> QED BY <1>1, <1>2, <1>5, <1>6, <2>1 DEF Specs, Sticky
  <1>7. CASE f = "external"
    <2>1. v \in BOOLEAN
      <3>1. v = ~spec.external
        BY <1>7 DEF EditedTo
      <3> QED BY <3>1, Zenon
    <2> QED BY <1>1, <1>2, <1>5, <1>7, <2>1 DEF Specs, Sticky
  <1>8. CASE f = "wrong"
    <2>1. v \in {"nothing", "license", "replicas"}
      BY <1>8 DEF EditedTo
    <2> QED BY <1>1, <1>2, <1>5, <1>8, <2>1 DEF Specs, Sticky
  <1>9. CASE f \notin {"version", "external", "wrong"}
    <2>1. v = Rev
      BY <1>4, <1>9 DEF EditedTo
    <2>2. spec' \in Specs
      BY <1>1, <1>3, <1>4, <1>5, <1>9, <2>1 DEF Specs
    <2>3. \A g \in Sticky : spec'[g] = spec[g] \/ spec'[g] = Rev
      BY <1>1, <1>5, <2>1 DEF Specs, Sticky
    <2>4. spec'.external = spec.external
      BY <1>1, <1>5, <1>9 DEF Specs
    <2> QED BY <1>2, <1>3, <2>2, <2>3, <2>4
  <1> QED BY <1>6, <1>7, <1>8, <1>9

\* Edit: the update is flagged.
LEMMA EditStep ==
    ASSUME IInv, NEW f \in Edits[Kind], Edit(f)
    PROVE  IInv'
  <1>1. TypeOK
    BY DEF IInv
  <1>2. /\ update' = TRUE /\ queue' = TRUE /\ UNCHANGED <<setup, dep, cache, rollout, worker>>
        /\ mishaps' = mishaps \cup (If("database", Kind = "ca" /\ f = "external")
               \cup If("todatabase", Kind = "peer" /\ f = "external" /\ ~spec.external)
               \cup If("tohsm", f = "hsm" /\ spec.hsm = Absent))
    BY DEF Edit, Note
  <1>3. mishaps \subseteq mishaps' /\ mishaps' \subseteq Mishaps /\ (Clean' => Clean)
        /\ ("database" \notin mishaps' => ~(Kind = "ca" /\ f = "external"))
    BY <1>1, <1>2 DEF If, Mishaps, Clean, TypeOK
  <1>4. /\ spec' \in Specs /\ events \in Int /\ MaxEvents \in Int
        /\ events > 0 /\ events' = events - 1
        /\ \A g \in Sticky : spec'[g] = spec[g] \/ spec'[g] = MaxEvents - events'
        /\ spec'.external = spec.external \/ f = "external"
    BY <1>1, EditFacts, TypeFacts
  <1>5. TypeOK'
    <2>1. update' \in BOOLEAN /\ queue' \in BOOLEAN
      BY <1>2, Zenon
    <2>2. events' \in 0..MaxEvents
      BY <1>1, <1>4, TypeFacts
    <2> QED BY <1>1, <1>2, <1>3, <1>4, <2>1, <2>2 DEF TypeOK
  <1>6. CacheIsCurrent' /\ RolloutOfOne' /\ HeldObject'
    BY <1>2 DEF IInv, CacheIsCurrent, RolloutOfOne, HeldObject, Patching, Nothing
  <1>7. RestartsAreEvents'
    BY <1>1, <1>2, <1>4, TypeFacts DEF IInv, RestartsAreEvents, Deployment
  <1>8. UpdateIsQueued' /\ ReadIsCurrent' /\ UpdatesArrive' /\ Checked'
    BY <1>2 DEF UpdateIsQueued, ReadIsCurrent, UpdatesArrive, Checked
  <1>9. VolumesAgree'
    BY <1>2, <1>3, <1>4 DEF IInv, VolumesAgree, Postgres, Kind, Patching
  <1>10. RevisionsGrow'
    <2> SUFFICES ASSUME Clean', NEW g \in Sticky
                 PROVE  /\ -1 <= dep[g] /\ dep[g] <= spec'[g] /\ spec'[g] <= MaxEvents - events'
                        /\ cache.obj[g] <= spec'[g] /\ (dep # Nothing => cache.obj[g] <= dep[g])
                        /\ worker # Idle =>
                              /\ dep[g] <= worker.inst[g] /\ cache.obj[g] <= worker.inst[g]
                              /\ worker.inst[g] <= spec'[g]
                        /\ Patching =>
                              /\ worker.obj[g] <= worker.inst[g]
                              /\ ~worker.written /\ worker.age = cache.age
                                    => cache.obj[g] <= worker.obj[g]
      BY <1>2 DEF RevisionsGrow, Nothing, Patching
    <2>1. /\ -1 <= dep[g] /\ dep[g] <= spec[g] /\ spec[g] <= MaxEvents - events
          /\ cache.obj[g] <= spec[g] /\ (dep # Nothing => cache.obj[g] <= dep[g])
          /\ worker # Idle => /\ dep[g] <= worker.inst[g] /\ cache.obj[g] <= worker.inst[g]
                              /\ worker.inst[g] <= spec[g]
          /\ Patching => /\ worker.obj[g] <= worker.inst[g]
                         /\ ~worker.written /\ worker.age = cache.age => cache.obj[g] <= worker.obj[g]
      BY <1>3 DEF IInv, RevisionsGrow
    <2>2. /\ dep[g] \in Int /\ spec[g] \in Int /\ spec'[g] \in Int /\ cache.obj[g] \in Int
          /\ worker # Idle => worker.inst[g] \in Int
      BY <1>1, <1>4, TypeFacts, SpecFacts DEF TypeOK, Deployment, Sticky
    <2>3. spec[g] <= spec'[g] /\ spec'[g] <= MaxEvents - events'
      BY <1>4, <2>1, <2>2
    <2> QED BY <2>1, <2>2, <2>3
  <1>11. HeldIsWanted' /\ FoundOrMade'
    BY <1>2 DEF IInv, HeldIsWanted, FoundOrMade, Patching, Nothing
  <1> QED BY <1>5, <1>6, <1>7, <1>8, <1>9, <1>10, <1>11 DEF IInv

\* CacheSync: the cache is the deployment, and a reconcile will follow.
LEMMA SyncStep ==
    ASSUME IInv, CacheSync
    PROVE  IInv'
  <1>1. TypeOK
    BY DEF IInv
  <1>2. /\ cache' = [obj |-> dep, age |-> 0] /\ queue' = TRUE /\ cache.age > 0
        /\ UNCHANGED <<setup, spec, dep, rollout, update, worker, events, mishaps>>
    BY DEF CacheSync, historyVars
  <1>3. cache'.obj = dep /\ cache'.age = 0
    BY <1>2
  <1>4. TypeOK'
    <2>1. queue' \in BOOLEAN
      BY <1>2, Zenon
    <2>2. cache' \in [obj : [Fields -> Int], age : Nat]
      BY <1>1, <1>2 DEF TypeOK
    <2> QED BY <1>1, <1>2, <2>1, <2>2 DEF TypeOK
  <1>5. CacheIsCurrent' /\ RolloutOfOne' /\ RestartsAreEvents'
    BY <1>2, <1>3 DEF IInv, CacheIsCurrent, RolloutOfOne, RestartsAreEvents, Nothing
  <1>6. Patching => (worker.age = 0 => worker.written)
    BY <1>1, <1>2, TypeFacts DEF IInv, HeldObject, Patching
  <1>7. HeldObject'
    BY <1>2, <1>3, <1>6 DEF IInv, HeldObject, Patching, Nothing
  <1>8. UpdateIsQueued' /\ ReadIsCurrent' /\ UpdatesArrive'
    BY <1>2 DEF IInv, UpdateIsQueued, ReadIsCurrent, UpdatesArrive, Carrying, Clean, Nothing
  <1>9. VolumesAgree'
    BY <1>2, <1>3 DEF IInv, VolumesAgree, Patching
  <1>10. RevisionsGrow'
    <2>1. \A g \in Sticky : dep[g] \in Int
      BY <1>1, TypeFacts DEF Deployment
    <2> QED BY <1>2, <1>3, <1>6, <2>1 DEF IInv, RevisionsGrow, Patching, Clean, Nothing
  <1>11. HeldIsWanted'
    BY <1>2, <1>3, <1>6 DEF IInv, HeldIsWanted, Patching
  <1>12. FoundOrMade' /\ Checked'
    BY <1>2 DEF FoundOrMade, Checked
  <1> QED BY <1>4, <1>5, <1>7, <1>8, <1>9, <1>10, <1>11, <1>12 DEF IInv

-----------------------------------------------------------------------------
(* Steps of a reconcile                                                    *)

\* A step of the reconcile that leaves the deployment alone and does not hold an object after it:
\* what is left to show is that no update is given up and that the reconcile may end.
LEMMA LeaveStep ==
    ASSUME IInv, UNCHANGED <<setup, spec, dep, rollout>>,
           cache' = cache \/ cache' = [obj |-> dep, age |-> 0],
           events' \in 0..MaxEvents, events' <= events,
           mishaps \subseteq mishaps', mishaps' \subseteq Mishaps,
           update' \in BOOLEAN, queue' \in BOOLEAN, update => update', update' => queue',
           \/ worker' = Idle
           \/ /\ worker # Idle /\ worker' \in Reconciling /\ worker'.inst = worker.inst
              /\ worker'.pc \in {"check", "restore"},
           Clean' /\ spec.wrong = "nothing" /\ dep # Nothing /\ ~update' => ~Carrying,
           FoundOrMade', Checked'
    PROVE  IInv'
  <1>1. TypeOK
    BY DEF IInv
  <1>2. Clean' => Clean
    BY DEF Clean
  <1>3. ~Patching'
    BY <1>1, WorkerFacts DEF Patching
  <1>4. /\ cache' \in [obj : [Fields -> Int], age : Nat]
        /\ cache'.obj = cache.obj \/ cache'.obj = dep
        /\ cache'.age = 0 => cache'.obj = dep
    BY <1>1, TypeFacts DEF IInv, CacheIsCurrent, TypeOK
  <1>5. worker' # Idle => worker # Idle /\ worker'.inst = worker.inst
    OBVIOUS
  <1>6. TypeOK'
    BY <1>1, <1>4 DEF TypeOK
  <1>7. CacheIsCurrent' /\ RolloutOfOne' /\ HeldObject' /\ HeldIsWanted'
    BY <1>3, <1>4 DEF IInv, CacheIsCurrent, RolloutOfOne, HeldObject, HeldIsWanted, Nothing
  <1>8. RestartsAreEvents'
    BY <1>1, TypeFacts DEF IInv, RestartsAreEvents, Deployment
  <1>9. UpdateIsQueued' /\ ReadIsCurrent'
    BY <1>5 DEF IInv, UpdateIsQueued, ReadIsCurrent
  <1>10. VolumesAgree'
    BY <1>3, <1>4, <1>5 DEF IInv, VolumesAgree
  <1>11. RevisionsGrow'
    <2> SUFFICES ASSUME Clean', NEW g \in Sticky
                 PROVE  /\ -1 <= dep[g] /\ dep[g] <= spec[g] /\ spec[g] <= MaxEvents - events'
                        /\ cache'.obj[g] <= spec[g] /\ (dep # Nothing => cache'.obj[g] <= dep[g])
                        /\ worker' # Idle =>
                              /\ dep[g] <= worker'.inst[g] /\ cache'.obj[g] <= worker'.inst[g]
                              /\ worker'.inst[g] <= spec[g]
      BY <1>3 DEF RevisionsGrow, Nothing
    <2>1. /\ -1 <= dep[g] /\ dep[g] <= spec[g] /\ spec[g] <= MaxEvents - events
          /\ cache.obj[g] <= spec[g] /\ (dep # Nothing => cache.obj[g] <= dep[g])
          /\ worker # Idle => /\ dep[g] <= worker.inst[g] /\ cache.obj[g] <= worker.inst[g]
                              /\ worker.inst[g] <= spec[g]
      BY <1>2 DEF IInv, RevisionsGrow
    <2>2. dep[g] \in Int /\ spec[g] \in Int
      BY <1>1, TypeFacts, SpecFacts DEF TypeOK, Deployment, Sticky
    <2>3. spec[g] <= MaxEvents - events'
      BY <1>1, <2>1, <2>2, TypeFacts
    <2> QED BY <1>4, <1>5, <2>1, <2>2, <2>3
  <1>12. UpdatesArrive'
    BY <1>2 DEF IInv, UpdatesArrive, Nothing
  <1> QED BY <1>6, <1>7, <1>8, <1>9, <1>10, <1>11, <1>12 DEF IInv

\* Start: the spec is read, the flag is taken.
LEMMA StartStep ==
    ASSUME IInv, Start
    PROVE  IInv'
  <1>1. TypeOK /\ update \in BOOLEAN /\ spec \in Specs
    BY DEF IInv, TypeOK
  <1>2. /\ worker = Idle /\ queue' = FALSE /\ update' = FALSE
        /\ UNCHANGED <<setup, spec, dep, cache, rollout, events, mishaps>>
        /\ worker' = [pc |-> "deployment", inst |-> spec, upd |-> update, obj |-> Nothing, age |-> 0,
                      tries |-> 0, then |-> "check", written |-> FALSE]
    BY DEF Start, outside, historyVars
  <1>3. /\ worker'.pc = "deployment" /\ worker'.inst = spec /\ worker'.upd = update
        /\ worker' \in Reconciling /\ worker' # Idle
    <2>1. Nothing \in [Fields -> Int] /\ 0 \in Nat /\ 0 \in 0..3
      BY <1>1, TypeFacts DEF Deployment
    <2>2. FALSE \in BOOLEAN
      BY Zenon
    <2>3. worker' \in Reconciling
      BY <1>1, <1>2, <2>1, <2>2 DEF Reconciling
    <2> QED BY <1>1, <1>2, <2>3, WorkerFacts
  <1>4. TypeOK'
    <2>1. update' \in BOOLEAN /\ queue' \in BOOLEAN
      BY <1>2, Zenon
    <2> QED BY <1>1, <1>2, <1>3, <2>1 DEF TypeOK
  <1>5. ~Patching' /\ (Clean' <=> Clean)
    BY <1>2, <1>3 DEF Patching, Clean
  <1>6. CacheIsCurrent' /\ RolloutOfOne' /\ HeldObject' /\ HeldIsWanted' /\ RestartsAreEvents'
    BY <1>2, <1>5 DEF IInv, CacheIsCurrent, RolloutOfOne, HeldObject, HeldIsWanted,
                      RestartsAreEvents, Nothing
  <1>7. UpdateIsQueued' /\ ReadIsCurrent'
    BY <1>2, <1>3 DEF UpdateIsQueued, ReadIsCurrent
  <1>8. VolumesAgree'
    BY <1>2, <1>3, <1>5 DEF IInv, VolumesAgree
  <1>9. RevisionsGrow'
    <2>1. \A g \in Sticky : spec[g] \in Int
      BY <1>1, SpecFacts DEF Sticky
    <2> QED BY <1>2, <1>3, <1>5, <2>1 DEF IInv, RevisionsGrow, Nothing
  <1>10. UpdatesArrive'
    <2>1. update => Carrying'
      BY <1>2, <1>3 DEF Carrying
    <2>2. ~Carrying
      BY <1>2 DEF Carrying
    <2> QED BY <1>2, <1>5, <2>1, <2>2 DEF IInv, UpdatesArrive, Nothing
  <1>11. FoundOrMade' /\ Checked'
    BY <1>2, <1>3, <1>5 DEF FoundOrMade, Checked
  <1> QED BY <1>4, <1>6, <1>7, <1>8, <1>9, <1>10, <1>11 DEF IInv

\* Refused: a spec that is refused is wrong, or has been edited since.
LEMMA RefusedStep ==
    ASSUME IInv, Refused
    PROVE  IInv'
  <1>1. TypeOK
    BY DEF IInv
  <1>2. /\ worker' = Idle
        /\ UNCHANGED <<setup, spec, dep, cache, rollout, update, queue, events, mishaps>>
        /\ worker.pc \in {"deployment", "check"} /\ worker.inst.wrong # "nothing"
    BY DEF Refused, outside, historyVars, CreateRefuses, UpdateRefuses, At
  <1>3. worker # Idle /\ (spec.wrong = "nothing" => update)
    BY <1>1, <1>2, WorkerFacts DEF IInv, ReadIsCurrent
  <1>4. spec.wrong = "nothing" => queue
    BY <1>3 DEF IInv, UpdateIsQueued
  <1>5. FoundOrMade' /\ Checked'
    BY <1>2, <1>4 DEF FoundOrMade, Checked
  <1>6. events \in 0..MaxEvents /\ events <= events /\ mishaps \subseteq Mishaps
        /\ update \in BOOLEAN /\ queue \in BOOLEAN
    BY <1>1, TypeFacts DEF TypeOK
  <1> QED BY <1>2, <1>3, <1>5, <1>6, LeaveStep DEF IInv, UpdateIsQueued

\* Panic: the update is found again after the restart.
LEMMA PanicStep ==
    ASSUME IInv, Panic
    PROVE  IInv'
  <1>1. TypeOK
    BY DEF IInv
  <1>2. /\ worker' = Idle /\ update' = TRUE /\ queue' = TRUE
        /\ cache' = [obj |-> dep, age |-> 0] /\ mishaps' = mishaps \cup {"panicked"}
        /\ UNCHANGED <<setup, spec, dep, rollout, events>>
    BY DEF Panic, Note
  <1>3. FoundOrMade' /\ Checked'
    BY <1>2 DEF FoundOrMade, Checked
  <1>4. events \in 0..MaxEvents /\ events <= events
    BY <1>1, TypeFacts DEF TypeOK
  <1>5. mishaps' \subseteq Mishaps /\ mishaps \subseteq mishaps'
    BY <1>1, <1>2 DEF TypeOK, Mishaps
  <1>6. update' \in BOOLEAN /\ queue' \in BOOLEAN
    BY <1>2, Zenon
  <1> QED BY <1>2, <1>3, <1>4, <1>5, <1>6, LeaveStep

-----------------------------------------------------------------------------
(* The patch                                                               *)

\* What a merge patch makes of the deployment: a field is the held one, or as it was because the
\* patch does not mention it.
LEMMA PatchedFacts ==
    ASSUME TypeOK, NEW into \in Deployment, NEW obj \in Deployment, NEW new, new = Patched(into, obj)
    PROVE  /\ new \in Deployment
           /\ \A f \in Fields : new[f] = obj[f] \/ (new[f] = dep[f] /\ into[f] = obj[f])
           /\ into = dep => new = obj
           /\ obj = dep \/ obj = into => new = dep
           /\ into.restart = obj.restart => new.restart = dep.restart
  <1>1. dep \in Deployment /\ "restart" \in Fields
    BY TypeFacts
  <1> DEFINE differs == {f \in Fields : into[f] # obj[f]}
             list == IF differs \cap Containers # {} THEN Containers ELSE {}
  <1>2. new = [f \in Fields |-> IF f \in differs \cup list THEN obj[f] ELSE dep[f]]
    BY DEF Patched
  <1>3. "restart" \notin list
    BY DEF Containers
  <1>4. obj = into => differs = {} /\ list = {}
    OBVIOUS
  <1>5. new \in Deployment
    BY <1>1, <1>2 DEF Deployment
  <1>6. \A f \in Fields : new[f] = IF f \in differs \cup list THEN obj[f] ELSE dep[f]
    BY <1>2
  <1>7. \A f \in Fields : f \notin differs => into[f] = obj[f]
    OBVIOUS
  <1> HIDE DEF list
  <1>8. into = dep => new = obj
    <2> SUFFICES ASSUME into = dep PROVE \A f \in Fields : new[f] = obj[f]
      BY <1>5 DEF Deployment
    <2> QED BY <1>6, <1>7
  <1>9. obj = dep \/ obj = into => new = dep
    <2> SUFFICES ASSUME obj = dep \/ obj = into PROVE \A f \in Fields : new[f] = dep[f]
      BY <1>1, <1>5 DEF Deployment
    <2> QED BY <1>4, <1>6
  <1>10. into.restart = obj.restart => new.restart = dep.restart
    BY <1>1, <1>3, <1>6
  <1> QED BY <1>5, <1>6, <1>7, <1>8, <1>9, <1>10

\* PatchError: the update is given up only if there is nothing to patch any more.
LEMMA ErrorStep ==
    ASSUME IInv, PatchError
    PROVE  IInv'
  <1>1. TypeOK
    BY DEF IInv
  <1>2. /\ worker' = Idle /\ queue' = TRUE /\ worker.pc = "patch"
        /\ UNCHANGED <<setup, spec, dep, cache, rollout, update, events, mishaps>>
        /\ dep = Nothing \/ cache.obj = Nothing \/ Invalid(Patched(cache.obj, worker.obj))
    BY DEF PatchError, outside, historyVars, At
  <1>3. Patching
    BY <1>1, <1>2, WorkerFacts DEF Patching
  <1>4. Clean /\ dep # Nothing => FALSE
    <2> SUFFICES ASSUME Clean, dep # Nothing PROVE FALSE
      OBVIOUS
    <2> DEFINE new == Patched(cache.obj, worker.obj)
               postgres == Postgres(setup.kind, setup.spec)
    <2>1. OneVolume(postgres, dep) /\ OneVolume(postgres, worker.obj)
      BY <1>3 DEF IInv, VolumesAgree, Clean
    <2>2. Invalid(new)
      BY <1>2, <1>3 DEF IInv, HeldObject
    <2>3. \A f \in {"pvc", "shared"} : new[f] = worker.obj[f] \/ new[f] = dep[f]
      BY <1>1, <1>3, TypeFacts, PatchedFacts DEF Patching
    <2> HIDE DEF new, postgres
    <2> QED BY <2>1, <2>2, <2>3 DEF Invalid, OneVolume
  <1>5. FoundOrMade' /\ Checked'
    BY <1>2 DEF FoundOrMade, Checked
  <1>6. queue' \in BOOLEAN
    BY <1>2, Zenon
  <1>7. events \in 0..MaxEvents /\ events <= events /\ mishaps \subseteq Mishaps /\ update \in BOOLEAN
    BY <1>1, TypeFacts DEF TypeOK
  <1>8. Clean' <=> Clean
    BY <1>2 DEF Clean
  <1> QED BY <1>2, <1>4, <1>5, <1>6, <1>7, <1>8, LeaveStep

-----------------------------------------------------------------------------
(* CheckState and RestoreState                                             *)

\* What CreateDeployment would not change is complete.
LEMMA NoDifferences ==
    ASSUME NEW d \in Deployment, NEW e, NEW s \in Specs, Created(d, e, s), ~ignoreDifferences(d, e)
    PROVE  Complete(Kind, d, s)
  <1>1. \A f \in {"image", "replicas", "pull", "runtimes", "https"} : d[f] = e[f]
    BY DEF ignoreDifferences, Fields
  <1> QED BY <1>1 DEF Created, Complete, Launches

\* CheckState: the reconcile ends if the deployment in the cache is as CreateDeployment wants it.
LEMMA CheckStep ==
    ASSUME IInv, CheckState
    PROVE  IInv'
  <1>1. TypeOK
    BY DEF IInv
  <1>2. /\ worker.pc = "check" /\ UNCHANGED <<setup, spec, dep, cache, rollout, update, queue>>
    BY DEF CheckState, outside, At
  <1>3. worker # Idle /\ worker \in Reconciling /\ ~Carrying
    BY <1>1, <1>2, WorkerFacts DEF Carrying
  <1>4. queue \in BOOLEAN /\ update \in BOOLEAN /\ (update => queue) /\ mishaps \subseteq Mishaps
    BY DEF IInv, TypeOK, UpdateIsQueued
  <1>5. CASE cache.obj = Nothing
    <2>1. worker' = Idle /\ UNCHANGED <<events, mishaps>>
      BY <1>5 DEF CheckState, historyVars
    <2>2. FoundOrMade'
      BY <2>1 DEF FoundOrMade
    <2>3. Checked'
      BY <1>1, <1>2, <1>3, <1>5, <2>1, TypeFacts DEF IInv, FoundOrMade, Checked
    <2>4. events' \in 0..MaxEvents /\ events' <= events
      BY <1>1, <2>1, TypeFacts DEF TypeOK
    <2> QED BY <1>2, <1>3, <1>4, <2>1, <2>2, <2>3, <2>4, LeaveStep
  <1>6. CASE cache.obj # Nothing
    <2> DEFINE s == worker.inst
               New(order) == Create(cache.obj, s, Random, order)
    <2>1. PICK order \in Orders :
             /\ IF order = cache.obj.rootcerts THEN UNCHANGED <<events, mishaps>>
                ELSE Event /\ UNCHANGED mishaps
             /\ IF ignoreDifferences(cache.obj, New(order)) THEN Goto("restore") ELSE worker' = Idle
      BY <1>6 DEF CheckState, historyVars
    <2>2. mishaps' = mishaps /\ events' \in 0..MaxEvents /\ events' <= events
      <3>1. mishaps' = mishaps /\ (events' = events \/ (events > 0 /\ events' = events - 1))
        BY <2>1 DEF Event
      <3> QED BY <1>1, <3>1, TypeFacts
    <2>3. s \in Specs /\ cache.obj \in Deployment
      BY <1>1, <1>3, TypeFacts
    <2>4. Created(cache.obj, New(order), s)
      BY <1>1, <2>3, OverrideFacts
    <2> HIDE DEF New
    <2>5. CASE ignoreDifferences(cache.obj, New(order))
      <3>1. worker' = [worker EXCEPT !.pc = "restore"]
        BY <2>1, <2>5 DEF Goto
      <3>2. worker' \in Reconciling /\ worker'.inst = worker.inst /\ worker'.pc = "restore"
        BY <1>3, <3>1 DEF Reconciling
      <3>3. FoundOrMade'
        BY <1>2, <1>6, <3>2 DEF FoundOrMade, Nothing
      <3>4. worker' # Idle
        BY <1>1, <3>2, WorkerFacts
      <3>5. Checked'
        BY <3>2, <3>4 DEF Checked, Patching
      <3> QED BY <1>2, <1>3, <1>4, <2>2, <3>2, <3>3, <3>5, LeaveStep
    <2>6. CASE ~ignoreDifferences(cache.obj, New(order))
      <3>1. worker' = Idle
        BY <2>1, <2>6
      <3>2. Complete(Kind, cache.obj, s)
        BY <2>3, <2>4, <2>6, NoDifferences
      <3>3. FoundOrMade'
        BY <3>1 DEF FoundOrMade
      <3>4. ~queue => s = spec
        BY <1>3, <1>4 DEF IInv, ReadIsCurrent
      <3>5. cache.age = 0 => cache.obj = dep
        BY DEF IInv, CacheIsCurrent
      <3>6. Checked'
        BY <1>2, <1>6, <3>1, <3>2, <3>4, <3>5 DEF Checked, Kind, Nothing
      <3> QED BY <1>2, <1>3, <1>4, <2>2, <3>1, <3>3, <3>6, LeaveStep
    <2> QED BY <2>5, <2>6
  <1> QED BY <1>5, <1>6

\* A reconcile holds an object made from the cached one: for UpdateDeployment, which sets what
\* the spec asks, or for RestoreState, which adds what is missing.
LEMMA HoldStep ==
    ASSUME IInv, UNCHANGED <<setup, spec, dep, cache, rollout, update, queue, events, mishaps>>,
           worker # Idle, cache.obj # Nothing, NEW obj, NEW tries \in 1..3, NEW then,
           Hold(obj, tries, then),
           \/ /\ then = "check" /\ worker.pc = "deployment" /\ worker.upd
              /\ Updated(cache.obj, obj, worker.inst)
           \/ /\ then = "idle" /\ worker.pc = "restore"
              /\ Created(cache.obj, obj, worker.inst)
    PROVE  IInv'
  <1> DEFINE s == worker.inst
             c == cache.obj
  <1>1. TypeOK
    BY DEF IInv
  <1>2. worker \in Reconciling /\ obj \in Deployment /\ then \in {"check", "idle"} /\ s \in Specs
    BY <1>1, TypeFacts, WorkerFacts DEF Created, Updated
  <1>3. /\ worker' \in Reconciling /\ worker'.pc = "patch" /\ worker'.obj = obj
        /\ worker'.age = cache.age /\ worker'.tries = tries /\ worker'.then = then
        /\ worker'.written = FALSE /\ worker'.inst = s /\ worker'.upd = worker.upd
    <2>1. worker' = [worker EXCEPT !.pc = "patch", !.obj = obj, !.age = cache.age, !.tries = tries,
                                   !.then = then, !.written = FALSE]
      BY DEF Hold
    <2>2. FALSE \in BOOLEAN
      BY Zenon
    <2>3. cache.age \in Nat /\ tries \in 0..3
      BY <1>1, TypeFacts
    <2> QED BY <1>2, <2>1, <2>2, <2>3 DEF Reconciling, Deployment
  <1>4. worker' # Idle /\ Patching' /\ ~Patching
    BY <1>1, <1>3, WorkerFacts DEF Patching
  <1>5. Clean' <=> Clean
    BY DEF Clean
  <1>6. TypeOK'
    BY <1>1, <1>3 DEF TypeOK
  <1>7. CacheIsCurrent' /\ RolloutOfOne' /\ RestartsAreEvents' /\ UpdateIsQueued'
    BY DEF IInv, CacheIsCurrent, RolloutOfOne, RestartsAreEvents, UpdateIsQueued, Nothing
  <1>8. HeldObject'
    <2>1. obj.restart = c.restart
      BY DEF Created, Updated
    <2> QED BY <1>3, <2>1 DEF HeldObject, Nothing
  <1>9. ReadIsCurrent'
    BY <1>3 DEF IInv, ReadIsCurrent
  <1>10. VolumesAgree'
    <2> SUFFICES ASSUME "database" \notin mishaps
                 PROVE  /\ (Postgres(setup.kind, s) <=> Postgres(setup.kind, setup.spec))
                        /\ OneVolume(Postgres(setup.kind, setup.spec), obj)
      BY <1>3 DEF IInv, VolumesAgree
    <2>1. /\ (Postgres(setup.kind, s) <=> Postgres(setup.kind, setup.spec))
          /\ OneVolume(Postgres(setup.kind, setup.spec), c)
      BY DEF IInv, VolumesAgree
    <2>2. IsPostgres(s) <=> Postgres(setup.kind, s)
      BY DEF IsPostgres, Postgres, Kind
    <2> QED BY <2>1, <2>2 DEF OneVolume, Created, Updated
  <1>11. \A g \in Sticky : obj[g] = c[g] \/ obj[g] = s[g]
    BY DEF Created, Updated, Sticky
  <1>12. RevisionsGrow'
    <2> SUFFICES ASSUME Clean, NEW g \in Sticky
                 PROVE  obj[g] <= s[g] /\ c[g] <= obj[g]
      BY <1>3, <1>5 DEF IInv, RevisionsGrow, Nothing
    <2>1. c[g] <= s[g]
      BY DEF IInv, RevisionsGrow
    <2>2. c[g] \in Int /\ s[g] \in Int
      BY <1>1, <1>2, TypeFacts, SpecFacts DEF Deployment, Sticky
    <2> QED BY <1>11, <2>1, <2>2
  <1>13. UpdatesArrive'
    <2>1. Carrying => Carrying'
      BY <1>3, <1>4 DEF Carrying
    <2> QED BY <1>5, <2>1 DEF IInv, UpdatesArrive, Nothing
  <1>14. HeldIsWanted'
    <2>1. CASE then = "check"
      <3>1. Fits(Kind, obj, s)
        BY <2>1 DEF Updated, Fits, Launches
      <3> QED BY <1>3, <2>1, <3>1 DEF HeldIsWanted, Kind
    <2>2. CASE then = "idle"
      <3>1. Complete(Kind, obj, s) /\ \A g \in Sticky : c[g] # Absent => obj[g] = c[g]
        BY <2>2 DEF Created, Complete, Launches, Sticky
      <3> QED BY <1>3, <2>2, <3>1 DEF HeldIsWanted, Kind
    <2> QED BY <1>2, <2>1, <2>2
  <1>15. FoundOrMade' /\ Checked'
    BY <1>3, <1>4 DEF FoundOrMade, Checked
  <1> QED BY <1>6, <1>7, <1>8, <1>9, <1>10, <1>12, <1>13, <1>14, <1>15 DEF IInv

\* RestoreState: CreateDeployment once more.
LEMMA RestoreStep ==
    ASSUME IInv, RestoreState
    PROVE  IInv'
  <1>1. TypeOK
    BY DEF IInv
  <1>2. /\ worker.pc = "restore"
        /\ UNCHANGED <<setup, spec, dep, cache, rollout, update, queue, events, mishaps>>
    BY DEF RestoreState, outside, historyVars, At
  <1>3. worker # Idle /\ ~Carrying
    BY <1>1, <1>2, WorkerFacts DEF Carrying
  <1>4. CASE cache.obj = Nothing
    <2>1. worker' = Idle
      BY <1>4 DEF RestoreState
    <2>2. FoundOrMade' /\ Checked'
      BY <1>2, <1>3, <1>4, <2>1 DEF IInv, FoundOrMade, Checked
    <2>3. /\ events \in 0..MaxEvents /\ events <= events /\ mishaps \subseteq Mishaps
          /\ update \in BOOLEAN /\ queue \in BOOLEAN /\ (update => queue)
      BY <1>1, TypeFacts DEF IInv, TypeOK, UpdateIsQueued
    <2> QED BY <1>2, <1>3, <2>1, <2>2, <2>3, LeaveStep
  <1>5. CASE cache.obj # Nothing
    <2> DEFINE New(order) == Create(cache.obj, worker.inst, Random, order)
    <2>1. PICK order \in Orders : Hold(New(order), 2, "idle")
      BY <1>5 DEF RestoreState
    <2>2. worker.inst \in Specs /\ cache.obj \in Deployment
      BY <1>1, <1>3, TypeFacts
    <2>3. Created(cache.obj, New(order), worker.inst)
      BY <1>1, <2>2, OverrideFacts
    <2> HIDE DEF New
    <2>4. 2 \in 1..3
      OBVIOUS
    <2> QED BY <1>2, <1>3, <1>5, <2>1, <2>3, <2>4, HoldStep
  <1> QED BY <1>4, <1>5

\* ReconcileUpdate: an update that was flagged is held, and patched next.
LEMMA UpdateStep ==
    ASSUME IInv, ReconcileUpdate
    PROVE  IInv'
  <1>1. TypeOK
    BY DEF IInv
  <1>2. /\ worker.pc = "deployment" /\ cache.obj # Nothing
        /\ UNCHANGED <<setup, spec, dep, cache, rollout, update, queue, events, mishaps>>
    BY DEF ReconcileUpdate, outside, historyVars, At
  <1>3. worker # Idle /\ worker \in Reconciling
    BY <1>1, <1>2, WorkerFacts
  <1>4. CASE worker.upd
    <2> DEFINE new == Update(cache.obj, worker.inst)
    <2>1. Hold(new, 3, "check")
      BY <1>4 DEF ReconcileUpdate
    <2>2. worker.inst \in Specs /\ cache.obj \in Deployment
      BY <1>1, <1>3, TypeFacts
    <2>3. Updated(cache.obj, new, worker.inst)
      BY <1>1, <2>2, OverrideFacts
    <2> HIDE DEF new
    <2>4. 3 \in 1..3
      OBVIOUS
    <2> QED BY <1>2, <1>3, <1>4, <2>1, <2>3, <2>4, HoldStep
  <1>5. CASE ~worker.upd
    <2>1. worker' = [worker EXCEPT !.pc = "check"] /\ ~Carrying
      BY <1>5 DEF ReconcileUpdate, Goto, Carrying
    <2>2. worker' \in Reconciling /\ worker'.inst = worker.inst /\ worker'.pc = "check"
      BY <1>3, <2>1 DEF Reconciling
    <2>3. worker' # Idle
      BY <1>1, <2>2, WorkerFacts
    <2>4. FoundOrMade' /\ Checked'
      BY <1>2, <2>2, <2>3 DEF FoundOrMade, Checked, Patching, Nothing
    <2>5. /\ events \in 0..MaxEvents /\ events <= events /\ mishaps \subseteq Mishaps
          /\ update \in BOOLEAN /\ queue \in BOOLEAN /\ (update => queue)
      BY <1>1, TypeFacts DEF IInv, TypeOK, UpdateIsQueued
    <2> QED BY <1>2, <1>3, <2>1, <2>2, <2>4, <2>5, LeaveStep
  <1> QED BY <1>4, <1>5

\* ReconcileCreate: a deployment is made, from nothing, or one is there after all.
LEMMA CreateStep ==
    ASSUME IInv, ReconcileCreate
    PROVE  IInv'
  <1> DEFINE s == worker.inst
  <1>1. TypeOK
    BY DEF IInv
  <1>2. /\ worker.pc = "deployment" /\ cache.obj = Nothing
        /\ worker' = [worker EXCEPT !.pc = "check"]
        /\ mishaps' = mishaps \cup If("exists", dep # Nothing /\ worker.upd)
        /\ UNCHANGED <<setup, spec, update, queue, events>>
    BY DEF ReconcileCreate, At, Goto, Note
  <1>3. worker # Idle /\ worker \in Reconciling /\ s \in Specs
    BY <1>1, <1>2, WorkerFacts, TypeFacts
  <1>4. worker' \in Reconciling /\ worker'.inst = s /\ worker'.pc = "check"
    BY <1>2, <1>3 DEF Reconciling
  <1>5. worker' # Idle /\ ~Patching' /\ ~Carrying'
    BY <1>1, <1>4, WorkerFacts DEF Patching, Carrying
  <1>6. CASE dep # Nothing
    <2>1. UNCHANGED <<dep, cache, rollout>>
      BY <1>6 DEF ReconcileCreate
    <2>2. cache.age > 0
      BY <1>1, <1>2, <1>6, TypeFacts DEF IInv, CacheIsCurrent
    <2>3. FoundOrMade' /\ Checked'
      BY <1>4, <1>5, <2>1, <2>2 DEF FoundOrMade, Checked
    <2>4. Clean' => ~Carrying
      BY <1>2, <1>6 DEF Clean, If, Carrying
    <2>5. mishaps \subseteq mishaps' /\ mishaps' \subseteq Mishaps
      BY <1>1, <1>2 DEF If, Mishaps, TypeOK
    <2>6. /\ events \in 0..MaxEvents /\ events <= events
          /\ update \in BOOLEAN /\ queue \in BOOLEAN /\ (update => queue)
      BY <1>1, TypeFacts DEF IInv, TypeOK, UpdateIsQueued
    <2> QED BY <1>2, <1>3, <1>4, <2>1, <2>3, <2>4, <2>5, <2>6, LeaveStep
  <1>7. CASE dep = Nothing
    <2> DEFINE New(order) == Create(Nothing, s, Random, order)
    <2>1. PICK order \in Orders : Store(New(order))
      BY <1>7 DEF ReconcileCreate
    <2> DEFINE new == New(order)
    <2>2. /\ dep' = new /\ cache' = [cache EXCEPT !.age = @ + 1] /\ rollout' = (new # Nothing)
      BY <2>1 DEF Store
    <2>3. Created(Nothing, new, s)
      <3>1. Nothing \in Deployment
        BY <1>1, TypeFacts
      <3> QED BY <1>1, <1>3, <3>1, OverrideFacts
    <2> HIDE DEF New
    <2>4. mishaps' = mishaps /\ (Clean' <=> Clean)
      BY <1>2, <1>7 DEF If, Clean
    <2>5. /\ Nothing.restart = -1 /\ Nothing.pvc = Absent /\ Nothing.shared = Absent
          /\ Nothing.image = Absent /\ \A g \in Sticky : Nothing[g] = -1
      BY DEF Nothing, Fields, Absent, Sticky
    <2>6. new # Nothing
      <3>1. s.image >= 0
        BY <1>3, ConstantsOK DEF Specs, Revs
      <3> QED BY <2>3, <2>5, <3>1 DEF Created, Absent
    <2>7. cache'.obj = cache.obj /\ cache'.age > 0 /\ cache' \in [obj : [Fields -> Int], age : Nat]
      BY <1>1, <2>2, TypeFacts DEF TypeOK
    <2>8. TypeOK'
      <3>1. rollout' \in BOOLEAN
        BY <2>2, Zenon
      <3>2. dep' \in [Fields -> Int]
        BY <2>2, <2>3 DEF Created, Deployment
      <3> QED BY <1>1, <1>2, <1>4, <2>4, <2>7, <3>1, <3>2 DEF TypeOK
    <2>9. CacheIsCurrent' /\ RolloutOfOne' /\ HeldObject' /\ HeldIsWanted'
      BY <1>5, <2>2, <2>6, <2>7 DEF CacheIsCurrent, RolloutOfOne, HeldObject, HeldIsWanted, Nothing
    <2>10. RestartsAreEvents'
      BY <1>1, <1>2, <2>2, <2>3, <2>5, TypeFacts DEF RestartsAreEvents, Created
    <2>11. UpdateIsQueued' /\ ReadIsCurrent'
      BY <1>2, <1>3, <1>4 DEF IInv, UpdateIsQueued, ReadIsCurrent
    <2>12. VolumesAgree'
      <3>1. IsPostgres(s) <=> Postgres(setup.kind, s)
        BY DEF IsPostgres, Postgres, Kind
      <3>2. "database" \notin mishaps => OneVolume(Postgres(setup.kind, setup.spec), new)
        <4> SUFFICES ASSUME "database" \notin mishaps
                     PROVE  OneVolume(Postgres(setup.kind, setup.spec), new)
          OBVIOUS
        <4>1. Postgres(setup.kind, s) <=> Postgres(setup.kind, setup.spec)
          BY <1>3 DEF IInv, VolumesAgree
        <4> QED BY <2>3, <2>5, <3>1, <4>1 DEF OneVolume, Created
      <3> QED BY <1>2, <1>3, <1>4, <1>5, <2>2, <2>4, <2>7, <3>2 DEF IInv, VolumesAgree
    <2>13. \A g \in Sticky : new[g] = -1 \/ new[g] = s[g]
      BY <2>3, <2>5 DEF Created, Sticky, Absent
    <2>14. RevisionsGrow'
      <3> SUFFICES ASSUME Clean, NEW g \in Sticky
                   PROVE  /\ -1 <= new[g] /\ new[g] <= spec[g] /\ spec[g] <= MaxEvents - events
                          /\ cache.obj[g] <= spec[g] /\ cache.obj[g] <= new[g]
                          /\ new[g] <= s[g] /\ cache.obj[g] <= s[g] /\ s[g] <= spec[g]
        BY <1>2, <1>4, <1>5, <2>2, <2>4, <2>7 DEF RevisionsGrow
      <3>1. /\ dep[g] <= spec[g] /\ spec[g] <= MaxEvents - events
            /\ cache.obj[g] <= spec[g] /\ cache.obj[g] <= s[g] /\ s[g] <= spec[g]
        BY <1>3 DEF IInv, RevisionsGrow
      <3>2. cache.obj[g] = -1 /\ s[g] \in Int /\ spec[g] \in Int
        BY <1>1, <1>2, <1>3, <2>5, SpecFacts DEF TypeOK, Sticky
      <3> QED BY <2>13, <3>1, <3>2
    <2>15. UpdatesArrive'
      <3>1. Fits(Kind, new, s)
        BY <2>3, <2>5 DEF Created, Fits, Launches, Sticky, Absent
      <3>2. ~update => s = spec
        BY <1>3 DEF IInv, ReadIsCurrent
      <3> QED BY <1>2, <2>2, <3>1, <3>2 DEF UpdatesArrive, Kind
    <2>16. FoundOrMade' /\ Checked'
      BY <1>1, <1>4, <1>5, <2>7, <2>8, TypeFacts DEF FoundOrMade, Checked
    <2> QED BY <2>8, <2>9, <2>10, <2>11, <2>12, <2>14, <2>15, <2>16 DEF IInv
  <1> QED BY <1>6, <1>7

-----------------------------------------------------------------------------
(* The loop of tries                                                       *)

\* One try is over: the reconcile ends, goes on to CheckState, or tries again.
LEMMA TriedFacts ==
    ASSUME NEW w \in Reconciling, w.pc = "patch", w.tries > 0, NEW v, v = Tried(w)
    PROVE  /\ w.tries = 1 /\ w.then = "idle" => v = Idle
           /\ ~(w.tries = 1 /\ w.then = "idle") =>
                 /\ v \in Reconciling /\ v.inst = w.inst /\ v.upd = w.upd /\ v.obj = w.obj
                 /\ v.age = w.age /\ v.then = w.then /\ v.written = w.written
                 /\ w.tries = 1 => v.pc = "check"
                 /\ w.tries # 1 => v.pc = "patch" /\ v.tries > 0
  <1>1. w.tries \in 0..3 /\ w.then \in {"check", "idle"}
    BY DEF Reconciling
  <1>2. CASE w.tries = 1 /\ w.then = "idle"
    BY <1>2 DEF Tried
  <1>3. CASE w.tries = 1 /\ w.then = "check"
    <2>1. v = [w EXCEPT !.pc = "check", !.tries = 0]
      BY <1>3 DEF Tried
    <2>2. "check" \in {"deployment", "patch", "check", "restore"} /\ 0 \in 0..3
      OBVIOUS
    <2>3. v \in Reconciling
      BY <2>1, <2>2 DEF Reconciling
    <2>4. /\ v.inst = w.inst /\ v.upd = w.upd /\ v.obj = w.obj /\ v.age = w.age
          /\ v.then = w.then /\ v.written = w.written /\ v.pc = "check"
      BY <2>1 DEF Reconciling
    <2> QED BY <1>3, <2>3, <2>4
  <1>4. CASE w.tries # 1
    <2>1. v = [w EXCEPT !.tries = w.tries - 1] /\ w.tries - 1 \in 0..3 /\ w.tries - 1 > 0
      BY <1>1, <1>4 DEF Tried
    <2> QED BY <1>4, <2>1 DEF Reconciling
  <1> QED BY <1>1, <1>2, <1>3, <1>4

\* PatchConflict: only the last of the tries gives something up, and the conflict is noted.
LEMMA ConflictStep ==
    ASSUME IInv, PatchConflict
    PROVE  IInv'
  <1>1. TypeOK
    BY DEF IInv
  <1>2. /\ worker.pc = "patch" /\ dep # Nothing /\ cache.obj # Nothing /\ worker' = Tried(worker)
        /\ mishaps' = mishaps \cup If("conflict", worker.tries = 1 /\ ~worker.written)
        /\ UNCHANGED <<setup, spec, dep, cache, rollout, update, queue, events>>
    BY DEF PatchConflict, outside, At, Note
  <1>3. worker # Idle /\ worker \in Reconciling /\ Patching
    BY <1>1, <1>2, WorkerFacts DEF Patching
  <1>4. worker.tries > 0
    BY <1>3 DEF IInv, HeldObject
  <1>5. /\ worker.tries = 1 /\ worker.then = "idle" => worker' = Idle
        /\ ~(worker.tries = 1 /\ worker.then = "idle") =>
              /\ worker' \in Reconciling /\ worker'.inst = worker.inst /\ worker'.upd = worker.upd
              /\ worker'.obj = worker.obj /\ worker'.age = worker.age
              /\ worker'.then = worker.then /\ worker'.written = worker.written
              /\ worker.tries = 1 => worker'.pc = "check"
              /\ worker.tries # 1 => worker'.pc = "patch" /\ worker'.tries > 0
    BY <1>2, <1>3, <1>4, TriedFacts
  <1>6. mishaps \subseteq mishaps' /\ mishaps' \subseteq Mishaps
    BY <1>1, <1>2 DEF If, Mishaps, TypeOK
  <1>7. CASE worker.tries = 1
    <2>1. Clean' => Clean /\ worker.written
      BY <1>2, <1>7 DEF Clean, If
    <2>2. \/ worker' = Idle /\ worker.then = "idle"
          \/ worker' \in Reconciling /\ worker'.inst = worker.inst /\ worker'.pc = "check"
      BY <1>5, <1>7
    <2>3. Clean' => ~Carrying
      BY <1>2, <2>1 DEF Carrying
    <2>4. FoundOrMade'
      BY <1>2, <2>2 DEF FoundOrMade, Nothing
    <2>5. Checked'
      <3>1. worker' \in Reconciling => worker' # Idle
        BY <1>1, WorkerFacts
      <3> QED BY <1>2, <1>3, <2>1, <2>2, <3>1 DEF IInv, Checked, Patching, Nothing
    <2>6. /\ events \in 0..MaxEvents /\ events <= events
          /\ update \in BOOLEAN /\ queue \in BOOLEAN /\ (update => queue)
      BY <1>1, TypeFacts DEF IInv, TypeOK, UpdateIsQueued
    <2> QED BY <1>2, <1>3, <1>6, <2>2, <2>3, <2>4, <2>5, <2>6, LeaveStep
  <1>8. CASE worker.tries # 1
    <2>1. mishaps' = mishaps
      BY <1>2, <1>8 DEF If
    <2>2. /\ worker' \in Reconciling /\ worker'.inst = worker.inst /\ worker'.upd = worker.upd
          /\ worker'.obj = worker.obj /\ worker'.age = worker.age
          /\ worker'.then = worker.then /\ worker'.written = worker.written
          /\ worker'.pc = worker.pc /\ worker'.tries > 0
      BY <1>2, <1>5, <1>8
    <2>3. worker' # Idle /\ Patching' /\ (Carrying' <=> Carrying) /\ (Clean' <=> Clean)
      BY <1>1, <1>2, <1>3, <2>1, <2>2, WorkerFacts DEF Patching, Carrying, Clean
    <2>4. TypeOK'
      BY <1>1, <1>2, <2>1, <2>2 DEF TypeOK
    <2>5. CacheIsCurrent' /\ RolloutOfOne' /\ RestartsAreEvents' /\ UpdateIsQueued' /\ ReadIsCurrent'
      BY <1>2, <1>3, <2>2 DEF IInv, CacheIsCurrent, RolloutOfOne, RestartsAreEvents,
                              UpdateIsQueued, ReadIsCurrent, Nothing
    <2>6. HeldObject' /\ HeldIsWanted'
      BY <1>2, <1>3, <2>2 DEF IInv, HeldObject, HeldIsWanted, Nothing
    <2>7. VolumesAgree' /\ UpdatesArrive'
      BY <1>2, <1>3, <2>1, <2>2, <2>3 DEF IInv, VolumesAgree, UpdatesArrive, Nothing
    <2>8. RevisionsGrow'
      BY <1>2, <1>3, <2>2, <2>3 DEF IInv, RevisionsGrow, Nothing
    <2>9. FoundOrMade' /\ Checked'
      BY <1>2, <1>3, <2>2, <2>3 DEF IInv, FoundOrMade, Checked, Nothing
    <2> QED BY <2>4, <2>5, <2>6, <2>7, <2>8, <2>9 DEF IInv
  <1> QED BY <1>7, <1>8

\* A patch that is accepted: it keeps the restart annotation, and once a try has succeeded the
\* next ones change nothing.
LEMMA AcceptedFacts ==
    ASSUME IInv, worker # Idle, worker.pc = "patch", worker.age = cache.age \/ worker.age = 0,
           NEW new, new = Patched(cache.obj, worker.obj)
    PROVE  /\ new \in Deployment /\ new.restart = dep.restart
           /\ worker.written => new = dep
           /\ ~worker.written /\ worker.age = 0 =>
                 new = worker.obj /\ cache.obj = dep /\ worker.age = cache.age
           /\ \A f \in Fields : \/ new[f] = worker.obj[f]
                                \/ new[f] = dep[f] /\ cache.obj[f] = worker.obj[f]
  <1>1. TypeOK /\ Patching
    BY DEF IInv, Patching
  <1>2. cache.obj \in Deployment /\ worker.obj \in Deployment
    BY <1>1, TypeFacts
  <1>3. /\ new \in Deployment
        /\ \A f \in Fields : \/ new[f] = worker.obj[f]
                             \/ new[f] = dep[f] /\ cache.obj[f] = worker.obj[f]
        /\ cache.obj = dep => new = worker.obj
        /\ worker.obj = dep \/ worker.obj = cache.obj => new = dep
        /\ cache.obj.restart = worker.obj.restart => new.restart = dep.restart
    BY <1>1, <1>2, PatchedFacts
  <1>4. worker.written => new = dep
    BY <1>1, <1>3 DEF IInv, HeldObject
  <1>5. ~worker.written => worker.age = cache.age /\ worker.obj.restart = cache.obj.restart
    BY <1>1 DEF IInv, HeldObject
  <1>6. ~worker.written /\ worker.age = 0 => cache.obj = dep
    BY <1>5 DEF IInv, CacheIsCurrent
  <1> QED BY <1>3, <1>4, <1>5, <1>6

\* ResilientPatch: what is stored is what was held, or it was not noted that it is.
LEMMA PatchStep ==
    ASSUME IInv, ResilientPatch
    PROVE  IInv'
  <1> DEFINE new == Patched(cache.obj, worker.obj)
             w == [worker EXCEPT !.obj = new, !.age = 0, !.written = TRUE]
             s == worker.inst
  <1>1. TypeOK
    BY DEF IInv
  <1>2. /\ worker.pc = "patch" /\ dep # Nothing /\ cache.obj # Nothing
        /\ worker.age = cache.age \/ worker.age = 0
        /\ worker' = Tried(w)
        /\ mishaps' = mishaps \cup If("overwritten", worker.age # 0 /\ new # dep)
        /\ UNCHANGED <<setup, spec, update, queue, events>>
    BY DEF ResilientPatch, At, Note, Locked
  <1>3. worker # Idle /\ worker \in Reconciling /\ Patching /\ s \in Specs
    BY <1>1, <1>2, WorkerFacts, TypeFacts DEF Patching
  <1>4. /\ new \in Deployment /\ new.restart = dep.restart
        /\ worker.written => new = dep
        /\ ~worker.written /\ worker.age = 0 =>
              new = worker.obj /\ cache.obj = dep /\ worker.age = cache.age
        /\ \A f \in Fields : \/ new[f] = worker.obj[f]
                             \/ new[f] = dep[f] /\ cache.obj[f] = worker.obj[f]
    BY <1>2, <1>3, AcceptedFacts
  <1>5. /\ dep' = new /\ cache'.obj = cache.obj /\ cache'.age \in Nat
        /\ cache' \in [obj : [Fields -> Int], age : Nat]
        /\ cache'.age = 0 => new = dep /\ cache.age = 0
        /\ rollout' \in BOOLEAN /\ (rollout' => new # Nothing)
    <2>1. CASE new = dep
      <3>1. UNCHANGED <<dep, cache, rollout>>
        BY <2>1 DEF ResilientPatch
      <3>2. rollout \in BOOLEAN /\ (rollout => dep # Nothing)
        BY DEF IInv, TypeOK, RolloutOfOne
      <3> QED BY <1>1, <2>1, <3>1, <3>2, TypeFacts DEF TypeOK
    <2>2. CASE new # dep
      <3>1. dep' = new /\ cache' = [cache EXCEPT !.age = @ + 1] /\ rollout' = (new # Nothing)
        BY <2>2 DEF ResilientPatch, Store
      <3>2. rollout' \in BOOLEAN
        BY <3>1, Zenon
      <3>3. cache \in [obj : [Fields -> Int], age : Nat]
        BY <1>1 DEF TypeOK
      <3>4. cache'.obj = cache.obj /\ cache'.age = cache.age + 1 /\ cache.age + 1 \in Nat
            /\ cache' \in [obj : [Fields -> Int], age : Nat] /\ cache.age + 1 # 0
        BY <3>1, <3>3
      <3> QED BY <3>1, <3>2, <3>4
    <2> QED BY <2>1, <2>2
  <1> HIDE DEF new
  <1>6. /\ w \in Reconciling /\ w.pc = "patch" /\ w.inst = s /\ w.upd = worker.upd
        /\ w.obj = new /\ w.age = 0 /\ w.tries = worker.tries /\ w.then = worker.then
        /\ w.written = TRUE
    <2>1. TRUE \in BOOLEAN
      BY Zenon
    <2> QED BY <1>2, <1>3, <1>4, <2>1 DEF Reconciling, Deployment
  <1>7. worker.tries > 0
    BY <1>3 DEF IInv, HeldObject
  <1> HIDE DEF w
  <1>8. /\ worker.tries = 1 /\ worker.then = "idle" => worker' = Idle
        /\ ~(worker.tries = 1 /\ worker.then = "idle") =>
              /\ worker' \in Reconciling /\ worker'.inst = s /\ worker'.upd = worker.upd
              /\ worker'.obj = new /\ worker'.age = 0
              /\ worker'.then = worker.then /\ worker'.written = TRUE
              /\ worker.tries = 1 => worker'.pc = "check"
              /\ worker.tries # 1 => worker'.pc = "patch" /\ worker'.tries > 0
    <2>1. w.tries > 0
      BY <1>6, <1>7
    <2> QED BY <1>2, <1>6, <2>1, TriedFacts
  <1>9. /\ worker' # Idle => /\ worker' \in Reconciling /\ worker'.inst = s /\ worker'.obj = new
                             /\ worker'.age = 0 /\ worker'.written /\ worker'.then = worker.then
                             /\ worker'.pc \in {"check", "patch"}
                             /\ worker'.pc = "patch" => worker'.tries > 0
        /\ worker' = Idle => worker.then = "idle"
        /\ ~Carrying'
    <2>1. worker' \in Reconciling => worker' # Idle
      BY <1>1, WorkerFacts
    <2> QED BY <1>8, <2>1 DEF Carrying
  <1>10. /\ mishaps \subseteq mishaps' /\ mishaps' \subseteq Mishaps
         /\ Clean' => Clean /\ (worker.age = 0 \/ new = dep)
    BY <1>1, <1>2 DEF If, Mishaps, TypeOK, Clean
  <1>11. Clean' => new = dep \/ (~worker.written /\ new = worker.obj /\ cache.obj = dep
                                 /\ worker.age = cache.age)
    BY <1>4, <1>10
  <1>12. TypeOK'
    BY <1>1, <1>2, <1>4, <1>5, <1>9, <1>10 DEF TypeOK, Deployment
  <1>13. CacheIsCurrent'
    BY <1>5 DEF IInv, CacheIsCurrent
  <1>14. RolloutOfOne' /\ UpdateIsQueued' /\ RestartsAreEvents'
    BY <1>2, <1>4, <1>5 DEF IInv, RolloutOfOne, UpdateIsQueued, RestartsAreEvents, Nothing
  <1>15. ReadIsCurrent'
    BY <1>2, <1>3, <1>9 DEF IInv, ReadIsCurrent
  <1>16. HeldObject'
    <2>1. cache.age = 0 => cache.obj = dep
      BY DEF IInv, CacheIsCurrent
    <2> QED BY <1>2, <1>5, <1>9, <2>1 DEF HeldObject, Patching, Nothing
  <1>17. VolumesAgree'
    <2>1. "database" \notin mishaps => OneVolume(Postgres(setup.kind, setup.spec), new)
      <3>1. \A f \in {"pvc", "shared"} : new[f] = worker.obj[f] \/ new[f] = dep[f]
        BY <1>1, <1>4, TypeFacts
      <3> QED BY <1>3, <3>1 DEF IInv, VolumesAgree, OneVolume
    <2> QED BY <1>2, <1>3, <1>5, <1>9, <1>10, <2>1 DEF IInv, VolumesAgree, Patching
  <1>18. Clean => \A g \in Sticky :
            /\ -1 <= dep[g] /\ dep[g] <= spec[g] /\ spec[g] <= MaxEvents - events
            /\ cache.obj[g] <= spec[g] /\ cache.obj[g] <= dep[g]
            /\ dep[g] <= s[g] /\ cache.obj[g] <= s[g] /\ s[g] <= spec[g]
            /\ worker.obj[g] <= s[g]
            /\ (~worker.written /\ worker.age = cache.age => cache.obj[g] <= worker.obj[g])
    BY <1>2, <1>3 DEF IInv, RevisionsGrow
  <1>19. \A g \in Sticky : /\ dep[g] \in Int /\ cache.obj[g] \in Int /\ worker.obj[g] \in Int
                           /\ s[g] \in Int /\ spec[g] \in Int /\ g \in Fields
    BY <1>1, <1>3, TypeFacts, SpecFacts DEF TypeOK, Deployment, Sticky
  <1>20. RevisionsGrow'
    <2> SUFFICES ASSUME Clean', NEW g \in Sticky
                 PROVE  /\ -1 <= new[g] /\ new[g] <= spec[g] /\ spec[g] <= MaxEvents - events
                        /\ cache.obj[g] <= spec[g] /\ cache.obj[g] <= new[g]
                        /\ new[g] <= s[g] /\ cache.obj[g] <= s[g] /\ s[g] <= spec[g]
      BY <1>2, <1>5, <1>9 DEF RevisionsGrow, Patching
    <2>1. Clean
      BY <1>10
    <2>2. CASE new = dep
      BY <1>18, <2>1, <2>2
    <2>3. CASE ~worker.written /\ new = worker.obj /\ cache.obj = dep /\ worker.age = cache.age
      <3>1. dep[g] <= new[g]
        BY <1>18, <2>1, <2>3
      <3> QED BY <1>18, <1>19, <2>1, <2>3, <3>1
    <2> QED BY <1>11, <2>2, <2>3
  <1>21. UpdatesArrive'
    <2> SUFFICES ASSUME Clean', spec.wrong = "nothing", ~update
                 PROVE  Fits(setup.kind, new, spec)
      BY <1>2, <1>5 DEF UpdatesArrive
    <2>1. Clean /\ s = spec
      BY <1>3, <1>10 DEF IInv, ReadIsCurrent
    <2>2. ~Carrying => Fits(setup.kind, dep, spec)
      BY <1>2, <2>1 DEF IInv, UpdatesArrive
    <2>3. CASE worker.written
      BY <1>2, <1>4, <2>2, <2>3 DEF Carrying
    <2>4. CASE ~worker.written /\ worker.then = "check"
      <3>1. Fits(setup.kind, worker.obj, s)
        BY <1>3, <2>4 DEF IInv, HeldIsWanted
      <3>2. \A g \in Sticky : worker.obj[g] = s[g] => new[g] = s[g]
        BY <1>4, <1>18, <1>19, <2>1
      <3> QED BY <2>1, <3>1, <3>2 DEF Fits, Sticky
    <2>5. CASE ~worker.written /\ worker.then = "idle"
      <3>1. Fits(setup.kind, dep, spec)
        BY <1>2, <2>2, <2>5 DEF Carrying
      <3>2. worker.age = cache.age => \A g \in Sticky :
               cache.obj[g] # Absent => worker.obj[g] = cache.obj[g]
        BY <1>3, <2>5 DEF IInv, HeldIsWanted
      <3>3. \A g \in Sticky : dep[g] # Absent => new[g] = dep[g]
        BY <1>11, <3>2
      <3> QED BY <3>1, <3>3 DEF Fits, Sticky, UsingHSMProxy, IsHSMEnabled, Launching
    <2>6. worker.then \in {"check", "idle"}
      BY <1>1, <1>3, TypeFacts
    <2> QED BY <2>3, <2>4, <2>5, <2>6
  <1>22. HeldIsWanted'
    BY <1>9 DEF HeldIsWanted, Patching
  <1>23. FoundOrMade'
    BY <1>2, <1>5, <1>9 DEF FoundOrMade, Nothing
  <1>24. Checked'
    <2> SUFFICES ASSUME Clean', spec.wrong = "nothing", ~queue, cache'.age = 0, worker.then = "idle"
                 PROVE  new # Nothing /\ Complete(setup.kind, new, spec)
      BY <1>2, <1>5, <1>9 DEF Checked, Patching, Nothing
    <2>1. Clean /\ new = dep /\ cache.age = 0 /\ cache.obj = dep
      BY <1>5, <1>10 DEF IInv, CacheIsCurrent
    <2>2. s = spec
      BY <1>3 DEF IInv, UpdateIsQueued, ReadIsCurrent
    <2>3. CASE worker.written
      BY <1>3, <2>1, <2>3 DEF IInv, Checked
    <2>4. CASE ~worker.written
      <3>1. Complete(setup.kind, worker.obj, s)
        BY <1>3, <2>4 DEF IInv, HeldIsWanted
      <3>2. cache.obj \in Deployment /\ worker.obj \in Deployment
        BY <1>1, <1>3, TypeFacts
      <3>3. new = worker.obj
        BY <1>1, <2>1, <3>2, PatchedFacts DEF new
      <3> QED BY <1>2, <2>1, <2>2, <3>1, <3>3
    <2> QED BY <2>3, <2>4
  <1> QED BY <1>12, <1>13, <1>14, <1>15, <1>16, <1>17, <1>20, <1>21, <1>22, <1>23, <1>24 DEF IInv

-----------------------------------------------------------------------------
(* The theorems                                                            *)

\* The first states: no deployment, and the resource is in the queue.
LEMMA InitIInv ==
    ASSUME Init
    PROVE  IInv
  <1>1. /\ setup \in Setups /\ spec = setup.spec /\ dep = Nothing
        /\ cache = [obj |-> Nothing, age |-> 0] /\ rollout = FALSE
        /\ update = FALSE /\ queue = TRUE /\ worker = Idle /\ events = MaxEvents /\ mishaps = {}
    BY DEF Init
  <1>2. /\ spec \in Specs /\ MaxEvents \in Nat
        /\ \A f \in {"endpoint", "hsm", "launcher"} : spec[f] <= 0
    BY <1>1, ConstantsOK
  <1>3. TypeOK
    <2>1. rollout \in BOOLEAN /\ update \in BOOLEAN /\ queue \in BOOLEAN
      BY <1>1, Zenon
    <2>2. Nothing \in [Fields -> Int]
      BY DEF Nothing, Absent
    <2>3. cache \in [obj : [Fields -> Int], age : Nat]
      BY <1>1, <2>2
    <2> QED BY <1>1, <1>2, <2>1, <2>2, <2>3 DEF TypeOK
  <1>4. ~Patching /\ cache.obj = Nothing /\ cache.age = 0
    BY <1>1 DEF Patching
  <1>5. CacheIsCurrent /\ RolloutOfOne /\ HeldObject /\ UpdateIsQueued /\ ReadIsCurrent
        /\ UpdatesArrive /\ HeldIsWanted /\ FoundOrMade /\ Checked
    BY <1>1, <1>4 DEF CacheIsCurrent, RolloutOfOne, HeldObject, UpdateIsQueued, ReadIsCurrent,
                      UpdatesArrive, HeldIsWanted, FoundOrMade, Checked
  <1>6. /\ Nothing.restart = -1 /\ Nothing.pvc = Absent /\ Nothing.shared = Absent
        /\ \A g \in Sticky : Nothing[g] = -1
    BY DEF Nothing, Fields, Absent, Sticky
  <1>7. RestartsAreEvents
    BY <1>1, <1>2, <1>6 DEF RestartsAreEvents
  <1>8. VolumesAgree
    BY <1>1, <1>4, <1>6 DEF VolumesAgree, OneVolume
  <1>9. RevisionsGrow
    <2>1. \A g \in Sticky : -1 <= spec[g] /\ spec[g] <= 0 /\ spec[g] \in Int
      BY <1>2, ConstantsOK DEF Specs, Revs, Absent, Sticky
    <2> QED BY <1>1, <1>2, <1>4, <1>6, <2>1 DEF RevisionsGrow
  <1> QED BY <1>3, <1>5, <1>7, <1>8, <1>9 DEF IInv

\* Every step of the operator, of the API server and of others keeps the invariant.
LEMMA NextIInv ==
    ASSUME IInv, [Next]_vars
    PROVE  IInv'
  <1>1. CASE Start
    BY <1>1, StartStep
  <1>2. CASE Refused
    BY <1>2, RefusedStep
  <1>3. CASE ReconcileCreate
    BY <1>3, CreateStep
  <1>4. CASE ReconcileUpdate
    BY <1>4, UpdateStep
  <1>5. CASE Panic
    BY <1>5, PanicStep
  <1>6. CASE CheckState
    BY <1>6, CheckStep
  <1>7. CASE RestoreState
    BY <1>7, RestoreStep
  <1>8. CASE PatchError
    BY <1>8, ErrorStep
  <1>9. CASE PatchConflict
    BY <1>9, ConflictStep
  <1>10. CASE ResilientPatch
    BY <1>10, PatchStep
  <1>11. CASE CacheSync
    BY <1>11, SyncStep
  <1>12. CASE \E f \in Edits[Kind] : Edit(f)
    BY <1>12, EditStep
  <1>13. CASE \/ RolloutStatus \/ KubectlDelete \/ Restart
              \/ \E f \in {"replicas", "affinity", "launcher", "couchdb"} : Kubectl(f)
    BY <1>13, OutsideSteps
  <1>14. CASE UNCHANGED vars
    <2>1. UNCHANGED <<setup, spec, dep, cache, rollout, update, queue, worker, events, mishaps>>
      BY <1>14 DEF vars, operatorVars, historyVars
    <2>2. TypeOK' /\ RestartsAreEvents' /\ UpdateIsQueued' /\ ReadIsCurrent' /\ VolumesAgree'
      BY <2>1 DEF IInv, TypeOK, RestartsAreEvents, UpdateIsQueued, ReadIsCurrent, VolumesAgree,
                  Patching
    <2>3. CacheIsCurrent' /\ RolloutOfOne' /\ HeldObject' /\ RevisionsGrow'
      BY <2>1 DEF IInv, CacheIsCurrent, RolloutOfOne, HeldObject, RevisionsGrow, Clean, Patching,
                  Nothing
    <2>4. UpdatesArrive' /\ HeldIsWanted' /\ FoundOrMade' /\ Checked'
      BY <2>1 DEF IInv, UpdatesArrive, HeldIsWanted, FoundOrMade, Checked, Clean, Patching,
                  Carrying, Nothing
    <2> QED BY <2>2, <2>3, <2>4 DEF IInv
  <1> QED BY <1>1, <1>2, <1>3, <1>4, <1>5, <1>6, <1>7, <1>8, <1>9, <1>10, <1>11, <1>12, <1>13,
             <1>14 DEF Next, Work

\* The invariant holds in every state of every behaviour, for any setups and edits.
THEOREM Inductive == Spec => []IInv
  BY InitIInv, NextIInv, PTL DEF Spec

\* The state has its type: a revision is a number, a reconcile has all that it needs.
THEOREM TypeCorrect == Spec => []TypeOK
  <1>1. IInv => TypeOK
    BY DEF IInv
  <1> QED BY <1>1, Inductive, PTL

\* SpecReached: when the operator has nothing left to do, the deployment is what the spec asks,
\* for any setups, edits and number of events, although CreateDeployment and UpdateDeployment set
\* only a part of it each, reads come from a cache and patches may be lost.
THEOREM Reached == Spec => []SpecReached
  <1>1. IInv => SpecReached
    <2> SUFFICES ASSUME IInv, Quiet, spec.wrong = "nothing", Clean
                 PROVE  /\ \A f \in {"image", "replicas", "pull"} : dep[f] = spec[f]
                        /\ UsingHSMProxy(spec) => dep.endpoint = spec.endpoint
                        /\ IsHSMEnabled(spec) /\ ~UsingHSMProxy(spec) => dep.hsm = spec.hsm
                        /\ Kind = "peer" /\ spec.version > 1 /\ spec.launcher # Absent =>
                              dep.launcher = spec.launcher /\ dep.runtimes = Absent
                              /\ (spec.version = 3 => dep.https # Absent)
      BY DEF SpecReached, Clean
    <2>1. worker = Idle /\ ~queue /\ cache.age = 0 /\ ~update /\ ~Carrying
      BY DEF IInv, Quiet, UpdateIsQueued, Carrying
    <2>2. dep # Nothing /\ Complete(setup.kind, dep, spec)
      BY <2>1 DEF IInv, Checked
    <2>3. Fits(setup.kind, dep, spec)
      BY <2>1, <2>2 DEF IInv, UpdatesArrive
    <2> QED BY <2>2, <2>3 DEF Complete, Fits, Launching, Kind, Absent
  <1> QED BY <1>1, Inductive, PTL

\* RestartsKept: no step of the operator takes back a restart that was asked for meanwhile.
THEOREM RestartKept == Spec => RestartsKept
  <1>1. ASSUME IInv, [Next]_vars
        PROVE  [dep' # Nothing => dep'.restart >= dep.restart]_vars
    <2>1. TypeOK /\ dep.restart \in Int
      BY <1>1, TypeFacts DEF IInv, Deployment
    <2> SUFFICES ASSUME Next, dep' # Nothing PROVE dep'.restart >= dep.restart
      BY <1>1
    <2>2. CASE dep' = dep
      BY <2>1, <2>2
    <2>3. CASE ReconcileCreate /\ dep' # dep
      <3> DEFINE New(order) == Create(Nothing, worker.inst, Random, order)
      <3>1. /\ dep = Nothing /\ worker.pc = "deployment"
            /\ \E order \in Orders : dep' = New(order)
        BY <2>3 DEF ReconcileCreate, Store, At
      <3>2. worker.inst \in Specs /\ Nothing \in Deployment
        BY <2>1, <3>1, WorkerFacts, TypeFacts
      <3>3. \A order \in Orders : Created(Nothing, New(order), worker.inst)
        BY <2>1, <3>2, OverrideFacts
      <3> HIDE DEF New
      <3> QED BY <2>1, <3>1, <3>3 DEF Created
    <2>4. CASE ResilientPatch /\ dep' # dep
      <3>1. /\ worker.pc = "patch" /\ (worker.age = cache.age \/ worker.age = 0)
            /\ dep' = Patched(cache.obj, worker.obj)
        BY <2>4 DEF ResilientPatch, At, Locked, Store
      <3>2. worker # Idle
        BY <2>1, <3>1, WorkerFacts
      <3> QED BY <1>1, <2>1, <3>1, <3>2, AcceptedFacts
    <2>5. CASE Restart
      <3>1. dep' = [dep EXCEPT !.restart = Rev] /\ Rev = MaxEvents - events + 1
        BY <2>5 DEF Restart, Store, Rev
      <3>2. dep.restart <= MaxEvents - events /\ events \in Int /\ MaxEvents \in Int
        BY <1>1, <2>1, TypeFacts DEF IInv, RestartsAreEvents
      <3>3. dep'.restart = Rev
        BY <2>1, <3>1, TypeFacts DEF Deployment
      <3> QED BY <2>1, <3>1, <3>2, <3>3
    <2>6. ASSUME NEW f \in {"replicas", "affinity", "launcher", "couchdb"}, Kubectl(f)
          PROVE  dep'.restart >= dep.restart
      <3>1. PICK v : dep' = [dep EXCEPT ![f] = v]
        BY <2>6 DEF Kubectl, Store
      <3>2. dep'.restart = dep.restart
        BY <2>1, <3>1, TypeFacts DEF Deployment
      <3> QED BY <2>1, <3>2
    <2>7. CASE KubectlDelete
      BY <2>7 DEF KubectlDelete, Store, Nothing
    <2> QED BY <2>2, <2>3, <2>4, <2>5, <2>6, <2>7
        DEF Next, Work, Start, Refused, ReconcileUpdate, Panic, CheckState, RestoreState,
            PatchError, PatchConflict, CacheSync, RolloutStatus, Edit, outside
  <1> QED BY <1>1, Inductive, PTL DEF Spec, RestartsKept

================================================================================
