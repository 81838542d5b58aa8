------------------------- MODULE ConsoleReconcileProofs -------------------------
(***************************************************************************)
(* Proofs about ConsoleReconcile: edits are applied and requests served, a *)
(* console restarts for a reason only and reaches its database, each but   *)
(* for the mishaps it names.                                               *)
(***************************************************************************)
EXTENDS ConsoleReconcile, FiniteSetTheorems, FunctionTheorems, SequenceTheorems, WellFoundedInduction, TLAPS

-----------------------------------------------------------------------------
(* The inductive invariant                                                 *)

\* The worker reconciles console c.
On(c) == worker # Idle /\ Con = c

\* The places of the worker up to one, and those after it
Early == {"version", "checks"}
PreManagers == Early \cup {"patch", "managers"}
PreActions == PreManagers \cup {"env", "configs", "deployment", "access", "states", "cmupdates", "actions"}
Ending == {"save", "status"}

\* What the worker knows at a point of its course, until a patch refreshes its copy of the spec.
Course ==
    /\ ~up => watch = <<>> /\ worker = Idle
    /\ worker # Idle =>
          /\ worker.pc \notin Ending => worker.result = "done"
          /\ worker.pc \in Early => Inst = worker.base
          /\ worker.pc \in PreActions =>
                /\ Inst.restart = worker.base.restart
                /\ Inst.rev = worker.base.rev /\ Inst.network = worker.base.network
          /\ worker.pc = "patch" => worker.base.conn \in {Inst.conn, Default} /\ Inst.conn # Default
          /\ worker.pc \in PreActions \ (Early \cup {"patch"}) =>
                worker.base.conn = Inst.conn /\ Inst.conn # Default

\* One console has the flags, or nobody.
OwnerInv ==
    /\ owner \in [con : SUBSET Consoles, read : SUBSET Flags]
    /\ owner.con # {} => \E c \in Consoles : owner.con = {c}
    /\ owner.con = {} => \A f \in Flags : ~update[f]

\* Of a console's connection strings those with credentials agree; as long as it has none nothing
\* else has.
Agree(c, conn) == \A made \in {objs[c].env, objs[c].db} : made > 0 => conn = made

DatabaseOf(c) ==
    /\ objs[c].env > 0 => Agree(c, objs[c].env)
    /\ spec[c].conn >= 0 => Agree(c, spec[c].conn)
    /\ On(c) /\ worker.base.conn > 0 => Agree(c, worker.base.conn) /\ spec[c].conn \in {worker.base.conn, Remote}
    /\ On(c) /\ worker.base.conn = Default /\ worker.pc \in Early \cup {"patch"} =>
          Agree(c, Default) /\ spec[c].conn \in {Default, Remote}

DatabaseInv == "reset" \in mishaps \/ \A c \in Consoles : DatabaseOf(c)

\* A console that need not restart: what would make it do so is not under way.
SameReads(s, t) == ~EnvCMUpdated(s, t) /\ ~DeployerCMUpdated(s, t) /\ ~ConsoleCMUpdated(s, t)

AtRest(c) ==
    /\ ~pending[c] /\ (c \in there => ~spec[c].restart)
    /\ owner.con = {c} => \A f \in Flags \ {"spec"} : update[f] => f \in owner.read
    /\ \A i \in DOMAIN watch : watch[i].con = c /\ watch[i].kind = "create" => SameReads(watch[i].obj, spec[c])
    /\ \/ saved[c] = NoSpec
       \/ SameReads(saved[c], spec[c])
       \/ /\ On(c) /\ worker.pc = "save" /\ worker.result = "done" /\ SameReads(Inst, spec[c])
          /\ \A i \in DOMAIN watch : watch[i].con = c => watch[i].kind # "create"

RestInv ==
    \/ mishaps \cap {"borrowed", "reread", "outdated", "normalised", "unsaved"} # {}
    \/ \A c \in Consoles : c \in wanted \/ AtRest(c)

\* Why the operator panics.
NetworkInv ==
    \/ "nonetwork" \in mishaps
    \/ /\ \A c \in there : spec[c].network
       /\ \A c \in Consoles : saved[c] # NoSpec => saved[c].network
       /\ \A i \in DOMAIN watch : watch[i].kind = "create" => watch[i].obj.network
       /\ worker # Idle => Inst.network

Remotely(c) == objs[c].dep # Absent /\ objs[c].db = Default

RemoteInv ==
    \/ "tolocal" \in mishaps
    \/ \A c \in Consoles :
          /\ Remotely(c) => spec[c].conn = Remote
          /\ On(c) /\ worker.base.conn = Remote => spec[c].conn = Remote
          /\ On(c) /\ Remotely(c) /\ worker.pc \notin Ending => worker.base.conn = Remote

PanicInv == "panicked" \in mishaps => mishaps \cap {"tolocal", "nonetwork"} # {}

\* A request to restart is in an event, or in a flag whose console is to be reconciled.
Current(c) == On(c) /\ worker.base = spec[c]
Waits(c) == \E i \in DOMAIN watch : watch[i].con = c /\ watch[i].kind = "spec" /\ watch[i].restart
ToServe(c) ==
    /\ <<c, "restart">> \in due
    /\ c \in queue \/ (Current(c) /\ (worker.pc \in PreActions \/ worker.result # "done"))

RequestInv ==
    \/ mishaps \cap {"wiped", "refused", "down", "crashed", "panicked", "failed"} # {}
    \/ /\ up
       /\ \A c \in there \ taken : spec[c].network /\ spec[c].restart => Waits(c) \/ ToServe(c)

\* An edit is in an event, in a flag whose console is to be reconciled, or in the hands of the
\* worker, which has come past an object or will write it.
Edited(c) == \E i \in DOMAIN watch : watch[i].con = c /\ watch[i].kind = "spec"
Ahead(c) == Edited(c) \/ (<<c, "spec">> \in due /\ c \in queue)
Listed(c) == \E i \in DOMAIN watch : watch[i].con = c /\ watch[i].kind = "create"
Again(c) == Current(c) /\ worker.result # "done"

\* The places of the worker before an object is written
BeforeEnv == PreManagers \cup {"env"}
BeforeConfigs == BeforeEnv \cup {"configs"}
BeforeDeployment == BeforeConfigs \cup {"deployment"}
BeforeStates == BeforeDeployment \cup {"access", "states"}

Written(object, content, before) ==
    \/ object = content
    \/ worker.pc \in before /\ (object = Absent \/ (worker.upd /\ worker.pc \notin {"access", "states"}))

InHand(c) ==
    /\ Current(c) /\ worker.result = "done"
    /\ Written(objs[c].env, spec[c].conn, BeforeEnv)
    /\ Written(objs[c].deployer, spec[c].rev["deployer"], BeforeConfigs)
    /\ Written(objs[c].console, spec[c].rev["console"], BeforeConfigs)
    /\ Written(objs[c].dep, spec[c].rev["pod"], BeforeStates)

Cared(c) ==
    \/ Ahead(c) \/ Listed(c)
    \/ <<c, "spec">> \in due /\ Current(c) /\ (worker.pc \in PreManagers \/ worker.result # "done")
    \/ Applied(c, spec[c]) /\ ~On(c)
    \/ InHand(c)
    \/ (c \in queue \/ Again(c)) /\ MadeFrom(c, spec[c])

\* A console that is listed as it was before an edit has the edit still to come.
Behind ==
    \A i \in DOMAIN watch :
        watch[i].kind = "create" /\ watch[i].obj # spec[watch[i].con] =>
            \E j \in DOMAIN watch : j > i /\ watch[j].con = watch[i].con /\ watch[j].kind = "spec"

Looks ==
    /\ \A c \in Consoles : On(c) => Current(c) \/ Ahead(c)
    /\ worker # Idle /\ worker.pc \in PreManagers => ~worker.upd

AllCared == \A c \in there \ taken : spec[c].network => Cared(c)

EditOK == Behind /\ Looks /\ (up => AllCared)

EditInv == mishaps \cap {"wiped", "skipped", "refused", "failed", "panicked"} # {} \/ EditOK

IInv ==
    /\ TypeOK /\ Course
    /\ DatabaseInv
    /\ OwnerInv /\ RestInv
    /\ NetworkInv /\ RemoteInv /\ PanicInv
    /\ RequestInv /\ EditInv

-----------------------------------------------------------------------------
(* The types of what is in the variables                                   *)

LEMMA SpecsFacts ==
  /\ NoSpec \notin Specs
  /\ \A s \in Specs :
        /\ s.conn \in Int /\ s.conn >= -1 /\ s.conn \in Connections
        /\ s.inline \in BOOLEAN /\ s.network \in BOOLEAN /\ s.bare \in BOOLEAN /\ s.restart \in BOOLEAN
        /\ s.rev \in [Parts -> Nat]
        /\ s.rev["deployer"] \in Nat /\ s.rev["console"] \in Nat /\ s.rev["pod"] \in Nat
<1>1. \A s \in Specs : s.rev \in [Parts -> Nat]
  BY DEF Specs
<1>2. "deployer" \in Parts /\ "console" \in Parts /\ "pod" \in Parts
  BY DEF Parts
<1>3. \A s \in Specs : s.conn \in Connections
  BY DEF Specs
<1>4. NoSpec \notin Specs
  <2>1. NoSpec.conn = -2 /\ -2 \notin Connections
    BY DEF NoSpec, Connections, Remote
  <2> QED
    BY <1>3, <2>1
<1>5. \A x \in Connections : x \in Int /\ x >= -1
  BY DEF Connections, Remote
<1>6. \A s \in Specs : s.inline \in BOOLEAN /\ s.network \in BOOLEAN /\ s.bare \in BOOLEAN /\ s.restart \in BOOLEAN
  BY DEF Specs
<1>7. \A s \in Specs : s.rev["deployer"] \in Nat /\ s.rev["console"] \in Nat /\ s.rev["pod"] \in Nat
  BY <1>1, <1>2
<1> QED
  BY <1>1, <1>3, <1>4, <1>5, <1>6, <1>7

LEMMA ReconcilesFacts ==
  ASSUME NEW w \in Reconciles
  PROVE  /\ w # Idle
         /\ w.pc \in PCs /\ w.con \in Consoles /\ w.base \in Specs /\ w.inst \in Specs
         /\ w.upd \in BOOLEAN /\ w.took \in SUBSET (Consoles \X {"spec"})
         /\ w.result \in {"done", "requeue", "error"}
  BY DEF Reconciles, Idle, PCs

LEMMA ObjectsFacts ==
  ASSUME NEW o \in Objects
  PROVE  /\ o.made \in SUBSET Simple /\ o.env \in Connections \cup {Absent}
         /\ o.deployer \in Nat \cup {Absent} /\ o.console \in Nat \cup {Absent}
         /\ o.dep \in Nat \cup {Absent} /\ o.db \in Nat
         /\ o.env \in Int /\ o.deployer \in Int /\ o.console \in Int /\ o.dep \in Int /\ o.db \in Int
<1>1. /\ o.made \in SUBSET Simple /\ o.env \in Connections \cup {Absent}
      /\ o.deployer \in Nat \cup {Absent} /\ o.console \in Nat \cup {Absent}
      /\ o.dep \in Nat \cup {Absent} /\ o.db \in Nat
  BY DEF Objects
<1>2. Connections \cup {Absent} \subseteq Int /\ Nat \cup {Absent} \subseteq Int
  BY DEF Connections, Absent, Remote
<1> QED
  BY <1>1, <1>2

\* The parts of TypeOK that actions disturb.
WatchOK ==
    /\ watch \in Seq(Events)
    /\ \A i \in DOMAIN watch :
          watch[i].con \in there /\ (watch[i].kind = "create" => watch[i].obj \in Specs)

WorkerOK == worker # Idle => worker \in Reconciles /\ worker.con \in there /\ up

LEMMA TypeParts == TypeOK => WatchOK /\ WorkerOK
  BY DEF TypeOK, WatchOK, WorkerOK

LEMMA WorkerFacts ==
  ASSUME TypeOK, worker # Idle
  PROVE  /\ worker \in Reconciles /\ Con \in there /\ Con \in Consoles /\ up
         /\ spec[Con] \in Specs /\ objs[Con] \in Objects
         /\ worker.pc \in PCs /\ worker.base \in Specs /\ Inst \in Specs /\ worker.upd \in BOOLEAN
         /\ worker.took \in SUBSET (Consoles \X {"spec"})
         /\ worker.result \in {"done", "requeue", "error"}
<1>1. worker \in Reconciles /\ Con \in there /\ up
  BY DEF TypeOK, Con
<1>2. Con \in Consoles /\ spec[Con] \in Specs
  BY <1>1 DEF TypeOK
<1>3. objs[Con] \in Objects
  BY <1>2 DEF TypeOK
<1> QED
  BY <1>1, <1>2, <1>3, ReconcilesFacts DEF Inst

LEMMA EventFacts ==
  /\ \A e \in Events : /\ e.con \in Consoles /\ e.kind \in {"create", "spec", "zone", "status"}
                       /\ e.restart \in BOOLEAN /\ e.obj \in Specs \cup {NoSpec}
  /\ \A c \in Consoles, kind \in {"spec", "zone", "status"}, restart \in BOOLEAN :
        Changed(c, kind, restart) \in Events
  /\ \A c, kind, restart :
        /\ Changed(c, kind, restart).con = c /\ Changed(c, kind, restart).kind = kind
        /\ Changed(c, kind, restart).restart = restart
<1>1. \A e \in Events : /\ e.con \in Consoles /\ e.kind \in {"create", "spec", "zone", "status"}
                       /\ e.restart \in BOOLEAN /\ e.obj \in Specs \cup {NoSpec}
  BY DEF Events
<1>2. \A c \in Consoles, kind \in {"spec", "zone", "status"}, restart \in BOOLEAN :
        Changed(c, kind, restart) \in Events
  BY DEF Events, Changed
<1>3. \A c, kind, restart :
        /\ Changed(c, kind, restart).con = c /\ Changed(c, kind, restart).kind = kind
        /\ Changed(c, kind, restart).restart = restart
  BY DEF Changed
<1> QED
  BY <1>1, <1>2, <1>3

LEMMA TailFacts ==
  ASSUME NEW T, NEW s \in Seq(T), s # <<>>
  PROVE  /\ Head(s) = s[1] /\ Head(s) \in T /\ 1 \in DOMAIN s
         /\ Tail(s) \in Seq(T)
         /\ Len(s) \in Nat /\ Len(Tail(s)) = Len(s) - 1
         /\ DOMAIN s = 1..Len(s) /\ DOMAIN Tail(s) = 1..(Len(s) - 1)
         /\ \A i \in DOMAIN Tail(s) : i + 1 \in DOMAIN s /\ Tail(s)[i] = s[i + 1]
         /\ \A i \in DOMAIN s : i # 1 => i - 1 \in DOMAIN Tail(s) /\ Tail(s)[i - 1] = s[i]
<1>1. Len(s) \in Nat /\ Len(s) # 0 /\ DOMAIN s = 1..Len(s)
  BY EmptySeq, LenProperties
<1>2. /\ Head(s) = s[1] /\ Head(s) \in T
      /\ Tail(s) \in Seq(T) /\ Len(Tail(s)) = Len(s) - 1
      /\ \A i \in 1..Len(Tail(s)) : Tail(s)[i] = s[i + 1]
  BY HeadTailProperties
<1>3. DOMAIN Tail(s) = 1..(Len(s) - 1)
  BY <1>2, LenProperties
<1> QED
  BY <1>1, <1>2, <1>3

LEMMA WatchFacts ==
  ASSUME WatchOK, watch # <<>>
  PROVE  /\ Next1 \in Events /\ Next1.con \in there /\ Next1 = watch[1] /\ 1 \in DOMAIN watch
         /\ Next1.kind = "create" => Next1.obj \in Specs
         /\ Tail(watch) \in Seq(Events)
         /\ Len(watch) \in Nat /\ DOMAIN watch = 1..Len(watch) /\ DOMAIN Tail(watch) = 1..(Len(watch) - 1)
         /\ \A i \in DOMAIN Tail(watch) :
               i + 1 \in DOMAIN watch /\ Tail(watch)[i] = watch[i + 1]
         /\ \A i \in DOMAIN Tail(watch) :
               Tail(watch)[i].con \in there
               /\ (Tail(watch)[i].kind = "create" => Tail(watch)[i].obj \in Specs)
         /\ \A i \in DOMAIN watch : i # 1 => i - 1 \in DOMAIN Tail(watch) /\ Tail(watch)[i - 1] = watch[i]
<1>1. watch \in Seq(Events)
  BY DEF WatchOK
<1>2. /\ Head(watch) = watch[1] /\ Head(watch) \in Events /\ 1 \in DOMAIN watch
      /\ Tail(watch) \in Seq(Events)
      /\ Len(watch) \in Nat
      /\ DOMAIN watch = 1..Len(watch) /\ DOMAIN Tail(watch) = 1..(Len(watch) - 1)
      /\ \A i \in DOMAIN Tail(watch) : i + 1 \in DOMAIN watch /\ Tail(watch)[i] = watch[i + 1]
      /\ \A i \in DOMAIN watch : i # 1 => i - 1 \in DOMAIN Tail(watch) /\ Tail(watch)[i - 1] = watch[i]
  BY <1>1, TailFacts
<1>3. \A i \in DOMAIN watch : watch[i].con \in there /\ (watch[i].kind = "create" => watch[i].obj \in Specs)
  BY DEF WatchOK
<1>4. Next1 = watch[1] /\ Next1 \in Events /\ Next1.con \in there
      /\ (Next1.kind = "create" => Next1.obj \in Specs)
  BY <1>2, <1>3 DEF Next1
<1>5. \A i \in DOMAIN Tail(watch) :
         Tail(watch)[i].con \in there
         /\ (Tail(watch)[i].kind = "create" => Tail(watch)[i].obj \in Specs)
  BY <1>2, <1>3
<1> QED
  BY <1>2, <1>4, <1>5

LEMMA AppendFacts ==
  ASSUME NEW T, NEW s \in Seq(T), NEW e \in T
  PROVE  /\ Append(s, e) \in Seq(T) /\ Len(s) \in Nat
         /\ DOMAIN s = 1..Len(s) /\ DOMAIN Append(s, e) = 1..(Len(s) + 1)
         /\ \A i \in DOMAIN s : i \in DOMAIN Append(s, e) /\ Append(s, e)[i] = s[i]
         /\ Append(s, e)[Len(s) + 1] = e /\ Len(s) + 1 \in DOMAIN Append(s, e)
         /\ \A i \in DOMAIN Append(s, e) : i \in DOMAIN s \/ i = Len(s) + 1
<1>1. Len(s) \in Nat /\ DOMAIN s = 1..Len(s)
  BY LenProperties
<1>2. /\ Append(s, e) \in Seq(T) /\ Len(Append(s, e)) = Len(s) + 1
      /\ \A i \in 1..Len(s) : Append(s, e)[i] = s[i]
      /\ Append(s, e)[Len(s) + 1] = e
  BY AppendProperties
<1>3. DOMAIN Append(s, e) = 1..(Len(s) + 1)
  BY <1>2, LenProperties
<1> QED
  BY <1>1, <1>2, <1>3

LEMMA NotifyFacts ==
  ASSUME WatchOK, there' = there,
         NEW c \in there, c \in Consoles, NEW kind \in {"spec", "zone", "status"}, NEW restart \in BOOLEAN,
         Notify(c, kind, restart)
  PROVE  /\ WatchOK' /\ Len(watch) \in Nat
         /\ DOMAIN watch = 1..Len(watch) /\ DOMAIN watch' = 1..(Len(watch) + 1)
         /\ \A i \in DOMAIN watch : i \in DOMAIN watch' /\ watch'[i] = watch[i]
         /\ Len(watch) + 1 \in DOMAIN watch'
         /\ watch'[Len(watch) + 1] = Changed(c, kind, restart)
         /\ watch'[Len(watch) + 1].con = c /\ watch'[Len(watch) + 1].kind = kind
         /\ watch'[Len(watch) + 1].restart = restart
         /\ \A i \in DOMAIN watch' : i \in DOMAIN watch \/ i = Len(watch) + 1
<1> DEFINE e == Changed(c, kind, restart)
<1>1. e \in Events /\ e.con = c /\ e.kind = kind /\ e.restart = restart
  BY EventFacts
<1>2. watch' = Append(watch, e) /\ watch \in Seq(Events)
  BY DEF Notify, WatchOK
<1> HIDE DEF e
<1>3. /\ watch' \in Seq(Events) /\ Len(watch) \in Nat
      /\ DOMAIN watch = 1..Len(watch) /\ DOMAIN watch' = 1..(Len(watch) + 1)
      /\ \A i \in DOMAIN watch : i \in DOMAIN watch' /\ watch'[i] = watch[i]
      /\ watch'[Len(watch) + 1] = e /\ Len(watch) + 1 \in DOMAIN watch'
      /\ \A i \in DOMAIN watch' : i \in DOMAIN watch \/ i = Len(watch) + 1
  BY <1>1, <1>2, AppendFacts
<1>4. \A i \in DOMAIN watch' :
         watch'[i].con \in there' /\ (watch'[i].kind = "create" => watch'[i].obj \in Specs)
  <2> TAKE i \in DOMAIN watch'
  <2>1. CASE i \in DOMAIN watch
    BY <2>1, <1>3 DEF WatchOK
  <2>2. CASE i = Len(watch) + 1
    BY <2>2, <1>3, <1>1
  <2> QED
    BY <2>1, <2>2, <1>3
<1> QED
  BY <1>1, <1>3, <1>4 DEF WatchOK, e

LEMMA NoteTyped ==
  ASSUME mishaps \subseteq Mishaps, NEW new \in SUBSET Mishaps, Note(new)
  PROVE  mishaps' \subseteq Mishaps
  BY DEF Note

LEMMA IfFacts ==
  \A name, condition : If(name, condition) \subseteq {name} /\ (name \in If(name, condition) <=> condition)
  BY Zenon DEF If

LEMMA UpdateTyped ==
  ASSUME TypeOK
  PROVE  /\ update["spec"] \in BOOLEAN /\ update["restart"] \in BOOLEAN /\ update["deployer"] \in BOOLEAN
         /\ update["console"] \in BOOLEAN /\ update["env"] \in BOOLEAN
         /\ Flags = {"spec", "restart", "deployer", "console", "env"}
  BY DEF TypeOK, Flags

LEMMA NoUpdateTyped == NoUpdate \in [Flags -> BOOLEAN] /\ \A f \in Flags : ~NoUpdate[f]
  BY DEF NoUpdate

LEMMA TakeFacts ==
  ASSUME TypeOK, watch # <<>>, there' = there,
         NEW flags \in SUBSET Flags, NEW enqueue \in BOOLEAN, Take(flags, enqueue)
  PROVE  /\ WatchOK' /\ watch' = Tail(watch)
         /\ update' \in [Flags -> BOOLEAN] /\ \A f \in Flags : update'[f] <=> f \in flags
         /\ queue' \subseteq Consoles /\ queue \subseteq queue' /\ queue' \subseteq queue \cup {Next1.con}
         /\ enqueue => Next1.con \in queue'
         /\ due' \subseteq Consoles \X {"spec", "restart"} /\ due \subseteq due'
         /\ \A f \in {"spec", "restart"} : f \in flags => <<Next1.con, f>> \in due'
         /\ \A d \in due' : d \in due \/ (d[1] = Next1.con /\ d[2] \in flags)
         /\ owner' = [con |-> If(Next1.con, flags # {}), read |-> {}]
         /\ worker' = worker /\ up' = up
<1>1. /\ watch' = Tail(watch)
      /\ update' = [f \in Flags |-> f \in flags]
      /\ queue' = queue \cup If(Next1.con, enqueue)
      /\ due' = due \cup {<<Next1.con, f>> : f \in flags \cap {"spec", "restart"}}
      /\ owner' = [con |-> If(Next1.con, flags # {}), read |-> {}]
      /\ worker' = worker /\ up' = up
  BY Zenon DEF Take
<1>2. WatchOK
  BY TypeParts
<1>3. Next1 \in Events /\ Next1.con \in Consoles
  BY <1>2, WatchFacts, EventFacts
<1>4. WatchOK'
  BY <1>1, <1>2, WatchFacts DEF WatchOK
<1>5. update' \in [Flags -> BOOLEAN] /\ \A f \in Flags : update'[f] <=> f \in flags
  <2>1. \A f \in Flags : (f \in flags) \in BOOLEAN
    OBVIOUS
  <2>2. update' \in [Flags -> BOOLEAN]
    BY <1>1, <2>1, Zenon
  <2>3. \A f \in Flags : update'[f] = (f \in flags)
    BY <1>1, Zenon
  <2> QED
    BY <2>2, <2>3
<1>6. queue' \subseteq Consoles /\ queue \subseteq queue' /\ queue' \subseteq queue \cup {Next1.con}
      /\ (enqueue => Next1.con \in queue')
  BY <1>1, <1>3 DEF TypeOK, If
<1>7. /\ due' \subseteq Consoles \X {"spec", "restart"} /\ due \subseteq due'
      /\ \A f \in {"spec", "restart"} : f \in flags => <<Next1.con, f>> \in due'
      /\ \A d \in due' : d \in due \/ (d[1] = Next1.con /\ d[2] \in flags)
  BY <1>1, <1>3 DEF TypeOK
<1> QED
  BY <1>1, <1>4, <1>5, <1>6, <1>7

LEMMA DownFacts ==
  ASSUME TypeOK, there' = there, Down
  PROVE  /\ WatchOK' /\ watch' = <<>> /\ DOMAIN watch' = {} /\ queue' = {} /\ due' = {}
         /\ update' = NoUpdate /\ update' \in [Flags -> BOOLEAN]
         /\ up' = FALSE /\ worker' = Idle /\ owner' = Nobody
<1>1. DOMAIN <<>> = {} /\ <<>> \in Seq(Events)
  BY EmptySeq
<1> QED
  BY <1>1, NoUpdateTyped DEF Down, WatchOK

LEMMA GotoFacts ==
  ASSUME TypeOK, worker # Idle, NEW pc \in PCs, Goto(pc)
  PROVE  /\ worker' \in Reconciles /\ worker' # Idle
         /\ worker'.pc = pc /\ worker'.con = Con /\ worker'.base = worker.base /\ worker'.inst = Inst
         /\ worker'.upd = worker.upd /\ worker'.took = worker.took /\ worker'.result = worker.result
<1>1. worker \in Reconciles
  BY WorkerFacts
<1>2. worker' = [worker EXCEPT !.pc = pc]
  BY DEF Goto
<1>3. worker' \in Reconciles
  BY <1>1, <1>2 DEF Reconciles
<1>4. worker'.pc = pc /\ worker'.con = Con /\ worker'.base = worker.base /\ worker'.inst = Inst
      /\ worker'.upd = worker.upd /\ worker'.took = worker.took /\ worker'.result = worker.result
  BY <1>1, <1>2 DEF Reconciles, Con, Inst
<1> QED
  BY <1>3, <1>4, ReconcilesFacts

LEMMA EndFacts ==
  ASSUME TypeOK, worker # Idle, NEW r \in {"error", "requeue"},
         worker' = [worker EXCEPT !.pc = "save", !.result = r]
  PROVE  /\ worker' \in Reconciles /\ worker' # Idle
         /\ worker'.pc = "save" /\ worker'.con = Con /\ worker'.base = worker.base /\ worker'.inst = Inst
         /\ worker'.upd = worker.upd /\ worker'.took = worker.took /\ worker'.result = r
<1>1. worker \in Reconciles
  BY WorkerFacts
<1>2. worker' \in Reconciles
  BY <1>1 DEF Reconciles, PCs
<1>3. worker'.pc = "save" /\ worker'.con = Con /\ worker'.base = worker.base /\ worker'.inst = Inst
      /\ worker'.upd = worker.upd /\ worker'.took = worker.took /\ worker'.result = r
  BY <1>1 DEF Reconciles, Con, Inst
<1> QED
  BY <1>2, <1>3, ReconcilesFacts

LEMMA RolloutFacts ==
  ASSUME TypeOK, Con \in Consoles, NEW changed \in BOOLEAN, Rollout(changed)
  PROVE  /\ pods' \in [Consoles -> {"none", "starting", "running"}]
         /\ queue \subseteq queue' /\ queue' \subseteq Consoles
  BY DEF TypeOK, Rollout

LEMMA ServesFacts ==
  ASSUME TypeOK, NEW need
  PROVE  Serves(need) \subseteq due /\ \A d \in Serves(need) : d = <<Con, need>>
  BY DEF Serves

LEMMA ReadFacts ==
  ASSUME TypeOK, worker # Idle, NEW f \in SUBSET Flags, NEW need \in Flags, Read(f, need)
  PROVE  /\ due' = due \ Serves(need) /\ due' \subseteq Consoles \X {"spec", "restart"}
         /\ mishaps \subseteq mishaps' /\ mishaps' \subseteq Mishaps
         /\ mishaps' \subseteq mishaps \cup {"wiped", "borrowed", "reread"}
         /\ Serves(need) # {} /\ ~update[need] => "wiped" \in mishaps'
         /\ owner.con \notin {{}, {Con}} => "borrowed" \in mishaps'
         /\ \A g \in f : update[g] /\ g \in owner.read => "reread" \in mishaps'
         /\ owner' = [owner EXCEPT !.read = @ \cup {g \in f \ {"spec"} : update[g]}]
<1> DEFINE wiped == Serves(need) # {} /\ ~update[need]
           borrowed == owner.con \notin {{}, {Con}}
           reread == \E g \in f : update[g] /\ g \in owner.read
<1>1. /\ due' = due \ Serves(need)
      /\ owner' = [owner EXCEPT !.read = @ \cup {g \in f \ {"spec"} : update[g]}]
      /\ mishaps' = mishaps \cup (If("wiped", wiped) \cup If("borrowed", borrowed) \cup If("reread", reread))
  BY Zenon DEF Read, Note
<1>2. due' \subseteq Consoles \X {"spec", "restart"}
  BY <1>1 DEF TypeOK
<1>3. /\ wiped => "wiped" \in mishaps'
      /\ borrowed => "borrowed" \in mishaps'
      /\ reread => "reread" \in mishaps'
      /\ mishaps' \subseteq mishaps \cup {"wiped", "borrowed", "reread"}
      /\ mishaps \subseteq mishaps'
  <2> HIDE DEF wiped, borrowed, reread
  <2> QED
    BY <1>1, IfFacts, Zenon
<1>4. {"wiped", "borrowed", "reread"} \subseteq Mishaps
  BY DEF Mishaps
<1>5. mishaps' \subseteq Mishaps
  BY <1>3, <1>4, Zenon DEF TypeOK
<1>6. \A g \in f : update[g] /\ g \in owner.read => "reread" \in mishaps'
  BY <1>3, Zenon
<1> QED
  BY <1>1, <1>2, <1>3, <1>5, <1>6, Zenon

-----------------------------------------------------------------------------
(* Every step keeps the types: predicates, mishaps, the cluster            *)

LEMMA EventTyped == TypeOK /\ Event => events' \in 0..MaxEvents
  BY ConstantsOK DEF TypeOK, Event

LEMMA TypesTaken ==
  ASSUME TypeOK, watch # <<>>, NEW flags \in SUBSET Flags, NEW enqueue \in BOOLEAN, Take(flags, enqueue),
         UNCHANGED <<resourceVars, names, clusterVars, generated, wanted>>,
         events' \in 0..MaxEvents, mishaps' \subseteq Mishaps
  PROVE  TypeOK'
<1>1. there' = there
  BY DEF names
<1>2. /\ WatchOK' /\ update' \in [Flags -> BOOLEAN] /\ queue' \subseteq Consoles
      /\ due' \subseteq Consoles \X {"spec", "restart"} /\ worker' = worker /\ up' = up
  BY <1>1, TakeFacts
<1> QED
  BY <1>2 DEF TypeOK, WatchOK, resourceVars, names, clusterVars

LEMMA CreateFuncNewTypes == TypeOK /\ CreateFuncNew => TypeOK'
<1> SUFFICES ASSUME TypeOK, CreateFuncNew
             PROVE  TypeOK'
  OBVIOUS
<1>1. watch # <<>> /\ Take({}, TRUE)
      /\ UNCHANGED <<resourceVars, names, clusterVars, generated, wanted, events>>
  BY DEF CreateFuncNew, Delivered
<1>2. mishaps' \subseteq Mishaps
  <2> DEFINE skipped == If("skipped", ~MadeFrom(Next1.con, Next1.obj))
  <2>1. skipped \subseteq {"skipped"} /\ "skipped" \in Mishaps
    BY IfFacts DEF Mishaps
  <2>2. mishaps' = mishaps \cup skipped
    BY DEF CreateFuncNew, Note
  <2> HIDE DEF skipped
  <2> QED
    BY <2>1, <2>2 DEF TypeOK
<1>3. events' \in 0..MaxEvents
  BY <1>1 DEF TypeOK
<1> QED
  BY <1>1, <1>2, <1>3, TypesTaken

LEMMA CreateFuncUnreadTypes == TypeOK /\ CreateFuncUnread => TypeOK'
<1> SUFFICES ASSUME TypeOK, CreateFuncUnread
             PROVE  TypeOK'
  OBVIOUS
<1>1. watch # <<>> /\ Take({}, TRUE)
      /\ UNCHANGED <<resourceVars, names, clusterVars, generated, wanted>>
  BY DEF CreateFuncUnread, Delivered
<1>2. mishaps' \subseteq Mishaps
  BY DEF CreateFuncUnread, Note, TypeOK, Mishaps
<1>3. events' \in 0..MaxEvents
  BY EventTyped DEF CreateFuncUnread, TypeOK
<1> QED
  BY <1>1, <1>2, <1>3, TypesTaken

LEMMA UpdateFuncIgnoredTypes == TypeOK /\ UpdateFuncIgnored => TypeOK'
<1> SUFFICES ASSUME TypeOK, UpdateFuncIgnored
             PROVE  TypeOK'
  OBVIOUS
<1>1. watch # <<>> /\ Take({}, FALSE)
      /\ UNCHANGED <<resourceVars, names, clusterVars, generated, wanted, events, mishaps>>
  BY DEF UpdateFuncIgnored, Delivered
<1>2. mishaps' \subseteq Mishaps /\ events' \in 0..MaxEvents
  BY <1>1 DEF TypeOK
<1> QED
  BY <1>1, <1>2, TypesTaken

LEMMA UpdateFuncTypes == TypeOK /\ UpdateFunc => TypeOK'
<1> SUFFICES ASSUME TypeOK, UpdateFunc
             PROVE  TypeOK'
  OBVIOUS
<1>1. watch # <<>> /\ Take({"spec"} \cup If("restart", Next1.restart), TRUE)
      /\ UNCHANGED <<resourceVars, names, clusterVars, generated, wanted, events>>
  BY DEF UpdateFunc, Delivered
<1>2. mishaps' \subseteq Mishaps
  BY IfFacts DEF UpdateFunc, Note, TypeOK, Mishaps
<1>3. events' \in 0..MaxEvents
  BY <1>1 DEF TypeOK
<1>4. {"spec"} \cup If("restart", Next1.restart) \in SUBSET Flags
  BY IfFacts DEF Flags
<1> QED
  BY <1>1, <1>2, <1>3, <1>4, TypesTaken

\* The flags of a console whose spec is not the saved one
Differences(new, old) ==
    {"spec"} \cup If("deployer", DeployerCMUpdated(new, old))
             \cup If("console", ConsoleCMUpdated(new, old))
             \cup If("env", EnvCMUpdated(new, old))

LEMMA SeenCases ==
  CreateFuncSeen =>
    /\ watch # <<>> /\ up /\ Next1.kind = "create" /\ status[Next1.con] # "none" /\ saved[Next1.con] # NoSpec
    /\ UNCHANGED <<resourceVars, names, clusterVars, generated, events, wanted>>
    /\ \/ /\ Next1.obj = saved[Next1.con]
          /\ Take({}, FALSE) /\ Note(If("skipped", ~Applied(Next1.con, Next1.obj)))
       \/ /\ Next1.obj # saved[Next1.con] /\ Next1.obj.network /\ saved[Next1.con].network
          /\ Take(Differences(Next1.obj, saved[Next1.con]), TRUE) /\ Note({})
       \/ /\ Next1.obj # saved[Next1.con] /\ ~(Next1.obj.network /\ saved[Next1.con].network)
          /\ Down /\ Note({"panicked"} \cup Unsaved)
  BY DEF CreateFuncSeen, Delivered, Differences

LEMMA DifferencesTyped == \A new, old : Differences(new, old) \in SUBSET Flags
  BY IfFacts DEF Differences, Flags

LEMMA UnsavedTyped == Unsaved \subseteq {"unsaved"}
  BY IfFacts DEF Unsaved

LEMMA TypesDown ==
  ASSUME TypeOK, Down, NEW new \in SUBSET Mishaps, Note(new),
         UNCHANGED <<resourceVars, names, clusterVars, generated, wanted>>,
         events' \in 0..MaxEvents
  PROVE  TypeOK'
<1>1. there' = there
  BY DEF names
<1>2. /\ WatchOK' /\ update' \in [Flags -> BOOLEAN] /\ queue' = {} /\ due' = {} /\ worker' = Idle /\ up' = FALSE
  BY <1>1, DownFacts
<1>3. mishaps' \subseteq Mishaps
  BY NoteTyped DEF TypeOK
<1> QED
  BY <1>2, <1>3 DEF TypeOK, WatchOK, resourceVars, names, clusterVars

LEMMA CreateFuncSeenTypes == TypeOK /\ CreateFuncSeen => TypeOK'
<1> SUFFICES ASSUME TypeOK, CreateFuncSeen
             PROVE  TypeOK'
  OBVIOUS
<1>1. /\ watch # <<>>
      /\ UNCHANGED <<resourceVars, names, clusterVars, generated, wanted, events>>
  BY SeenCases
<1>2. events' \in 0..MaxEvents
  BY <1>1 DEF TypeOK
<1>3. CASE Take({}, FALSE) /\ Note(If("skipped", ~Applied(Next1.con, Next1.obj)))
  <2>1. mishaps' \subseteq Mishaps
    BY <1>3, IfFacts DEF Note, TypeOK, Mishaps
  <2> QED
    BY <1>1, <1>2, <1>3, <2>1, TypesTaken
<1>4. CASE Take(Differences(Next1.obj, saved[Next1.con]), TRUE) /\ Note({})
  <2>1. mishaps' \subseteq Mishaps
    BY <1>4 DEF Note, TypeOK
  <2> QED
    BY <1>1, <1>2, <1>4, <2>1, TypesTaken, DifferencesTyped
<1>5. CASE Down /\ Note({"panicked"} \cup Unsaved)
  <2>1. {"panicked"} \cup Unsaved \in SUBSET Mishaps
    BY UnsavedTyped DEF Mishaps
  <2> QED
    BY <1>1, <1>2, <1>5, <2>1, TypesDown
<1> QED
  BY <1>3, <1>4, <1>5, SeenCases

LEMMA CrashTypes == TypeOK /\ Crash => TypeOK'
<1> SUFFICES ASSUME TypeOK, Crash
             PROVE  TypeOK'
  OBVIOUS
<1>1. {"crashed"} \cup Unsaved \in SUBSET Mishaps
  BY UnsavedTyped DEF Mishaps
<1>2. events' \in 0..MaxEvents
  BY EventTyped DEF Crash
<1> QED
  BY <1>1, <1>2, TypesDown DEF Crash

LEMMA DeploymentPanicTypes == TypeOK /\ DeploymentPanic => TypeOK'
<1> SUFFICES ASSUME TypeOK, DeploymentPanic
             PROVE  TypeOK'
  OBVIOUS
<1>1. {"panicked"} \in SUBSET Mishaps
  BY DEF Mishaps
<1>2. events' \in 0..MaxEvents
  BY DEF DeploymentPanic, TypeOK
<1> QED
  BY <1>1, <1>2, TypesDown DEF DeploymentPanic

LEMMA RefusedWatch ==
  ASSUME TypeOK, CreateFuncRefused
  PROVE  /\ WatchOK' /\ watch # <<>> /\ Next1.con \in there /\ Next1 = watch[1]
         /\ Next1.kind = "create" /\ Next1.obj \in Specs /\ Next1.con \in taken
         /\ DOMAIN watch = 1..Len(watch) /\ Len(watch) \in Nat
         /\ DOMAIN watch' = DOMAIN watch
         /\ \A i \in DOMAIN watch : i # 1 => i - 1 \in DOMAIN watch' /\ watch'[i - 1] = watch[i]
         /\ \A i \in DOMAIN watch' :
               \/ i + 1 \in DOMAIN watch /\ watch'[i] = watch[i + 1]
               \/ i = Len(watch) /\ watch'[i] = Changed(Next1.con, "status", FALSE)
<1> DEFINE e == Changed(Next1.con, "status", FALSE)
<1>1. WatchOK
  BY TypeParts
<1>2. watch # <<>> /\ watch' = Append(Tail(watch), e) /\ there' = there /\ Next1.kind = "create"
      /\ Next1.con \in taken
  BY DEF CreateFuncRefused, Delivered, names
<1>3. /\ Next1 \in Events /\ Next1.con \in there /\ Next1 = watch[1] /\ 1 \in DOMAIN watch
      /\ (Next1.kind = "create" => Next1.obj \in Specs)
      /\ Tail(watch) \in Seq(Events)
      /\ Len(watch) \in Nat /\ DOMAIN watch = 1..Len(watch) /\ DOMAIN Tail(watch) = 1..(Len(watch) - 1)
      /\ \A i \in DOMAIN Tail(watch) : i + 1 \in DOMAIN watch /\ Tail(watch)[i] = watch[i + 1]
      /\ \A i \in DOMAIN Tail(watch) :
            Tail(watch)[i].con \in there
            /\ (Tail(watch)[i].kind = "create" => Tail(watch)[i].obj \in Specs)
      /\ \A i \in DOMAIN watch : i # 1 => i - 1 \in DOMAIN Tail(watch) /\ Tail(watch)[i - 1] = watch[i]
  BY <1>1, <1>2, WatchFacts
<1>4. Len(Tail(watch)) = Len(watch) - 1
  <2>1. Len(Tail(watch)) \in Nat /\ DOMAIN Tail(watch) = 1..Len(Tail(watch))
    BY <1>3, LenProperties
  <2>2. Len(Tail(watch)) = Len(watch) - 1
    BY <1>2, TailFacts DEF TypeOK
  <2> QED
    BY <2>2
<1>5. e \in Events /\ e.con = Next1.con /\ e.kind = "status"
  <2>1. Next1.con \in Consoles /\ FALSE \in BOOLEAN /\ "status" \in {"spec", "zone", "status"}
    BY <1>3, EventFacts
  <2> QED
    BY <2>1, EventFacts DEF Changed
<1> HIDE DEF e
<1>6. /\ watch' \in Seq(Events)
      /\ DOMAIN watch' = 1..(Len(Tail(watch)) + 1)
      /\ \A i \in DOMAIN Tail(watch) : i \in DOMAIN watch' /\ watch'[i] = Tail(watch)[i]
      /\ watch'[Len(Tail(watch)) + 1] = e
      /\ \A i \in DOMAIN watch' : i \in DOMAIN Tail(watch) \/ i = Len(Tail(watch)) + 1
  BY <1>2, <1>3, <1>5, AppendFacts
<1>7. /\ \A i \in DOMAIN Tail(watch) : i \in DOMAIN watch' /\ watch'[i] = Tail(watch)[i]
      /\ watch'[Len(watch)] = e
      /\ \A i \in DOMAIN watch' : i \in DOMAIN Tail(watch) \/ i = Len(watch)
      /\ DOMAIN watch' = DOMAIN watch
  BY <1>3, <1>4, <1>6
<1>8. WatchOK'
  BY <1>2, <1>3, <1>5, <1>6, <1>7 DEF WatchOK
<1>9. \A i \in DOMAIN watch' :
         \/ i + 1 \in DOMAIN watch /\ watch'[i] = watch[i + 1]
         \/ i = Len(watch) /\ watch'[i] = e
  BY <1>3, <1>7
<1> QED
  BY <1>2, <1>3, <1>7, <1>8, <1>9 DEF e

LEMMA CreateFuncRefusedTypes == TypeOK /\ CreateFuncRefused => TypeOK'
<1> SUFFICES ASSUME TypeOK, CreateFuncRefused
             PROVE  TypeOK'
  OBVIOUS
<1>1. WatchOK' /\ Next1.con \in there /\ Next1.obj \in Specs
  BY RefusedWatch
<1>2. Next1.con \in Consoles
  BY <1>1 DEF TypeOK
<1>3. saved' \in [Consoles -> Specs \cup {NoSpec}]
      /\ status' \in [Consoles -> {"none", "Deploying", "Deployed", "Error"}]
  BY <1>1, <1>2 DEF CreateFuncRefused, TypeOK
<1> QED
  BY <1>1, <1>3, NoUpdateTyped DEF CreateFuncRefused, TypeOK, WatchOK, names, clusterVars

LEMMA StepFailsTypes == TypeOK /\ StepFails => TypeOK'
<1> SUFFICES ASSUME TypeOK, StepFails
             PROVE  TypeOK'
  OBVIOUS
<1>1. worker # Idle /\ worker' = [worker EXCEPT !.pc = "save", !.result = "error"]
      /\ due' = due \cup worker.took /\ Note({"failed"})
  BY DEF StepFails, Fail
<1>2. worker' \in Reconciles /\ worker'.con = Con
  BY <1>1, EndFacts
<1>3. due' \subseteq Consoles \X {"spec", "restart"}
  BY <1>1, WorkerFacts DEF TypeOK
<1>4. mishaps' \subseteq Mishaps
  BY <1>1 DEF Note, TypeOK, Mishaps
<1>5. events' \in 0..MaxEvents
  BY EventTyped DEF StepFails
<1> QED
  BY <1>1, <1>2, <1>3, <1>4, <1>5, WorkerFacts
  DEF StepFails, TypeOK, resourceVars, names, clusterVars, Con

LEMMA SetStatusConflictTypes == TypeOK /\ SetStatusConflict => TypeOK'
<1> SUFFICES ASSUME TypeOK, SetStatusConflict
             PROVE  TypeOK'
  OBVIOUS
<1>1. worker # Idle /\ worker' = Idle /\ queue' = queue \cup If(Con, worker.result # "done")
      /\ Note({"conflict"})
  BY DEF SetStatusConflict, At, Finish
<1>2. queue' \subseteq Consoles
  BY <1>1, WorkerFacts DEF TypeOK, If
<1>3. mishaps' \subseteq Mishaps
  BY <1>1 DEF Note, TypeOK, Mishaps
<1>4. events' \in 0..MaxEvents
  BY EventTyped DEF SetStatusConflict
<1> QED
  BY <1>1, <1>2, <1>3, <1>4 DEF SetStatusConflict, TypeOK, resourceVars, names, clusterVars, historyVars

LEMMA GetTypes == ASSUME NEW c \in there PROVE TypeOK /\ Get(c) => TypeOK'
<1> SUFFICES ASSUME TypeOK, Get(c)
             PROVE  TypeOK'
  OBVIOUS
<1>1. c \in Consoles /\ spec[c] \in Specs
  BY DEF TypeOK
<1>2. worker' = [pc |-> "version", con |-> c, base |-> spec[c], inst |-> spec[c], upd |-> FALSE,
                 took |-> {}, result |-> "done"] /\ up
  BY DEF Get
<1>3. worker' \in Reconciles /\ worker'.con = c
  BY <1>1, <1>2 DEF Reconciles, PCs
<1> QED
  BY <1>2, <1>3 DEF Get, TypeOK, resourceVars, names, clusterVars, historyVars

LEMMA PodsTypes ==
  ASSUME NEW c \in there
  PROVE  TypeOK /\ (PodsStart(c) \/ PodsRun(c) \/ PodsFail(c)) => TypeOK'
<1> SUFFICES ASSUME TypeOK, PodsStart(c) \/ PodsRun(c) \/ PodsFail(c)
             PROVE  TypeOK'
  OBVIOUS
<1>1. c \in Consoles
  BY DEF TypeOK
<1>2. PodsChange(c, "starting") \/ PodsChange(c, "running")
  BY DEF PodsStart, PodsRun, PodsFail
<1>3. pods' \in [Consoles -> {"none", "starting", "running"}] /\ queue' \subseteq Consoles
  BY <1>1, <1>2 DEF PodsChange, TypeOK, If
<1>4. events' \in 0..MaxEvents /\ mishaps' = mishaps
  BY EventTyped DEF PodsStart, PodsRun, PodsFail, TypeOK
<1> QED
  BY <1>2, <1>3, <1>4 DEF PodsChange, TypeOK, resourceVars, names, historyVars

-----------------------------------------------------------------------------
(* Every step keeps the types: the reconcile                               *)

\* What PreReconcileChecks makes of the spec it has read.
LEMMA ChecksFacts ==
  ASSUME TypeOK, worker # Idle,
         NEW valid, valid = ValidateSpec(Inst),
         NEW new, new = CreateCouchdbCredentials(CreateSecretsIfRequired(valid))
  PROVE  /\ new \in Specs /\ new.rev = Inst.rev /\ new.network = Inst.network /\ new.restart = Inst.restart
         /\ valid.conn = Inst.conn /\ new.conn # Default
         /\ Inst.conn # Default => new.conn = Inst.conn
         /\ Inst.conn = Default => new.conn = generated + 1
<1>1. Inst \in Specs /\ generated \in Nat
  BY WorkerFacts DEF TypeOK
<1>2. valid \in Specs /\ valid.conn = Inst.conn /\ valid.rev = Inst.rev /\ valid.network = Inst.network
      /\ valid.restart = Inst.restart
  BY <1>1 DEF Specs, ValidateSpec
<1> DEFINE s == CreateSecretsIfRequired(valid)
<1>3. s \in Specs /\ s.conn = Inst.conn /\ s.rev = Inst.rev /\ s.network = Inst.network
      /\ s.restart = Inst.restart
  BY <1>2 DEF Specs, CreateSecretsIfRequired
<1>4. new = IF s.conn = Default THEN [s EXCEPT !.conn = generated + 1] ELSE s
  BY DEF CreateCouchdbCredentials
<1> HIDE DEF s
<1>5. generated + 1 \in Connections /\ generated + 1 # Default
  BY <1>1 DEF Connections, Default
<1>6. CASE s.conn = Default
  <2>1. new = [s EXCEPT !.conn = generated + 1]
    BY <1>4, <1>6
  <2>2. new \in Specs /\ new.rev = s.rev /\ new.network = s.network /\ new.restart = s.restart
        /\ new.conn = generated + 1
    BY <1>3, <1>5, <2>1 DEF Specs
  <2> QED
    BY <1>2, <1>3, <1>5, <1>6, <2>2
<1>7. CASE s.conn # Default
  <2>1. new = s
    BY <1>4, <1>7
  <2> QED
    BY <1>2, <1>3, <1>7, <2>1
<1> QED
  BY <1>6, <1>7

LEMMA PreReconcileChecksTypes == TypeOK /\ PreReconcileChecks => TypeOK'
<1> SUFFICES ASSUME TypeOK, PreReconcileChecks
             PROVE  TypeOK'
  OBVIOUS
<1> DEFINE valid == ValidateSpec(Inst)
           new == CreateCouchdbCredentials(CreateSecretsIfRequired(valid))
<1>1. /\ worker # Idle
      /\ UNCHANGED <<resourceVars, names, pods, pending, watch, queue, update, up, events, wanted, owner>>
      /\ \/ Fail({}) /\ UNCHANGED <<objs, generated>>
         \/ /\ worker' = [worker EXCEPT !.inst = new, !.pc = IF new # valid THEN "patch" ELSE "managers"]
            /\ objs' = [objs EXCEPT ![Con].made = @ \cup If("secret", Inst.inline)]
            /\ generated' = IF new.conn # Inst.conn THEN generated + 1 ELSE generated
            /\ UNCHANGED <<due, mishaps>>
  BY DEF PreReconcileChecks, At
<1>2. new \in Specs
  BY <1>1, ChecksFacts
<1> HIDE DEF new, valid
<1>3. /\ worker \in Reconciles /\ Con \in there /\ Con \in Consoles /\ up
      /\ objs[Con] \in Objects /\ worker.took \subseteq Consoles \X {"spec"}
  BY <1>1, WorkerFacts
<1>4. CASE Fail({}) /\ UNCHANGED <<objs, generated>>
  <2>1. worker' \in Reconciles /\ worker'.con = Con
    BY <1>1, <1>4, EndFacts DEF Fail
  <2>2. due' \subseteq Consoles \X {"spec", "restart"} /\ mishaps' \subseteq Mishaps
    BY <1>3, <1>4 DEF Fail, Note, TypeOK
  <2> QED
    BY <1>1, <1>3, <1>4, <2>1, <2>2 DEF TypeOK, resourceVars, names
<1>5. CASE /\ worker' = [worker EXCEPT !.inst = new, !.pc = IF new # valid THEN "patch" ELSE "managers"]
           /\ objs' = [objs EXCEPT ![Con].made = @ \cup If("secret", Inst.inline)]
           /\ generated' = IF new.conn # Inst.conn THEN generated + 1 ELSE generated
           /\ UNCHANGED <<due, mishaps>>
  <2>1. worker' \in Reconciles /\ worker'.con = Con
    BY <1>2, <1>3, <1>5 DEF Reconciles, PCs, Con
  <2>2. objs' \in [Consoles -> Objects]
    <3>1. [objs[Con] EXCEPT !.made = @ \cup If("secret", Inst.inline)] \in Objects
      <4>1. If("secret", Inst.inline) \subseteq Simple
        BY IfFacts DEF Simple
      <4> QED
        BY <1>3, <4>1 DEF Objects
    <3>2. objs' = [objs EXCEPT ![Con] = [objs[Con] EXCEPT !.made = @ \cup If("secret", Inst.inline)]]
      BY <1>5
    <3> QED
      BY <1>3, <3>1, <3>2 DEF TypeOK
  <2>3. generated' \in Nat
    BY <1>5 DEF TypeOK
  <2> QED
    BY <1>1, <1>3, <1>5, <2>1, <2>2, <2>3 DEF TypeOK, resourceVars, names
<1> QED
  BY <1>1, <1>4, <1>5

\* The reconcile's copy is the spec s, but for a connection string that the response leaves out.
Refreshed(s) ==
    /\ worker'.inst \in Specs /\ worker'.inst.conn \in {s.conn, Inst.conn}
    /\ worker'.inst.rev = s.rev /\ worker'.inst.network = s.network
    /\ worker'.inst.restart = s.restart /\ worker'.inst.bare = s.bare

LEMMA RefreshFacts ==
  ASSUME TypeOK, worker # Idle, NEW pc \in PCs, NEW s \in Specs,
         NEW result \in {"done", "requeue", "error"}, Refresh(pc, s, result)
  PROVE  /\ worker' \in Reconciles /\ worker' # Idle
         /\ worker'.pc = pc /\ worker'.con = Con /\ worker'.base = worker.base
         /\ worker'.upd = worker.upd /\ worker'.took = worker.took /\ worker'.result = result
         /\ Refreshed(s)
<1>1. PICK conn \in {s.conn, Inst.conn} :
         worker' = [worker EXCEPT !.pc = pc, !.inst = [s EXCEPT !.conn = conn], !.result = result]
  BY DEF Refresh
<1> DEFINE inst == [s EXCEPT !.conn = conn]
<1>2. worker \in Reconciles /\ conn \in Connections
  BY WorkerFacts, SpecsFacts
<1>3. /\ inst \in Specs /\ inst.conn = conn /\ inst.rev = s.rev /\ inst.network = s.network
      /\ inst.restart = s.restart /\ inst.bare = s.bare
  BY <1>2 DEF Specs
<1>4. worker' = [worker EXCEPT !.pc = pc, !.inst = inst, !.result = result]
  BY <1>1
<1> HIDE DEF inst
<1>5. worker' \in Reconciles
  BY <1>2, <1>3, <1>4 DEF Reconciles
<1>6. /\ worker'.pc = pc /\ worker'.con = Con /\ worker'.base = worker.base /\ worker'.inst = inst
      /\ worker'.upd = worker.upd /\ worker'.took = worker.took /\ worker'.result = result
  BY <1>2, <1>4 DEF Reconciles, Con
<1>7. Refreshed(s)
  BY <1>3, <1>6 DEF Refreshed
<1> QED
  BY <1>5, <1>6, <1>7, ReconcilesFacts

LEMMA SetVersionTypes == TypeOK /\ SetVersion => TypeOK'
<1> SUFFICES ASSUME TypeOK, SetVersion
             PROVE  TypeOK'
  OBVIOUS
<1>1. /\ worker # Idle
      /\ UNCHANGED <<spec, status, saved, names, clusterVars, queue, update, up, generated, events,
                     historyVars, mishaps>>
  BY DEF SetVersion, At
<1>2. Con \in there /\ Con \in Consoles /\ up /\ spec[Con] \in Specs
  BY <1>1, WorkerFacts
<1>3. CASE Goto("checks") /\ UNCHANGED <<versioned, watch>>
  <2>1. worker' \in Reconciles /\ worker'.con = Con
    BY <1>1, <1>3, GotoFacts DEF PCs
  <2> QED
    BY <1>1, <1>2, <1>3, <2>1 DEF TypeOK, names, clusterVars, historyVars
<1>4. CASE /\ versioned' = [versioned EXCEPT ![Con] = TRUE]
           /\ Notify(Con, "status", FALSE)
           /\ Refresh("save", spec[Con], "requeue")
  <2>1. worker' \in Reconciles /\ worker'.con = Con
    BY <1>1, <1>2, <1>4, RefreshFacts DEF PCs
  <2>2. WatchOK'
    BY <1>1, <1>2, <1>4, NotifyFacts, TypeParts DEF names
  <2>3. versioned' \in [Consoles -> BOOLEAN]
    BY <1>2, <1>4 DEF TypeOK
  <2> QED
    BY <1>1, <1>2, <2>1, <2>2, <2>3 DEF TypeOK, WatchOK, names, clusterVars, historyVars
<1> QED
  BY <1>3, <1>4 DEF SetVersion

\* What PatchInstance makes of the spec of the custom resource.
Merged == [spec[Con] EXCEPT !.conn = IF Inst.conn # worker.base.conn THEN Inst.conn ELSE @,
                            !.inline = FALSE,
                            !.bare = IF worker.base.bare THEN FALSE ELSE @]

LEMMA MergedFacts ==
  ASSUME TypeOK, worker # Idle
  PROVE  /\ Merged \in Specs /\ Merged.rev = spec[Con].rev /\ Merged.network = spec[Con].network
         /\ Merged.restart = spec[Con].restart
         /\ Merged.conn = IF Inst.conn # worker.base.conn THEN Inst.conn ELSE spec[Con].conn
         /\ Merged.bare = IF worker.base.bare THEN FALSE ELSE spec[Con].bare
<1> DEFINE s == spec[Con]
           conn == IF Inst.conn # worker.base.conn THEN Inst.conn ELSE s.conn
           bare == IF worker.base.bare THEN FALSE ELSE s.bare
<1>1. s \in Specs /\ Inst \in Specs
  BY WorkerFacts
<1>2. conn \in Connections /\ bare \in BOOLEAN
  BY <1>1, SpecsFacts
<1>3. Merged = [s EXCEPT !.conn = conn, !.inline = FALSE, !.bare = bare]
  BY DEF Merged
<1> HIDE DEF s, conn, bare
<1>4. Merged \in Specs /\ Merged.rev = s.rev /\ Merged.network = s.network /\ Merged.restart = s.restart
      /\ Merged.conn = conn /\ Merged.bare = bare
  BY <1>1, <1>2, <1>3 DEF Specs
<1> QED
  BY <1>4 DEF s, conn, bare

LEMMA PatchInstanceTypes == TypeOK /\ PatchInstance => TypeOK'
<1> SUFFICES ASSUME TypeOK, PatchInstance
             PROVE  TypeOK'
  OBVIOUS
<1>1. /\ worker # Idle
      /\ wanted' = wanted \cup If(Con, Inst.conn # worker.base.conn \/ worker.base.bare)
      /\ UNCHANGED <<versioned, status, saved, names, clusterVars, queue, update, up, generated, events, due,
                     owner, mishaps>>
      /\ \/ /\ spec' = [spec EXCEPT ![Con] = Merged] /\ Notify(Con, "spec", Merged.restart)
            /\ Refresh("save", Merged, "requeue")
         \/ /\ UNCHANGED <<spec, watch>>
            /\ worker' = [worker EXCEPT !.pc = "save", !.result = "requeue"]
  BY DEF PatchInstance, At, Merged
<1>2. Con \in there /\ Con \in Consoles /\ up
  BY <1>1, WorkerFacts
<1>3. worker' \in Reconciles /\ worker'.con = Con
  BY <1>1, MergedFacts, RefreshFacts, EndFacts DEF PCs
<1>4. wanted' \subseteq Consoles
  BY <1>1, <1>2 DEF TypeOK, If
<1>5. CASE spec' = [spec EXCEPT ![Con] = Merged] /\ Notify(Con, "spec", Merged.restart)
  <2>1. Merged \in Specs /\ Merged.restart \in BOOLEAN
    BY <1>1, MergedFacts, SpecsFacts
  <2>2. WatchOK'
    BY <1>1, <1>2, <1>5, <2>1, NotifyFacts, TypeParts DEF names
  <2>3. spec' \in [Consoles -> Specs \cup {NoSpec}] /\ \A c \in there : spec'[c] \in Specs
    BY <1>2, <1>5, <2>1 DEF TypeOK
  <2> QED
    BY <1>1, <1>2, <1>3, <1>4, <2>2, <2>3 DEF TypeOK, WatchOK, names, clusterVars
<1>6. CASE UNCHANGED <<spec, watch>>
  BY <1>1, <1>2, <1>3, <1>4, <1>6 DEF TypeOK, names, clusterVars
<1> QED
  BY <1>1, <1>5, <1>6

\* Write changes one object, or leaves it.
LEMMA EnvWritten ==
  ASSUME NEW o \in Objects, NEW v \in Connections, NEW n, n = Write(o, "env", v)
  PROVE  /\ n \in Objects /\ n.env \in {o.env, v} /\ (o.env = Absent \/ worker.upd => n.env = v)
         /\ n.deployer = o.deployer /\ n.console = o.console /\ n.dep = o.dep /\ n.db = o.db
<1>1. n = IF o.env = Absent \/ worker.upd THEN [o EXCEPT !.env = v] ELSE o
  BY DEF Write
<1>2. CASE n = [o EXCEPT !.env = v]
  BY <1>2 DEF Objects
<1>3. CASE n = o /\ ~(o.env = Absent \/ worker.upd)
  BY <1>3
<1> QED
  BY <1>1, <1>2, <1>3

LEMMA DeployerWritten ==
  ASSUME NEW o \in Objects, NEW v \in Nat, NEW n, n = Write(o, "deployer", v)
  PROVE  /\ n \in Objects /\ n.deployer \in {o.deployer, v} /\ (o.deployer = Absent \/ worker.upd => n.deployer = v)
         /\ n.env = o.env /\ n.console = o.console /\ n.dep = o.dep /\ n.db = o.db
<1>1. n = IF o.deployer = Absent \/ worker.upd THEN [o EXCEPT !.deployer = v] ELSE o
  BY DEF Write
<1>2. CASE n = [o EXCEPT !.deployer = v]
  BY <1>2 DEF Objects
<1>3. CASE n = o /\ ~(o.deployer = Absent \/ worker.upd)
  BY <1>3
<1> QED
  BY <1>1, <1>2, <1>3

LEMMA ConsoleWritten ==
  ASSUME NEW o \in Objects, NEW v \in Nat, NEW n, n = Write(o, "console", v)
  PROVE  /\ n \in Objects /\ n.console \in {o.console, v} /\ (o.console = Absent \/ worker.upd => n.console = v)
         /\ n.env = o.env /\ n.deployer = o.deployer /\ n.dep = o.dep /\ n.db = o.db
<1>1. n = IF o.console = Absent \/ worker.upd THEN [o EXCEPT !.console = v] ELSE o
  BY DEF Write
<1>2. CASE n = [o EXCEPT !.console = v]
  BY <1>2 DEF Objects
<1>3. CASE n = o /\ ~(o.console = Absent \/ worker.upd)
  BY <1>3
<1> QED
  BY <1>1, <1>2, <1>3

LEMMA DeploymentFacts ==
  ASSUME NEW o \in Objects, NEW s \in Specs
  PROVE  /\ CreateDeployment(o, s) \in Objects /\ UpdateDeployment(o, s) \in Objects
         /\ \A n \in {CreateDeployment(o, s), UpdateDeployment(o, s)} :
               /\ n.dep = s.rev["pod"] /\ n.dep # Absent
               /\ n.env = o.env /\ n.deployer = o.deployer /\ n.console = o.console
         /\ UpdateDeployment(o, s).db = o.db
         /\ CreateDeployment(o, s).db = IF s.conn >= 0 /\ o.db = Default THEN s.conn ELSE o.db
<1> DEFINE db == IF ~UsingRemoteDB(s) /\ o.db = Default THEN s.conn ELSE o.db
<1>1. s.rev["pod"] \in Nat /\ s.conn \in Int
  BY SpecsFacts
<1>2. db = IF s.conn >= 0 /\ o.db = Default THEN s.conn ELSE o.db
  BY DEF UsingRemoteDB, Local
<1>3. db \in Nat
  BY <1>1, <1>2, ObjectsFacts
<1>4. /\ CreateDeployment(o, s) = [o EXCEPT !.dep = s.rev["pod"], !.db = db]
      /\ UpdateDeployment(o, s) = [o EXCEPT !.dep = s.rev["pod"]]
  BY DEF CreateDeployment, UpdateDeployment
<1>5. s.rev["pod"] # Absent
  BY <1>1 DEF Absent
<1> DEFINE p == CreateDeployment(o, s)
           q == UpdateDeployment(o, s)
<1> HIDE DEF db, p, q
<1>6. p = [o EXCEPT !.dep = s.rev["pod"], !.db = db] /\ q = [o EXCEPT !.dep = s.rev["pod"]]
  BY <1>4 DEF p, q
<1>7. p \in Objects /\ p.dep = s.rev["pod"] /\ p.db = db
      /\ p.env = o.env /\ p.deployer = o.deployer /\ p.console = o.console
  BY <1>1, <1>3, <1>6 DEF Objects
<1>8. q \in Objects /\ q.dep = s.rev["pod"] /\ q.db = o.db
      /\ q.env = o.env /\ q.deployer = o.deployer /\ q.console = o.console
  BY <1>1, <1>6 DEF Objects
<1>9. \A n \in {p, q} :
         /\ n.dep = s.rev["pod"] /\ n.dep # Absent
         /\ n.env = o.env /\ n.deployer = o.deployer /\ n.console = o.console
  BY <1>5, <1>7, <1>8
<1> QED
  BY <1>2, <1>7, <1>8, <1>9 DEF p, q

LEMMA MadeFacts ==
  ASSUME NEW o \in Objects, NEW s \in Specs
  PROVE  /\ \A n \in {ReconcileRBAC(Service(PVC(o, s))), NetworkPolicy(Ingress(o)), NetworkPolicy(Routes(o))} :
               /\ n \in Objects
               /\ n.env = o.env /\ n.deployer = o.deployer /\ n.console = o.console
               /\ n.dep = o.dep /\ n.db = o.db
<1>1. \A p \in Objects, what \in Simple :
         /\ Make(p, what) \in Objects
         /\ Make(p, what).env = p.env /\ Make(p, what).deployer = p.deployer
         /\ Make(p, what).console = p.console /\ Make(p, what).dep = p.dep /\ Make(p, what).db = p.db
  BY DEF Make, Objects
<1>2. {"pvc", "service", "rbac", "ingress", "route", "policy"} \subseteq Simple
  BY DEF Simple
<1>3. PVC(o, s) \in {o, Make(o, "pvc")}
  BY DEF PVC
<1> DEFINE p == PVC(o, s)
           q == Make(p, "service")
<1>4. p \in Objects /\ p.env = o.env /\ p.deployer = o.deployer /\ p.console = o.console
      /\ p.dep = o.dep /\ p.db = o.db
  <2>1. CASE p = o
    BY <2>1
  <2>2. CASE p = Make(o, "pvc")
    <3> HIDE DEF p
    <3> QED
      BY <1>1, <1>2, <2>2
  <2> QED
    BY <1>3, <2>1, <2>2
<1>5. q \in Objects /\ q.env = o.env /\ q.deployer = o.deployer /\ q.console = o.console
      /\ q.dep = o.dep /\ q.db = o.db
  BY <1>1, <1>2, <1>4
<1>6. ReconcileRBAC(Service(p)) = Make(q, "rbac")
  BY DEF ReconcileRBAC, Service
<1> HIDE DEF p, q
<1>7. NetworkPolicy(Ingress(o)) = Make(Make(o, "ingress"), "policy")
      /\ NetworkPolicy(Routes(o)) = Make(Make(o, "route"), "policy")
  BY DEF NetworkPolicy, Ingress, Routes
<1> DEFINE fine(n) == n \in Objects /\ n.env = o.env /\ n.deployer = o.deployer /\ n.console = o.console
                      /\ n.dep = o.dep /\ n.db = o.db
<1>8. fine(Make(q, "rbac"))
  BY <1>1, <1>2, <1>5
<1>9. fine(Make(o, "ingress")) /\ fine(Make(o, "route"))
  BY <1>1, <1>2
<1>10. fine(Make(Make(o, "ingress"), "policy")) /\ fine(Make(Make(o, "route"), "policy"))
  BY <1>1, <1>2, <1>9
<1> QED
  BY <1>6, <1>7, <1>8, <1>10 DEF p

LEMMA ManagersTypes == TypeOK /\ ReconcileManagers => TypeOK'
<1> SUFFICES ASSUME TypeOK, ReconcileManagers
             PROVE  TypeOK'
  OBVIOUS
<1>1. /\ worker # Idle /\ Read({"spec"}, "spec")
      /\ worker' = [worker EXCEPT !.pc = "env", !.upd = update["spec"], !.took = Serves("spec")]
      /\ objs' = [objs EXCEPT ![Con] = ReconcileRBAC(Service(PVC(objs[Con], Inst)))]
      /\ UNCHANGED <<resourceVars, names, pods, pending, watch, queue, update, up, generated, events,
                     wanted>>
  BY DEF ReconcileManagers, At
<1>2. Con \in there /\ Con \in Consoles /\ up /\ objs[Con] \in Objects /\ Inst \in Specs /\ worker \in Reconciles
  BY <1>1, WorkerFacts
<1>3. objs' \in [Consoles -> Objects]
  BY <1>1, <1>2, MadeFacts DEF TypeOK
<1>4. Serves("spec") \in SUBSET (Consoles \X {"spec"})
  BY <1>2, ServesFacts
<1>5. worker' \in Reconciles /\ worker'.con = Con
  BY <1>1, <1>2, <1>4, UpdateTyped DEF Reconciles, PCs, Con
<1>6. due' \subseteq Consoles \X {"spec", "restart"} /\ mishaps' \subseteq Mishaps
  BY <1>1, ReadFacts DEF Flags
<1> QED
  BY <1>1, <1>2, <1>3, <1>5, <1>6 DEF TypeOK, resourceVars, names

LEMMA TypesManage ==
  ASSUME TypeOK, NEW m, NEW objects \in Objects, NEW next \in PCs, Manage(m, objects, next),
         pods' \in [Consoles -> {"none", "starting", "running"}], queue' \subseteq Consoles
  PROVE  TypeOK'
<1>1. /\ worker # Idle /\ Goto(next) /\ objs' = [objs EXCEPT ![Con] = objects]
      /\ UNCHANGED <<resourceVars, names, pending, watch, update, up, generated, events, historyVars,
                     mishaps>>
  BY DEF Manage, At
<1>2. Con \in there /\ Con \in Consoles /\ up
  BY <1>1, WorkerFacts
<1>3. worker' \in Reconciles /\ worker'.con = Con
  BY <1>1, GotoFacts
<1>4. objs' \in [Consoles -> Objects]
  BY <1>1, <1>2 DEF TypeOK
<1> QED
  BY <1>1, <1>2, <1>3, <1>4 DEF TypeOK, resourceVars, names, historyVars

\* What the config maps are made from.
LEMMA ConfigsFacts ==
  ASSUME NEW o \in Objects, NEW s \in Specs
  PROVE  /\ EnvCM(o, s) \in Objects
         /\ EnvCM(o, s).env \in {o.env, s.conn}
         /\ o.env = Absent \/ worker.upd => EnvCM(o, s).env = s.conn
         /\ EnvCM(o, s).deployer = o.deployer /\ EnvCM(o, s).console = o.console
         /\ EnvCM(o, s).dep = o.dep /\ EnvCM(o, s).db = o.db
         /\ ConsoleCM(DeployerCM(o, s), s) \in Objects
         /\ ConsoleCM(DeployerCM(o, s), s).deployer \in {o.deployer, s.rev["deployer"]}
         /\ o.deployer = Absent \/ worker.upd =>
               ConsoleCM(DeployerCM(o, s), s).deployer = s.rev["deployer"]
         /\ ConsoleCM(DeployerCM(o, s), s).console \in {o.console, s.rev["console"]}
         /\ o.console = Absent \/ worker.upd =>
               ConsoleCM(DeployerCM(o, s), s).console = s.rev["console"]
         /\ ConsoleCM(DeployerCM(o, s), s).env = o.env
         /\ ConsoleCM(DeployerCM(o, s), s).dep = o.dep /\ ConsoleCM(DeployerCM(o, s), s).db = o.db
<1>1. s.conn \in Connections /\ s.rev["deployer"] \in Nat /\ s.rev["console"] \in Nat
  BY SpecsFacts
<1> DEFINE e == EnvCM(o, s)
           d == DeployerCM(o, s)
           n == ConsoleCM(d, s)
<1>2. /\ e \in Objects /\ e.env \in {s.conn, o.env} /\ (o.env = Absent \/ worker.upd => e.env = s.conn)
      /\ e.deployer = o.deployer /\ e.console = o.console /\ e.dep = o.dep /\ e.db = o.db
  <2>1. e = Write(o, "env", s.conn)
    BY DEF EnvCM
  <2> HIDE DEF e
  <2> QED
    BY <1>1, <2>1, EnvWritten
<1>3. /\ d \in Objects /\ d.deployer \in {s.rev["deployer"], o.deployer}
      /\ (o.deployer = Absent \/ worker.upd => d.deployer = s.rev["deployer"])
      /\ d.env = o.env /\ d.console = o.console /\ d.dep = o.dep /\ d.db = o.db
  <2> DEFINE v == s.rev["deployer"]
  <2>1. d = Write(o, "deployer", v) /\ v \in Nat
    BY <1>1 DEF DeployerCM
  <2> HIDE DEF d, v
  <2>2. /\ d \in Objects /\ d.deployer \in {o.deployer, v} /\ (o.deployer = Absent \/ worker.upd => d.deployer = v)
        /\ d.env = o.env /\ d.console = o.console /\ d.dep = o.dep /\ d.db = o.db
    BY <2>1, DeployerWritten
  <2> QED
    BY <2>2 DEF v
<1> HIDE DEF e, d
<1>4. /\ n \in Objects /\ n.console \in {s.rev["console"], d.console}
      /\ (d.console = Absent \/ worker.upd => n.console = s.rev["console"])
      /\ n.env = d.env /\ n.deployer = d.deployer /\ n.dep = d.dep /\ n.db = d.db
  <2>1. n = Write(d, "console", s.rev["console"])
    BY DEF ConsoleCM
  <2> HIDE DEF n
  <2> QED
    BY <1>1, <1>3, <2>1, ConsoleWritten, SMTT(30)
<1> HIDE DEF n
<1>5. /\ e \in Objects /\ e.env \in {o.env, s.conn} /\ (o.env = Absent \/ worker.upd => e.env = s.conn)
      /\ e.deployer = o.deployer /\ e.console = o.console /\ e.dep = o.dep /\ e.db = o.db
  BY <1>2
<1>6. /\ n \in Objects /\ n.deployer \in {o.deployer, s.rev["deployer"]}
      /\ (o.deployer = Absent \/ worker.upd => n.deployer = s.rev["deployer"])
      /\ n.console \in {o.console, s.rev["console"]}
      /\ (o.console = Absent \/ worker.upd => n.console = s.rev["console"])
      /\ n.env = o.env /\ n.dep = o.dep /\ n.db = o.db
  BY <1>3, <1>4
<1> QED
  BY <1>5, <1>6 DEF e, d, n

LEMMA ConfigsTypes == TypeOK /\ (ReconcileEnvCM \/ ReconcileConfigCMs) => TypeOK'
<1> SUFFICES ASSUME TypeOK, ReconcileEnvCM \/ ReconcileConfigCMs
             PROVE  TypeOK'
  OBVIOUS
<1>1. worker # Idle /\ UNCHANGED <<pods, queue>>
  BY DEF ReconcileEnvCM, ReconcileConfigCMs, Manage, At
<1>2. objs[Con] \in Objects /\ Inst \in Specs
  BY <1>1, WorkerFacts
<1>3. pods' \in [Consoles -> {"none", "starting", "running"}] /\ queue' \subseteq Consoles
  BY <1>1 DEF TypeOK
<1>4. CASE ReconcileEnvCM
  <2>1. Manage("env", EnvCM(objs[Con], Inst), "configs") /\ EnvCM(objs[Con], Inst) \in Objects
    BY <1>2, <1>4, ConfigsFacts DEF ReconcileEnvCM
  <2> QED
    BY <1>3, <2>1, TypesManage DEF PCs
<1>5. CASE ReconcileConfigCMs
  <2>1. Manage("configs", ConsoleCM(DeployerCM(objs[Con], Inst), Inst), "deployment")
        /\ ConsoleCM(DeployerCM(objs[Con], Inst), Inst) \in Objects
    BY <1>2, <1>5, ConfigsFacts DEF ReconcileConfigCMs
  <2> QED
    BY <1>3, <2>1, TypesManage DEF PCs
<1> QED
  BY <1>4, <1>5

LEMMA AccessTypes == TypeOK /\ ReconcileAccess => TypeOK'
<1> SUFFICES ASSUME TypeOK, ReconcileAccess
             PROVE  TypeOK'
  OBVIOUS
<1> DEFINE n == NetworkPolicy(IF Offering = "k8s" THEN Ingress(objs[Con]) ELSE Routes(objs[Con]))
<1>1. worker # Idle /\ UNCHANGED <<pods, queue>> /\ Manage("access", n, "states")
  BY DEF ReconcileAccess, Manage, At
<1>2. objs[Con] \in Objects /\ Inst \in Specs
  BY <1>1, WorkerFacts
<1>3. pods' \in [Consoles -> {"none", "starting", "running"}] /\ queue' \subseteq Consoles
  BY <1>1 DEF TypeOK
<1>4. n \in Objects
  BY <1>2, MadeFacts
<1> HIDE DEF n
<1> QED
  BY <1>1, <1>3, <1>4, TypesManage DEF PCs

LEMMA DeploymentTypes == TypeOK /\ ReconcileDeployment => TypeOK'
<1> SUFFICES ASSUME TypeOK, ReconcileDeployment
             PROVE  TypeOK'
  OBVIOUS
<1> DEFINE old == objs[Con]
           new == IF old.dep = Absent THEN CreateDeployment(old, Inst)
                  ELSE IF worker.upd THEN UpdateDeployment(old, Inst) ELSE old
<1>1. worker # Idle /\ Manage("deployment", new, "access") /\ Rollout(new # old)
  BY DEF ReconcileDeployment, At
<1>2. old \in Objects /\ Inst \in Specs /\ Con \in Consoles
  BY <1>1, WorkerFacts
<1>3. new \in Objects
  BY <1>2, DeploymentFacts
<1> HIDE DEF new, old
<1>4. pods' \in [Consoles -> {"none", "starting", "running"}] /\ queue' \subseteq Consoles
  BY <1>1, <1>2, RolloutFacts
<1> QED
  BY <1>1, <1>3, <1>4, TypesManage DEF PCs

LEMMA StatesTypes == TypeOK /\ CheckStates => TypeOK'
<1> SUFFICES ASSUME TypeOK, CheckStates
             PROVE  TypeOK'
  OBVIOUS
<1> DEFINE new == CreateDeployment(objs[Con], Inst)
<1>1. worker # Idle /\ Manage("states", new, "cmupdates") /\ Rollout(new # objs[Con])
  BY DEF CheckStates, Manage, At
<1>2. objs[Con] \in Objects /\ Inst \in Specs /\ Con \in Consoles
  BY <1>1, WorkerFacts
<1>3. new \in Objects
  BY <1>2, DeploymentFacts
<1> HIDE DEF new
<1>4. pods' \in [Consoles -> {"none", "starting", "running"}] /\ queue' \subseteq Consoles
  BY <1>1, <1>2, RolloutFacts
<1> QED
  BY <1>1, <1>3, <1>4, TypesManage DEF PCs

LEMMA UpdatesTypes == TypeOK /\ CheckForConfigMapUpdates => TypeOK'
<1> SUFFICES ASSUME TypeOK, CheckForConfigMapUpdates
             PROVE  TypeOK'
  OBVIOUS
<1> DEFINE asked == pending[Con] \/ update["deployer"] \/ update["console"] \/ update["env"]
<1>1. /\ worker # Idle /\ Read({"deployer", "console", "env"}, "env") /\ Goto("actions")
      /\ pending' = [pending EXCEPT ![Con] = asked]
      /\ UNCHANGED <<resourceVars, names, objs, pods, watch, queue, update, up, generated, events,
                     wanted>>
  BY Zenon DEF CheckForConfigMapUpdates, At
<1>2. Con \in there /\ Con \in Consoles /\ up
  BY <1>1, WorkerFacts
<1>3. worker' \in Reconciles /\ worker'.con = Con
  BY <1>1, GotoFacts DEF PCs
<1>4. asked \in BOOLEAN
  BY Zenon
<1> HIDE DEF asked
<1>5. pending' \in [Consoles -> BOOLEAN]
  BY <1>1, <1>2, <1>4 DEF TypeOK
<1>6. due' \subseteq Consoles \X {"spec", "restart"} /\ mishaps' \subseteq Mishaps
  BY <1>1, ReadFacts DEF Flags
<1> QED
  BY <1>1, <1>2, <1>3, <1>5, <1>6 DEF TypeOK, resourceVars, names

\* The spec after HandleActions
LEMMA Taken ==
  ASSUME NEW s \in Specs, NEW t, t = [s EXCEPT !.restart = FALSE]
  PROVE  /\ t \in Specs /\ ~t.restart /\ t.rev = s.rev /\ t.conn = s.conn
         /\ t.network = s.network /\ t.bare = s.bare
  BY DEF Specs

\* HandleActions patches the request away, or does nothing.
LEMMA ActionsCases ==
  ASSUME TypeOK, HandleActions
  PROVE  /\ worker # Idle /\ worker.pc = "actions" /\ Read({"restart"}, "restart")
         /\ pending' = [pending EXCEPT ![Con] = pending[Con] \/ update["restart"]]
         /\ UNCHANGED <<versioned, status, saved, names, objs, pods, queue, update, up, generated, events,
                        wanted>>
         /\ worker' \in Reconciles /\ worker' # Idle
         /\ worker'.pc = "restart" /\ worker'.con = Con /\ worker'.base = worker.base
         /\ worker'.upd = worker.upd /\ worker'.took = worker.took /\ worker'.result = worker.result
         /\ Refreshed(spec'[Con])
         /\ \/ /\ update["restart"] /\ Inst.restart
               /\ spec' = [spec EXCEPT ![Con] = [spec[Con] EXCEPT !.restart = FALSE]]
               /\ Notify(Con, "spec", FALSE)
            \/ /\ ~(update["restart"] /\ Inst.restart)
               /\ UNCHANGED <<spec, watch>>
<1>1. /\ worker # Idle /\ worker.pc = "actions" /\ Read({"restart"}, "restart")
      /\ pending' = [pending EXCEPT ![Con] = pending[Con] \/ update["restart"]]
      /\ UNCHANGED <<versioned, status, saved, names, objs, pods, queue, update, up, generated, events,
                     wanted>>
  BY Zenon DEF HandleActions, At
<1>2. Refresh("restart", spec'[Con], worker.result)
  BY Zenon DEF HandleActions
<1>3. \/ /\ update["restart"] /\ Inst.restart
         /\ spec' = [spec EXCEPT ![Con].restart = FALSE]
         /\ Notify(Con, "spec", FALSE)
      \/ /\ ~(update["restart"] /\ Inst.restart)
         /\ UNCHANGED <<spec, watch>>
  BY Zenon DEF HandleActions
<1>4. worker \in Reconciles /\ Con \in Consoles /\ Inst \in Specs /\ spec[Con] \in Specs
  BY <1>1, WorkerFacts
<1>5. spec'[Con] \in Specs
  <2>1. CASE spec' = [spec EXCEPT ![Con].restart = FALSE]
    <3>1. spec'[Con] = [spec[Con] EXCEPT !.restart = FALSE]
      BY <1>4, <2>1 DEF TypeOK
    <3> QED
      BY <1>4, <3>1, Taken
  <2>2. CASE spec' = spec
    BY <1>4, <2>2
  <2> QED
    BY <1>3, <2>1, <2>2
<1>6. /\ worker' \in Reconciles /\ worker' # Idle
      /\ worker'.pc = "restart" /\ worker'.con = Con /\ worker'.base = worker.base
      /\ worker'.upd = worker.upd /\ worker'.took = worker.took /\ worker'.result = worker.result
      /\ Refreshed(spec'[Con])
  BY <1>1, <1>2, <1>5, WorkerFacts, RefreshFacts DEF PCs
<1> QED
  BY <1>1, <1>3, <1>6

LEMMA ActionsTypes == TypeOK /\ HandleActions => TypeOK'
<1> SUFFICES ASSUME TypeOK, HandleActions
             PROVE  TypeOK'
  OBVIOUS
<1>1. /\ worker # Idle /\ Read({"restart"}, "restart")
      /\ pending' = [pending EXCEPT ![Con] = pending[Con] \/ update["restart"]]
      /\ UNCHANGED <<versioned, status, saved, names, objs, pods, queue, update, up, generated, events,
                     wanted>>
      /\ worker' \in Reconciles /\ worker'.con = Con
      /\ \/ /\ spec' = [spec EXCEPT ![Con] = [spec[Con] EXCEPT !.restart = FALSE]]
            /\ Notify(Con, "spec", FALSE)
         \/ UNCHANGED <<spec, watch>>
  BY ActionsCases
<1>2. Con \in there /\ Con \in Consoles /\ up /\ spec[Con] \in Specs
  BY <1>1, WorkerFacts
<1>3. pending' \in [Consoles -> BOOLEAN]
  <2>1. (pending[Con] \/ update["restart"]) \in BOOLEAN
    BY Zenon
  <2> QED
    BY <1>1, <1>2, <2>1 DEF TypeOK
<1>4. due' \subseteq Consoles \X {"spec", "restart"} /\ mishaps' \subseteq Mishaps
  BY <1>1, ReadFacts DEF Flags
<1>5. CASE /\ spec' = [spec EXCEPT ![Con] = [spec[Con] EXCEPT !.restart = FALSE]]
           /\ Notify(Con, "spec", FALSE)
  <2>1. [spec[Con] EXCEPT !.restart = FALSE] \in Specs
    BY <1>2, Taken
  <2>2. WatchOK'
    BY <1>1, <1>2, <1>5, NotifyFacts, TypeParts DEF names
  <2>3. spec' \in [Consoles -> Specs \cup {NoSpec}] /\ \A c \in there : spec'[c] \in Specs
    BY <1>2, <1>5, <2>1 DEF TypeOK
  <2> QED
    BY <1>1, <1>2, <1>3, <1>4, <2>2, <2>3 DEF TypeOK, WatchOK, names
<1>6. CASE UNCHANGED <<spec, watch>>
  BY <1>1, <1>2, <1>3, <1>4, <1>6 DEF TypeOK, names
<1> QED
  BY <1>1, <1>5, <1>6

LEMMA RestartTypes == TypeOK /\ HandleRestart => TypeOK'
<1> SUFFICES ASSUME TypeOK, HandleRestart
             PROVE  TypeOK'
  OBVIOUS
<1> DEFINE restarts == pending[Con] /\ ~RestartDisabled
<1>1. /\ worker # Idle /\ Goto("save") /\ Rollout(restarts)
      /\ pending' = [pending EXCEPT ![Con] = pending[Con] /\ RestartDisabled]
      /\ wanted' \subseteq wanted
      /\ UNCHANGED <<resourceVars, names, objs, watch, update, up, generated, events, due, owner, mishaps>>
  BY DEF HandleRestart, At
<1>2. Con \in there /\ Con \in Consoles /\ up
  BY <1>1, WorkerFacts
<1>3. worker' \in Reconciles /\ worker'.con = Con
  BY <1>1, GotoFacts DEF PCs
<1>4. restarts \in BOOLEAN
  BY Zenon
<1> HIDE DEF restarts
<1>5. pods' \in [Consoles -> {"none", "starting", "running"}] /\ queue' \subseteq Consoles
  BY <1>1, <1>2, <1>4, RolloutFacts
<1>6. pending' \in [Consoles -> BOOLEAN]
  <2>1. (pending[Con] /\ RestartDisabled) \in BOOLEAN
    BY Zenon
  <2> QED
    BY <1>1, <1>2, <2>1 DEF TypeOK
<1> QED
  BY <1>1, <1>2, <1>3, <1>5, <1>6 DEF TypeOK, resourceVars, names

LEMMA SaveTypes == TypeOK /\ SaveSpecState => TypeOK'
<1> SUFFICES ASSUME TypeOK, SaveSpecState
             PROVE  TypeOK'
  OBVIOUS
<1>1. /\ worker # Idle /\ Goto("status") /\ saved' = [saved EXCEPT ![Con] = Inst]
      /\ Note(If("normalised", Inst # spec[Con]))
      /\ UNCHANGED <<spec, versioned, status, names, clusterVars, watch, queue, update, up, generated,
                     events, historyVars>>
  BY DEF SaveSpecState, At
<1>2. Con \in there /\ Con \in Consoles /\ up /\ Inst \in Specs
  BY <1>1, WorkerFacts
<1>3. worker' \in Reconciles /\ worker'.con = Con
  BY <1>1, GotoFacts DEF PCs
<1>4. saved' \in [Consoles -> Specs \cup {NoSpec}]
  BY <1>1, <1>2 DEF TypeOK
<1>5. mishaps' \subseteq Mishaps
  <2>1. If("normalised", Inst # spec[Con]) \subseteq Mishaps
    <3>1. If("normalised", Inst # spec[Con]) \subseteq {"normalised"} /\ "normalised" \in Mishaps
      BY IfFacts DEF Mishaps
    <3> QED
      BY <3>1
  <2> QED
    BY <1>1, <2>1 DEF Note, TypeOK
<1> QED
  BY <1>1, <1>2, <1>3, <1>4, <1>5 DEF TypeOK, names, clusterVars, historyVars

LEMMA SetStatusTypes == TypeOK /\ SetStatus => TypeOK'
<1> SUFFICES ASSUME TypeOK, SetStatus
             PROVE  TypeOK'
  OBVIOUS
<1>1. /\ worker # Idle /\ worker' = Idle /\ queue' = queue \cup If(Con, worker.result # "done")
      /\ UNCHANGED <<spec, versioned, saved, names, clusterVars, update, up, generated, events, historyVars,
                     mishaps>>
      /\ \/ UNCHANGED <<status, watch>>
         \/ status' = [status EXCEPT ![Con] = NewStatus(Con)] /\ Notify(Con, "status", FALSE)
  BY DEF SetStatus, At, Finish
<1>2. Con \in there /\ Con \in Consoles
  BY <1>1, WorkerFacts
<1>3. queue' \subseteq Consoles
  BY <1>1, <1>2 DEF TypeOK, If
<1>4. CASE UNCHANGED <<status, watch>>
  BY <1>1, <1>3, <1>4 DEF TypeOK, names, clusterVars, historyVars
<1>5. CASE status' = [status EXCEPT ![Con] = NewStatus(Con)] /\ Notify(Con, "status", FALSE)
  <2>1. WatchOK'
    BY <1>1, <1>2, <1>5, NotifyFacts, TypeParts DEF names
  <2>2. NewStatus(Con) \in {"Deploying", "Deployed", "Error"}
    BY DEF NewStatus
  <2>3. status' \in [Consoles -> {"none", "Deploying", "Deployed", "Error"}]
    BY <1>2, <1>5, <2>2 DEF TypeOK
  <2> QED
    BY <1>1, <1>3, <2>1, <2>3 DEF TypeOK, WatchOK, names, clusterVars, historyVars
<1> QED
  BY <1>1, <1>4, <1>5

-----------------------------------------------------------------------------
(* Edits                                                                   *)

LEMMA ReviseFacts ==
  ASSUME NEW s \in Specs, NEW parts
  PROVE  /\ Revise(s, parts) \in Specs
         /\ Revise(s, parts).conn = s.conn /\ Revise(s, parts).network = s.network
         /\ Revise(s, parts).restart = s.restart /\ Revise(s, parts).bare = s.bare
<1> DEFINE rev == [p \in Parts |-> IF p \in parts THEN s.rev[p] + 1 ELSE s.rev[p]]
<1>1. Revise(s, parts) = [s EXCEPT !.rev = rev]
  BY DEF Revise
<1>2. s.rev \in [Parts -> Nat]
  BY SpecsFacts
<1>3. rev \in [Parts -> Nat]
  BY <1>2
<1> HIDE DEF rev
<1> QED
  BY <1>1, <1>3 DEF Specs

LEMMA EditsFacts ==
  ASSUME NEW s \in Specs, NEW new \in Edits(s)
  PROVE  /\ new \in Specs /\ new # s
         /\ new.conn \in {s.conn, Default, Remote}
         /\ s.restart => new.restart
         /\ s.network => new.network
<1>1. new # s
  BY DEF Edits
<1>2. \/ new = Revise(s, {"deployer", "console"})
      \/ new = [Revise(s, {"deployer"}) EXCEPT !.bare = TRUE]
      \/ new = Revise(s, {"pod"})
      \/ new = [s EXCEPT !.conn = Default] \/ new = [s EXCEPT !.conn = Remote]
      \/ new = [s EXCEPT !.restart = TRUE] \/ new = [s EXCEPT !.network = TRUE]
  BY DEF Edits
<1>3. CASE new = Revise(s, {"deployer", "console"}) \/ new = Revise(s, {"pod"})
  <2>1. /\ new \in Specs /\ new.conn = s.conn /\ new.network = s.network /\ new.restart = s.restart
    BY <1>3, ReviseFacts
  <2> QED
    BY <1>1, <2>1
<1>4. CASE new = [Revise(s, {"deployer"}) EXCEPT !.bare = TRUE]
  <2> DEFINE r == Revise(s, {"deployer"})
  <2>1. r \in Specs /\ r.conn = s.conn /\ r.network = s.network /\ r.restart = s.restart
    BY ReviseFacts
  <2> HIDE DEF r
  <2>2. new = [r EXCEPT !.bare = TRUE]
    BY <1>4 DEF r
  <2>3. new \in Specs /\ new.conn = r.conn /\ new.network = r.network /\ new.restart = r.restart
    BY <2>1, <2>2 DEF Specs
  <2> QED
    BY <1>1, <2>1, <2>3
<1>5. CASE new = [s EXCEPT !.conn = Default] \/ new = [s EXCEPT !.conn = Remote]
  <2>1. Default \in Connections /\ Remote \in Connections
    BY DEF Default, Connections
  <2>2. new \in Specs /\ new.conn \in {Default, Remote} /\ new.network = s.network /\ new.restart = s.restart
    BY <1>5, <2>1 DEF Specs
  <2> QED
    BY <1>1, <2>2
<1>6. CASE new = [s EXCEPT !.restart = TRUE]
  <2>1. new \in Specs /\ new.conn = s.conn /\ new.network = s.network /\ new.restart
    BY <1>6 DEF Specs
  <2> QED
    BY <1>1, <2>1
<1>7. CASE new = [s EXCEPT !.network = TRUE]
  <2>1. new \in Specs /\ new.conn = s.conn /\ new.network /\ new.restart = s.restart
    BY <1>7 DEF Specs
  <2> QED
    BY <1>1, <2>1
<1> QED
  BY <1>2, <1>3, <1>4, <1>5, <1>6, <1>7

LEMMA EditTypes ==
  ASSUME NEW c \in there, NEW new \in Edits(spec[c]), NEW zone \in {FALSE, new.restart}
  PROVE  TypeOK /\ Edit(c, new, zone) => TypeOK'
<1> SUFFICES ASSUME TypeOK, Edit(c, new, zone)
             PROVE  TypeOK'
  OBVIOUS
<1>1. c \in Consoles /\ spec[c] \in Specs
  BY DEF TypeOK
<1>2. new \in Specs /\ new.restart \in BOOLEAN
  BY <1>1, EditsFacts, SpecsFacts
<1>3. /\ spec' = [spec EXCEPT ![c] = new]
      /\ \/ Notify(c, "zone", new.restart) \/ Notify(c, "spec", new.restart) \/ UNCHANGED watch
      /\ UNCHANGED <<versioned, status, saved, names, clusterVars, queue, update, worker, up, generated,
                     due, owner>>
  BY Zenon DEF Edit
<1>4. WatchOK'
  <2>1. there' = there /\ WatchOK
    BY <1>3, TypeParts DEF names
  <2>2. CASE UNCHANGED watch
    BY <2>1, <2>2 DEF WatchOK
  <2>3. CASE Notify(c, "zone", new.restart)
    BY <1>1, <1>2, <2>1, <2>3, NotifyFacts
  <2>4. CASE Notify(c, "spec", new.restart)
    BY <1>1, <1>2, <2>1, <2>4, NotifyFacts
  <2> QED
    BY <1>3, <2>2, <2>3, <2>4
<1>5. spec' \in [Consoles -> Specs \cup {NoSpec}] /\ \A d \in there : spec'[d] \in Specs
  BY <1>1, <1>2, <1>3 DEF TypeOK
<1>6. wanted' \subseteq Consoles
  <2> DEFINE reason == new.restart \/ [new EXCEPT !.rev["pod"] = spec[c].rev["pod"]] # spec[c]
  <2>1. wanted' = wanted \cup If(c, reason)
    BY Zenon DEF Edit
  <2> HIDE DEF reason
  <2> QED
    BY <1>1, <2>1, IfFacts DEF TypeOK
<1>7. mishaps' \subseteq Mishaps
  BY IfFacts DEF Edit, Note, TypeOK, Mishaps
<1>8. events' \in 0..MaxEvents
  BY EventTyped DEF Edit
<1> QED
  BY <1>3, <1>4, <1>5, <1>6, <1>7, <1>8 DEF TypeOK, WatchOK, names, clusterVars

-----------------------------------------------------------------------------
(* Sets in a list                                                          *)

LEMMA Least ==
  ASSUME NEW S \in SUBSET Nat, S # {}
  PROVE  \E m \in S : \A k \in S : m <= k
<1> DEFINE Less == {ss \in Nat \X Nat : ss[1] < ss[2]}
<1>1. IsWellFoundedOn(Less, Nat)
  <2>1. Less \cap (Nat \X Nat) \subseteq OpToRel(<, Nat)
    BY DEF OpToRel
  <2> HIDE DEF Less
  <2> QED
    BY <2>1, NatLessThanWellFounded, IsWellFoundedOnSubrelation
<1>2. PICK m \in S : \A k \in S : ~(<<k, m>> \in Less)
  <2> HIDE DEF Less
  <2> QED
    BY <1>1, WFMin
<1>3. \A j, k \in Nat : j < k => <<j, k>> \in Less
  OBVIOUS
<1> HIDE DEF Less
<1>4. ASSUME NEW k \in S PROVE m <= k
  <2>1. ~(<<k, m>> \in Less)
    BY <1>2
  <2>2. ~(k < m)
    BY <1>3, <2>1
  <2> QED
    BY <2>2
<1> QED
  BY <1>4

\* Some element of S is as great as every other.
Bounded(S) == \E x \in S : \A y \in S : x >= y

LEMMA Greatest ==
  ASSUME NEW S \in SUBSET Int, IsFiniteSet(S), S # {}
  PROVE  Max(S) \in S /\ \A y \in S : Max(S) >= y
<1> DEFINE Bad == {n \in Nat : \E U \in SUBSET Int :
                      IsFiniteSet(U) /\ U # {} /\ Cardinality(U) = n /\ ~Bounded(U)}
<1>1. Bad = {}
  <2> SUFFICES ASSUME Bad # {}
               PROVE  FALSE
    OBVIOUS
  <2>1. PICK n \in Bad : \A k \in Bad : n <= k
    BY Least
  <2>2. PICK U \in SUBSET Int : IsFiniteSet(U) /\ U # {} /\ Cardinality(U) = n /\ ~Bounded(U)
    BY <2>1
  <2>3. PICK x \in U : TRUE
    BY <2>2
  <2> DEFINE V == U \ {x}
  <2>4. IsFiniteSet(V) /\ Cardinality(V) = n - 1 /\ V \in SUBSET Int /\ n \in Nat
    BY <2>1, <2>2, FS_RemoveElement
  <2>5. n - 1 \in Nat
    <3>1. Cardinality(V) \in Nat
      BY <2>4, FS_CardinalityType
    <3> QED
      BY <2>4, <3>1
  <2>6. ~(n - 1 \in Bad)
    BY <2>1, <2>4
  <2>7. V = {} \/ Bounded(V)
    BY <2>4, <2>5, <2>6
  <2>8. CASE V = {}
    <3>1. U = {x} /\ x \in Int
      BY <2>8, <2>3
    <3> QED
      BY <3>1, <2>2 DEF Bounded
  <2>9. CASE Bounded(V)
    <3>1. PICK z \in V : \A y \in V : z >= y
      BY <2>9 DEF Bounded
    <3>2. x \in Int /\ z \in Int /\ \A y \in U : y \in Int /\ (y = x \/ y \in V)
      BY <2>2
    <3>3. CASE x >= z
      <4>1. \A y \in U : x >= y
        BY <3>1, <3>2, <3>3
      <4> QED
        BY <4>1, <2>2, <2>3 DEF Bounded
    <3>4. CASE ~(x >= z)
      <4>1. \A y \in U : z >= y
        BY <3>1, <3>2, <3>4
      <4> QED
        BY <4>1, <2>2, <3>1 DEF Bounded
    <3> QED
      BY <3>3, <3>4
  <2> QED
    BY <2>7, <2>8, <2>9
<1>2. Bounded(S)
  <2>1. Cardinality(S) \in Nat
    BY FS_CardinalityType
  <2> QED
    BY <1>1, <2>1
<1> QED
  BY <1>2 DEF Bounded, Max

LEMMA InjectionFacts ==
  ASSUME NEW S, IsFiniteSet(S), NEW f \in [1..Cardinality(S) -> S], IsInjective(f)
  PROVE  \A t \in S : \E i \in 1..Cardinality(S) : f[i] = t
<1>1. Cardinality(S) \in Nat
  BY FS_CardinalityType
<1>2. IsFiniteSet(1..Cardinality(S)) /\ Cardinality(1..Cardinality(S)) = Cardinality(S)
  BY <1>1, FS_Interval
<1>3. f \in Injection(1..Cardinality(S), S)
  BY DEF Injection
<1>4. f \in Surjection(1..Cardinality(S), S)
  BY <1>2, <1>3, FS_Injection
<1> QED
  BY <1>4 DEF Surjection

LEMMA SetToSeqFacts ==
  ASSUME NEW S, IsFiniteSet(S)
  PROVE  /\ Cardinality(S) \in Nat
         /\ SetToSeq(S) \in [1..Cardinality(S) -> S]
         /\ \A t \in S : \E i \in 1..Cardinality(S) : SetToSeq(S)[i] = t
<1>1. Cardinality(S) \in Nat /\ ExistsBijection(1..Cardinality(S), S)
  BY FS_CardinalityType
<1>2. \E f \in [1..Cardinality(S) -> S] : IsInjective(f)
  BY <1>1 DEF ExistsBijection, Bijection, Injection
<1>3. SetToSeq(S) \in [1..Cardinality(S) -> S] /\ IsInjective(SetToSeq(S))
  BY <1>2 DEF SetToSeq
<1> QED
  BY <1>1, <1>3, InjectionFacts

LEMMA OrderFacts ==
  ASSUME NEW S, IsFiniteSet(S), NEW o \in SetToSeqs(S)
  PROVE  /\ Cardinality(S) \in Nat
         /\ o \in [1..Cardinality(S) -> S]
         /\ \A t \in S : \E i \in 1..Cardinality(S) : o[i] = t
<1>1. Cardinality(S) \in Nat
  BY FS_CardinalityType
<1>2. o \in [1..Cardinality(S) -> S] /\ \A i, j \in 1..Cardinality(S) : i # j => o[i] # o[j]
  BY DEF SetToSeqs
<1>3. IsInjective(o)
  BY <1>2 DEF IsInjective
<1> QED
  BY <1>1, <1>2, <1>3, InjectionFacts

\* A list has every console, as it is.
LEMMA ListFacts ==
  ASSUME TypeOK, NEW upgrade \in BOOLEAN, OperatorStart(upgrade)
  PROVE  /\ watch' \in Seq(Events)
         /\ \A i \in DOMAIN watch' :
               /\ watch'[i].kind = "create" /\ watch'[i].con \in there
               /\ watch'[i].obj = spec[watch'[i].con] /\ watch'[i].obj \in Specs
         /\ \A c \in there : \E i \in DOMAIN watch' : watch'[i].con = c
<1>1. IsFiniteSet(there) /\ there \subseteq Consoles
  BY ConstantsOK, FS_Subset DEF TypeOK
<1>2. PICK o \in SetToSeqs(there) : watch' = [i \in DOMAIN o |-> Created(o[i])]
  BY DEF OperatorStart, Listings
<1>3. /\ Cardinality(there) \in Nat /\ o \in [1..Cardinality(there) -> there]
      /\ \A c \in there : \E i \in 1..Cardinality(there) : o[i] = c
  BY <1>1, OrderFacts
<1>4. \A c \in there : /\ Created(c) \in Events /\ Created(c).kind = "create" /\ Created(c).con = c
                       /\ Created(c).obj = spec[c] /\ Created(c).obj \in Specs
  BY <1>1 DEF Created, Events, TypeOK
<1>5. DOMAIN watch' = 1..Cardinality(there) /\ \A i \in DOMAIN watch' : watch'[i] = Created(o[i])
  BY <1>2, <1>3
<1>6. watch' \in [1..Cardinality(there) -> Events]
  BY <1>2, <1>3, <1>4
<1>7. watch' \in Seq(Events)
  BY <1>3, <1>6, SeqDef
<1> QED
  BY <1>3, <1>4, <1>5, <1>7

LEMMA OperatorStartTypes == ASSUME NEW upgrade \in BOOLEAN PROVE TypeOK /\ OperatorStart(upgrade) => TypeOK'
<1> SUFFICES ASSUME TypeOK, OperatorStart(upgrade)
             PROVE  TypeOK'
  OBVIOUS
<1>1. WatchOK'
  <2>1. there' = there
    BY DEF OperatorStart, names
  <2> QED
    BY <2>1, ListFacts DEF WatchOK
<1>2. worker = Idle
  BY DEF OperatorStart, TypeOK
<1>3. /\ up' = TRUE /\ queue' = {c \in Consoles : objs[c].dep # Absent}
      /\ versioned' = IF upgrade THEN [c \in Consoles |-> FALSE] ELSE versioned
      /\ UNCHANGED <<spec, status, saved, names, clusterVars, update, worker, generated, events, historyVars,
                     mishaps>>
  BY DEF OperatorStart
<1>4. versioned' \in [Consoles -> BOOLEAN]
  BY <1>3 DEF TypeOK
<1> QED
  BY <1>1, <1>2, <1>3, <1>4 DEF TypeOK, WatchOK, names, clusterVars, historyVars

LEMMA StutterTypes == TypeOK /\ UNCHANGED vars => TypeOK'
  BY DEF TypeOK, vars, resourceVars, names, clusterVars, historyVars

LEMMA NextTypes == TypeOK /\ [Next]_vars => TypeOK'
<1> SUFFICES ASSUME TypeOK, [Next]_vars
             PROVE  TypeOK'
  OBVIOUS
<1>1. CASE Predicates
  BY <1>1, CreateFuncNewTypes, CreateFuncRefusedTypes, CreateFuncSeenTypes, CreateFuncUnreadTypes,
     UpdateFuncIgnoredTypes, UpdateFuncTypes DEF Predicates
<1>2. CASE Reconcile
  BY <1>2, SetVersionTypes, PreReconcileChecksTypes, PatchInstanceTypes, ManagersTypes, ConfigsTypes,
     DeploymentTypes, DeploymentPanicTypes, AccessTypes, StatesTypes, UpdatesTypes, ActionsTypes,
     RestartTypes, SaveTypes, SetStatusTypes DEF Reconcile
<1>3. CASE StepFails \/ SetStatusConflict \/ Crash
  BY <1>3, StepFailsTypes, SetStatusConflictTypes, CrashTypes
<1>4. CASE \E upgrade \in BOOLEAN : OperatorStart(upgrade)
  BY <1>4, OperatorStartTypes
<1>5. ASSUME NEW c \in there, Get(c) \/ PodsStart(c) \/ PodsRun(c) \/ PodsFail(c)
      PROVE  TypeOK'
  BY <1>5, GetTypes, PodsTypes
<1>6. ASSUME NEW c \in there, NEW new \in Edits(spec[c]), NEW zone \in {FALSE, new.restart},
             Edit(c, new, zone)
      PROVE  TypeOK'
  BY <1>6, EditTypes
<1>7. CASE UNCHANGED vars
  BY <1>7, StutterTypes
<1> QED
  BY <1>1, <1>2, <1>3, <1>4, <1>5, <1>6, <1>7 DEF Next

-----------------------------------------------------------------------------
(* The initial states                                                      *)

\* A start, without the order of its events
InitialState(s, edited) ==
    /\ there = DOMAIN s.con /\ there \subseteq Consoles
    /\ \A c \in there :
          /\ spec[c] = s.con[c].spec /\ saved[c] = s.con[c].was
          /\ spec[c] \in Specs /\ StartOK(spec[c], saved[c])
    /\ \A c \in Consoles \ there : spec[c] = NoSpec /\ saved[c] = NoSpec
    /\ edited = {c \in there : saved[c] # NoSpec /\ saved[c] # spec[c]}
    /\ spec \in [Consoles -> Specs \cup {NoSpec}] /\ saved \in [Consoles -> Specs \cup {NoSpec}]
    /\ taken \subseteq there
    /\ versioned = [c \in Consoles |-> saved[c] # NoSpec]
    /\ status = [c \in Consoles |-> IF saved[c] # NoSpec THEN "Deployed" ELSE "none"]
    /\ objs = [c \in Consoles |-> IF saved[c] # NoSpec THEN Deployment(saved[c]) ELSE NoObjects]
    /\ pods = [c \in Consoles |-> IF saved[c] # NoSpec THEN "running" ELSE "none"]
    /\ pending = [c \in Consoles |-> FALSE]
    /\ watch \in Seq(Events)
    /\ \A i \in DOMAIN watch :
          /\ watch[i].con \in there
          /\ \/ /\ watch[i].kind = "create" /\ saved[watch[i].con] = NoSpec
                /\ watch[i].obj = spec[watch[i].con] /\ watch[i].obj \in Specs
             \/ /\ watch[i].kind = "spec" /\ watch[i].con \in edited
                /\ watch[i].restart = spec[watch[i].con].restart
    /\ \A c \in there : saved[c] = NoSpec =>
          \E i \in DOMAIN watch : watch[i].con = c /\ watch[i].kind = "create"
    /\ \A c \in edited : \E i \in DOMAIN watch :
          watch[i].con = c /\ watch[i].kind = "spec" /\ watch[i].restart = spec[c].restart
    /\ queue = {} /\ update = NoUpdate /\ worker = Idle /\ up = TRUE
    /\ generated \in Nat /\ events \in 0..MaxEvents
    /\ due = {} /\ wanted = edited /\ owner = Nobody
    /\ mishaps = IF \A c \in there : spec[c].network THEN {} ELSE {"nonetwork"}

LEMMA InitFacts == Init => \E s \in Starts, edited \in SUBSET Consoles : InitialState(s, edited)
<1> SUFFICES ASSUME Init
             PROVE  \E s \in Starts, edited \in SUBSET Consoles : InitialState(s, edited)
  OBVIOUS
<1>1. PICK s \in Starts :
        LET new == {c \in DOMAIN s.con : s.con[c].was = NoSpec}
            edited == {c \in DOMAIN s.con : s.con[c].was # s.con[c].spec} \ new
            waits == SetToSeq(new \cup edited)
            first == [c \in Consoles |-> IF c \in DOMAIN s.con THEN s.con[c].spec ELSE NoSpec]
            old == [c \in Consoles |-> IF c \in DOMAIN s.con THEN s.con[c].was ELSE NoSpec]
        IN
        /\ spec = first
        /\ there = DOMAIN s.con
        /\ taken = {c \in there : s.con[c].taken}
        /\ versioned = [c \in Consoles |-> old[c] # NoSpec]
        /\ status = [c \in Consoles |-> IF old[c] # NoSpec THEN "Deployed" ELSE "none"]
        /\ saved = old
        /\ objs = [c \in Consoles |-> IF old[c] # NoSpec THEN Deployment(old[c]) ELSE NoObjects]
        /\ pods = [c \in Consoles |-> IF old[c] # NoSpec THEN "running" ELSE "none"]
        /\ pending = [c \in Consoles |-> FALSE]
        /\ watch = [i \in DOMAIN waits |-> IF waits[i] \in new THEN Created(waits[i])
                                            ELSE Changed(waits[i], "spec", spec[waits[i]].restart)]
        /\ queue = {} /\ update = NoUpdate /\ worker = Idle /\ up = TRUE
        /\ generated = Max({0} \cup {first[c].conn : c \in there})
        /\ events = s.events
        /\ due = {} /\ wanted = edited /\ owner = Nobody
        /\ mishaps = IF \A c \in there : first[c].network THEN {} ELSE {"nonetwork"}
  BY DEF Init
<1> DEFINE new == {c \in DOMAIN s.con : s.con[c].was = NoSpec}
           edited == {c \in DOMAIN s.con : s.con[c].was # s.con[c].spec} \ new
           waits == SetToSeq(new \cup edited)
           first == [c \in Consoles |-> IF c \in DOMAIN s.con THEN s.con[c].spec ELSE NoSpec]
           old == [c \in Consoles |-> IF c \in DOMAIN s.con THEN s.con[c].was ELSE NoSpec]
<1>2. /\ DOMAIN s.con \subseteq Consoles /\ s.events \in 0..MaxEvents
      /\ \A c \in DOMAIN s.con : StartOK(s.con[c].spec, s.con[c].was)
  BY ConstantsOK
<1>3. /\ spec = first /\ saved = old /\ there = DOMAIN s.con /\ there \subseteq Consoles
      /\ taken \subseteq there
  BY <1>1, <1>2
<1>4. /\ \A c \in there : spec[c] = s.con[c].spec /\ saved[c] = s.con[c].was
      /\ \A c \in Consoles \ there : spec[c] = NoSpec /\ saved[c] = NoSpec
  BY <1>3
<1>5. \A c \in there : spec[c] \in Specs /\ StartOK(spec[c], saved[c]) /\ saved[c] \in Specs \cup {NoSpec}
  BY <1>2, <1>3, <1>4 DEF StartOK
<1>6. spec \in [Consoles -> Specs \cup {NoSpec}] /\ saved \in [Consoles -> Specs \cup {NoSpec}]
  <2>1. DOMAIN spec = Consoles /\ DOMAIN saved = Consoles
        /\ spec = [c \in Consoles |-> spec[c]] /\ saved = [c \in Consoles |-> saved[c]]
    BY <1>3
  <2> QED
    BY <1>4, <1>5, <2>1
<1>7. new = {c \in there : saved[c] = NoSpec} /\ edited = {c \in there : saved[c] # NoSpec /\ saved[c] # spec[c]}
  BY <1>3, <1>4
<1>8. edited \in SUBSET Consoles
  BY <1>3
<1>9. /\ versioned = [c \in Consoles |-> saved[c] # NoSpec]
      /\ status = [c \in Consoles |-> IF saved[c] # NoSpec THEN "Deployed" ELSE "none"]
      /\ objs = [c \in Consoles |-> IF saved[c] # NoSpec THEN Deployment(saved[c]) ELSE NoObjects]
      /\ pods = [c \in Consoles |-> IF saved[c] # NoSpec THEN "running" ELSE "none"]
      /\ pending = [c \in Consoles |-> FALSE]
      /\ queue = {} /\ update = NoUpdate /\ worker = Idle /\ up = TRUE
      /\ events \in 0..MaxEvents
      /\ due = {} /\ wanted = edited /\ owner = Nobody
      /\ mishaps = IF \A c \in there : spec[c].network THEN {} ELSE {"nonetwork"}
  <2>1. /\ versioned = [c \in Consoles |-> old[c] # NoSpec]
        /\ status = [c \in Consoles |-> IF old[c] # NoSpec THEN "Deployed" ELSE "none"]
        /\ objs = [c \in Consoles |-> IF old[c] # NoSpec THEN Deployment(old[c]) ELSE NoObjects]
        /\ pods = [c \in Consoles |-> IF old[c] # NoSpec THEN "running" ELSE "none"]
    BY <1>1
  <2>2. /\ pending = [c \in Consoles |-> FALSE]
        /\ queue = {} /\ update = NoUpdate /\ worker = Idle /\ up = TRUE
        /\ events = s.events
        /\ due = {} /\ wanted = edited /\ owner = Nobody
    BY <1>1
  <2>3. mishaps = IF \A c \in there : first[c].network THEN {} ELSE {"nonetwork"}
    BY <1>1
  <2> HIDE DEF new, edited, waits, first, old
  <2> QED
    BY <1>2, <1>3, <2>1, <2>2, <2>3
<1>10. generated \in Nat
  <2> DEFINE all == {spec[c].conn : c \in there}
  <2>1. generated = Max({0} \cup all)
    <3>1. generated = Max({0} \cup {first[c].conn : c \in there})
      BY <1>1
    <3> HIDE DEF first
    <3> QED
      BY <1>3, <3>1
  <2>2. IsFiniteSet(there)
    BY <1>3, ConstantsOK, FS_Subset
  <2>3. IsFiniteSet(all)
    <3> DEFINE conn == [c \in there |-> spec[c].conn]
    <3>1. conn \in Surjection(there, all)
      BY DEF Surjection
    <3> HIDE DEF conn, all
    <3> QED
      BY <2>2, <3>1, FS_Surjection
  <2>4. all \subseteq Int
    BY <1>5, SpecsFacts
  <2> HIDE DEF all
  <2>5. IsFiniteSet({0} \cup all)
    BY <2>3, FS_Singleton, FS_Union
  <2>6. {0} \cup all \in SUBSET Int /\ {0} \cup all # {}
    BY <2>4
  <2>7. Max({0} \cup all) \in {0} \cup all /\ Max({0} \cup all) >= 0
    BY <2>5, <2>6, Greatest
  <2> QED
    BY <2>1, <2>6, <2>7
<1>11. /\ watch = [i \in DOMAIN waits |-> IF waits[i] \in new THEN Created(waits[i])
                                           ELSE Changed(waits[i], "spec", spec[waits[i]].restart)]
  BY <1>1
<1>12. IsFiniteSet(new \cup edited) /\ new \cup edited \subseteq there
  <2>1. new \cup edited \subseteq there
    BY <1>7
  <2> QED
    BY <2>1, <1>3, ConstantsOK, FS_Subset
<1>13. /\ Cardinality(new \cup edited) \in Nat
       /\ waits \in [1..Cardinality(new \cup edited) -> new \cup edited]
       /\ \A c \in new \cup edited : \E i \in 1..Cardinality(new \cup edited) : waits[i] = c
  BY <1>12, SetToSeqFacts
<1> HIDE DEF waits, first, old, new, edited
<1> DEFINE event(c) == IF c \in new THEN Created(c) ELSE Changed(c, "spec", spec[c].restart)
<1>14. \A c \in new \cup edited :
          /\ event(c) \in Events /\ event(c).con = c
          /\ c \in new => event(c).kind = "create" /\ event(c).obj = spec[c]
          /\ c \notin new => event(c).kind = "spec" /\ event(c).restart = spec[c].restart
  <2> SUFFICES ASSUME NEW c \in new \cup edited
               PROVE  /\ event(c) \in Events /\ event(c).con = c
                      /\ c \in new => event(c).kind = "create" /\ event(c).obj = spec[c]
                      /\ c \notin new => event(c).kind = "spec" /\ event(c).restart = spec[c].restart
    OBVIOUS
  <2>1. c \in Consoles /\ spec[c] \in Specs /\ spec[c].restart \in BOOLEAN
    BY <1>3, <1>5, <1>12, SpecsFacts
  <2>2. CASE c \in new
    BY <2>1, <2>2 DEF Created, Events
  <2>3. CASE c \notin new
    BY <2>1, <2>3, EventFacts
  <2> QED
    BY <2>2, <2>3
<1>15. DOMAIN watch = 1..Cardinality(new \cup edited) /\ \A i \in DOMAIN watch : watch[i] = event(waits[i])
  BY <1>11, <1>13
<1>16. watch \in Seq(Events)
  <2>1. watch \in [1..Cardinality(new \cup edited) -> Events]
    <3>1. watch = [i \in 1..Cardinality(new \cup edited) |-> event(waits[i])]
      BY <1>11, <1>13
    <3>2. \A i \in 1..Cardinality(new \cup edited) : event(waits[i]) \in Events
      BY <1>13, <1>14
    <3> HIDE DEF event
    <3> QED
      BY <3>1, <3>2
  <2> QED
    BY <1>13, <2>1, SeqDef
<1> HIDE DEF event
<1>17. \A i \in DOMAIN watch : waits[i] \in new \cup edited /\ watch[i] = event(waits[i])
  BY <1>13, <1>15
<1>18. \A c \in new \cup edited : \E i \in DOMAIN watch : watch[i] = event(c)
  BY <1>13, <1>15
<1>19. \A i \in DOMAIN watch :
          /\ watch[i].con \in there
          /\ \/ /\ watch[i].kind = "create" /\ saved[watch[i].con] = NoSpec
                /\ watch[i].obj = spec[watch[i].con] /\ watch[i].obj \in Specs
             \/ /\ watch[i].kind = "spec" /\ watch[i].con \in edited
                /\ watch[i].restart = spec[watch[i].con].restart
  BY <1>5, <1>7, <1>12, <1>14, <1>17
<1>20. \A c \in there : saved[c] = NoSpec =>
          \E i \in DOMAIN watch : watch[i].con = c /\ watch[i].kind = "create"
  BY <1>7, <1>14, <1>18
<1>21. \A c \in edited : \E i \in DOMAIN watch :
          watch[i].con = c /\ watch[i].kind = "spec" /\ watch[i].restart = spec[c].restart
  BY <1>7, <1>14, <1>18
<1>22. InitialState(s, edited)
  BY <1>3, <1>4, <1>5, <1>6, <1>7, <1>9, <1>10, <1>16, <1>19, <1>20, <1>21 DEF InitialState
<1> QED
  BY <1>8, <1>22

LEMMA DeploymentTyped ==
  ASSUME NEW s \in Specs
  PROVE  /\ Deployment(s) \in Objects
         /\ Deployment(s).env = s.conn
         /\ Deployment(s).deployer = s.rev["deployer"] /\ Deployment(s).console = s.rev["console"]
         /\ Deployment(s).dep = s.rev["pod"] /\ Deployment(s).dep # Absent
         /\ Deployment(s).db = IF s.conn >= 0 THEN s.conn ELSE Default
<1> DEFINE db == IF UsingRemoteDB(s) THEN Default ELSE s.conn
           d == Deployment(s)
<1>1. /\ s.conn \in Connections /\ s.conn \in Int
      /\ s.rev["deployer"] \in Nat /\ s.rev["console"] \in Nat /\ s.rev["pod"] \in Nat
  BY SpecsFacts
<1>2. db \in Nat /\ db = IF s.conn >= 0 THEN s.conn ELSE Default
  BY <1>1 DEF UsingRemoteDB, Local, Default
<1>3. d = [made |-> Simple, env |-> s.conn, deployer |-> s.rev["deployer"], console |-> s.rev["console"],
           dep |-> s.rev["pod"], db |-> db]
  BY DEF Deployment
<1> HIDE DEF db, d
<1>4. d \in Objects /\ d.env = s.conn /\ d.deployer = s.rev["deployer"] /\ d.console = s.rev["console"]
      /\ d.dep = s.rev["pod"] /\ d.db = db
  BY <1>1, <1>2, <1>3 DEF Objects
<1>5. d.dep # Absent
  BY <1>1, <1>4 DEF Absent
<1> QED
  BY <1>2, <1>4, <1>5 DEF d

LEMMA NoObjectsTyped ==
  /\ NoObjects \in Objects
  /\ NoObjects.env = Absent /\ NoObjects.deployer = Absent /\ NoObjects.console = Absent
  /\ NoObjects.dep = Absent /\ NoObjects.db = Default
  BY DEF NoObjects, Objects, Absent, Default

LEMMA InitTypes == Init => TypeOK
<1> SUFFICES ASSUME Init
             PROVE  TypeOK
  OBVIOUS
<1>1. PICK s \in Starts, edited \in SUBSET Consoles : InitialState(s, edited)
  BY InitFacts
<1>2. objs \in [Consoles -> Objects]
  <2>1. \A c \in Consoles : saved[c] # NoSpec => saved[c] \in Specs
    BY <1>1 DEF InitialState
  <2>2. objs = [c \in Consoles |-> IF saved[c] # NoSpec THEN Deployment(saved[c]) ELSE NoObjects]
    BY <1>1 DEF InitialState
  <2> QED
    BY <2>1, <2>2, DeploymentTyped, NoObjectsTyped
<1>3. /\ taken \subseteq there /\ there \subseteq Consoles
      /\ spec \in [Consoles -> Specs \cup {NoSpec}] /\ (\A c \in there : spec[c] \in Specs)
      /\ saved \in [Consoles -> Specs \cup {NoSpec}]
      /\ queue = {} /\ worker = Idle /\ up = TRUE
      /\ generated \in Nat /\ events \in 0..MaxEvents
      /\ due = {} /\ wanted = edited
      /\ watch \in Seq(Events)
  BY <1>1 DEF InitialState
<1>4. \A i \in DOMAIN watch : watch[i].con \in there /\ (watch[i].kind = "create" => watch[i].obj \in Specs)
  BY <1>1 DEF InitialState
<1>5. versioned \in [Consoles -> BOOLEAN]
  <2>1. versioned = [c \in Consoles |-> saved[c] # NoSpec]
    BY <1>1 DEF InitialState
  <2> QED
    BY <2>1
<1>6. /\ status \in [Consoles -> {"none", "Deploying", "Deployed", "Error"}]
      /\ pods \in [Consoles -> {"none", "starting", "running"}]
      /\ pending \in [Consoles -> BOOLEAN]
  <2>1. /\ status = [c \in Consoles |-> IF saved[c] # NoSpec THEN "Deployed" ELSE "none"]
        /\ pods = [c \in Consoles |-> IF saved[c] # NoSpec THEN "running" ELSE "none"]
        /\ pending = [c \in Consoles |-> FALSE]
    BY <1>1 DEF InitialState
  <2> QED
    BY <2>1
<1>7. mishaps \subseteq Mishaps /\ update = NoUpdate
  BY <1>1 DEF InitialState, Mishaps
<1> QED
  BY <1>2, <1>3, <1>4, <1>5, <1>6, <1>7, NoUpdateTyped DEF TypeOK

\* The types of all variables hold in every state of the consoles' controller, and a reconcile
\* is only ever of a console that is there, while the operator runs.
THEOREM TypeCorrect == Spec => []TypeOK
<1>1. Init => TypeOK
  BY InitTypes
<1>2. TypeOK /\ [Next]_vars => TypeOK'
  BY NextTypes
<1> QED
  BY <1>1, <1>2, PTL DEF Spec

-----------------------------------------------------------------------------
(* What the steps do                                                       *)

\* The worker goes on.
Goes(pc, inst, result) ==
    /\ worker' # Idle
    /\ worker'.pc = pc /\ worker'.con = worker.con /\ worker'.base = worker.base
    /\ worker'.inst = inst /\ worker'.result = result

\* What the objects are made from
Contents(o) == <<o.env, o.deployer, o.console, o.dep, o.db>>

\* Only the worker's console has other objects.
OnlyHere == \A c \in Consoles : c # Con => objs'[c] = objs[c]

SameContents == \A c \in Consoles : Contents(objs'[c]) = Contents(objs[c])

LEMMA ContentsFacts ==
  \A o, p : Contents(o) = Contents(p) <=>
      o.env = p.env /\ o.deployer = p.deployer /\ o.console = p.console /\ o.dep = p.dep /\ o.db = p.db
  BY DEF Contents

LEMMA VersionEffects ==
  ASSUME TypeOK, SetVersion
  PROVE  /\ worker # Idle /\ worker.pc = "version" /\ up
         /\ UNCHANGED <<spec, status, saved, names, clusterVars, queue, update, up, generated, events,
                        historyVars, mishaps>>
         /\ worker'.upd = worker.upd
         /\ \/ Goes("checks", Inst, worker.result) /\ UNCHANGED watch
            \/ /\ Goes("save", worker'.inst, "requeue") /\ Refreshed(spec[Con])
               /\ Notify(Con, "status", FALSE)
<1>1. /\ worker # Idle /\ worker.pc = "version" /\ up
      /\ UNCHANGED <<spec, status, saved, names, clusterVars, queue, update, up, generated, events,
                     historyVars, mishaps>>
      /\ \/ Goto("checks") /\ UNCHANGED watch
         \/ Notify(Con, "status", FALSE) /\ Refresh("save", spec[Con], "requeue")
  BY DEF SetVersion, At
<1>2. CASE Goto("checks") /\ UNCHANGED watch
  BY <1>1, <1>2, GotoFacts DEF PCs, Goes, Con
<1>3. CASE Notify(Con, "status", FALSE) /\ Refresh("save", spec[Con], "requeue")
  <2>1. spec[Con] \in Specs
    BY <1>1, WorkerFacts
  <2> QED
    BY <1>1, <1>3, <2>1, RefreshFacts DEF Goes, Con, PCs
<1> QED
  BY <1>1, <1>2, <1>3

LEMMA ChecksEffects ==
  ASSUME TypeOK, PreReconcileChecks,
         NEW valid, valid = ValidateSpec(Inst),
         NEW new, new = CreateCouchdbCredentials(CreateSecretsIfRequired(valid))
  PROVE  /\ worker # Idle /\ worker.pc = "checks" /\ up
         /\ UNCHANGED <<resourceVars, names, pods, pending, watch, queue, update, up, events, wanted, owner,
                        mishaps>>
         /\ OnlyHere /\ SameContents
         /\ worker'.upd = worker.upd
         /\ \/ /\ ~Inst.network /\ Goes("save", Inst, "error")
               /\ due' = due \cup worker.took
            \/ /\ Inst.network /\ due' = due
               /\ \/ Goes("patch", new, worker.result) /\ new # valid
                  \/ Goes("managers", new, worker.result) /\ new = valid
<1>1. /\ worker # Idle /\ worker.pc = "checks" /\ up
      /\ UNCHANGED <<resourceVars, names, pods, pending, watch, queue, update, up, events, wanted, owner>>
      /\ \/ ~Inst.network /\ Fail({}) /\ UNCHANGED objs
         \/ /\ Inst.network
            /\ worker' = [worker EXCEPT !.inst = new, !.pc = IF new # valid THEN "patch" ELSE "managers"]
            /\ objs' = [objs EXCEPT ![Con].made = @ \cup If("secret", Inst.inline)]
            /\ UNCHANGED <<due, mishaps>>
  BY DEF PreReconcileChecks, At
<1>2. worker \in Reconciles /\ Con \in Consoles /\ new \in Specs /\ objs[Con] \in Objects
  BY <1>1, WorkerFacts, ChecksFacts
<1>3. CASE ~Inst.network /\ Fail({}) /\ UNCHANGED objs
  <2>1. Goes("save", Inst, "error") /\ due' = due \cup worker.took /\ mishaps' = mishaps
        /\ worker'.upd = worker.upd
    BY <1>1, <1>3, EndFacts DEF Fail, Note, Goes, Con
  <2> QED
    BY <1>1, <1>3, <2>1 DEF OnlyHere, SameContents
<1>4. CASE /\ Inst.network
           /\ worker' = [worker EXCEPT !.inst = new, !.pc = IF new # valid THEN "patch" ELSE "managers"]
           /\ objs' = [objs EXCEPT ![Con].made = @ \cup If("secret", Inst.inline)]
           /\ UNCHANGED <<due, mishaps>>
  <2> DEFINE pc == IF new # valid THEN "patch" ELSE "managers"
             o == [objs[Con] EXCEPT !.made = @ \cup If("secret", Inst.inline)]
  <2>1. worker' = [worker EXCEPT !.inst = new, !.pc = pc] /\ pc \in PCs
    BY <1>4 DEF PCs
  <2>2. objs' = [objs EXCEPT ![Con] = o] /\ Contents(o) = Contents(objs[Con])
    BY <1>2, <1>4 DEF Contents, Objects
  <2> HIDE DEF pc, o
  <2>3. worker' \in Reconciles
    BY <1>2, <2>1 DEF Reconciles
  <2>4. Goes(pc, new, worker.result) /\ worker'.upd = worker.upd
    BY <1>2, <2>1, <2>3, ReconcilesFacts DEF Reconciles, Goes
  <2>5. OnlyHere /\ SameContents
    BY <1>2, <2>2 DEF OnlyHere, SameContents, TypeOK
  <2> QED
    BY <1>1, <1>4, <2>4, <2>5 DEF pc
<1> QED
  BY <1>1, <1>3, <1>4

LEMMA PatchEffects ==
  ASSUME TypeOK, PatchInstance
  PROVE  /\ worker # Idle /\ worker.pc = "patch" /\ up
         /\ UNCHANGED <<versioned, status, saved, names, clusterVars, queue, update, up, generated, events, due,
                        owner, mishaps>>
         /\ wanted' = wanted \cup If(Con, Inst.conn # worker.base.conn \/ worker.base.bare)
         /\ Goes("save", worker'.inst, "requeue")
         /\ \/ /\ spec' = [spec EXCEPT ![Con] = Merged] /\ Notify(Con, "spec", Merged.restart)
               /\ Refreshed(Merged)
            \/ spec[Con] # worker.base /\ worker'.inst = Inst /\ UNCHANGED <<spec, watch>>
<1>1. /\ worker # Idle /\ worker.pc = "patch" /\ up
      /\ UNCHANGED <<versioned, status, saved, names, clusterVars, queue, update, up, generated, events, due,
                     owner, mishaps>>
      /\ wanted' = wanted \cup If(Con, Inst.conn # worker.base.conn \/ worker.base.bare)
      /\ \/ /\ spec' = [spec EXCEPT ![Con] = Merged] /\ Notify(Con, "spec", Merged.restart)
            /\ Refresh("save", Merged, "requeue")
         \/ /\ spec[Con] # worker.base /\ UNCHANGED <<spec, watch>>
            /\ worker' = [worker EXCEPT !.pc = "save", !.result = "requeue"]
  BY DEF PatchInstance, At, Merged
<1>2. CASE /\ spec' = [spec EXCEPT ![Con] = Merged] /\ Notify(Con, "spec", Merged.restart)
           /\ Refresh("save", Merged, "requeue")
  <2>1. Goes("save", worker'.inst, "requeue") /\ Refreshed(Merged)
    BY <1>1, <1>2, MergedFacts, RefreshFacts DEF Goes, Con, PCs
  <2> QED
    BY <1>1, <1>2, <2>1
<1>3. CASE /\ spec[Con] # worker.base /\ UNCHANGED <<spec, watch>>
           /\ worker' = [worker EXCEPT !.pc = "save", !.result = "requeue"]
  <2>1. Goes("save", Inst, "requeue")
    BY <1>1, <1>3, EndFacts DEF Goes, Con
  <2> QED
    BY <1>1, <1>3, <2>1 DEF Goes
<1> QED
  BY <1>1, <1>2, <1>3

LEMMA ManagersEffects ==
  ASSUME TypeOK, ReconcileManagers
  PROVE  /\ worker # Idle /\ worker.pc = "managers" /\ up
         /\ UNCHANGED <<resourceVars, names, pods, pending, watch, queue, update, up, generated, events,
                        wanted>>
         /\ Read({"spec"}, "spec")
         /\ OnlyHere /\ SameContents
         /\ Goes("env", Inst, worker.result) /\ worker'.upd = update["spec"] /\ worker'.took = Serves("spec")
<1> DEFINE o == ReconcileRBAC(Service(PVC(objs[Con], Inst)))
<1>1. /\ worker # Idle /\ worker.pc = "managers" /\ up /\ Read({"spec"}, "spec")
      /\ worker' = [worker EXCEPT !.pc = "env", !.upd = update["spec"], !.took = Serves("spec")]
      /\ objs' = [objs EXCEPT ![Con] = o]
      /\ UNCHANGED <<resourceVars, names, pods, pending, watch, queue, update, up, generated, events,
                     wanted>>
  BY DEF ReconcileManagers, At
<1>2. Con \in Consoles /\ objs[Con] \in Objects /\ Inst \in Specs /\ worker \in Reconciles
  BY <1>1, WorkerFacts
<1>3. Contents(o) = Contents(objs[Con])
  BY <1>2, MadeFacts DEF Contents
<1> HIDE DEF o
<1>4. OnlyHere /\ SameContents
  BY <1>1, <1>2, <1>3 DEF OnlyHere, SameContents, TypeOK
<1>5. Serves("spec") \in SUBSET (Consoles \X {"spec"}) /\ update["spec"] \in BOOLEAN
  BY <1>2, ServesFacts, UpdateTyped
<1>6. worker' \in Reconciles /\ worker'.pc = "env" /\ worker'.con = worker.con /\ worker'.base = worker.base
      /\ worker'.inst = Inst /\ worker'.result = worker.result
      /\ worker'.upd = update["spec"] /\ worker'.took = Serves("spec")
  BY <1>1, <1>2, <1>5 DEF Reconciles, PCs, Inst
<1> QED
  BY <1>1, <1>4, <1>6, ReconcilesFacts DEF Goes

\* The effects of a manager
LEMMA ManageEffects ==
  ASSUME TypeOK, NEW m, NEW objects, NEW next \in PCs, Manage(m, objects, next)
  PROVE  /\ worker # Idle /\ worker.pc = m /\ up
         /\ UNCHANGED <<resourceVars, names, pending, watch, update, up, generated, events, historyVars,
                        mishaps>>
         /\ Goes(next, Inst, worker.result) /\ worker'.upd = worker.upd
         /\ OnlyHere /\ objs'[Con] = objects
         /\ \A c \in Consoles : c = Con \/ objs'[c] = objs[c]
<1>1. /\ worker # Idle /\ worker.pc = m /\ up
      /\ UNCHANGED <<resourceVars, names, pending, watch, update, up, generated, events, historyVars,
                     mishaps>>
      /\ objs' = [objs EXCEPT ![Con] = objects] /\ Goto(next)
  BY DEF Manage, At
<1>2. Con \in Consoles
  BY <1>1, WorkerFacts
<1>3. Goes(next, Inst, worker.result) /\ worker'.upd = worker.upd
  BY <1>1, GotoFacts DEF Goes, Con
<1>4. OnlyHere /\ objs'[Con] = objects
  BY <1>1, <1>2 DEF OnlyHere, TypeOK
<1> QED
  BY <1>1, <1>3, <1>4 DEF OnlyHere

LEMMA EnvEffects ==
  ASSUME TypeOK, ReconcileEnvCM
  PROVE  /\ worker # Idle /\ worker.pc = "env" /\ up
         /\ UNCHANGED <<resourceVars, names, pending, pods, queue, watch, update, up, generated, events,
                        historyVars, mishaps>>
         /\ Goes("configs", Inst, worker.result) /\ worker'.upd = worker.upd
         /\ OnlyHere
         /\ objs'[Con].env \in {objs[Con].env, Inst.conn}
         /\ objs[Con].env = Absent \/ worker.upd => objs'[Con].env = Inst.conn
         /\ objs'[Con].deployer = objs[Con].deployer /\ objs'[Con].console = objs[Con].console
         /\ objs'[Con].dep = objs[Con].dep /\ objs'[Con].db = objs[Con].db
<1>1. Manage("env", EnvCM(objs[Con], Inst), "configs") /\ UNCHANGED <<pods, queue>> /\ worker # Idle
  BY DEF ReconcileEnvCM, Manage, At
<1>2. objs[Con] \in Objects /\ Inst \in Specs
  BY <1>1, WorkerFacts
<1> DEFINE n == EnvCM(objs[Con], Inst)
<1>3. /\ n.env \in {objs[Con].env, Inst.conn}
      /\ (objs[Con].env = Absent \/ worker.upd => n.env = Inst.conn)
      /\ n.deployer = objs[Con].deployer /\ n.console = objs[Con].console
      /\ n.dep = objs[Con].dep /\ n.db = objs[Con].db
  BY <1>2, ConfigsFacts
<1> HIDE DEF n
<1>4. /\ worker # Idle /\ worker.pc = "env" /\ up
      /\ UNCHANGED <<resourceVars, names, pending, watch, update, up, generated, events, historyVars,
                     mishaps>>
      /\ Goes("configs", Inst, worker.result) /\ worker'.upd = worker.upd
      /\ OnlyHere /\ objs'[Con] = n
  BY <1>1, ManageEffects DEF PCs, n
<1> QED
  BY <1>1, <1>3, <1>4

LEMMA ConfigsEffects ==
  ASSUME TypeOK, ReconcileConfigCMs
  PROVE  /\ worker # Idle /\ worker.pc = "configs" /\ up
         /\ UNCHANGED <<resourceVars, names, pending, pods, queue, watch, update, up, generated, events,
                        historyVars, mishaps>>
         /\ Goes("deployment", Inst, worker.result) /\ worker'.upd = worker.upd
         /\ OnlyHere
         /\ objs'[Con].deployer \in {objs[Con].deployer, Inst.rev["deployer"]}
         /\ objs[Con].deployer = Absent \/ worker.upd => objs'[Con].deployer = Inst.rev["deployer"]
         /\ objs'[Con].console \in {objs[Con].console, Inst.rev["console"]}
         /\ objs[Con].console = Absent \/ worker.upd => objs'[Con].console = Inst.rev["console"]
         /\ objs'[Con].env = objs[Con].env
         /\ objs'[Con].dep = objs[Con].dep /\ objs'[Con].db = objs[Con].db
<1> DEFINE n == ConsoleCM(DeployerCM(objs[Con], Inst), Inst)
<1>1. Manage("configs", n, "deployment") /\ UNCHANGED <<pods, queue>> /\ worker # Idle
  BY DEF ReconcileConfigCMs, Manage, At
<1>2. objs[Con] \in Objects /\ Inst \in Specs
  BY <1>1, WorkerFacts
<1>3. /\ n.deployer \in {objs[Con].deployer, Inst.rev["deployer"]}
      /\ (objs[Con].deployer = Absent \/ worker.upd => n.deployer = Inst.rev["deployer"])
      /\ n.console \in {objs[Con].console, Inst.rev["console"]}
      /\ (objs[Con].console = Absent \/ worker.upd => n.console = Inst.rev["console"])
      /\ n.env = objs[Con].env /\ n.dep = objs[Con].dep /\ n.db = objs[Con].db
  BY <1>2, ConfigsFacts
<1> HIDE DEF n
<1>4. /\ worker # Idle /\ worker.pc = "configs" /\ up
      /\ UNCHANGED <<resourceVars, names, pending, watch, update, up, generated, events, historyVars,
                     mishaps>>
      /\ Goes("deployment", Inst, worker.result) /\ worker'.upd = worker.upd
      /\ OnlyHere /\ objs'[Con] = n
  BY <1>1, ManageEffects DEF PCs
<1> QED
  BY <1>1, <1>3, <1>4

LEMMA AccessEffects ==
  ASSUME TypeOK, ReconcileAccess
  PROVE  /\ worker # Idle /\ worker.pc = "access" /\ up
         /\ UNCHANGED <<resourceVars, names, pending, pods, queue, watch, update, up, generated, events,
                        historyVars, mishaps>>
         /\ Goes("states", Inst, worker.result) /\ worker'.upd = worker.upd
         /\ OnlyHere /\ SameContents
<1> DEFINE n == NetworkPolicy(IF Offering = "k8s" THEN Ingress(objs[Con]) ELSE Routes(objs[Con]))
<1>1. Manage("access", n, "states") /\ UNCHANGED <<pods, queue>> /\ worker # Idle
  BY DEF ReconcileAccess, Manage, At
<1>2. objs[Con] \in Objects /\ Inst \in Specs
  BY <1>1, WorkerFacts
<1>3. Contents(n) = Contents(objs[Con])
  BY <1>2, MadeFacts DEF Contents
<1> HIDE DEF n
<1>4. /\ worker # Idle /\ worker.pc = "access" /\ up
      /\ UNCHANGED <<resourceVars, names, pending, watch, update, up, generated, events, historyVars,
                     mishaps>>
      /\ Goes("states", Inst, worker.result) /\ worker'.upd = worker.upd
      /\ OnlyHere /\ objs'[Con] = n
  BY <1>1, ManageEffects DEF PCs
<1>5. SameContents
  BY <1>3, <1>4 DEF SameContents, OnlyHere
<1> QED
  BY <1>1, <1>4, <1>5

LEMMA DeploymentEffects ==
  ASSUME TypeOK, ReconcileDeployment
  PROVE  /\ worker # Idle /\ worker.pc = "deployment" /\ up
         /\ UNCHANGED <<resourceVars, names, pending, watch, update, up, generated, events, historyVars,
                        mishaps>>
         /\ queue \subseteq queue'
         /\ Goes("access", Inst, worker.result) /\ worker'.upd = worker.upd
         /\ OnlyHere
         /\ objs'[Con].env = objs[Con].env
         /\ objs'[Con].deployer = objs[Con].deployer /\ objs'[Con].console = objs[Con].console
         /\ \/ /\ objs[Con].dep = Absent
               /\ objs'[Con].db = IF Inst.conn >= 0 /\ objs[Con].db = Default THEN Inst.conn ELSE objs[Con].db
            \/ objs[Con].dep # Absent /\ objs'[Con].db = objs[Con].db
         /\ objs'[Con].dep # Absent
         /\ objs'[Con].dep \in {objs[Con].dep, Inst.rev["pod"]}
         /\ objs[Con].dep = Absent \/ worker.upd => objs'[Con].dep = Inst.rev["pod"]
<1> DEFINE old == objs[Con]
           new == IF old.dep = Absent THEN CreateDeployment(old, Inst)
                  ELSE IF worker.upd THEN UpdateDeployment(old, Inst) ELSE old
<1>1. worker # Idle /\ Manage("deployment", new, "access") /\ Rollout(new # old)
  BY DEF ReconcileDeployment, At
<1>2. old \in Objects /\ Inst \in Specs /\ Con \in Consoles
  BY <1>1, WorkerFacts
<1>3. /\ new.env = old.env /\ new.deployer = old.deployer /\ new.console = old.console
      /\ \/ /\ old.dep = Absent
            /\ new.db = IF Inst.conn >= 0 /\ old.db = Default THEN Inst.conn ELSE old.db
         \/ old.dep # Absent /\ new.db = old.db
      /\ new.dep # Absent /\ new.dep \in {old.dep, Inst.rev["pod"]}
      /\ (old.dep = Absent \/ worker.upd => new.dep = Inst.rev["pod"])
  <2>1. CASE old.dep = Absent
    <3>1. new = CreateDeployment(old, Inst)
      BY <2>1
    <3> HIDE DEF new, old
    <3> QED
      BY <1>2, <2>1, <3>1, DeploymentFacts
  <2>2. CASE old.dep # Absent /\ worker.upd
    <3>1. new = UpdateDeployment(old, Inst)
      BY <2>2
    <3> HIDE DEF new, old
    <3> QED
      BY <1>2, <2>2, <3>1, DeploymentFacts
  <2>3. CASE old.dep # Absent /\ ~worker.upd
    <3>1. new = old
      BY <2>3
    <3> HIDE DEF new, old
    <3> QED
      BY <2>3, <3>1
  <2> QED
    BY <2>1, <2>2, <2>3
<1> HIDE DEF new
<1>4. /\ worker # Idle /\ worker.pc = "deployment" /\ up
      /\ UNCHANGED <<resourceVars, names, pending, watch, update, up, generated, events, historyVars,
                     mishaps>>
      /\ Goes("access", Inst, worker.result) /\ worker'.upd = worker.upd
      /\ OnlyHere /\ objs'[Con] = new
  BY <1>1, ManageEffects DEF PCs
<1>5. queue \subseteq queue'
  BY <1>1, <1>2, RolloutFacts
<1> QED
  BY <1>3, <1>4, <1>5

LEMMA StatesEffects ==
  ASSUME TypeOK, CheckStates
  PROVE  /\ worker # Idle /\ worker.pc = "states" /\ up
         /\ UNCHANGED <<resourceVars, names, pending, watch, update, up, generated, events, historyVars,
                        mishaps>>
         /\ queue \subseteq queue'
         /\ Goes("cmupdates", Inst, worker.result) /\ worker'.upd = worker.upd
         /\ OnlyHere
         /\ objs'[Con].env = objs[Con].env
         /\ objs'[Con].deployer = objs[Con].deployer /\ objs'[Con].console = objs[Con].console
         /\ objs'[Con].db = IF Inst.conn >= 0 /\ objs[Con].db = Default THEN Inst.conn ELSE objs[Con].db
         /\ objs'[Con].dep # Absent /\ objs'[Con].dep = Inst.rev["pod"]
<1> DEFINE new == CreateDeployment(objs[Con], Inst)
<1>1. worker # Idle /\ Manage("states", new, "cmupdates") /\ Rollout(new # objs[Con])
  BY DEF CheckStates, Manage, At
<1>2. objs[Con] \in Objects /\ Inst \in Specs /\ Con \in Consoles
  BY <1>1, WorkerFacts
<1>3. /\ new.env = objs[Con].env /\ new.deployer = objs[Con].deployer /\ new.console = objs[Con].console
      /\ new.db = IF Inst.conn >= 0 /\ objs[Con].db = Default THEN Inst.conn ELSE objs[Con].db
      /\ new.dep # Absent /\ new.dep = Inst.rev["pod"]
  BY <1>2, DeploymentFacts
<1> HIDE DEF new
<1>4. /\ worker # Idle /\ worker.pc = "states" /\ up
      /\ UNCHANGED <<resourceVars, names, pending, watch, update, up, generated, events, historyVars,
                     mishaps>>
      /\ Goes("cmupdates", Inst, worker.result) /\ worker'.upd = worker.upd
      /\ OnlyHere /\ objs'[Con] = new
  BY <1>1, ManageEffects DEF PCs
<1>5. queue \subseteq queue'
  BY <1>1, <1>2, RolloutFacts
<1> QED
  BY <1>3, <1>4, <1>5

LEMMA UpdatesEffects ==
  ASSUME TypeOK, CheckForConfigMapUpdates
  PROVE  /\ worker # Idle /\ worker.pc = "cmupdates" /\ up
         /\ UNCHANGED <<resourceVars, names, objs, pods, watch, queue, update, up, generated, events,
                        wanted>>
         /\ pending' = [pending EXCEPT ![Con] = @ \/ update["deployer"] \/ update["console"] \/ update["env"]]
         /\ Read({"deployer", "console", "env"}, "env")
         /\ Goes("actions", Inst, worker.result) /\ worker'.upd = worker.upd
<1>1. /\ worker # Idle /\ worker.pc = "cmupdates" /\ up /\ Read({"deployer", "console", "env"}, "env")
      /\ Goto("actions")
      /\ pending' = [pending EXCEPT ![Con] = @ \/ update["deployer"] \/ update["console"] \/ update["env"]]
      /\ UNCHANGED <<resourceVars, names, objs, pods, watch, queue, update, up, generated, events,
                     wanted>>
  BY Zenon DEF CheckForConfigMapUpdates, At
<1>2. Goes("actions", Inst, worker.result) /\ worker'.upd = worker.upd
  BY <1>1, GotoFacts DEF PCs, Goes, Con
<1> QED
  BY <1>1, <1>2, Zenon

LEMMA ActionsEffects ==
  ASSUME TypeOK, HandleActions
  PROVE  /\ worker # Idle /\ worker.pc = "actions" /\ up
         /\ UNCHANGED <<versioned, status, saved, names, objs, pods, queue, update, up, generated, events,
                        wanted>>
         /\ pending' = [pending EXCEPT ![Con] = pending[Con] \/ update["restart"]]
         /\ Read({"restart"}, "restart")
         /\ Goes("restart", worker'.inst, worker.result)
         /\ Refreshed(spec'[Con])
         /\ \/ /\ update["restart"] /\ Inst.restart
               /\ spec' = [spec EXCEPT ![Con] = [spec[Con] EXCEPT !.restart = FALSE]]
               /\ Notify(Con, "spec", FALSE)
            \/ /\ ~(update["restart"] /\ Inst.restart)
               /\ UNCHANGED <<spec, watch>>
<1>1. up
  BY DEF HandleActions, At
<1> QED
  BY <1>1, ActionsCases DEF Goes, Con

LEMMA RestartEffects ==
  ASSUME TypeOK, HandleRestart
  PROVE  /\ worker # Idle /\ worker.pc = "restart" /\ up
         /\ UNCHANGED <<resourceVars, names, objs, watch, update, up, generated, events, due, owner, mishaps>>
         /\ pending' = [pending EXCEPT ![Con] = pending[Con] /\ RestartDisabled]
         /\ wanted' = IF pending[Con] /\ ~RestartDisabled /\ Served(Con) THEN wanted \ {Con} ELSE wanted
         /\ queue \subseteq queue'
         /\ Goes("save", Inst, worker.result) /\ worker'.upd = worker.upd
<1> DEFINE restarts == pending[Con] /\ ~RestartDisabled
<1>1. /\ worker # Idle /\ worker.pc = "restart" /\ up /\ Goto("save") /\ Rollout(restarts)
      /\ pending' = [pending EXCEPT ![Con] = pending[Con] /\ RestartDisabled]
      /\ wanted' = IF restarts /\ Served(Con) THEN wanted \ {Con} ELSE wanted
      /\ UNCHANGED <<resourceVars, names, objs, watch, update, up, generated, events, due, owner, mishaps>>
  BY DEF HandleRestart, At
<1>2. Goes("save", Inst, worker.result) /\ worker'.upd = worker.upd
  BY <1>1, GotoFacts DEF PCs, Goes, Con
<1>3. restarts \in BOOLEAN /\ Con \in Consoles
  BY <1>1, WorkerFacts
<1>4. queue \subseteq queue'
  <2> HIDE DEF restarts
  <2> QED
    BY <1>1, <1>3, RolloutFacts
<1> QED
  BY <1>1, <1>2, <1>4

LEMMA FailEffects ==
  ASSUME TypeOK, StepFails
  PROVE  /\ worker # Idle /\ up /\ worker.pc \notin {"managers", "save", "status"}
         /\ UNCHANGED <<resourceVars, names, clusterVars, watch, queue, update, up, generated, wanted, owner>>
         /\ Goes("save", Inst, "error") /\ worker'.upd = worker.upd
         /\ due' = due \cup worker.took /\ mishaps' = mishaps \cup {"failed"}
<1>1. /\ worker # Idle /\ up /\ worker.pc \notin {"managers", "save", "status"}
      /\ UNCHANGED <<resourceVars, names, clusterVars, watch, queue, update, up, generated, wanted, owner>>
      /\ worker' = [worker EXCEPT !.pc = "save", !.result = "error"]
      /\ due' = due \cup worker.took /\ mishaps' = mishaps \cup {"failed"}
  BY DEF StepFails, Fail, Note
<1>2. Goes("save", Inst, "error") /\ worker'.upd = worker.upd
  BY <1>1, EndFacts DEF Goes, Con
<1> QED
  BY <1>1, <1>2

LEMMA SaveEffects ==
  ASSUME TypeOK, SaveSpecState
  PROVE  /\ worker # Idle /\ worker.pc = "save" /\ up
         /\ UNCHANGED <<spec, versioned, status, names, clusterVars, watch, queue, update, up, generated,
                        events, historyVars>>
         /\ saved' = [saved EXCEPT ![Con] = Inst]
         /\ mishaps' = mishaps \cup If("normalised", Inst # spec[Con])
         /\ Goes("status", Inst, worker.result)
<1>1. /\ worker # Idle /\ worker.pc = "save" /\ up /\ Goto("status")
      /\ UNCHANGED <<spec, versioned, status, names, clusterVars, watch, queue, update, up, generated,
                     events, historyVars>>
      /\ saved' = [saved EXCEPT ![Con] = Inst]
      /\ mishaps' = mishaps \cup If("normalised", Inst # spec[Con])
  BY DEF SaveSpecState, At, Note
<1>2. Goes("status", Inst, worker.result)
  BY <1>1, GotoFacts DEF PCs, Goes, Con
<1> QED
  BY <1>1, <1>2

LEMMA SetStatusEffects ==
  ASSUME TypeOK, SetStatus \/ SetStatusConflict
  PROVE  /\ worker # Idle /\ worker.pc = "status" /\ up /\ worker' = Idle
         /\ UNCHANGED <<spec, versioned, saved, names, clusterVars, update, up, generated, historyVars>>
         /\ queue' = queue \cup If(Con, worker.result # "done")
         /\ mishaps' \in {mishaps, mishaps \cup {"conflict"}}
         /\ UNCHANGED watch \/ Notify(Con, "status", FALSE)
<1>1. CASE SetStatus
  BY <1>1 DEF SetStatus, At, Finish
<1>2. CASE SetStatusConflict
  BY <1>2 DEF SetStatusConflict, At, Finish, Note, resourceVars
<1> QED
  BY <1>1, <1>2

LEMMA GetEffects ==
  ASSUME NEW c \in there, TypeOK, Get(c)
  PROVE  /\ worker = Idle /\ up /\ c \in queue /\ queue' = queue \ {c}
         /\ UNCHANGED <<resourceVars, names, clusterVars, watch, update, up, generated, events, historyVars,
                        mishaps>>
         /\ worker' # Idle /\ worker'.pc = "version" /\ worker'.con = c /\ worker'.base = spec[c]
         /\ worker'.inst = spec[c] /\ worker'.result = "done" /\ worker'.upd = FALSE /\ worker'.took = {}
<1>1. worker' = [pc |-> "version", con |-> c, base |-> spec[c], inst |-> spec[c], upd |-> FALSE,
                 took |-> {}, result |-> "done"]
  BY DEF Get
<1>2. worker' # Idle
  <2>1. TypeOK'
    BY GetTypes
  <2>2. c \in Consoles /\ spec[c] \in Specs
    BY DEF TypeOK
  <2>3. worker' \in Reconciles
    BY <1>1, <2>2 DEF Reconciles, PCs
  <2> QED
    BY <2>3, ReconcilesFacts
<1> QED
  BY <1>1, <1>2 DEF Get

-----------------------------------------------------------------------------
(* The course of the worker                                                *)

LEMMA CourseStep ==
  ASSUME TypeOK, Course, worker # Idle, up' = TRUE, NEW pc \in PCs, NEW inst, NEW result,
         Goes(pc, inst, result),
         pc \notin Ending => result = "done",
         pc \in Early => inst = worker.base,
         pc \in PreActions =>
            /\ inst.restart = worker.base.restart
            /\ inst.rev = worker.base.rev /\ inst.network = worker.base.network,
         pc = "patch" => worker.base.conn \in {inst.conn, Default} /\ inst.conn # Default,
         pc \in PreActions \ (Early \cup {"patch"}) => worker.base.conn = inst.conn /\ inst.conn # Default
  PROVE  Course'
  BY DEF Course, Goes, Inst

\* A step after the checks that only moves the worker.
LEMMA CourseOn ==
  ASSUME TypeOK, Course, worker # Idle, up' = TRUE, NEW pc \in PCs, Goes(pc, Inst, worker.result),
         pc \notin Early \cup {"patch"}, worker.pc \notin Early \cup {"patch"},
         pc \in PreActions => worker.pc \in PreActions,
         pc \notin Ending => worker.pc \notin Ending
  PROVE  Course'
<1>1. /\ pc \notin Ending => worker.result = "done"
      /\ pc \in PreActions =>
            /\ Inst.restart = worker.base.restart
            /\ Inst.rev = worker.base.rev /\ Inst.network = worker.base.network
            /\ worker.base.conn = Inst.conn /\ Inst.conn # Default
  BY DEF Course
<1> QED
  BY <1>1, CourseStep

LEMMA CourseSame ==
  ASSUME Course, worker' = worker, up' = up, up \/ watch' = watch
  PROVE  Course'
  BY DEF Course, Inst

LEMMA CourseIdle ==
  ASSUME worker' = Idle, up' \/ watch' = <<>>
  PROVE  Course'
  BY DEF Course

\* The predicates either take an event or stop the operator.
LEMMA PredicatesWorker ==
  ASSUME Predicates
  PROVE  /\ up /\ watch # <<>>
         /\ (worker' = worker /\ up' = up) \/ (Down /\ CreateFuncSeen)
  BY DEF Predicates, CreateFuncNew, CreateFuncRefused, CreateFuncSeen, CreateFuncUnread, UpdateFuncIgnored,
     UpdateFunc, Delivered, Take

LEMMA CourseKept == TypeOK /\ Course /\ [Next]_vars => Course'
<1> SUFFICES ASSUME TypeOK, Course, [Next]_vars
             PROVE  Course'
  OBVIOUS
<1>1. CASE Predicates
  <2>1. CASE worker' = worker /\ up' = up
    BY <1>1, <2>1, PredicatesWorker, CourseSame
  <2>2. CASE Down
    BY <2>2, CourseIdle DEF Down
  <2> QED
    BY <1>1, <2>1, <2>2, PredicatesWorker
<1>2. CASE SetVersion
  <2>1. worker # Idle /\ worker.pc = "version" /\ up' = TRUE
        /\ (Goes("checks", Inst, worker.result) \/ Goes("save", worker'.inst, "requeue"))
    BY <1>2, VersionEffects DEF TypeOK
  <2>2. worker.result = "done" /\ Inst = worker.base
    BY <2>1 DEF Course, Ending, Early
  <2> QED
    BY <2>1, <2>2, CourseStep DEF PCs, Ending, Early, PreActions, PreManagers
<1>3. CASE PreReconcileChecks
  <2> DEFINE valid == ValidateSpec(Inst)
             new == CreateCouchdbCredentials(CreateSecretsIfRequired(valid))
  <2>1. /\ worker # Idle /\ worker.pc = "checks" /\ up' = TRUE
        /\ \/ Goes("save", Inst, "error") \/ Goes("patch", new, worker.result)
           \/ Goes("managers", new, worker.result) /\ new = valid
    BY <1>3, ChecksEffects DEF TypeOK
  <2>2. worker.result = "done" /\ Inst = worker.base
    BY <2>1 DEF Course, Ending, Early
  <2>3. /\ new \in Specs /\ new.rev = Inst.rev /\ new.network = Inst.network /\ new.restart = Inst.restart
        /\ valid.conn = Inst.conn /\ new.conn # Default
        /\ (Inst.conn # Default => new.conn = Inst.conn)
    BY <2>1, ChecksFacts
  <2> HIDE DEF new, valid
  <2>4. CASE Goes("save", Inst, "error")
    BY <2>1, <2>2, <2>4, CourseStep DEF PCs, Ending, Early, PreActions, PreManagers
  <2>5. CASE Goes("patch", new, worker.result)
    BY <2>1, <2>2, <2>3, <2>5, CourseStep DEF PCs, Ending, Early, PreActions, PreManagers
  <2>6. CASE Goes("managers", new, worker.result) /\ new = valid
    BY <2>1, <2>2, <2>3, <2>6, CourseStep DEF PCs, Ending, Early, PreActions, PreManagers
  <2> QED
    BY <2>1, <2>4, <2>5, <2>6
<1>4. CASE PatchInstance
  <2>1. worker # Idle /\ up' = TRUE /\ Goes("save", worker'.inst, "requeue")
    BY <1>4, PatchEffects DEF TypeOK
  <2> QED
    BY <2>1, CourseStep DEF PCs, Ending, Early, PreActions, PreManagers
<1>5. CASE ReconcileManagers
  <2>1. worker # Idle /\ worker.pc = "managers" /\ up' = TRUE /\ Goes("env", Inst, worker.result)
    BY <1>5, ManagersEffects DEF TypeOK
  <2> QED
    BY <2>1, CourseOn DEF PCs, Ending, Early, PreActions, PreManagers
<1>6. CASE ReconcileEnvCM
  <2>1. worker # Idle /\ worker.pc = "env" /\ up' = TRUE /\ Goes("configs", Inst, worker.result)
    BY <1>6, EnvEffects DEF TypeOK
  <2> QED
    BY <2>1, CourseOn DEF PCs, Ending, Early, PreActions, PreManagers
<1>7. CASE ReconcileConfigCMs
  <2>1. worker # Idle /\ worker.pc = "configs" /\ up' = TRUE /\ Goes("deployment", Inst, worker.result)
    BY <1>7, ConfigsEffects DEF TypeOK
  <2> QED
    BY <2>1, CourseOn DEF PCs, Ending, Early, PreActions, PreManagers
<1>8. CASE ReconcileDeployment
  <2>1. worker # Idle /\ worker.pc = "deployment" /\ up' = TRUE /\ Goes("access", Inst, worker.result)
    BY <1>8, DeploymentEffects DEF TypeOK
  <2> QED
    BY <2>1, CourseOn DEF PCs, Ending, Early, PreActions, PreManagers
<1>9. CASE ReconcileAccess
  <2>1. worker # Idle /\ worker.pc = "access" /\ up' = TRUE /\ Goes("states", Inst, worker.result)
    BY <1>9, AccessEffects DEF TypeOK
  <2> QED
    BY <2>1, CourseOn DEF PCs, Ending, Early, PreActions, PreManagers
<1>10. CASE CheckStates
  <2>1. worker # Idle /\ worker.pc = "states" /\ up' = TRUE /\ Goes("cmupdates", Inst, worker.result)
    BY <1>10, StatesEffects DEF TypeOK
  <2> QED
    BY <2>1, CourseOn DEF PCs, Ending, Early, PreActions, PreManagers
<1>11. CASE CheckForConfigMapUpdates
  <2>1. worker # Idle /\ worker.pc = "cmupdates" /\ up' = TRUE /\ Goes("actions", Inst, worker.result)
    BY <1>11, UpdatesEffects DEF TypeOK
  <2> QED
    BY <2>1, CourseOn DEF PCs, Ending, Early, PreActions, PreManagers
<1>12. CASE HandleActions
  <2>1. worker # Idle /\ worker.pc = "actions" /\ up' = TRUE /\ Goes("restart", worker'.inst, worker.result)
    BY <1>12, ActionsEffects DEF TypeOK
  <2>2. worker.result = "done"
    BY <2>1 DEF Course, Ending, Early
  <2> QED
    BY <2>1, <2>2, CourseStep DEF PCs, Ending, Early, PreActions, PreManagers
<1>13. CASE HandleRestart
  <2>1. worker # Idle /\ worker.pc = "restart" /\ up' = TRUE /\ Goes("save", Inst, worker.result)
    BY <1>13, RestartEffects DEF TypeOK
  <2> QED
    BY <2>1, CourseOn DEF PCs, Ending, Early, PreActions, PreManagers
<1>14. CASE SaveSpecState
  <2>1. worker # Idle /\ worker.pc = "save" /\ up' = TRUE /\ Goes("status", Inst, worker.result)
    BY <1>14, SaveEffects DEF TypeOK
  <2> QED
    BY <2>1, CourseOn DEF PCs, Ending, Early, PreActions, PreManagers
<1>15. CASE StepFails
  <2>1. worker # Idle /\ up' = TRUE /\ Goes("save", Inst, "error")
    BY <1>15, FailEffects DEF TypeOK
  <2> QED
    BY <2>1, CourseStep DEF PCs, Ending, Early, PreActions, PreManagers
<1>16. CASE SetStatus \/ SetStatusConflict
  <2>1. worker' = Idle /\ up' = TRUE
    BY <1>16, SetStatusEffects DEF TypeOK
  <2> QED
    BY <2>1, CourseIdle
<1>17. CASE DeploymentPanic \/ Crash
  BY <1>17, CourseIdle DEF DeploymentPanic, Crash, Down
<1>18. ASSUME NEW upgrade \in BOOLEAN, OperatorStart(upgrade)
       PROVE  Course'
  <2>1. worker' = Idle /\ up' = TRUE
    BY <1>18 DEF OperatorStart, Course
  <2> QED
    BY <2>1, CourseIdle
<1>19. ASSUME NEW c \in there, Get(c)
       PROVE  Course'
  <2>1. /\ up /\ up' = up
        /\ worker'.pc = "version" /\ worker'.base = worker'.inst /\ worker'.result = "done"
    BY <1>19, GetEffects
  <2> QED
    BY <2>1 DEF Course, Inst, Ending, Early, PreActions
<1>20. ASSUME NEW c \in there, PodsStart(c) \/ PodsRun(c) \/ PodsFail(c)
       PROVE  Course'
  BY <1>20, CourseSame DEF PodsStart, PodsRun, PodsFail, PodsChange
<1>21. ASSUME NEW c \in there, NEW new \in Edits(spec[c]), NEW zone \in {FALSE, new.restart},
              Edit(c, new, zone)
       PROVE  Course'
  <2>1. worker' = worker /\ up' = up /\ (up \/ watch' = watch)
    BY <1>21 DEF Edit
  <2> QED
    BY <2>1, CourseSame
<1>22. CASE UNCHANGED vars
  BY <1>22, CourseSame DEF vars
<1> QED
  BY <1>1, <1>2, <1>3, <1>4, <1>5, <1>6, <1>7, <1>8, <1>9, <1>10, <1>11, <1>12, <1>13, <1>14, <1>15, <1>16,
     <1>17, <1>18, <1>19, <1>20, <1>21, <1>22 DEF Next, Reconcile

-----------------------------------------------------------------------------
(* Mishaps are not forgotten, names stay                                   *)

LEMMA MishapsKept == TypeOK /\ [Next]_vars => mishaps \subseteq mishaps'
<1> SUFFICES ASSUME TypeOK, [Next]_vars
             PROVE  mishaps \subseteq mishaps'
  OBVIOUS
<1>1. CASE Predicates
  BY <1>1, Zenon DEF Predicates, CreateFuncNew, CreateFuncRefused, CreateFuncSeen, CreateFuncUnread,
     UpdateFuncIgnored, UpdateFunc, Note
<1>2. CASE SetVersion \/ PatchInstance \/ ReconcileEnvCM \/ ReconcileConfigCMs \/ ReconcileDeployment
           \/ ReconcileAccess \/ CheckStates
  BY <1>2, Zenon DEF SetVersion, PatchInstance, ReconcileEnvCM, ReconcileConfigCMs, ReconcileDeployment,
     ReconcileAccess, CheckStates, Manage
<1>3. CASE PreReconcileChecks
  BY <1>3, Zenon DEF PreReconcileChecks, Fail, Note
<1>4. CASE ReconcileManagers \/ CheckForConfigMapUpdates \/ HandleActions
  BY <1>4, Zenon DEF ReconcileManagers, CheckForConfigMapUpdates, HandleActions, Read, Note
<1>5. CASE DeploymentPanic \/ HandleRestart \/ SaveSpecState \/ SetStatus
  BY <1>5, Zenon DEF DeploymentPanic, HandleRestart, SaveSpecState, SetStatus, Note
<1>6. CASE StepFails \/ SetStatusConflict \/ Crash
  BY <1>6, Zenon DEF StepFails, SetStatusConflict, Crash, Fail, Note
<1>7. ASSUME NEW upgrade \in BOOLEAN, OperatorStart(upgrade)
      PROVE  mishaps \subseteq mishaps'
  BY <1>7, Zenon DEF OperatorStart
<1>8. ASSUME NEW c \in there, Get(c) \/ PodsStart(c) \/ PodsRun(c) \/ PodsFail(c)
      PROVE  mishaps \subseteq mishaps'
  BY <1>8, Zenon DEF Get, PodsStart, PodsRun, PodsFail
<1>9. ASSUME NEW c \in there, NEW new \in Edits(spec[c]), NEW zone \in {FALSE, new.restart},
             Edit(c, new, zone)
      PROVE  mishaps \subseteq mishaps'
  BY <1>9, Zenon DEF Edit, Note
<1>10. CASE UNCHANGED vars
  BY <1>10, Zenon DEF vars
<1> QED
  BY <1>1, <1>2, <1>3, <1>4, <1>5, <1>6, <1>7, <1>8, <1>9, <1>10, Zenon DEF Next, Reconcile

LEMMA NamesKept == [Next]_vars => there' = there /\ taken' = taken
<1> SUFFICES ASSUME [Next]_vars
             PROVE  UNCHANGED names
  BY DEF names
<1>1. CASE Predicates
  BY <1>1, Zenon DEF Predicates, CreateFuncNew, CreateFuncRefused, CreateFuncSeen, CreateFuncUnread,
     UpdateFuncIgnored, UpdateFunc
<1>2. CASE SetVersion \/ PatchInstance \/ ReconcileEnvCM \/ ReconcileConfigCMs \/ ReconcileDeployment
           \/ ReconcileAccess \/ CheckStates
  BY <1>2, Zenon DEF SetVersion, PatchInstance, ReconcileEnvCM, ReconcileConfigCMs, ReconcileDeployment,
     ReconcileAccess, CheckStates, Manage
<1>3. CASE PreReconcileChecks \/ ReconcileManagers \/ CheckForConfigMapUpdates \/ HandleActions
  BY <1>3, Zenon DEF PreReconcileChecks, ReconcileManagers, CheckForConfigMapUpdates, HandleActions
<1>4. CASE DeploymentPanic \/ HandleRestart \/ SaveSpecState \/ SetStatus
  BY <1>4, Zenon DEF DeploymentPanic, HandleRestart, SaveSpecState, SetStatus
<1>5. CASE StepFails \/ SetStatusConflict \/ Crash
  BY <1>5, Zenon DEF StepFails, SetStatusConflict, Crash
<1>6. ASSUME NEW upgrade \in BOOLEAN, OperatorStart(upgrade)
      PROVE  UNCHANGED names
  BY <1>6, Zenon DEF OperatorStart
<1>7. ASSUME NEW c \in there, Get(c) \/ PodsStart(c) \/ PodsRun(c) \/ PodsFail(c)
      PROVE  UNCHANGED names
  BY <1>7, Zenon DEF Get, PodsStart, PodsRun, PodsFail, PodsChange
<1>8. ASSUME NEW c \in there, NEW new \in Edits(spec[c]), NEW zone \in {FALSE, new.restart},
             Edit(c, new, zone)
      PROVE  UNCHANGED names
  BY <1>8, Zenon DEF Edit
<1>9. CASE UNCHANGED vars
  BY <1>9, Zenon DEF vars
<1> QED
  BY <1>1, <1>2, <1>3, <1>4, <1>5, <1>6, <1>7, <1>8, <1>9, Zenon DEF Next, Reconcile

-----------------------------------------------------------------------------
(* Connection strings                                                      *)

\* Nothing that DatabaseOf(c) tells of changes, but for a worker that goes on.
SameConnections(c) ==
    /\ objs'[c].env = objs[c].env /\ objs'[c].db = objs[c].db /\ objs'[c].dep = objs[c].dep
    /\ spec'[c].conn = spec[c].conn
    /\ worker' # Idle /\ worker'.con = c =>
          /\ worker # Idle /\ worker.con = c /\ worker'.base = worker.base
          /\ worker'.pc \in Early \cup {"patch"} => worker.pc \in Early \cup {"patch"}
          /\ worker'.pc \notin Ending => worker.pc \notin Ending

\* A step of the worker that moves no connection string.
LEMMA SameStep ==
  ASSUME TypeOK, worker # Idle, NEW pc, NEW inst, NEW result, Goes(pc, inst, result),
         (OnlyHere /\ SameContents) \/ UNCHANGED objs, UNCHANGED spec,
         pc \in Early \cup {"patch"} => worker.pc \in Early \cup {"patch"},
         pc \notin Ending => worker.pc \notin Ending
  PROVE  \A c \in Consoles : SameConnections(c)
<1>1. SameContents
  BY DEF SameContents
<1>2. \A c \in Consoles : objs'[c].env = objs[c].env /\ objs'[c].db = objs[c].db /\ objs'[c].dep = objs[c].dep
  BY <1>1, ContentsFacts DEF SameContents
<1> QED
  BY <1>2 DEF SameConnections, Goes

LEMMA SameWorker ==
  ASSUME UNCHANGED <<spec, objs>>, worker' = worker \/ worker' = Idle
  PROVE  \A c \in Consoles : SameConnections(c)
  BY DEF SameConnections

\* The steps that move none.
Plain ==
    \/ Predicates \/ SetVersion \/ PreReconcileChecks \/ ReconcileManagers \/ ReconcileConfigCMs
    \/ ReconcileAccess \/ CheckForConfigMapUpdates \/ HandleActions \/ HandleRestart
    \/ SaveSpecState \/ SetStatus \/ SetStatusConflict \/ StepFails \/ DeploymentPanic \/ Crash
    \/ (\E upgrade \in BOOLEAN : OperatorStart(upgrade))
    \/ (\E c \in there : PodsStart(c) \/ PodsRun(c) \/ PodsFail(c))
    \/ UNCHANGED vars

LEMMA PlainSteps == TypeOK /\ Plain => \A c \in Consoles : SameConnections(c)
<1> SUFFICES ASSUME TypeOK, Plain
             PROVE  \A c \in Consoles : SameConnections(c)
  OBVIOUS
<1>1. CASE Predicates
  <2>1. UNCHANGED <<spec, objs>>
    BY <1>1 DEF Predicates, CreateFuncNew, CreateFuncRefused, CreateFuncSeen, CreateFuncUnread,
       UpdateFuncIgnored, UpdateFunc, resourceVars, clusterVars
  <2>2. worker' = worker \/ worker' = Idle
    BY <1>1, PredicatesWorker DEF Down
  <2> QED
    BY <2>1, <2>2, SameWorker
<1>2. CASE SetVersion
  <2>1. worker # Idle /\ worker.pc = "version" /\ UNCHANGED <<objs, spec>>
        /\ (Goes("checks", Inst, worker.result) \/ Goes("save", worker'.inst, "requeue"))
    BY <1>2, VersionEffects DEF clusterVars
  <2> QED
    BY <2>1, SameStep DEF Early, Ending
<1>3. CASE PreReconcileChecks
  <2> DEFINE valid == ValidateSpec(Inst)
             new == CreateCouchdbCredentials(CreateSecretsIfRequired(valid))
  <2>1. /\ worker # Idle /\ worker.pc = "checks" /\ OnlyHere /\ SameContents /\ UNCHANGED spec
        /\ \/ Goes("save", Inst, "error") \/ Goes("patch", new, worker.result)
           \/ Goes("managers", new, worker.result)
    BY <1>3, ChecksEffects DEF resourceVars
  <2> HIDE DEF new, valid
  <2> QED
    BY <2>1, SameStep DEF Early, Ending
<1>4. CASE ReconcileManagers
  <2>1. /\ worker # Idle /\ worker.pc = "managers" /\ OnlyHere /\ SameContents /\ UNCHANGED spec
        /\ Goes("env", Inst, worker.result)
    BY <1>4, ManagersEffects DEF resourceVars
  <2> QED
    BY <2>1, SameStep DEF Early, Ending
<1>5. CASE ReconcileConfigCMs
  <2>1. /\ worker # Idle /\ worker.pc = "configs" /\ UNCHANGED spec /\ Goes("deployment", Inst, worker.result)
        /\ OnlyHere /\ objs'[Con].env = objs[Con].env /\ objs'[Con].db = objs[Con].db
        /\ objs'[Con].dep = objs[Con].dep
    BY <1>5, ConfigsEffects DEF resourceVars
  <2> QED
    BY <2>1 DEF SameConnections, OnlyHere, Goes, Early, Ending
<1>6. CASE ReconcileAccess
  <2>1. /\ worker # Idle /\ worker.pc = "access" /\ OnlyHere /\ SameContents /\ UNCHANGED spec
        /\ Goes("states", Inst, worker.result)
    BY <1>6, AccessEffects DEF resourceVars
  <2> QED
    BY <2>1, SameStep DEF Early, Ending
<1>7. CASE CheckForConfigMapUpdates
  <2>1. /\ worker # Idle /\ worker.pc = "cmupdates" /\ UNCHANGED <<objs, spec>>
        /\ Goes("actions", Inst, worker.result)
    BY <1>7, UpdatesEffects DEF resourceVars
  <2> QED
    BY <2>1, SameStep DEF Early, Ending
<1>8. CASE HandleActions
  <2>1. /\ worker # Idle /\ worker.pc = "actions" /\ UNCHANGED objs /\ Goes("restart", worker'.inst, worker.result)
        /\ \/ spec' = [spec EXCEPT ![Con] = [spec[Con] EXCEPT !.restart = FALSE]]
           \/ UNCHANGED spec
    BY <1>8, ActionsEffects
  <2>2. \A c \in Consoles : spec'[c].conn = spec[c].conn
    <3>1. Con \in Consoles /\ spec[Con] \in Specs
      BY <2>1, WorkerFacts
    <3>2. [spec[Con] EXCEPT !.restart = FALSE].conn = spec[Con].conn
      BY <3>1, Taken
    <3> QED
      BY <2>1, <3>1, <3>2 DEF TypeOK
  <2> QED
    BY <2>1, <2>2 DEF SameConnections, Goes, Early, Ending
<1>9. CASE HandleRestart
  <2>1. /\ worker # Idle /\ worker.pc = "restart" /\ UNCHANGED <<objs, spec>>
        /\ Goes("save", Inst, worker.result)
    BY <1>9, RestartEffects DEF resourceVars
  <2> QED
    BY <2>1, SameStep DEF Early, Ending
<1>10. CASE SaveSpecState
  <2>1. /\ worker # Idle /\ worker.pc = "save" /\ UNCHANGED <<objs, spec>>
        /\ Goes("status", Inst, worker.result)
    BY <1>10, SaveEffects DEF clusterVars
  <2> QED
    BY <2>1, SameStep DEF Early, Ending
<1>11. CASE SetStatus \/ SetStatusConflict
  BY <1>11, SetStatusEffects, SameWorker DEF clusterVars
<1>12. CASE StepFails
  <2>1. /\ worker # Idle /\ UNCHANGED <<objs, spec>> /\ Goes("save", Inst, "error")
    BY <1>12, FailEffects DEF resourceVars, clusterVars
  <2> QED
    BY <2>1, SameStep DEF Early, Ending
<1>13. CASE DeploymentPanic \/ Crash
  BY <1>13, SameWorker DEF DeploymentPanic, Crash, Down, resourceVars, clusterVars
<1>14. ASSUME NEW upgrade \in BOOLEAN, OperatorStart(upgrade)
       PROVE  \A c \in Consoles : SameConnections(c)
  BY <1>14, SameWorker DEF OperatorStart, clusterVars
<1>15. ASSUME NEW c \in there, PodsStart(c) \/ PodsRun(c) \/ PodsFail(c)
       PROVE  \A d \in Consoles : SameConnections(d)
  BY <1>15, SameWorker DEF PodsStart, PodsRun, PodsFail, PodsChange, resourceVars
<1>16. CASE UNCHANGED vars
  BY <1>16, SameWorker DEF vars, resourceVars, clusterVars
<1> QED
  BY <1>1, <1>2, <1>3, <1>4, <1>5, <1>6, <1>7, <1>8, <1>9, <1>10, <1>11, <1>12, <1>13, <1>14, <1>15, <1>16
  DEF Plain

\* PatchInstance gives a console without credentials its first ones.
LEMMA PatchConnections ==
  ASSUME TypeOK, PatchInstance
  PROVE  /\ worker # Idle /\ worker.pc = "patch" /\ Con \in Consoles /\ UNCHANGED objs
         /\ Goes("save", worker'.inst, "requeue")
         /\ \A c \in Consoles : c # Con => spec'[c] = spec[c]
         /\ \/ spec'[Con].conn = spec[Con].conn
            \/ Inst.conn # worker.base.conn /\ spec'[Con].conn = Inst.conn
<1>1. /\ worker # Idle /\ worker.pc = "patch" /\ UNCHANGED objs /\ Goes("save", worker'.inst, "requeue")
      /\ \/ spec' = [spec EXCEPT ![Con] = Merged]
         \/ UNCHANGED spec
  BY PatchEffects DEF clusterVars
<1>2. Con \in Consoles
  BY <1>1, WorkerFacts
<1>3. Merged.conn = IF Inst.conn # worker.base.conn THEN Inst.conn ELSE spec[Con].conn
  BY <1>1, MergedFacts
<1> QED
  BY <1>1, <1>2, <1>3 DEF TypeOK

\* What a step that is not plain is.
LEMMA NextCases ==
  ASSUME [Next]_vars
  PROVE  \/ Plain \/ PatchInstance \/ ReconcileEnvCM \/ ReconcileDeployment \/ CheckStates
         \/ \E c \in there : Get(c)
         \/ \E c \in there : \E new \in Edits(spec[c]) : \E zone \in {FALSE, new.restart} : Edit(c, new, zone)
  BY DEF Next, Reconcile, Plain

LEMMA DatabaseSame ==
  ASSUME NEW c \in Consoles, SameConnections(c), DatabaseOf(c)
  PROVE  DatabaseOf(c)'
  BY DEF SameConnections, DatabaseOf, Agree, On, Con

\* What is written is what the worker's spec had at first.
LEMMA DatabaseWritten ==
  ASSUME TypeOK, Course, worker # Idle, NEW c \in Consoles, c = Con,
         worker.pc \in {"env", "deployment", "states"}, DatabaseOf(c),
         UNCHANGED spec, NEW pc, NEW inst, NEW result, Goes(pc, inst, result), pc \notin Early \cup {"patch"},
         objs'[c] \in Objects,
         objs'[c].env \in {objs[c].env, Inst.conn},
         objs'[c].db = objs[c].db \/ (Inst.conn >= 0 /\ objs[c].db = Default /\ objs'[c].db = Inst.conn),
         objs'[c].env = objs[c].env \/ objs'[c].db = objs[c].db
  PROVE  DatabaseOf(c)'
<1> DEFINE base == worker.base.conn
<1>1. base = Inst.conn /\ base # 0 /\ base \in Int /\ base >= -1
  <2>1. worker.base.conn = Inst.conn /\ Inst.conn # Default
    BY DEF Course, Early, PreActions, PreManagers
  <2> QED
    BY <2>1, WorkerFacts, SpecsFacts DEF Default
<1>2. /\ objs[c].env \in Int /\ objs[c].db \in Nat /\ objs'[c].env \in Int /\ objs'[c].db \in Nat
      /\ spec[c].conn \in Int
  BY WorkerFacts, ObjectsFacts, SpecsFacts
<1>3. /\ objs[c].env > 0 => Agree(c, objs[c].env)
      /\ spec[c].conn >= 0 => Agree(c, spec[c].conn)
      /\ base > 0 => Agree(c, base) /\ spec[c].conn \in {base, -1}
  BY DEF DatabaseOf, On, Remote
<1>4. /\ objs'[c].env > 0 => objs'[c].env = objs[c].env \/ objs'[c].env = base
      /\ objs'[c].db > 0 => objs'[c].db = objs[c].db \/ objs'[c].db = base
      /\ (base > 0 \/ (objs'[c].db = objs[c].db /\ (objs'[c].env > 0 => objs'[c].env = objs[c].env)))
  BY <1>1, <1>2 DEF Default
<1>5. CASE base > 0
  <2>1. /\ objs[c].env > 0 => objs[c].env = base
        /\ objs[c].db > 0 => objs[c].db = base
    BY <1>3, <1>5 DEF Agree
  <2>2. /\ objs'[c].env > 0 => objs'[c].env = base
        /\ objs'[c].db > 0 => objs'[c].db = base
    BY <1>4, <2>1
  <2>3. spec[c].conn >= 0 => spec[c].conn = base
    BY <1>3, <1>5
  <2>4. \A x \in {objs'[c].env, objs'[c].db} : x > 0 => base = x
    BY <2>2
  <2>5. worker'.pc \notin Early \cup {"patch"} /\ worker'.base.conn = base /\ worker'.con = c
    BY DEF Goes, Con
  <2> HIDE DEF base
  <2> QED
    BY <1>2, <1>3, <1>5, <2>2, <2>3, <2>4, <2>5 DEF DatabaseOf, Agree, On, Con, Remote
<1>6. CASE ~(base > 0)
  <2>1. objs'[c].db = objs[c].db /\ (objs'[c].env > 0 => objs'[c].env = objs[c].env)
    BY <1>4, <1>6
  <2>2. worker'.pc \notin Early \cup {"patch"} /\ worker'.base.conn = base /\ worker'.con = c
    BY DEF Goes, Con
  <2>3. \A x : (\A y \in {objs[c].env, objs[c].db} : y > 0 => x = y) =>
               (\A y \in {objs'[c].env, objs'[c].db} : y > 0 => x = y)
    BY <2>1
  <2> HIDE DEF base
  <2> QED
    BY <1>2, <1>3, <1>6, <2>1, <2>2, <2>3 DEF DatabaseOf, Agree, On, Con
<1> QED
  BY <1>5, <1>6

LEMMA DatabaseKept == TypeOK /\ Course /\ DatabaseInv /\ [Next]_vars => DatabaseInv'
<1> SUFFICES ASSUME TypeOK, Course, DatabaseInv, [Next]_vars
             PROVE  DatabaseInv'
  OBVIOUS
<1>1. mishaps \subseteq mishaps'
  BY MishapsKept
<1>2. CASE "reset" \in mishaps
  BY <1>1, <1>2 DEF DatabaseInv
<1> SUFFICES ASSUME \A c \in Consoles : DatabaseOf(c)
             PROVE  "reset" \in mishaps' \/ \A c \in Consoles : DatabaseOf(c)'
  BY <1>2 DEF DatabaseInv
<1>3. CASE Plain
  BY <1>3, PlainSteps, DatabaseSame
<1>4. TypeOK'
  BY NextTypes
<1>5. CASE PatchInstance
  <2>1. /\ worker # Idle /\ worker.pc = "patch" /\ Con \in Consoles /\ UNCHANGED objs
        /\ Goes("save", worker'.inst, "requeue")
        /\ \A c \in Consoles : c # Con => spec'[c] = spec[c]
        /\ \/ spec'[Con].conn = spec[Con].conn
           \/ Inst.conn # worker.base.conn /\ spec'[Con].conn = Inst.conn
    BY <1>5, PatchConnections
  <2>2. \A c \in Consoles : spec'[c].conn = spec[c].conn => SameConnections(c)
    BY <2>1 DEF SameConnections, Goes, Early, Ending
  <2>3. CASE Inst.conn # worker.base.conn /\ spec'[Con].conn = Inst.conn
    <3>1. worker.base.conn = Default
      BY <2>1, <2>3 DEF Course
    <3>2. Agree(Con, Default)
      BY <2>1, <3>1 DEF DatabaseOf, On
    <3>3. \A x \in {objs[Con].env, objs[Con].db} : x \in Int /\ ~(x > 0)
      <4>1. \A x \in {objs[Con].env, objs[Con].db} : x \in Int
        BY <2>1, WorkerFacts, ObjectsFacts
      <4> QED
        BY <3>2, <4>1 DEF Agree, Default
    <3>4. /\ worker' # Idle /\ worker'.con = Con /\ worker'.pc = "save" /\ worker'.base.conn = Default
      BY <2>1, <3>1 DEF Goes, Con
    <3>5. ASSUME NEW c \in Consoles, c = Con
          PROVE  DatabaseOf(c)'
      BY <2>1, <3>3, <3>4, <3>5 DEF DatabaseOf, Agree, On, Con, Early, Default
    <3>6. ASSUME NEW c \in Consoles, c # Con
          PROVE  DatabaseOf(c)'
      BY <2>1, <2>2, <3>6, DatabaseSame
    <3> QED
      BY <2>1, <3>5, <3>6
  <2> QED
    BY <2>1, <2>2, <2>3, DatabaseSame
<1>6. CASE ReconcileEnvCM
  <2>1. /\ worker # Idle /\ worker.pc = "env" /\ UNCHANGED spec /\ Goes("configs", Inst, worker.result)
        /\ OnlyHere /\ objs'[Con].env \in {objs[Con].env, Inst.conn} /\ objs'[Con].db = objs[Con].db
    BY <1>6, EnvEffects DEF resourceVars
  <2>2. Con \in Consoles /\ objs'[Con] \in Objects
    BY <1>4, <2>1, WorkerFacts DEF TypeOK
  <2>3. ASSUME NEW c \in Consoles, c = Con
        PROVE  DatabaseOf(c)'
    BY <2>1, <2>2, <2>3, DatabaseWritten DEF Early
  <2>4. ASSUME NEW c \in Consoles, c # Con
        PROVE  DatabaseOf(c)'
    <3>1. SameConnections(c)
      BY <2>1, <2>4 DEF SameConnections, OnlyHere, Goes, Con
    <3> QED
      BY <3>1, DatabaseSame
  <2> QED
    BY <2>3, <2>4
<1>7. CASE ReconcileDeployment \/ CheckStates
  <2>1. PICK pc \in {"access", "cmupdates"} :
        /\ worker # Idle /\ worker.pc \in {"deployment", "states"} /\ UNCHANGED spec
        /\ Goes(pc, Inst, worker.result)
        /\ OnlyHere /\ objs'[Con].env = objs[Con].env
        /\ objs'[Con].db = objs[Con].db \/ (Inst.conn >= 0 /\ objs[Con].db = Default /\ objs'[Con].db = Inst.conn)
    BY <1>7, DeploymentEffects, StatesEffects DEF resourceVars
  <2>2. Con \in Consoles /\ objs'[Con] \in Objects
    BY <1>4, <2>1, WorkerFacts DEF TypeOK
  <2>3. ASSUME NEW c \in Consoles, c = Con
        PROVE  DatabaseOf(c)'
    BY <2>1, <2>2, <2>3, DatabaseWritten DEF Early
  <2>4. ASSUME NEW c \in Consoles, c # Con
        PROVE  DatabaseOf(c)'
    <3>1. SameConnections(c)
      BY <2>1, <2>4 DEF SameConnections, OnlyHere, Goes, Con
    <3> QED
      BY <3>1, DatabaseSame
  <2> QED
    BY <2>3, <2>4
<1>8. ASSUME NEW c \in there, Get(c)
      PROVE  \A d \in Consoles : DatabaseOf(d)'
  <2>1. /\ UNCHANGED <<objs, spec>> /\ worker' # Idle /\ worker'.con = c /\ worker'.base = spec[c]
    BY <1>8, GetEffects DEF resourceVars, clusterVars
  <2>2. c \in Consoles /\ spec[c].conn \in Int
    BY SpecsFacts DEF TypeOK
  <2>3. DatabaseOf(c)'
    BY <2>1, <2>2 DEF DatabaseOf, Agree, On, Con, Default
  <2>4. ASSUME NEW d \in Consoles, d # c
        PROVE  DatabaseOf(d)'
    BY <2>1, <2>4 DEF DatabaseOf, Agree, On, Con
  <2> QED
    BY <2>3, <2>4
<1>9. ASSUME NEW c \in there, NEW new \in Edits(spec[c]), NEW zone \in {FALSE, new.restart},
             Edit(c, new, zone)
      PROVE  "reset" \in mishaps' \/ \A d \in Consoles : DatabaseOf(d)'
  <2>1. c \in Consoles /\ spec[c] \in Specs
    BY DEF TypeOK
  <2>2. new.conn \in {spec[c].conn, Default, Remote}
    BY <2>1, EditsFacts
  <2>3. UNCHANGED <<objs, worker>> /\ spec' = [spec EXCEPT ![c] = new]
    BY <1>9 DEF Edit, clusterVars
  <2>4. new.conn = Default /\ spec[c].conn # Default => "reset" \in mishaps'
    BY <1>9, IfFacts DEF Edit, Note
  <2>5. ASSUME NEW d \in Consoles, new.conn # Default \/ spec[c].conn = Default
        PROVE  DatabaseOf(d)'
    <3>1. CASE spec'[d].conn = spec[d].conn
      <4>1. SameConnections(d)
        BY <2>3, <3>1 DEF SameConnections
      <4> QED
        BY <4>1, DatabaseSame
    <3>2. CASE spec'[d].conn # spec[d].conn
      <4>1. d = c /\ spec'[d].conn = Remote
        BY <2>1, <2>2, <2>3, <2>5, <3>2 DEF TypeOK
      <4> QED
        BY <2>3, <4>1 DEF DatabaseOf, Agree, On, Con, Remote
    <3> QED
      BY <3>1, <3>2
  <2> QED
    BY <2>4, <2>5
<1> QED
  BY <1>3, <1>5, <1>6, <1>7, <1>8, <1>9, NextCases

-----------------------------------------------------------------------------
(* The invariants at first                                                 *)

LEMMA InitCourse == Init => Course
<1> SUFFICES ASSUME Init
             PROVE  Course
  OBVIOUS
<1>1. PICK s \in Starts, edited \in SUBSET Consoles : InitialState(s, edited)
  BY InitFacts
<1> QED
  BY <1>1 DEF InitialState, Course

LEMMA InitDatabase == Init => DatabaseInv
<1> SUFFICES ASSUME Init, NEW c \in Consoles
             PROVE  DatabaseOf(c)
  BY DEF DatabaseInv
<1>1. PICK s \in Starts, edited \in SUBSET Consoles : InitialState(s, edited)
  BY InitFacts
<1>2. worker = Idle /\ objs[c] = IF saved[c] # NoSpec THEN Deployment(saved[c]) ELSE NoObjects
  BY <1>1 DEF InitialState
<1>3. CASE saved[c] = NoSpec
  <2>1. objs[c].env = -2 /\ objs[c].db = 0
    BY <1>2, <1>3, NoObjectsTyped DEF Absent, Default
  <2> QED
    BY <1>2, <2>1 DEF DatabaseOf, Agree, On
<1>4. CASE saved[c] # NoSpec
  <2>1. saved[c] \in Specs /\ c \in there /\ spec[c].conn \in {saved[c].conn, Remote}
    BY <1>1, <1>4 DEF InitialState, StartOK
  <2>2. /\ objs[c].env = saved[c].conn
        /\ objs[c].db = IF saved[c].conn >= 0 THEN saved[c].conn ELSE Default
    BY <1>2, <1>4, <2>1, DeploymentTyped
  <2>3. saved[c].conn \in Int
    BY <2>1, SpecsFacts
  <2> QED
    BY <1>2, <2>1, <2>2, <2>3 DEF DatabaseOf, Agree, On, Default, Remote
<1> QED
  BY <1>3, <1>4

-----------------------------------------------------------------------------
(* Whose flags they are                                                    *)

LEMMA OwnerSame == OwnerInv /\ owner' = owner /\ update' = update => OwnerInv'
  BY Zenon DEF OwnerInv

LEMMA OwnerNobody == owner' = Nobody /\ update' = NoUpdate => OwnerInv'
<1> SUFFICES ASSUME owner' = Nobody, update' = NoUpdate
             PROVE  OwnerInv'
  OBVIOUS
<1>1. owner' = [con |-> {}, read |-> {}]
  BY DEF Nobody
<1> QED
  BY <1>1, NoUpdateTyped DEF OwnerInv

LEMMA OwnerTaken ==
  ASSUME TypeOK, watch # <<>>, there' = there,
         NEW flags \in SUBSET Flags, NEW enqueue \in BOOLEAN, Take(flags, enqueue)
  PROVE  OwnerInv'
<1>1. /\ \A f \in Flags : update'[f] <=> f \in flags
      /\ owner' = [con |-> If(Next1.con, flags # {}), read |-> {}]
  BY TakeFacts
<1>2. Next1.con \in Consoles
  BY WatchFacts, EventFacts, TypeParts
<1>3. If(Next1.con, flags # {}) = IF flags # {} THEN {Next1.con} ELSE {}
  BY DEF If
<1>4. owner' \in [con : SUBSET Consoles, read : SUBSET Flags]
  BY <1>1, <1>2, <1>3
<1>5. owner'.con = IF flags # {} THEN {Next1.con} ELSE {}
  BY <1>1, <1>3
<1>6. owner'.con # {} => \E c \in Consoles : owner'.con = {c}
  BY <1>2, <1>5
<1>7. owner'.con = {} => \A f \in Flags : ~update'[f]
  BY <1>1, <1>5
<1> QED
  BY <1>4, <1>6, <1>7 DEF OwnerInv

LEMMA OwnerRead ==
  ASSUME TypeOK, worker # Idle, OwnerInv, NEW f \in SUBSET Flags, NEW need \in Flags, Read(f, need),
         update' = update
  PROVE  OwnerInv' /\ owner'.con = owner.con /\ owner.read \subseteq owner'.read
<1>1. owner' = [owner EXCEPT !.read = @ \cup {g \in f \ {"spec"} : update[g]}]
  BY ReadFacts
<1>2. owner \in [con : SUBSET Consoles, read : SUBSET Flags]
  BY DEF OwnerInv
<1> DEFINE more == {g \in f \ {"spec"} : update[g]}
<1>3. more \subseteq Flags
  OBVIOUS
<1> HIDE DEF more
<1>4. owner' = [owner EXCEPT !.read = @ \cup more]
  BY <1>1 DEF more
<1>5. /\ owner' \in [con : SUBSET Consoles, read : SUBSET Flags]
      /\ owner'.con = owner.con /\ owner.read \subseteq owner'.read
  BY <1>2, <1>3, <1>4
<1> QED
  BY <1>5 DEF OwnerInv

\* What an action does to the flags.
FlagsSame == owner' = owner /\ update' = update

LEMMA FlagsSameSteps ==
  TypeOK /\ (\/ SetVersion \/ PreReconcileChecks \/ PatchInstance \/ ReconcileEnvCM \/ ReconcileConfigCMs
             \/ ReconcileDeployment \/ ReconcileAccess \/ CheckStates \/ HandleRestart
             \/ SaveSpecState \/ SetStatus \/ SetStatusConflict \/ StepFails
             \/ (\E upgrade \in BOOLEAN : OperatorStart(upgrade))
             \/ (\E c \in there : Get(c) \/ PodsStart(c) \/ PodsRun(c) \/ PodsFail(c))
             \/ (\E c \in there : \E new \in Edits(spec[c]) : \E zone \in {FALSE, new.restart} : Edit(c, new, zone))
             \/ UNCHANGED vars)
      => FlagsSame
<1> SUFFICES ASSUME \/ SetVersion \/ PreReconcileChecks \/ PatchInstance \/ ReconcileEnvCM \/ ReconcileConfigCMs
                    \/ ReconcileDeployment \/ ReconcileAccess \/ CheckStates \/ HandleRestart
                    \/ SaveSpecState \/ SetStatus \/ SetStatusConflict \/ StepFails
                    \/ (\E upgrade \in BOOLEAN : OperatorStart(upgrade))
                    \/ (\E c \in there : Get(c) \/ PodsStart(c) \/ PodsRun(c) \/ PodsFail(c))
                    \/ (\E c \in there : \E new \in Edits(spec[c]) : \E zone \in {FALSE, new.restart} :
                           Edit(c, new, zone))
                    \/ UNCHANGED vars
             PROVE  FlagsSame
  OBVIOUS
<1>1. CASE SetVersion \/ PreReconcileChecks \/ PatchInstance \/ ReconcileEnvCM \/ ReconcileConfigCMs
           \/ ReconcileDeployment \/ ReconcileAccess \/ CheckStates
  BY <1>1 DEF FlagsSame, SetVersion, PreReconcileChecks, PatchInstance, ReconcileEnvCM, ReconcileConfigCMs,
     ReconcileDeployment, ReconcileAccess, CheckStates, Manage, historyVars
<1>2. CASE HandleRestart \/ SaveSpecState \/ SetStatus \/ SetStatusConflict \/ StepFails
  BY <1>2 DEF FlagsSame, HandleRestart, SaveSpecState, SetStatus, SetStatusConflict, StepFails, historyVars
<1>3. ASSUME NEW upgrade \in BOOLEAN, OperatorStart(upgrade)
      PROVE  FlagsSame
  BY <1>3 DEF OperatorStart, FlagsSame, historyVars
<1>4. ASSUME NEW c \in there, Get(c) \/ PodsStart(c) \/ PodsRun(c) \/ PodsFail(c)
      PROVE  FlagsSame
  BY <1>4 DEF Get, PodsStart, PodsRun, PodsFail, PodsChange, FlagsSame, historyVars
<1>5. ASSUME NEW c \in there, NEW new \in Edits(spec[c]), NEW zone \in {FALSE, new.restart},
             Edit(c, new, zone)
      PROVE  FlagsSame
  BY <1>5 DEF Edit, FlagsSame
<1>6. CASE UNCHANGED vars
  BY <1>6 DEF vars, historyVars, FlagsSame
<1> QED
  BY <1>1, <1>2, <1>3, <1>4, <1>5, <1>6

\* A predicate takes its event from the watch with some flags, refuses the name, or panics.
LEMMA PredicatesCases ==
  ASSUME TypeOK, Predicates
  PROVE  /\ watch # <<>> /\ up
         /\ \/ \E flags \in SUBSET Flags, enqueue \in BOOLEAN : Take(flags, enqueue)
            \/ CreateFuncRefused
            \/ Down
<1>1. watch # <<>> /\ up
  BY PredicatesWorker
<1>2. CASE CreateFuncNew \/ CreateFuncUnread \/ UpdateFuncIgnored
  BY <1>1, <1>2 DEF CreateFuncNew, CreateFuncUnread, UpdateFuncIgnored
<1>3. CASE UpdateFunc
  <2>1. {"spec"} \cup If("restart", Next1.restart) \in SUBSET Flags
    BY IfFacts DEF Flags
  <2> QED
    BY <1>1, <1>3, <2>1 DEF UpdateFunc
<1>4. CASE CreateFuncSeen
  BY <1>1, <1>4, SeenCases, DifferencesTyped
<1> QED
  BY <1>1, <1>2, <1>3, <1>4 DEF Predicates

LEMMA OwnerKept == TypeOK /\ OwnerInv /\ [Next]_vars => OwnerInv'
<1> SUFFICES ASSUME TypeOK, OwnerInv, [Next]_vars
             PROVE  OwnerInv'
  OBVIOUS
<1>1. there' = there
  BY NamesKept
<1>2. CASE Predicates
  <2>1. CASE \E flags \in SUBSET Flags, enqueue \in BOOLEAN : Take(flags, enqueue)
    BY <1>1, <1>2, <2>1, PredicatesCases, OwnerTaken
  <2>2. CASE CreateFuncRefused
    BY <2>2, OwnerNobody DEF CreateFuncRefused
  <2>3. CASE Down
    BY <2>3, OwnerNobody DEF Down
  <2> QED
    BY <1>2, <2>1, <2>2, <2>3, PredicatesCases
<1>3. CASE FlagsSame
  BY <1>3, OwnerSame DEF FlagsSame
<1>4. CASE ReconcileManagers
  BY <1>4, ManagersEffects, OwnerRead DEF Flags
<1>5. CASE CheckForConfigMapUpdates
  BY <1>5, UpdatesEffects, OwnerRead DEF Flags
<1>6. CASE HandleActions
  BY <1>6, ActionsEffects, OwnerRead DEF Flags
<1>7. CASE DeploymentPanic \/ Crash
  BY <1>7, OwnerNobody DEF DeploymentPanic, Crash, Down
<1> QED
  BY <1>2, <1>3, <1>4, <1>5, <1>6, <1>7, FlagsSameSteps DEF Next, Reconcile

-----------------------------------------------------------------------------
(* Consoles at rest                                                        *)

Hazards == {"borrowed", "reread", "outdated", "normalised", "unsaved"}

\* What the pods read of a spec
Reads(s) == <<s.conn, s.rev["deployer"], s.bare, s.rev["console"]>>

LEMMA ReadsFacts == \A s, t : SameReads(s, t) <=> Reads(s) = Reads(t)
  BY DEF SameReads, Reads, EnvCMUpdated, DeployerCMUpdated, ConsoleCMUpdated

\* Every event of a creation that waits has waited before.
NoCreates == \A i \in DOMAIN watch' : watch'[i].kind = "create" => \E j \in DOMAIN watch : watch[j] = watch'[i]

LEMMA NoCreatesSame == watch' = watch => NoCreates
  BY DEF NoCreates

LEMMA NoCreatesNotify ==
  ASSUME TypeOK, there' = there, NEW c \in there, NEW kind \in {"spec", "zone", "status"},
         NEW restart \in BOOLEAN, Notify(c, kind, restart)
  PROVE  NoCreates
<1>1. c \in Consoles /\ WatchOK
  BY TypeParts DEF TypeOK
<1>2. /\ \A i \in DOMAIN watch : watch'[i] = watch[i]
      /\ \A i \in DOMAIN watch' : i \in DOMAIN watch \/ i = Len(watch) + 1
      /\ watch'[Len(watch) + 1].kind = kind
  BY <1>1, NotifyFacts
<1> QED
  BY <1>2 DEF NoCreates

LEMMA NoCreatesTaken == TypeOK /\ watch # <<>> /\ watch' = Tail(watch) => NoCreates
<1> SUFFICES ASSUME TypeOK, watch # <<>>, watch' = Tail(watch)
             PROVE  NoCreates
  OBVIOUS
<1>1. \A i \in DOMAIN Tail(watch) : i + 1 \in DOMAIN watch /\ Tail(watch)[i] = watch[i + 1]
  BY WatchFacts, TypeParts
<1> QED
  BY <1>1 DEF NoCreates

LEMMA NoCreatesRefused == TypeOK /\ CreateFuncRefused => NoCreates
<1> SUFFICES ASSUME TypeOK, CreateFuncRefused
             PROVE  NoCreates
  OBVIOUS
<1> DEFINE e == Changed(Next1.con, "status", FALSE)
<1>1. /\ \A i \in DOMAIN watch' :
            \/ i + 1 \in DOMAIN watch /\ watch'[i] = watch[i + 1]
            \/ watch'[i] = e
  BY RefusedWatch
<1>2. e.kind # "create"
  BY DEF Changed
<1> HIDE DEF e
<1> QED
  BY <1>1, <1>2 DEF NoCreates

\* Flags that wait for a reader
Read1(c) == owner.con = {c} => \A f \in Flags \ {"spec"} : update[f] => f \in owner.read

\* The reconcile of c has restarted it and is about to save its spec.
Saving(c) == On(c) /\ worker.pc = "save" /\ worker.result = "done"

LEMMA AtRestParts ==
  \A c : AtRest(c) <=>
    /\ ~pending[c] /\ (c \in there => ~spec[c].restart)
    /\ Read1(c)
    /\ \A i \in DOMAIN watch : watch[i].con = c /\ watch[i].kind = "create" => SameReads(watch[i].obj, spec[c])
    /\ \/ saved[c] = NoSpec
       \/ SameReads(saved[c], spec[c])
       \/ /\ Saving(c) /\ SameReads(Inst, spec[c])
          /\ \A i \in DOMAIN watch : watch[i].con = c => watch[i].kind # "create"
  BY DEF AtRest, Read1, Saving

LEMMA RestSame ==
  ASSUME NEW c \in Consoles, AtRest(c), there' = there,
         ~pending'[c], c \in there => ~spec'[c].restart,
         Read1(c)',
         NoCreates,
         Reads(spec'[c]) = Reads(spec[c]),
         saved'[c] = saved[c],
         Saving(c) => worker' = worker
  PROVE  AtRest(c)'
<1>1. \A s : SameReads(s, spec'[c]) <=> SameReads(s, spec[c])
  BY ReadsFacts
<1>2. \A i \in DOMAIN watch' :
         watch'[i].con = c /\ watch'[i].kind = "create" => SameReads(watch'[i].obj, spec'[c])
  BY <1>1 DEF AtRest, NoCreates
<1>3. \/ saved'[c] = NoSpec
      \/ SameReads(saved'[c], spec'[c])
      \/ /\ Saving(c)' /\ SameReads(worker'.inst, spec'[c])
         /\ \A i \in DOMAIN watch' : watch'[i].con = c => watch'[i].kind # "create"
  <2>1. CASE saved[c] = NoSpec \/ SameReads(saved[c], spec[c])
    BY <1>1, <2>1
  <2>2. CASE /\ Saving(c) /\ SameReads(Inst, spec[c])
             /\ \A i \in DOMAIN watch : watch[i].con = c => watch[i].kind # "create"
    <3>1. Saving(c)' /\ worker'.inst = Inst
      BY <2>2 DEF Saving, On, Con, Inst
    <3>2. \A i \in DOMAIN watch' : watch'[i].con = c => watch'[i].kind # "create"
      BY <2>2 DEF NoCreates
    <3> QED
      BY <1>1, <2>2, <3>1, <3>2
  <2> QED
    BY <2>1, <2>2 DEF AtRest, Saving
<1> QED
  BY <1>2, <1>3 DEF AtRest, Read1, Saving, Inst

\* The flags stay as they are, or the worker has read some.
LEMMA Read1Same == ASSUME NEW c, Read1(c), owner' = owner, update' = update PROVE Read1(c)'
  BY DEF Read1

LEMMA Read1Read ==
  ASSUME TypeOK, OwnerInv, worker # Idle, NEW f \in SUBSET Flags, NEW need \in Flags, Read(f, need),
         update' = update, NEW c, Read1(c)
  PROVE  Read1(c)'
<1>1. owner'.con = owner.con /\ owner.read \subseteq owner'.read
  BY OwnerRead
<1> QED
  BY <1>1 DEF Read1

\* Flags that are read are the console's own, and have been read.
LEMMA Unread ==
  ASSUME TypeOK, OwnerInv, worker # Idle, NEW f \in SUBSET Flags, NEW need \in Flags, Read(f, need),
         mishaps' \cap Hazards = {}, Read1(Con), "spec" \notin f
  PROVE  \A g \in f : ~update[g]
<1>1. /\ owner.con \notin {{}, {Con}} => "borrowed" \in mishaps'
      /\ \A g \in f : update[g] /\ g \in owner.read => "reread" \in mishaps'
  BY ReadFacts
<1>2. owner.con \in {{}, {Con}} /\ \A g \in f : ~(update[g] /\ g \in owner.read)
  BY <1>1 DEF Hazards
<1>3. CASE owner.con = {}
  BY <1>3 DEF OwnerInv
<1>4. CASE owner.con = {Con}
  BY <1>2, <1>4 DEF Read1
<1> QED
  BY <1>2, <1>3, <1>4

\* An event of c that is no creation, or one that tells nothing new, sets no flag.
LEMMA RestTaken ==
  ASSUME TypeOK, NEW c \in Consoles, AtRest(c), there' = there,
         watch # <<>>, NEW flags \in SUBSET Flags, NEW enqueue \in BOOLEAN, Take(flags, enqueue),
         UNCHANGED <<resourceVars, clusterVars>>,
         c = Next1.con => flags \subseteq {"spec"}
  PROVE  AtRest(c)'
<1>1. /\ watch' = Tail(watch) /\ worker' = worker
      /\ \A f \in Flags : update'[f] <=> f \in flags
      /\ owner' = [con |-> If(Next1.con, flags # {}), read |-> {}]
  BY TakeFacts
<1>2. owner'.con \subseteq {Next1.con}
  BY <1>1, IfFacts
<1>3. owner'.con = {c} => \A f \in Flags \ {"spec"} : ~update'[f]
  BY <1>1, <1>2
<1>4. NoCreates
  BY <1>1, NoCreatesTaken
<1> QED
  BY <1>1, <1>3, <1>4, RestSame DEF AtRest, Read1, resourceVars, clusterVars

\* The operator stops: a restart that has not been saved is a hazard.
LEMMA RestDown ==
  ASSUME TypeOK, NEW c \in Consoles, AtRest(c), there' = there, Down,
         At("save") /\ worker.result = "done" => saved[Con] = Inst,
         UNCHANGED <<resourceVars, clusterVars>>
  PROVE  AtRest(c)'
<1>1. /\ DOMAIN watch' = {} /\ worker' = Idle /\ owner' = Nobody
  BY DownFacts
<1>2. owner'.con = {}
  BY <1>1 DEF Nobody
<1>3. spec' = spec /\ saved' = saved /\ pending' = pending
  BY DEF resourceVars, clusterVars
<1>4. saved[c] = NoSpec \/ SameReads(saved[c], spec[c])
  <2>1. CASE Saving(c) /\ SameReads(Inst, spec[c])
    <3>1. At("save") /\ Con = c /\ worker.result = "done"
      BY <2>1, WorkerFacts DEF Saving, On, At
    <3> QED
      BY <2>1, <3>1
  <2> QED
    BY <2>1, AtRestParts
<1>5. ~pending[c] /\ (c \in there => ~spec[c].restart)
  BY DEF AtRest
<1> QED
  BY <1>1, <1>2, <1>3, <1>4, <1>5 DEF AtRest

LEMMA NotUnsaved ==
  ASSUME Unsaved \subseteq mishaps', mishaps' \cap Hazards = {}
  PROVE  At("save") /\ worker.result = "done" => saved[Con] = Inst
<1>1. "unsaved" \notin mishaps'
  BY DEF Hazards
<1> QED
  BY <1>1, IfFacts DEF Unsaved

\* An edit with no reason to restart changes nothing that pods read.
LEMMA EditReads ==
  ASSUME NEW s \in Specs, NEW new \in Specs, [new EXCEPT !.rev["pod"] = s.rev["pod"]] = s
  PROVE  Reads(new) = Reads(s)
<1> DEFINE rev == [new.rev EXCEPT !["pod"] = s.rev["pod"]]
<1>1. [new EXCEPT !.rev = rev] = s
  OBVIOUS
<1> HIDE DEF rev
<1>2. s.conn = new.conn /\ s.bare = new.bare /\ s.rev = rev
  BY <1>1 DEF Specs
<1>3. rev["deployer"] = new.rev["deployer"] /\ rev["console"] = new.rev["console"]
  <2>1. new.rev \in [Parts -> Nat] /\ "deployer" \in Parts /\ "console" \in Parts
    BY SpecsFacts DEF Parts
  <2> QED
    BY <2>1 DEF rev
<1> QED
  BY <1>2, <1>3 DEF Reads

LEMMA RestSeen ==
  ASSUME TypeOK, there' = there, mishaps' \cap Hazards = {}, NEW c \in Consoles, AtRest(c), CreateFuncSeen
  PROVE  AtRest(c)'
<1>1. /\ watch # <<>> /\ Next1.kind = "create" /\ saved[Next1.con] # NoSpec
      /\ UNCHANGED <<resourceVars, names, clusterVars, generated, events, wanted>>
      /\ \/ /\ Next1.obj = saved[Next1.con]
            /\ Take({}, FALSE) /\ Note(If("skipped", ~Applied(Next1.con, Next1.obj)))
         \/ /\ Next1.obj # saved[Next1.con] /\ Next1.obj.network /\ saved[Next1.con].network
            /\ Take(Differences(Next1.obj, saved[Next1.con]), TRUE) /\ Note({})
         \/ /\ Next1.obj # saved[Next1.con] /\ ~(Next1.obj.network /\ saved[Next1.con].network)
            /\ Down /\ Note({"panicked"} \cup Unsaved)
  BY SeenCases
<1>2. Next1 = watch[1] /\ 1 \in DOMAIN watch
  BY <1>1, WatchFacts, TypeParts
<1>3. CASE Take({}, FALSE)
  BY <1>1, <1>3, RestTaken
<1>4. CASE Take(Differences(Next1.obj, saved[Next1.con]), TRUE)
  <2>1. ASSUME c = Next1.con
        PROVE  Differences(Next1.obj, saved[Next1.con]) \subseteq {"spec"}
    <3>1. SameReads(Next1.obj, spec[c])
      BY <1>1, <1>2, <2>1 DEF AtRest
    <3>2. SameReads(saved[c], spec[c])
      BY <1>1, <1>2, <2>1 DEF AtRest
    <3>3. SameReads(Next1.obj, saved[c])
      BY <3>1, <3>2, ReadsFacts
    <3> QED
      BY <2>1, <3>3 DEF SameReads, Differences, If
  <2>2. Differences(Next1.obj, saved[Next1.con]) \in SUBSET Flags
    BY DifferencesTyped
  <2> QED
    BY <1>1, <1>4, <2>1, <2>2, RestTaken
<1>5. CASE Down /\ Note({"panicked"} \cup Unsaved)
  <2>1. Unsaved \subseteq mishaps'
    BY <1>5 DEF Note
  <2>2. At("save") /\ worker.result = "done" => saved[Con] = Inst
    BY <2>1, NotUnsaved
  <2> QED
    BY <1>1, <1>5, <2>2, RestDown
<1> QED
  BY <1>1, <1>3, <1>4, <1>5

LEMMA RestRefused ==
  ASSUME TypeOK, there' = there, NEW c \in Consoles, AtRest(c), CreateFuncRefused
  PROVE  AtRest(c)'
<1>1. /\ spec' = spec /\ pending' = pending /\ worker' = worker
      /\ saved' = [saved EXCEPT ![Next1.con] = Next1.obj] /\ update' = NoUpdate /\ owner' = Nobody
  BY DEF CreateFuncRefused, clusterVars
<1>2. /\ watch # <<>> /\ Next1 = watch[1] /\ Next1.kind = "create" /\ 1 \in DOMAIN watch
  BY RefusedWatch, WatchFacts, TypeParts
<1>3. NoCreates
  BY NoCreatesRefused
<1>4. Read1(c)'
  BY <1>1 DEF Read1, Nobody
<1>5. saved \in [Consoles -> Specs \cup {NoSpec}]
  BY DEF TypeOK
<1>6. CASE c # Next1.con
  <2>1. saved'[c] = saved[c]
    BY <1>1, <1>5, <1>6
  <2> QED
    BY <1>1, <1>3, <1>4, <2>1, RestSame DEF AtRest
<1>7. CASE c = Next1.con
  <2>1. SameReads(saved'[c], spec'[c])
    BY <1>1, <1>2, <1>5, <1>7 DEF AtRest
  <2>2. \A i \in DOMAIN watch' : watch'[i].con = c /\ watch'[i].kind = "create" => SameReads(watch'[i].obj, spec'[c])
    BY <1>1, <1>3 DEF NoCreates, AtRest
  <2>3. ~pending'[c] /\ (c \in there' => ~spec'[c].restart)
    BY <1>1 DEF AtRest
  <2> QED
    BY <1>4, <2>1, <2>2, <2>3 DEF AtRest, Read1
<1> QED
  BY <1>6, <1>7

LEMMA RestPredicates ==
  ASSUME TypeOK, there' = there, mishaps' \cap Hazards = {}, NEW c \in Consoles, AtRest(c), Predicates
  PROVE  AtRest(c)' /\ wanted' = wanted
<1>1. watch # <<>> /\ up
  BY PredicatesWorker
<1>2. CASE CreateFuncNew \/ CreateFuncUnread \/ UpdateFuncIgnored
  <2>1. \E enqueue \in BOOLEAN : Take({}, enqueue)
    BY <1>2 DEF CreateFuncNew, CreateFuncUnread, UpdateFuncIgnored
  <2>2. UNCHANGED <<resourceVars, clusterVars>> /\ wanted' = wanted
    BY <1>2 DEF CreateFuncNew, CreateFuncUnread, UpdateFuncIgnored
  <2> QED
    BY <1>1, <2>1, <2>2, RestTaken
<1>3. CASE UpdateFunc
  <2> DEFINE flags == {"spec"} \cup If("restart", Next1.restart)
  <2>1. /\ Take(flags, TRUE) /\ UNCHANGED <<resourceVars, clusterVars>> /\ wanted' = wanted
        /\ Note(If("outdated", Next1.restart /\ ~spec[Next1.con].restart))
    BY <1>3 DEF UpdateFunc
  <2>2. Next1.con \in there
    BY <1>1, WatchFacts, TypeParts
  <2>3. c = Next1.con => ~Next1.restart
    <3>1. "outdated" \notin mishaps'
      BY DEF Hazards
    <3>2. ~(Next1.restart /\ ~spec[Next1.con].restart)
      BY <2>1, <3>1, IfFacts DEF Note
    <3> QED
      BY <2>2, <3>2 DEF AtRest
  <2>4. flags \in SUBSET Flags
    BY IfFacts DEF Flags
  <2>5. c = Next1.con => flags \subseteq {"spec"}
    BY <2>3, IfFacts
  <2> HIDE DEF flags
  <2> QED
    BY <1>1, <2>1, <2>4, <2>5, RestTaken
<1>4. CASE CreateFuncSeen
  BY <1>4, RestSeen, SeenCases
<1>5. CASE CreateFuncRefused
  BY <1>5, RestRefused DEF CreateFuncRefused
<1> QED
  BY <1>2, <1>3, <1>4, <1>5 DEF Predicates

LEMMA RestQuiet ==
  ASSUME there' = there, NEW c \in Consoles, AtRest(c), UNCHANGED <<spec, pending, saved>>,
         FlagsSame, NoCreates, Saving(c) => worker' = worker
  PROVE  AtRest(c)'
<1>1. Read1(c)'
  BY Read1Same DEF AtRest, Read1, FlagsSame
<1> QED
  BY <1>1, RestSame DEF AtRest

\* Steps that neither read flags nor touch the spec.
LEMMA RestCalm ==
  ASSUME TypeOK, there' = there, NEW c \in Consoles, AtRest(c),
         \/ SetVersion \/ PreReconcileChecks \/ ReconcileEnvCM \/ ReconcileConfigCMs
         \/ ReconcileDeployment \/ ReconcileAccess \/ CheckStates \/ SetStatus \/ SetStatusConflict \/ StepFails
         \/ \E d \in there : Get(d) \/ PodsStart(d) \/ PodsRun(d) \/ PodsFail(d)
  PROVE  AtRest(c)' /\ wanted' = wanted
<1>1. FlagsSame
  BY FlagsSameSteps
<1>2. CASE SetVersion
  <2>1. /\ worker # Idle /\ worker.pc = "version" /\ UNCHANGED <<spec, pending, saved, wanted>>
        /\ UNCHANGED watch \/ Notify(Con, "status", FALSE)
    BY <1>2, VersionEffects DEF clusterVars, historyVars
  <2>2. NoCreates
    BY <2>1, NoCreatesSame, NoCreatesNotify, WorkerFacts
  <2> QED
    BY <1>1, <2>1, <2>2, RestQuiet DEF Saving
<1>3. CASE PreReconcileChecks
  BY <1>1, <1>3, ChecksEffects, NoCreatesSame, RestQuiet DEF Saving, resourceVars
<1>4. CASE ReconcileEnvCM
  BY <1>1, <1>4, EnvEffects, NoCreatesSame, RestQuiet DEF Saving, resourceVars, historyVars
<1>5. CASE ReconcileConfigCMs
  BY <1>1, <1>5, ConfigsEffects, NoCreatesSame, RestQuiet DEF Saving, resourceVars, historyVars
<1>6. CASE ReconcileDeployment
  BY <1>1, <1>6, DeploymentEffects, NoCreatesSame, RestQuiet DEF Saving, resourceVars, historyVars
<1>7. CASE ReconcileAccess
  BY <1>1, <1>7, AccessEffects, NoCreatesSame, RestQuiet DEF Saving, resourceVars, historyVars
<1>8. CASE CheckStates
  BY <1>1, <1>8, StatesEffects, NoCreatesSame, RestQuiet DEF Saving, resourceVars, historyVars
<1>9. CASE SetStatus \/ SetStatusConflict
  <2>1. /\ worker # Idle /\ worker.pc = "status" /\ UNCHANGED <<spec, pending, saved, wanted>>
        /\ UNCHANGED watch \/ Notify(Con, "status", FALSE)
    BY <1>9, SetStatusEffects DEF clusterVars, historyVars
  <2>2. NoCreates
    BY <2>1, NoCreatesSame, NoCreatesNotify, WorkerFacts
  <2> QED
    BY <1>1, <2>1, <2>2, RestQuiet DEF Saving
<1>10. CASE StepFails
  BY <1>1, <1>10, FailEffects, NoCreatesSame, RestQuiet DEF Saving, resourceVars, clusterVars
<1>11. ASSUME NEW d \in there, Get(d)
       PROVE  AtRest(c)' /\ wanted' = wanted
  BY <1>1, <1>11, GetEffects, NoCreatesSame, RestQuiet DEF Saving, On, resourceVars, clusterVars, historyVars
<1>12. ASSUME NEW d \in there, PodsStart(d) \/ PodsRun(d) \/ PodsFail(d)
       PROVE  AtRest(c)' /\ wanted' = wanted
  <2>1. UNCHANGED <<spec, pending, saved, wanted, watch, worker>>
    BY <1>12 DEF PodsStart, PodsRun, PodsFail, PodsChange, resourceVars, historyVars
  <2> QED
    BY <1>1, <2>1, NoCreatesSame, RestQuiet
<1> QED
  BY <1>2, <1>3, <1>4, <1>5, <1>6, <1>7, <1>8, <1>9, <1>10, <1>11, <1>12

LEMMA RestPatch ==
  ASSUME TypeOK, there' = there, NEW c \in Consoles, AtRest(c), c \notin wanted', PatchInstance
  PROVE  AtRest(c)'
<1>1. /\ worker # Idle /\ worker.pc = "patch" /\ saved' = saved /\ pending' = pending
      /\ wanted' = wanted \cup If(Con, Inst.conn # worker.base.conn \/ worker.base.bare)
      /\ \/ spec' = [spec EXCEPT ![Con] = Merged] /\ Notify(Con, "spec", Merged.restart)
         \/ UNCHANGED <<spec, watch>>
  BY PatchEffects DEF clusterVars
<1>2. Con \in there /\ spec \in [Consoles -> Specs \cup {NoSpec}]
  BY <1>1, WorkerFacts DEF TypeOK
<1>3. Merged.restart \in BOOLEAN
  BY <1>1, MergedFacts, SpecsFacts
<1>4. NoCreates
  BY <1>1, <1>2, <1>3, NoCreatesSame, NoCreatesNotify
<1>5. Read1(c)'
  BY FlagsSameSteps, Read1Same DEF AtRest, Read1, FlagsSame
<1>6. Reads(spec'[c]) = Reads(spec[c]) /\ (c \in there => ~spec'[c].restart)
  <2>1. CASE spec' = spec \/ c # Con
    BY <1>1, <1>2, <2>1 DEF AtRest
  <2>2. CASE spec' = [spec EXCEPT ![Con] = Merged] /\ c = Con
    <3>1. ~(Inst.conn # worker.base.conn \/ worker.base.bare)
      BY <1>1, <2>2, IfFacts
    <3>2. /\ Merged.conn = spec[c].conn /\ Merged.bare = spec[c].bare /\ Merged.rev = spec[c].rev
          /\ Merged.restart = spec[c].restart
      BY <1>1, <2>2, <3>1, MergedFacts
    <3>3. spec'[c] = Merged
      BY <1>2, <2>2
    <3> QED
      BY <3>2, <3>3 DEF Reads, AtRest
  <2> QED
    BY <1>1, <2>1, <2>2
<1> QED
  BY <1>1, <1>4, <1>5, <1>6, RestSame DEF AtRest, Saving

\* Steps that read flags: those of a console at rest are not set.
LEMMA RestReads ==
  ASSUME TypeOK, OwnerInv, there' = there, mishaps' \cap Hazards = {}, NEW c \in Consoles, AtRest(c),
         ReconcileManagers \/ CheckForConfigMapUpdates \/ HandleActions
  PROVE  AtRest(c)' /\ wanted' = wanted
<1>1. Read1(c)
  BY DEF AtRest, Read1
<1>2. CASE ReconcileManagers
  <2>1. /\ worker # Idle /\ worker.pc = "managers" /\ UNCHANGED <<spec, pending, saved, watch, update, wanted>>
        /\ Read({"spec"}, "spec")
    BY <1>2, ManagersEffects DEF resourceVars
  <2>2. Read1(c)'
    BY <1>1, <2>1, Read1Read DEF Flags
  <2> QED
    BY <2>1, <2>2, NoCreatesSame, RestSame DEF AtRest, Saving
<1>3. CASE CheckForConfigMapUpdates
  <2>1. /\ worker # Idle /\ worker.pc = "cmupdates" /\ UNCHANGED <<spec, saved, watch, update, wanted>>
        /\ pending' = [pending EXCEPT ![Con] = @ \/ update["deployer"] \/ update["console"] \/ update["env"]]
        /\ Read({"deployer", "console", "env"}, "env")
    BY <1>3, UpdatesEffects DEF resourceVars
  <2>2. Read1(c)'
    BY <1>1, <2>1, Read1Read DEF Flags
  <2>3. ~pending'[c]
    <3>1. pending \in [Consoles -> BOOLEAN] /\ ~pending[c]
      BY DEF TypeOK, AtRest
    <3>2. CASE c # Con
      BY <2>1, <3>1, <3>2
    <3>3. CASE c = Con
      <4>1. \A g \in {"deployer", "console", "env"} : ~update[g]
        BY <1>1, <2>1, <3>3, Unread DEF Flags
      <4> QED
        BY <2>1, <3>1, <3>3, <4>1
    <3> QED
      BY <3>2, <3>3
  <2> QED
    BY <2>1, <2>2, <2>3, NoCreatesSame, RestSame DEF AtRest, Saving
<1>4. CASE HandleActions
  <2>1. /\ worker # Idle /\ worker.pc = "actions" /\ UNCHANGED <<saved, update, wanted>>
        /\ pending' = [pending EXCEPT ![Con] = pending[Con] \/ update["restart"]]
        /\ Read({"restart"}, "restart")
        /\ \/ /\ update["restart"]
              /\ spec' = [spec EXCEPT ![Con] = [spec[Con] EXCEPT !.restart = FALSE]]
              /\ Notify(Con, "spec", FALSE)
           \/ UNCHANGED <<spec, watch>>
    BY <1>4, ActionsEffects
  <2>2. Read1(c)'
    BY <1>1, <2>1, Read1Read DEF Flags
  <2>3. c = Con => ~update["restart"]
    BY <1>1, <2>1, Unread DEF Flags
  <2>4. pending \in [Consoles -> BOOLEAN] /\ ~pending[c] /\ spec \in [Consoles -> Specs \cup {NoSpec}]
    BY DEF TypeOK, AtRest
  <2>5. ~pending'[c]
    BY <2>1, <2>3, <2>4
  <2>6. spec'[c] = spec[c]
    BY <2>1, <2>3, <2>4
  <2>7. NoCreates
    BY <2>1, NoCreatesSame, NoCreatesNotify, WorkerFacts
  <2> QED
    BY <2>1, <2>2, <2>5, <2>6, <2>7, RestSame DEF AtRest, Saving
<1> QED
  BY <1>2, <1>3, <1>4

LEMMA RestRestart ==
  ASSUME TypeOK, Course, there' = there, NEW c \in Consoles, c \in wanted \/ AtRest(c), c \notin wanted',
         HandleRestart
  PROVE  AtRest(c)'
<1>1. /\ worker # Idle /\ worker.pc = "restart"
      /\ UNCHANGED <<spec, saved, watch, update, owner>>
      /\ pending' = [pending EXCEPT ![Con] = pending[Con] /\ RestartDisabled]
      /\ wanted' = IF pending[Con] /\ ~RestartDisabled /\ Served(Con) THEN wanted \ {Con} ELSE wanted
      /\ Goes("save", Inst, worker.result)
  BY RestartEffects DEF resourceVars
<1>2. pending \in [Consoles -> BOOLEAN]
  BY DEF TypeOK
<1>3. CASE AtRest(c)
  <2>1. ~pending'[c]
    BY <1>1, <1>2, <1>3 DEF AtRest
  <2>2. Read1(c)'
    BY <1>1, <1>3, Read1Same DEF AtRest, Read1
  <2> QED
    BY <1>1, <1>3, <2>1, <2>2, NoCreatesSame, RestSame DEF AtRest, Saving
<1>4. CASE c \in wanted
  <2>1. c = Con /\ ~RestartDisabled /\ Served(c)
    BY <1>1, <1>4
  <2>2. ~pending'[c]
    BY <1>1, <1>2, <2>1
  <2>3. /\ ~spec[c].restart /\ SameReads(Inst, spec[c])
        /\ Read1(c)
        /\ \A i \in DOMAIN watch : watch[i].con = c => watch[i].kind # "create"
    BY <2>1 DEF Served, SameReads, Read1
  <2>4. Saving(c)' /\ worker'.inst = Inst
    <3>1. worker.result = "done"
      BY <1>1 DEF Course, Ending
    <3> QED
      BY <1>1, <2>1, <3>1 DEF Goes, Saving, On, Con
  <2>5. Read1(c)'
    BY <1>1, <2>3, Read1Same
  <2> QED
    BY <1>1, <2>2, <2>3, <2>4, <2>5 DEF AtRest, Read1, Saving, Inst
<1> QED
  BY <1>3, <1>4

LEMMA RestSave ==
  ASSUME TypeOK, there' = there, mishaps' \cap Hazards = {}, NEW c \in Consoles, AtRest(c), SaveSpecState
  PROVE  AtRest(c)'
<1>1. /\ worker # Idle /\ worker.pc = "save" /\ UNCHANGED <<spec, pending, watch, owner, update>>
      /\ saved' = [saved EXCEPT ![Con] = Inst]
      /\ mishaps' = mishaps \cup If("normalised", Inst # spec[Con])
  BY SaveEffects DEF clusterVars, historyVars
<1>2. saved \in [Consoles -> Specs \cup {NoSpec}]
  BY DEF TypeOK
<1>3. Read1(c)'
  BY <1>1, Read1Same DEF AtRest, Read1
<1>4. CASE c # Con
  BY <1>1, <1>2, <1>3, <1>4, NoCreatesSame, RestSame DEF AtRest, Saving, On
<1>5. CASE c = Con
  <2>1. Inst = spec[Con]
    BY <1>1, IfFacts DEF Hazards
  <2>2. saved'[c] = spec'[c]
    BY <1>1, <1>2, <1>5, <2>1
  <2>3. SameReads(saved'[c], spec'[c])
    BY <2>2, ReadsFacts
  <2> QED
    BY <1>1, <1>3, <2>3 DEF AtRest, Read1
<1> QED
  BY <1>4, <1>5

LEMMA RestStarted ==
  ASSUME TypeOK, Course, there' = there, NEW c \in Consoles, AtRest(c),
         NEW upgrade \in BOOLEAN, OperatorStart(upgrade)
  PROVE  AtRest(c)' /\ wanted' = wanted
<1>1. /\ ~up /\ UNCHANGED <<spec, pending, saved, owner, update, wanted>>
  BY DEF OperatorStart, clusterVars, historyVars
<1>2. worker = Idle
  BY <1>1 DEF Course
<1>3. saved[c] = NoSpec \/ SameReads(saved[c], spec[c])
  BY <1>2 DEF AtRest, On
<1>4. \A i \in DOMAIN watch' : watch'[i].con = c => watch'[i].obj = spec[c]
  BY ListFacts
<1>5. \A i \in DOMAIN watch' : watch'[i].con = c => SameReads(watch'[i].obj, spec[c])
  BY <1>4, ReadsFacts
<1>6. Read1(c)'
  BY <1>1, Read1Same DEF AtRest, Read1
<1> QED
  BY <1>1, <1>3, <1>5, <1>6 DEF AtRest, Read1

LEMMA RestEdit ==
  ASSUME TypeOK, there' = there, NEW c \in Consoles, AtRest(c), c \notin wanted',
         NEW d \in there, NEW new \in Edits(spec[d]), NEW zone \in {FALSE, new.restart}, Edit(d, new, zone)
  PROVE  AtRest(c)'
<1>1. /\ spec' = [spec EXCEPT ![d] = new] /\ UNCHANGED <<pending, saved, owner, update, worker>>
      /\ wanted' = wanted \cup If(d, new.restart \/ [new EXCEPT !.rev["pod"] = spec[d].rev["pod"]] # spec[d])
      /\ watch' = watch \/ Notify(d, IF zone THEN "zone" ELSE "spec", new.restart)
  BY DEF Edit, clusterVars
<1>2. /\ spec[d] \in Specs /\ new \in Specs /\ d \in Consoles
      /\ spec \in [Consoles -> Specs \cup {NoSpec}] /\ new.restart \in BOOLEAN
  BY EditsFacts, SpecsFacts DEF TypeOK
<1>3. NoCreates
  <2>1. (IF zone THEN "zone" ELSE "spec") \in {"spec", "zone", "status"}
    OBVIOUS
  <2> QED
    BY <1>1, <1>2, <2>1, NoCreatesSame, NoCreatesNotify
<1>4. Reads(spec'[c]) = Reads(spec[c]) /\ (c \in there => ~spec'[c].restart)
  <2>1. CASE c # d
    BY <1>1, <1>2, <2>1 DEF AtRest
  <2>2. CASE c = d
    <3>1. ~new.restart /\ [new EXCEPT !.rev["pod"] = spec[d].rev["pod"]] = spec[d]
      BY <1>1, <2>2, IfFacts
    <3>2. Reads(new) = Reads(spec[d])
      BY <1>2, <3>1, EditReads
    <3> QED
      BY <1>1, <1>2, <2>2, <3>1, <3>2
  <2> QED
    BY <2>1, <2>2
<1>5. Read1(c)'
  BY <1>1, Read1Same DEF AtRest, Read1
<1> QED
  BY <1>1, <1>3, <1>4, <1>5, RestSame DEF AtRest

LEMMA RestKept == TypeOK /\ Course /\ OwnerInv /\ RestInv /\ [Next]_vars => RestInv'
<1> SUFFICES ASSUME TypeOK, Course, OwnerInv, RestInv, [Next]_vars, mishaps' \cap Hazards = {},
                    NEW c \in Consoles, c \notin wanted'
             PROVE  AtRest(c)'
  BY DEF RestInv, Hazards
<1>1. there' = there
  BY NamesKept
<1>2. mishaps \cap Hazards = {}
  BY MishapsKept
<1>3. c \in wanted \/ AtRest(c)
  BY <1>2 DEF RestInv, Hazards
<1>4. CASE HandleRestart
  BY <1>1, <1>3, <1>4, RestRestart
<1>5. wanted \subseteq wanted' \/ HandleRestart
  <2>1. CASE Predicates \/ SetStatusConflict \/ Crash \/ StepFails
    BY <2>1 DEF Predicates, CreateFuncNew, CreateFuncRefused, CreateFuncSeen, CreateFuncUnread, UpdateFuncIgnored,
       UpdateFunc, SetStatusConflict, Crash, StepFails, historyVars
  <2>2. CASE SetVersion \/ PreReconcileChecks \/ PatchInstance \/ ReconcileManagers \/ ReconcileEnvCM
             \/ ReconcileConfigCMs \/ ReconcileDeployment \/ DeploymentPanic \/ ReconcileAccess
    BY <2>2 DEF SetVersion, PreReconcileChecks, PatchInstance, ReconcileManagers, ReconcileEnvCM,
       ReconcileConfigCMs, ReconcileDeployment, DeploymentPanic, ReconcileAccess, Manage, historyVars
  <2>3. CASE CheckStates \/ CheckForConfigMapUpdates \/ HandleActions \/ SaveSpecState \/ SetStatus
    BY <2>3 DEF CheckStates, CheckForConfigMapUpdates, HandleActions, SaveSpecState, SetStatus, historyVars
  <2>4. CASE \E upgrade \in BOOLEAN : OperatorStart(upgrade)
    BY <2>4 DEF OperatorStart, historyVars
  <2>5. CASE \E d \in there : Get(d) \/ PodsStart(d) \/ PodsRun(d) \/ PodsFail(d)
    BY <2>5 DEF Get, PodsStart, PodsRun, PodsFail, PodsChange, historyVars
  <2>6. CASE \E d \in there : \E new \in Edits(spec[d]) : \E zone \in {FALSE, new.restart} : Edit(d, new, zone)
    BY <2>6 DEF Edit
  <2>7. CASE UNCHANGED vars
    BY <2>7 DEF vars, historyVars
  <2> QED
    BY <2>1, <2>2, <2>3, <2>4, <2>5, <2>6, <2>7 DEF Next, Reconcile
<1> SUFFICES ASSUME AtRest(c), ~HandleRestart
             PROVE  AtRest(c)'
  BY <1>3, <1>4, <1>5
<1>6. CASE Predicates
  BY <1>1, <1>6, RestPredicates
<1>7. CASE \/ SetVersion \/ PreReconcileChecks \/ ReconcileEnvCM \/ ReconcileConfigCMs
           \/ ReconcileDeployment \/ ReconcileAccess \/ CheckStates \/ SetStatus \/ SetStatusConflict \/ StepFails
           \/ \E d \in there : Get(d) \/ PodsStart(d) \/ PodsRun(d) \/ PodsFail(d)
  BY <1>1, <1>7, RestCalm
<1>8. CASE PatchInstance
  BY <1>1, <1>8, RestPatch
<1>9. CASE ReconcileManagers \/ CheckForConfigMapUpdates \/ HandleActions
  BY <1>1, <1>9, RestReads
<1>10. CASE SaveSpecState
  BY <1>1, <1>10, RestSave
<1>11. CASE DeploymentPanic
  <2>1. Down /\ worker.pc = "deployment" /\ UNCHANGED <<resourceVars, clusterVars>>
    BY <1>11 DEF DeploymentPanic, At
  <2> QED
    BY <1>1, <2>1, RestDown DEF At
<1>12. CASE Crash
  <2>1. Down /\ Unsaved \subseteq mishaps' /\ UNCHANGED <<resourceVars, clusterVars>>
    BY <1>12 DEF Crash, Note
  <2>2. At("save") /\ worker.result = "done" => saved[Con] = Inst
    BY <2>1, NotUnsaved
  <2> QED
    BY <1>1, <2>1, <2>2, RestDown
<1>13. ASSUME NEW upgrade \in BOOLEAN, OperatorStart(upgrade)
       PROVE  AtRest(c)'
  BY <1>1, <1>13, RestStarted
<1>14. ASSUME NEW d \in there, NEW new \in Edits(spec[d]), NEW zone \in {FALSE, new.restart}, Edit(d, new, zone)
       PROVE  AtRest(c)'
  BY <1>1, <1>14, RestEdit
<1>15. CASE UNCHANGED vars
  BY <1>1, <1>15, RestQuiet, NoCreatesSame, FlagsSameSteps DEF vars, resourceVars, clusterVars
<1> QED
  BY <1>6, <1>7, <1>8, <1>9, <1>10, <1>11, <1>12, <1>13, <1>14, <1>15 DEF Next, Reconcile

-----------------------------------------------------------------------------
(* Owners, reads, requests and edits at first                              *)

LEMMA InitOwner == Init => OwnerInv
<1> SUFFICES ASSUME Init
             PROVE  OwnerInv
  OBVIOUS
<1>1. PICK s \in Starts, edited \in SUBSET Consoles : InitialState(s, edited)
  BY InitFacts
<1>2. owner = [con |-> {}, read |-> {}] /\ update = NoUpdate
  BY <1>1 DEF InitialState, Nobody
<1> QED
  BY <1>2, NoUpdateTyped DEF OwnerInv

LEMMA InitRest == Init => RestInv
<1> SUFFICES ASSUME Init, NEW c \in Consoles, c \notin wanted
             PROVE  AtRest(c)
  BY DEF RestInv
<1>1. PICK s \in Starts, edited \in SUBSET Consoles : InitialState(s, edited)
  BY InitFacts
<1>2. c \in there => saved[c] = NoSpec \/ saved[c] = spec[c]
  BY <1>1 DEF InitialState
<1>3. c \in there => ~spec[c].restart
  BY <1>1, <1>2 DEF InitialState, StartOK
<1>4. saved[c] = NoSpec \/ SameReads(saved[c], spec[c])
  <2>1. CASE c \in there
    BY <1>2, <2>1, ReadsFacts
  <2>2. CASE c \notin there
    BY <1>1, <2>2 DEF InitialState
  <2> QED
    BY <2>1, <2>2
<1>5. \A i \in DOMAIN watch : watch[i].con = c /\ watch[i].kind = "create" => SameReads(watch[i].obj, spec[c])
  <2>1. \A i \in DOMAIN watch : watch[i].con = c /\ watch[i].kind = "create" => watch[i].obj = spec[c]
    BY <1>1 DEF InitialState
  <2> QED
    BY <2>1, ReadsFacts
<1>6. ~pending[c] /\ owner = Nobody
  BY <1>1 DEF InitialState
<1> QED
  BY <1>3, <1>4, <1>5, <1>6 DEF AtRest, Nobody

LEMMA InitNetwork == Init => NetworkInv
<1> SUFFICES ASSUME Init
             PROVE  NetworkInv
  OBVIOUS
<1>1. PICK s \in Starts, edited \in SUBSET Consoles : InitialState(s, edited)
  BY InitFacts
<1>2. CASE ~\A c \in there : spec[c].network
  BY <1>1, <1>2 DEF InitialState, NetworkInv
<1>3. CASE \A c \in there : spec[c].network
  <2>1. \A c \in Consoles : saved[c] # NoSpec => saved[c].network
    BY <1>1 DEF InitialState, StartOK
  <2>2. \A i \in DOMAIN watch : watch[i].kind = "create" => watch[i].obj.network
    BY <1>1, <1>3 DEF InitialState
  <2>3. worker = Idle
    BY <1>1 DEF InitialState
  <2> QED
    BY <1>3, <2>1, <2>2, <2>3 DEF NetworkInv
<1> QED
  BY <1>2, <1>3

LEMMA InitRemote == Init => RemoteInv
<1> SUFFICES ASSUME Init, NEW c \in Consoles
             PROVE  ~On(c) /\ (Remotely(c) => spec[c].conn = Remote)
  BY DEF RemoteInv
<1>1. PICK s \in Starts, edited \in SUBSET Consoles : InitialState(s, edited)
  BY InitFacts
<1>2. worker = Idle /\ objs[c] = IF saved[c] # NoSpec THEN Deployment(saved[c]) ELSE NoObjects
  BY <1>1 DEF InitialState
<1>3. ~On(c)
  BY <1>2 DEF On
<1>4. CASE saved[c] = NoSpec
  BY <1>2, <1>3, <1>4, NoObjectsTyped DEF Remotely
<1>5. CASE saved[c] # NoSpec
  <2>1. saved[c] \in Specs /\ c \in there /\ spec[c].conn \in {saved[c].conn, Remote} /\ saved[c].conn # Default
    BY <1>1, <1>5 DEF InitialState, StartOK
  <2>2. objs[c].db = IF saved[c].conn >= 0 THEN saved[c].conn ELSE Default
    BY <1>2, <1>5, <2>1, DeploymentTyped
  <2>3. saved[c].conn \in Int /\ saved[c].conn >= -1
    BY <2>1, SpecsFacts
  <2> QED
    BY <1>3, <2>1, <2>2, <2>3 DEF Remotely, Default, Remote
<1> QED
  BY <1>4, <1>5

LEMMA InitPanic == Init => PanicInv
<1> SUFFICES ASSUME Init
             PROVE  PanicInv
  OBVIOUS
<1>1. PICK s \in Starts, edited \in SUBSET Consoles : InitialState(s, edited)
  BY InitFacts
<1>2. mishaps \subseteq {"nonetwork"}
  BY <1>1 DEF InitialState
<1> QED
  BY <1>2 DEF PanicInv

LEMMA InitRequest == Init => RequestInv
<1> SUFFICES ASSUME Init
             PROVE  up /\ \A c \in there : spec[c].restart => Waits(c)
  BY DEF RequestInv
<1>1. PICK s \in Starts, edited \in SUBSET Consoles : InitialState(s, edited)
  BY InitFacts
<1>2. \A c \in there : spec[c].restart => c \in edited
  BY <1>1 DEF InitialState, StartOK
<1>3. \A c \in edited : \E i \in DOMAIN watch :
          watch[i].con = c /\ watch[i].kind = "spec" /\ watch[i].restart = spec[c].restart
  BY <1>1 DEF InitialState
<1>4. up
  BY <1>1 DEF InitialState
<1> QED
  BY <1>2, <1>3, <1>4 DEF Waits

LEMMA InitEdit == Init => EditInv
<1> SUFFICES ASSUME Init
             PROVE  Behind /\ Looks /\ AllCared
  BY DEF EditInv, EditOK
<1>1. PICK s \in Starts, edited \in SUBSET Consoles : InitialState(s, edited)
  BY InitFacts
<1>2. worker = Idle
  BY <1>1 DEF InitialState
<1>3. Behind
  <2>1. \A i \in DOMAIN watch : watch[i].kind = "create" => watch[i].obj = spec[watch[i].con]
    BY <1>1 DEF InitialState
  <2> QED
    BY <2>1 DEF Behind
<1>4. ASSUME NEW c \in there
      PROVE  Cared(c)
  <2>1. CASE saved[c] = NoSpec
    BY <1>1, <2>1 DEF InitialState, Cared, Listed
  <2>2. CASE saved[c] # NoSpec /\ saved[c] # spec[c]
    <3>1. c \in edited
      BY <1>1, <2>2 DEF InitialState
    <3> QED
      BY <1>1, <3>1 DEF InitialState, Cared, Ahead, Edited
  <2>3. CASE saved[c] # NoSpec /\ saved[c] = spec[c]
    <3>1. c \in Consoles /\ spec[c] \in Specs
      BY <1>1 DEF InitialState
    <3>2. objs[c] = Deployment(spec[c])
      BY <1>1, <2>3, <3>1 DEF InitialState
    <3>3. Applied(c, spec[c])
      BY <3>1, <3>2, DeploymentTyped DEF Applied
    <3> QED
      BY <1>2, <3>3 DEF Cared, On
  <2> QED
    BY <2>1, <2>2, <2>3
<1> QED
  BY <1>2, <1>3, <1>4 DEF Looks, On, AllCared

-----------------------------------------------------------------------------
(* Panics                                                                  *)

\* What a step does to the reconcile's copy, the specs, the saved specs, and the creations that wait.
LEMMA CopyStays ==
  ASSUME TypeOK, Course, [Next]_vars, worker' # Idle,
         ~SetVersion, ~PreReconcileChecks, ~PatchInstance, ~HandleActions, ~\E c \in there : Get(c)
  PROVE  worker # Idle /\ worker'.inst = Inst
<1>1. CASE Predicates \/ DeploymentPanic \/ Crash
  BY <1>1, PredicatesWorker DEF DeploymentPanic, Crash, Down, Inst
<1>2. CASE ReconcileManagers \/ ReconcileEnvCM \/ ReconcileConfigCMs
  BY <1>2, ManagersEffects, EnvEffects, ConfigsEffects DEF Goes
<1>3. CASE ReconcileDeployment \/ ReconcileAccess \/ CheckStates
  BY <1>3, DeploymentEffects, AccessEffects, StatesEffects DEF Goes
<1>4. CASE CheckForConfigMapUpdates \/ HandleRestart \/ SaveSpecState
  BY <1>4, UpdatesEffects, RestartEffects, SaveEffects DEF Goes
<1>5. CASE StepFails \/ SetStatus \/ SetStatusConflict
  BY <1>5, FailEffects, SetStatusEffects DEF Goes
<1>6. ASSUME NEW upgrade \in BOOLEAN, OperatorStart(upgrade)
      PROVE  FALSE
  BY <1>6 DEF OperatorStart, Course
<1>7. ASSUME NEW c \in there, PodsStart(c) \/ PodsRun(c) \/ PodsFail(c)
      PROVE  worker' = worker
  BY <1>7 DEF PodsStart, PodsRun, PodsFail, PodsChange
<1>8. ASSUME NEW c \in there, NEW new \in Edits(spec[c]), NEW zone \in {FALSE, new.restart}, Edit(c, new, zone)
      PROVE  worker' = worker
  BY <1>8 DEF Edit
<1>9. CASE UNCHANGED vars
  BY <1>9 DEF vars, Inst
<1>10. CASE worker' = worker
  BY <1>10 DEF Inst
<1> QED
  BY <1>1, <1>2, <1>3, <1>4, <1>5, <1>6, <1>7, <1>8, <1>9, <1>10 DEF Next, Reconcile

LEMMA SpecsStay ==
  ASSUME [Next]_vars, ~PatchInstance, ~HandleActions,
         ~\E c \in there : \E new \in Edits(spec[c]) : \E zone \in {FALSE, new.restart} : Edit(c, new, zone)
  PROVE  spec' = spec
<1>1. CASE Predicates \/ SetStatusConflict \/ Crash \/ StepFails
  BY <1>1 DEF Predicates, CreateFuncNew, CreateFuncRefused, CreateFuncSeen, CreateFuncUnread, UpdateFuncIgnored,
     UpdateFunc, SetStatusConflict, Crash, StepFails, resourceVars
<1>2. CASE SetVersion \/ PreReconcileChecks \/ ReconcileManagers \/ ReconcileEnvCM
           \/ ReconcileConfigCMs \/ ReconcileDeployment \/ DeploymentPanic \/ ReconcileAccess
  BY <1>2 DEF SetVersion, PreReconcileChecks, ReconcileManagers, ReconcileEnvCM,
     ReconcileConfigCMs, ReconcileDeployment, DeploymentPanic, ReconcileAccess, Manage, resourceVars
<1>3. CASE CheckStates \/ CheckForConfigMapUpdates \/ HandleRestart \/ SaveSpecState \/ SetStatus
  BY <1>3 DEF CheckStates, CheckForConfigMapUpdates, HandleRestart, SaveSpecState, SetStatus, resourceVars
<1>4. CASE \E upgrade \in BOOLEAN : OperatorStart(upgrade)
  BY <1>4 DEF OperatorStart
<1>5. CASE \E d \in there : Get(d) \/ PodsStart(d) \/ PodsRun(d) \/ PodsFail(d)
  BY <1>5 DEF Get, PodsStart, PodsRun, PodsFail, PodsChange, resourceVars
<1>6. CASE UNCHANGED vars
  BY <1>6 DEF vars, resourceVars
<1> QED
  BY <1>1, <1>2, <1>3, <1>4, <1>5, <1>6 DEF Next, Reconcile

LEMMA SavedStay ==
  ASSUME [Next]_vars, ~CreateFuncRefused, ~SaveSpecState
  PROVE  saved' = saved
<1>1. CASE Predicates \/ SetStatusConflict \/ Crash \/ StepFails
  BY <1>1 DEF Predicates, CreateFuncNew, CreateFuncSeen, CreateFuncUnread, UpdateFuncIgnored,
     UpdateFunc, SetStatusConflict, Crash, StepFails, resourceVars
<1>2. CASE SetVersion \/ PreReconcileChecks \/ PatchInstance \/ ReconcileManagers \/ ReconcileEnvCM
           \/ ReconcileConfigCMs \/ ReconcileDeployment \/ DeploymentPanic \/ ReconcileAccess
  BY <1>2 DEF SetVersion, PreReconcileChecks, PatchInstance, ReconcileManagers, ReconcileEnvCM,
     ReconcileConfigCMs, ReconcileDeployment, DeploymentPanic, ReconcileAccess, Manage, resourceVars
<1>3. CASE CheckStates \/ CheckForConfigMapUpdates \/ HandleActions \/ HandleRestart \/ SetStatus
  BY <1>3 DEF CheckStates, CheckForConfigMapUpdates, HandleActions, HandleRestart, SetStatus, resourceVars
<1>4. CASE \E upgrade \in BOOLEAN : OperatorStart(upgrade)
  BY <1>4 DEF OperatorStart
<1>5. CASE \E d \in there : Get(d) \/ PodsStart(d) \/ PodsRun(d) \/ PodsFail(d)
  BY <1>5 DEF Get, PodsStart, PodsRun, PodsFail, PodsChange, resourceVars
<1>6. CASE \E d \in there : \E new \in Edits(spec[d]) : \E zone \in {FALSE, new.restart} : Edit(d, new, zone)
  BY <1>6 DEF Edit
<1>7. CASE UNCHANGED vars
  BY <1>7 DEF vars, resourceVars
<1> QED
  BY <1>1, <1>2, <1>3, <1>4, <1>5, <1>6, <1>7 DEF Next, Reconcile

\* A change of a custom resource is notified, or nothing is.
Notified(c, kind, restart) == watch' = watch \/ Notify(c, kind, restart)

LEMMA CreatesStay ==
  ASSUME TypeOK, [Next]_vars, ~\E upgrade \in BOOLEAN : OperatorStart(upgrade)
  PROVE  NoCreates
<1>1. there' = there
  BY NamesKept
<1>2. CASE watch' = watch
  BY <1>2, NoCreatesSame
<1>3. CASE Predicates
  <2>1. watch # <<>> /\ (watch' = Tail(watch) \/ watch' = <<>> \/ CreateFuncRefused)
    BY <1>3, PredicatesCases DEF Take, Down
  <2>2. DOMAIN (<<>>) = {}
    OBVIOUS
  <2> QED
    BY <2>1, <2>2, NoCreatesTaken, NoCreatesRefused DEF NoCreates
<1>4. ASSUME NEW c \in there, NEW kind \in {"spec", "zone", "status"}, NEW restart \in BOOLEAN,
             Notified(c, kind, restart)
      PROVE  NoCreates
  BY <1>1, <1>2, <1>4, NoCreatesNotify DEF Notified
<1>5. CASE SetVersion
  BY <1>4, <1>5, VersionEffects, WorkerFacts DEF Notified
<1>6. CASE PatchInstance
  <2>1. worker # Idle /\ Notified(Con, "spec", Merged.restart)
    BY <1>6, PatchEffects DEF Notified
  <2>2. Con \in there /\ Merged.restart \in BOOLEAN
    BY <2>1, WorkerFacts, MergedFacts, SpecsFacts
  <2> QED
    BY <1>4, <2>1, <2>2
<1>7. CASE HandleActions
  BY <1>4, <1>7, ActionsEffects, WorkerFacts DEF Notified
<1>8. CASE SetStatus \/ SetStatusConflict
  BY <1>4, <1>8, SetStatusEffects, WorkerFacts DEF Notified
<1>9. ASSUME NEW c \in there, NEW new \in Edits(spec[c]), NEW zone \in {FALSE, new.restart}, Edit(c, new, zone)
      PROVE  NoCreates
  <2>1. Notified(c, IF zone THEN "zone" ELSE "spec", new.restart)
    BY <1>9 DEF Edit, Notified
  <2>2. new.restart \in BOOLEAN /\ (IF zone THEN "zone" ELSE "spec") \in {"spec", "zone", "status"}
    BY EditsFacts, SpecsFacts DEF TypeOK
  <2> QED
    BY <1>4, <2>1, <2>2
<1>10. CASE DeploymentPanic \/ Crash
  <2>1. watch' = <<>> /\ DOMAIN (<<>>) = {}
    BY <1>10 DEF DeploymentPanic, Crash, Down
  <2> QED
    BY <2>1 DEF NoCreates
<1>11. CASE PreReconcileChecks \/ ReconcileManagers \/ ReconcileEnvCM \/ ReconcileConfigCMs \/ ReconcileDeployment
            \/ ReconcileAccess \/ CheckStates \/ CheckForConfigMapUpdates \/ HandleRestart \/ SaveSpecState
            \/ StepFails
  BY <1>2, <1>11 DEF PreReconcileChecks, ReconcileManagers, ReconcileEnvCM, ReconcileConfigCMs,
     ReconcileDeployment, ReconcileAccess, Manage, CheckStates, CheckForConfigMapUpdates, HandleRestart,
     SaveSpecState, StepFails
<1>12. CASE \E d \in there : Get(d) \/ PodsStart(d) \/ PodsRun(d) \/ PodsFail(d)
  BY <1>2, <1>12 DEF Get, PodsStart, PodsRun, PodsFail, PodsChange
<1>13. CASE UNCHANGED vars
  BY <1>2, <1>13 DEF vars
<1> QED
  BY <1>3, <1>5, <1>6, <1>7, <1>8, <1>9, <1>10, <1>11, <1>12, <1>13 DEF Next, Reconcile

LEMMA NetworkKept == TypeOK /\ Course /\ NetworkInv /\ [Next]_vars => NetworkInv'
<1> SUFFICES ASSUME TypeOK, Course, NetworkInv, [Next]_vars, "nonetwork" \notin mishaps'
             PROVE  NetworkInv'
  BY DEF NetworkInv
<1>1. there' = there /\ there \subseteq Consoles
  BY NamesKept DEF TypeOK
<1>2. /\ \A c \in there : spec[c].network
      /\ \A c \in Consoles : saved[c] # NoSpec => saved[c].network
      /\ \A i \in DOMAIN watch : watch[i].kind = "create" => watch[i].obj.network
      /\ worker # Idle => Inst.network
  BY MishapsKept DEF NetworkInv
<1>3. spec \in [Consoles -> Specs \cup {NoSpec}] /\ \A c \in there : spec[c] \in Specs
  BY DEF TypeOK
<1>4. \A c \in there : spec'[c].network
  <2>1. CASE PatchInstance
    <3>1. worker # Idle /\ (spec' = [spec EXCEPT ![Con] = Merged] \/ spec' = spec)
      BY <2>1, PatchEffects
    <3>2. Con \in there /\ Merged.network
      BY <1>2, <3>1, MergedFacts, WorkerFacts
    <3> QED
      BY <1>1, <1>2, <1>3, <3>1, <3>2
  <2>2. CASE HandleActions
    <3>1. worker # Idle /\ (spec' = [spec EXCEPT ![Con] = [spec[Con] EXCEPT !.restart = FALSE]] \/ spec' = spec)
      BY <2>2, ActionsEffects
    <3>2. Con \in there /\ [spec[Con] EXCEPT !.restart = FALSE].network
      BY <1>2, <1>3, <3>1, Taken, WorkerFacts
    <3> QED
      BY <1>1, <1>2, <1>3, <3>1, <3>2
  <2>3. ASSUME NEW d \in there, NEW new \in Edits(spec[d]), NEW zone \in {FALSE, new.restart}, Edit(d, new, zone)
        PROVE  \A c \in there : spec'[c].network
    <3>1. spec' = [spec EXCEPT ![d] = new]
      BY <2>3 DEF Edit
    <3>2. new.network
      BY <1>2, <1>3, EditsFacts
    <3> QED
      BY <1>1, <1>2, <1>3, <3>1, <3>2
  <2> QED
    BY <1>2, <2>1, <2>2, <2>3, SpecsStay
<1>5. \A c \in Consoles : saved'[c] # NoSpec => saved'[c].network
  <2>1. saved \in [Consoles -> Specs \cup {NoSpec}]
    BY DEF TypeOK
  <2>2. CASE CreateFuncRefused
    <3>1. saved' = [saved EXCEPT ![Next1.con] = Next1.obj] /\ Next1.obj.network
      <4>1. Next1 = watch[1] /\ 1 \in DOMAIN watch /\ Next1.kind = "create"
        BY <2>2, RefusedWatch, WatchFacts, TypeParts
      <4> QED
        BY <1>2, <2>2, <4>1 DEF CreateFuncRefused
    <3> QED
      BY <1>2, <2>1, <3>1
  <2>3. CASE SaveSpecState
    <3>1. worker # Idle /\ saved' = [saved EXCEPT ![Con] = Inst]
      BY <2>3, SaveEffects
    <3> QED
      BY <1>2, <2>1, <3>1
  <2> QED
    BY <1>2, <2>2, <2>3, SavedStay
<1>6. \A i \in DOMAIN watch' : watch'[i].kind = "create" => watch'[i].obj.network
  <2>1. ASSUME NEW upgrade \in BOOLEAN, OperatorStart(upgrade)
        PROVE  \A i \in DOMAIN watch' : watch'[i].obj.network
    BY <1>2, <2>1, ListFacts
  <2>2. CASE NoCreates
    BY <1>2, <2>2 DEF NoCreates
  <2> QED
    BY <2>1, <2>2, CreatesStay
<1>7. ASSUME worker' # Idle
      PROVE  worker'.inst.network
  <2>1. ASSUME NEW c \in there, Get(c)
        PROVE  worker'.inst.network
    BY <1>2, <2>1, GetEffects
  <2>2. CASE SetVersion
    <3>1. /\ worker # Idle /\ Con \in there
          /\ Goes("checks", Inst, worker.result) \/ Refreshed(spec[Con])
      BY <2>2, VersionEffects, WorkerFacts
    <3> QED
      BY <1>2, <3>1 DEF Goes, Refreshed
  <2>3. CASE PreReconcileChecks
    <3> DEFINE valid == ValidateSpec(Inst)
               new == CreateCouchdbCredentials(CreateSecretsIfRequired(valid))
    <3>1. worker # Idle /\ worker'.inst \in {Inst, new}
      BY <2>3, ChecksEffects DEF Goes
    <3>2. new.network = Inst.network
      BY <3>1, ChecksFacts
    <3> QED
      BY <1>2, <3>1, <3>2
  <2>4. CASE PatchInstance
    <3>1. worker # Idle /\ (worker'.inst = Inst \/ Refreshed(Merged))
      BY <2>4, PatchEffects
    <3>2. Merged.network
      BY <1>2, <3>1, MergedFacts, WorkerFacts
    <3> QED
      BY <1>2, <3>1, <3>2 DEF Refreshed
  <2>5. CASE HandleActions
    <3>1. worker # Idle /\ Con \in there /\ Refreshed(spec'[Con])
      BY <2>5, ActionsEffects, WorkerFacts
    <3> QED
      BY <1>4, <3>1 DEF Refreshed
  <2> QED
    BY <1>2, <1>7, <2>1, <2>2, <2>3, <2>4, <2>5, CopyStays
<1> QED
  BY <1>1, <1>4, <1>5, <1>6, <1>7 DEF NetworkInv, Inst

LEMMA RemoteKept == TypeOK /\ Course /\ RemoteInv /\ [Next]_vars => RemoteInv'
<1> DEFINE R(c) == /\ Remotely(c) => spec[c].conn = Remote
                   /\ On(c) /\ worker.base.conn = Remote => spec[c].conn = Remote
                   /\ On(c) /\ Remotely(c) /\ worker.pc \notin Ending => worker.base.conn = Remote
<1> SUFFICES ASSUME TypeOK, Course, RemoteInv, [Next]_vars, "tolocal" \notin mishaps',
                    NEW c \in Consoles
             PROVE  R(c)'
  BY DEF RemoteInv
<1>1. R(c)
  BY MishapsKept DEF RemoteInv
<1>2. CASE Plain
  BY <1>1, <1>2, PlainSteps DEF SameConnections, Remotely, On, Con
<1>3. CASE PatchInstance
  <2>1. /\ worker # Idle /\ worker.pc = "patch" /\ UNCHANGED objs /\ Goes("save", worker'.inst, "requeue")
        /\ c # Con => spec'[c] = spec[c]
        /\ \/ spec'[Con].conn = spec[Con].conn
           \/ Inst.conn # worker.base.conn /\ spec'[Con].conn = Inst.conn
    BY <1>3, PatchConnections
  <2>2. Inst.conn # worker.base.conn => worker.base.conn # Remote
    BY <2>1 DEF Course, Default, Remote
  <2>3. ASSUME c = Con, Inst.conn # worker.base.conn
        PROVE  ~Remotely(c)
    BY <1>1, <2>1, <2>2, <2>3 DEF On, Ending
  <2> QED
    BY <1>1, <2>1, <2>2, <2>3 DEF Remotely, On, Goes, Con, Ending
<1>4. CASE ReconcileEnvCM
  <2>1. /\ worker # Idle /\ worker.pc = "env" /\ UNCHANGED spec /\ Goes("configs", Inst, worker.result)
        /\ OnlyHere /\ objs'[Con].db = objs[Con].db /\ objs'[Con].dep = objs[Con].dep
    BY <1>4, EnvEffects DEF resourceVars
  <2>2. objs'[c].db = objs[c].db /\ objs'[c].dep = objs[c].dep
    BY <2>1 DEF OnlyHere
  <2> QED
    BY <1>1, <2>1, <2>2 DEF Remotely, On, Goes, Con, Ending
<1>5. ASSUME worker # Idle, worker.pc \in {"deployment", "states"}, UNCHANGED spec, OnlyHere,
             NEW pc, Goes(pc, Inst, worker.result),
             \/ Contents(objs'[Con]) = Contents(objs[Con])
             \/ objs[Con].dep # Absent /\ objs'[Con].db = objs[Con].db
             \/ objs'[Con].db = IF Inst.conn >= 0 /\ objs[Con].db = Default THEN Inst.conn ELSE objs[Con].db
      PROVE  R(c)'
  <2>1. CASE c # Con
    BY <1>1, <1>5, <2>1 DEF OnlyHere, Remotely, On, Goes, Con
  <2>2. CASE c = Con
    <3>1. /\ spec'[c] = spec[c] /\ worker'.base = worker.base /\ worker.pc \notin Ending
          /\ On(c)
      BY <1>5, <2>2 DEF Goes, Ending, On
    <3>2. CASE ~Remotely(c)'
      BY <1>1, <3>1, <3>2 DEF On, Con
    <3>3. CASE Remotely(c)' /\ Remotely(c)
      BY <1>1, <3>1, <3>3
    <3>4. CASE Remotely(c)' /\ ~Remotely(c)
      <4>1. objs'[c].db = IF Inst.conn >= 0 /\ objs[c].db = Default THEN Inst.conn ELSE objs[c].db
        BY <1>5, <2>2, <3>4, ContentsFacts DEF Remotely
      <4>2. objs'[c].db = Default
        BY <3>4 DEF Remotely
      <4>3. worker.base.conn = Inst.conn /\ Inst.conn # Default
        BY <1>5 DEF Course, Early, PreActions, PreManagers
      <4>4. Inst.conn \in Int /\ Inst.conn >= -1
        BY <1>5, WorkerFacts, SpecsFacts
      <4>5. worker.base.conn = Remote
        BY <4>1, <4>2, <4>3, <4>4 DEF Default, Remote
      <4> QED
        BY <1>1, <3>1, <4>5
    <3> QED
      BY <3>2, <3>3, <3>4
  <2> QED
    BY <2>1, <2>2
<1>6. CASE ReconcileDeployment
  <2>1. /\ worker # Idle /\ worker.pc = "deployment" /\ UNCHANGED spec /\ OnlyHere
        /\ Goes("access", Inst, worker.result)
        /\ \/ objs[Con].dep # Absent /\ objs'[Con].db = objs[Con].db
           \/ objs'[Con].db = IF Inst.conn >= 0 /\ objs[Con].db = Default THEN Inst.conn ELSE objs[Con].db
    BY <1>6, DeploymentEffects DEF resourceVars
  <2> QED
    BY <1>5, <2>1
<1>7. CASE CheckStates
  <2>1. /\ worker # Idle /\ worker.pc = "states" /\ UNCHANGED spec /\ OnlyHere
        /\ Goes("cmupdates", Inst, worker.result)
        /\ objs'[Con].db = IF Inst.conn >= 0 /\ objs[Con].db = Default THEN Inst.conn ELSE objs[Con].db
    BY <1>7, StatesEffects DEF resourceVars
  <2> QED
    BY <1>5, <2>1
<1>8. ASSUME NEW d \in there, Get(d)
      PROVE  R(c)'
  <2>1. /\ UNCHANGED <<spec, objs>> /\ worker' # Idle /\ worker'.con = d /\ worker'.base = spec[d]
    BY <1>8, GetEffects DEF resourceVars, clusterVars
  <2> QED
    BY <1>1, <2>1 DEF Remotely, On, Con
<1>9. ASSUME NEW d \in there, NEW new \in Edits(spec[d]), NEW zone \in {FALSE, new.restart}, Edit(d, new, zone)
      PROVE  R(c)'
  <2>1. /\ spec' = [spec EXCEPT ![d] = new] /\ UNCHANGED <<objs, worker>>
        /\ Note(If("refused", zone) \cup If("down", ~up) \cup If("late", d \in taken)
                \cup If("reset", new.conn = Default /\ spec[d].conn # Default)
                \cup If("tolocal", Local(new.conn) /\ ~Local(spec[d].conn)))
    BY <1>9 DEF Edit, clusterVars
  <2>2. ~(Local(new.conn) /\ ~Local(spec[d].conn))
    BY <2>1, IfFacts DEF Note
  <2>3. spec[d] \in Specs /\ new \in Specs /\ spec \in [Consoles -> Specs \cup {NoSpec}]
    BY EditsFacts DEF TypeOK
  <2>4. spec[d].conn = Remote => new.conn = Remote
    <3>1. new.conn \in Int /\ new.conn >= -1
      BY <2>3, SpecsFacts
    <3> QED
      BY <2>2, <3>1 DEF Local, Remote
  <2>5. spec[c].conn = Remote => spec'[c].conn = Remote
    BY <2>1, <2>3, <2>4
  <2> QED
    BY <1>1, <2>1, <2>5 DEF Remotely, On, Con
<1> QED
  BY <1>2, <1>3, <1>4, <1>6, <1>7, <1>8, <1>9, NextCases

\* Where the operator panics and where not.
LEMMA PanicsStay ==
  ASSUME TypeOK, [Next]_vars, ~CreateFuncSeen, ~DeploymentPanic, "panicked" \in mishaps'
  PROVE  "panicked" \in mishaps
<1>1. CASE mishaps' = mishaps
  BY <1>1
<1>2. CASE CreateFuncNew \/ CreateFuncUnread \/ UpdateFunc
  <2>1. \E name \in {"skipped", "outdated"} : mishaps' \subseteq mishaps \cup {name, "failed"}
    BY <1>2, IfFacts DEF CreateFuncNew, CreateFuncUnread, UpdateFunc, Note
  <2> QED
    BY <2>1
<1>3. CASE Crash
  BY <1>3, UnsavedTyped DEF Crash, Note
<1>4. CASE StepFails
  BY <1>4, FailEffects
<1>5. CASE SaveSpecState
  BY <1>5, SaveEffects DEF If
<1>6. CASE SetStatus \/ SetStatusConflict
  <2>1. mishaps' = mishaps \/ mishaps' = mishaps \cup {"conflict"}
    BY <1>6, SetStatusEffects
  <2> QED
    BY <2>1
<1>7. CASE ReconcileManagers
  BY <1>7, ManagersEffects, ReadFacts DEF Flags
<1>8. CASE CheckForConfigMapUpdates
  BY <1>8, UpdatesEffects, ReadFacts DEF Flags
<1>9. CASE HandleActions
  BY <1>9, ActionsEffects, ReadFacts DEF Flags
<1>10. ASSUME NEW c \in there, NEW new \in Edits(spec[c]), NEW zone \in {FALSE, new.restart}, Edit(c, new, zone)
       PROVE  "panicked" \in mishaps
  BY <1>10, IfFacts DEF Edit, Note
<1>11. CASE PreReconcileChecks
  BY <1>11, ChecksEffects
<1>12. CASE CreateFuncRefused \/ UpdateFuncIgnored
  BY <1>12 DEF CreateFuncRefused, UpdateFuncIgnored
<1>13. CASE SetVersion \/ PatchInstance \/ ReconcileEnvCM
            \/ ReconcileConfigCMs \/ ReconcileDeployment \/ ReconcileAccess \/ CheckStates \/ HandleRestart
  BY <1>13 DEF SetVersion, PatchInstance, ReconcileEnvCM, ReconcileConfigCMs, ReconcileDeployment,
     ReconcileAccess, CheckStates, Manage, HandleRestart
<1>14. CASE \E upgrade \in BOOLEAN : OperatorStart(upgrade)
  BY <1>14 DEF OperatorStart
<1>15. ASSUME NEW c \in there, Get(c) \/ PodsStart(c) \/ PodsRun(c)
       PROVE  "panicked" \in mishaps
  BY <1>15 DEF Get, PodsStart, PodsRun
<1>16. ASSUME NEW c \in there, PodsFail(c)
       PROVE  "panicked" \in mishaps
  BY <1>16 DEF PodsFail
<1>17. CASE UNCHANGED vars
  BY <1>17 DEF vars
<1> QED
  BY <1>2, <1>3, <1>4, <1>5, <1>6, <1>7, <1>8, <1>9, <1>10, <1>11, <1>12, <1>13, <1>14, <1>15, <1>16, <1>17
  DEF Next, Predicates, Reconcile

LEMMA PanicKept == TypeOK /\ Course /\ NetworkInv /\ RemoteInv /\ PanicInv /\ [Next]_vars => PanicInv'
<1> SUFFICES ASSUME TypeOK, Course, NetworkInv, RemoteInv, PanicInv, [Next]_vars, "panicked" \in mishaps'
             PROVE  mishaps \cap {"tolocal", "nonetwork"} # {}
  BY MishapsKept DEF PanicInv
<1>1. CASE "panicked" \in mishaps
  BY <1>1 DEF PanicInv
<1>2. CASE CreateFuncSeen /\ "panicked" \notin mishaps
  <2>1. /\ watch # <<>> /\ Next1.kind = "create" /\ saved[Next1.con] # NoSpec
        /\ ~(Next1.obj.network /\ saved[Next1.con].network)
    <3>1. ~Note(If("skipped", ~Applied(Next1.con, Next1.obj))) /\ ~Note({})
      BY <1>2, IfFacts DEF Note
    <3> QED
      BY <1>2, <3>1, SeenCases
  <2>2. Next1 = watch[1] /\ 1 \in DOMAIN watch /\ Next1.con \in Consoles
    BY <2>1, WatchFacts, EventFacts, TypeParts
  <2> QED
    BY <2>1, <2>2 DEF NetworkInv
<1>3. CASE DeploymentPanic
  <2>1. /\ worker # Idle /\ worker.pc = "deployment"
        /\ objs[Con].dep # Absent /\ UpdateDeploymentPanics(objs[Con], Inst)
    BY <1>3 DEF DeploymentPanic, At
  <2>2. Local(Inst.conn) /\ Remotely(Con) /\ On(Con) /\ Con \in Consoles
    BY <2>1, WorkerFacts DEF UpdateDeploymentPanics, UsingRemoteDB, Remotely, On
  <2>3. worker.base.conn = Inst.conn
    BY <2>1 DEF Course, Early, PreActions, PreManagers
  <2>4. Inst.conn # Remote
    BY <2>2 DEF Local, Remote
  <2> QED
    BY <2>1, <2>2, <2>3, <2>4 DEF RemoteInv, Ending
<1> QED
  BY <1>1, <1>2, <1>3, PanicsStay

-----------------------------------------------------------------------------
(* Requests to restart                                                     *)

\* Events that wait go on waiting.
Longer == \A i \in DOMAIN watch : i \in DOMAIN watch' /\ watch'[i] = watch[i]

LEMMA LongerNotified ==
  ASSUME TypeOK, there' = there, NEW c \in there, NEW kind \in {"spec", "zone", "status"}, NEW restart \in BOOLEAN,
         Notified(c, kind, restart)
  PROVE  /\ Longer
         /\ Notify(c, kind, restart) =>
               \E i \in DOMAIN watch' : watch'[i].con = c /\ watch'[i].kind = kind /\ watch'[i].restart = restart
<1>1. c \in Consoles /\ WatchOK
  BY TypeParts DEF TypeOK
<1>2. CASE watch' = watch /\ ~Notify(c, kind, restart)
  BY <1>2 DEF Longer
<1>3. CASE Notify(c, kind, restart)
  <2>1. /\ \A i \in DOMAIN watch : i \in DOMAIN watch' /\ watch'[i] = watch[i]
        /\ Len(watch) + 1 \in DOMAIN watch'
        /\ watch'[Len(watch) + 1].con = c /\ watch'[Len(watch) + 1].kind = kind
        /\ watch'[Len(watch) + 1].restart = restart
    BY <1>1, <1>3, NotifyFacts
  <2> QED
    BY <2>1 DEF Longer
<1> QED
  BY <1>2, <1>3 DEF Notified

LEMMA WaitsLonger == \A c : Longer /\ Waits(c) => Waits(c)'
  BY DEF Longer, Waits

\* The worker is to serve a request, or will come again.
Serving == worker.pc \in PreActions \/ worker.result # "done"

LEMMA ServingGoes ==
  ASSUME NEW c, NEW pc, NEW inst, NEW result, Goes(pc, inst, result), spec'[c] = spec[c],
         pc \in PreActions \/ result # "done" \/ (worker.pc \notin PreActions /\ result = worker.result)
  PROVE  Current(c) /\ Serving => Current(c)' /\ Serving'
  BY DEF Goes, Current, Serving, On, Con

LEMMA RequestHeld ==
  ASSUME NEW c, Waits(c) \/ ToServe(c), Waits(c) => Waits(c)',
         <<c, "restart">> \in due => <<c, "restart">> \in due',
         c \in queue => c \in queue',
         Current(c) /\ Serving => c \in queue' \/ (Current(c)' /\ Serving')
  PROVE  Waits(c)' \/ ToServe(c)'
  BY DEF ToServe, Serving

\* An event that is taken sets the flag that it asks for.
LEMMA RequestTaken ==
  ASSUME TypeOK, there' = there, NEW c, Waits(c) \/ ToServe(c), watch # <<>>,
         NEW flags \in SUBSET Flags, NEW enqueue \in BOOLEAN, Take(flags, enqueue), spec' = spec,
         Next1.kind = "spec" /\ Next1.restart => "restart" \in flags /\ enqueue
  PROVE  Waits(c)' \/ ToServe(c)'
<1>1. /\ watch' = Tail(watch) /\ worker' = worker /\ queue \subseteq queue' /\ due \subseteq due'
      /\ enqueue => Next1.con \in queue'
      /\ "restart" \in flags => <<Next1.con, "restart">> \in due'
  <2>1. /\ watch' = Tail(watch) /\ worker' = worker /\ queue \subseteq queue' /\ due \subseteq due'
        /\ enqueue => Next1.con \in queue'
        /\ \A f \in {"spec", "restart"} : f \in flags => <<Next1.con, f>> \in due'
    BY TakeFacts
  <2>2. "restart" \in {"spec", "restart"}
    OBVIOUS
  <2> QED
    BY <2>1, <2>2, Zenon
<1>2. Next1 = watch[1] /\ \A i \in DOMAIN watch : i # 1 => i - 1 \in DOMAIN Tail(watch) /\ Tail(watch)[i - 1] = watch[i]
  BY WatchFacts, TypeParts
<1>3. Current(c) /\ Serving => Current(c)' /\ Serving'
  BY <1>1 DEF Current, On, Con, Serving
<1>4. CASE ToServe(c)
  BY <1>1, <1>3, <1>4 DEF ToServe, Serving
<1>5. ASSUME NEW i \in DOMAIN watch, watch[i].con = c, watch[i].kind = "spec", watch[i].restart
      PROVE  Waits(c)' \/ ToServe(c)'
  <2>1. CASE i = 1
    BY <1>1, <1>2, <1>5, <2>1 DEF ToServe
  <2>2. CASE i # 1
    <3>1. i - 1 \in DOMAIN watch' /\ watch'[i - 1] = watch[i]
      BY <1>1, <1>2, <2>2
    <3> QED
      BY <1>5, <3>1 DEF Waits
  <2> QED
    BY <2>1, <2>2
<1> QED
  BY <1>4, <1>5 DEF Waits

LEMMA RequestPredicates ==
  ASSUME TypeOK, there' = there, NEW c, c \notin taken, Waits(c) \/ ToServe(c), Predicates, "panicked" \notin mishaps'
  PROVE  (Waits(c)' \/ ToServe(c)') /\ up' = up /\ spec' = spec
<1>1. watch # <<>> /\ up
  BY PredicatesWorker
<1>2. CASE CreateFuncNew \/ CreateFuncUnread \/ UpdateFuncIgnored
  <2>1. /\ Next1.kind # "spec" /\ spec' = spec
        /\ \E enqueue \in BOOLEAN : Take({}, enqueue)
    BY <1>2 DEF CreateFuncNew, CreateFuncUnread, UpdateFuncIgnored, Delivered, resourceVars
  <2> QED
    BY <1>1, <2>1, RequestTaken DEF Take
<1>3. CASE UpdateFunc
  <2> DEFINE flags == {"spec"} \cup If("restart", Next1.restart)
  <2>1. Take(flags, TRUE) /\ spec' = spec
    BY <1>3 DEF UpdateFunc, resourceVars
  <2>2. flags \in SUBSET Flags /\ (Next1.restart => "restart" \in flags)
    BY IfFacts DEF Flags
  <2> HIDE DEF flags
  <2> QED
    BY <1>1, <2>1, <2>2, RequestTaken DEF Take
<1>4. CASE CreateFuncSeen
  <2>1. /\ Next1.kind = "create" /\ spec' = spec
        /\ Take({}, FALSE) \/ Take(Differences(Next1.obj, saved[Next1.con]), TRUE)
           \/ "panicked" \in mishaps'
    BY <1>4, SeenCases DEF resourceVars, Note
  <2>2. \E flags \in SUBSET Flags, enqueue \in BOOLEAN : Take(flags, enqueue)
    BY <2>1, DifferencesTyped
  <2> QED
    BY <1>1, <2>1, <2>2, RequestTaken DEF Take
<1>5. CASE CreateFuncRefused
  <2>1. /\ spec' = spec /\ worker' = worker /\ queue' = queue /\ due' = due /\ up' = up
    BY <1>5 DEF CreateFuncRefused
  <2>2. /\ Next1 = watch[1] /\ Next1.con \in taken
        /\ \A i \in DOMAIN watch : i # 1 => i - 1 \in DOMAIN watch' /\ watch'[i - 1] = watch[i]
    BY <1>5, RefusedWatch
  <2>3. Waits(c) => Waits(c)'
    BY <2>2 DEF Waits
  <2>4. Current(c) /\ Serving => Current(c)' /\ Serving'
    BY <2>1 DEF Current, On, Con, Serving
  <2> QED
    BY <2>1, <2>3, <2>4, RequestHeld
<1> QED
  BY <1>2, <1>3, <1>4, <1>5 DEF Predicates

LEMMA RequestOnward ==
  ASSUME NEW c, Waits(c) \/ ToServe(c), NEW pc, NEW inst, NEW result, Goes(pc, inst, result),
         spec'[c] = spec[c], Longer, queue \subseteq queue',
         <<c, "restart">> \in due => <<c, "restart">> \in due',
         pc \in PreActions \/ result # "done" \/ (worker.pc \notin PreActions /\ result = worker.result)
  PROVE  Waits(c)' \/ ToServe(c)'
<1>1. Current(c) /\ Serving => Current(c)' /\ Serving'
  BY ServingGoes
<1>2. Waits(c) => Waits(c)'
  BY WaitsLonger
<1> QED
  BY <1>1, <1>2, RequestHeld

\* Flags that are read for another purpose stay due.
LEMMA RequestUnread ==
  ASSUME TypeOK, worker # Idle, NEW c, NEW f \in SUBSET Flags, NEW need \in Flags \ {"restart"}, Read(f, need)
  PROVE  <<c, "restart">> \in due => <<c, "restart">> \in due'
<1>1. due' = due \ Serves(need) /\ \A d \in Serves(need) : d = <<Con, need>>
  BY ReadFacts, ServesFacts
<1> QED
  BY <1>1

LEMMA RequestCourse ==
  ASSUME TypeOK, Course, there' = there, NEW c \in Consoles, Waits(c) \/ ToServe(c),
         \/ SetVersion \/ PreReconcileChecks \/ ReconcileManagers \/ ReconcileEnvCM \/ ReconcileConfigCMs
         \/ ReconcileDeployment \/ ReconcileAccess \/ CheckStates \/ CheckForConfigMapUpdates \/ HandleRestart
         \/ SaveSpecState
  PROVE  Waits(c)' \/ ToServe(c)'
<1>1. watch' = watch => Longer
  BY DEF Longer
<1>2. CASE SetVersion
  <2>1. /\ worker # Idle /\ UNCHANGED <<spec, due, queue>> /\ Notified(Con, "status", FALSE)
        /\ Goes("checks", Inst, worker.result) \/ Goes("save", worker'.inst, "requeue")
    BY <1>2, VersionEffects DEF historyVars, Notified
  <2>2. Longer
    BY <2>1, LongerNotified, WorkerFacts
  <2> QED
    BY <2>1, <2>2, RequestOnward DEF PreActions, PreManagers, Early
<1>3. CASE PreReconcileChecks
  <2> DEFINE new == CreateCouchdbCredentials(CreateSecretsIfRequired(ValidateSpec(Inst)))
  <2>1. /\ worker # Idle /\ UNCHANGED <<spec, queue, watch>> /\ due \subseteq due'
        /\ \/ Goes("save", Inst, "error") \/ Goes("patch", new, worker.result)
           \/ Goes("managers", new, worker.result)
    BY <1>3, ChecksEffects DEF resourceVars
  <2> HIDE DEF new
  <2> QED
    BY <1>1, <2>1, RequestOnward DEF PreActions, PreManagers, Early
<1>4. CASE ReconcileManagers
  <2>1. /\ worker # Idle /\ UNCHANGED <<spec, queue, watch>> /\ Goes("env", Inst, worker.result)
        /\ Read({"spec"}, "spec")
    BY <1>4, ManagersEffects DEF resourceVars
  <2>2. <<c, "restart">> \in due => <<c, "restart">> \in due'
    BY <2>1, RequestUnread DEF Flags
  <2> QED
    BY <1>1, <2>1, <2>2, RequestOnward DEF PreActions
<1>5. CASE ReconcileEnvCM
  BY <1>1, <1>5, EnvEffects, RequestOnward DEF resourceVars, historyVars, PreActions
<1>6. CASE ReconcileConfigCMs
  BY <1>1, <1>6, ConfigsEffects, RequestOnward DEF resourceVars, historyVars, PreActions
<1>7. CASE ReconcileDeployment
  BY <1>1, <1>7, DeploymentEffects, RequestOnward DEF resourceVars, historyVars, PreActions
<1>8. CASE ReconcileAccess
  BY <1>1, <1>8, AccessEffects, RequestOnward DEF resourceVars, historyVars, PreActions
<1>9. CASE CheckStates
  BY <1>1, <1>9, StatesEffects, RequestOnward DEF resourceVars, historyVars, PreActions
<1>10. CASE CheckForConfigMapUpdates
  <2>1. /\ worker # Idle /\ UNCHANGED <<spec, queue, watch>> /\ Goes("actions", Inst, worker.result)
        /\ Read({"deployer", "console", "env"}, "env")
    BY <1>10, UpdatesEffects DEF resourceVars
  <2>2. <<c, "restart">> \in due => <<c, "restart">> \in due'
    BY <2>1, RequestUnread DEF Flags
  <2> QED
    BY <1>1, <2>1, <2>2, RequestOnward DEF PreActions
<1>11. CASE HandleRestart
  <2>1. /\ worker.pc \notin PreActions /\ UNCHANGED <<spec, watch, due>> /\ queue \subseteq queue'
        /\ Goes("save", Inst, worker.result)
    BY <1>11, RestartEffects DEF resourceVars, PreActions, PreManagers, Early
  <2> QED
    BY <1>1, <2>1, RequestOnward
<1>12. CASE SaveSpecState
  <2>1. /\ worker.pc \notin PreActions /\ UNCHANGED <<spec, watch, due, queue>>
        /\ Goes("status", Inst, worker.result)
    BY <1>12, SaveEffects DEF historyVars, PreActions, PreManagers, Early
  <2> QED
    BY <1>1, <2>1, RequestOnward
<1> QED
  BY <1>2, <1>3, <1>4, <1>5, <1>6, <1>7, <1>8, <1>9, <1>10, <1>11, <1>12

LEMMA RequestPatch ==
  ASSUME TypeOK, there' = there, NEW c \in Consoles, spec[c].restart => Waits(c) \/ ToServe(c), PatchInstance,
         spec'[c].restart
  PROVE  Waits(c)' \/ ToServe(c)'
<1>1. /\ worker # Idle /\ UNCHANGED <<queue, due>>
      /\ Goes("save", worker'.inst, "requeue")
      /\ \/ spec' = [spec EXCEPT ![Con] = Merged] /\ Notify(Con, "spec", Merged.restart)
         \/ UNCHANGED <<spec, watch>>
  BY PatchEffects
<1>2. Con \in there /\ Merged.restart \in BOOLEAN /\ Notified(Con, "spec", Merged.restart)
  BY <1>1, WorkerFacts, MergedFacts, SpecsFacts DEF Notified
<1>3. Longer
  BY <1>1, <1>2, LongerNotified
<1>4. CASE spec'[c] = spec[c]
  BY <1>1, <1>3, <1>4, RequestOnward
<1>5. CASE spec'[c] # spec[c]
  <2>1. c = Con /\ spec'[c] = Merged /\ Notify(Con, "spec", Merged.restart)
    BY <1>1, <1>5 DEF TypeOK
  <2>2. \E i \in DOMAIN watch' : watch'[i].con = Con /\ watch'[i].kind = "spec" /\ watch'[i].restart = Merged.restart
    BY <1>2, <2>1, LongerNotified
  <2> QED
    BY <2>1, <2>2 DEF Waits
<1> QED
  BY <1>4, <1>5

LEMMA RequestActions ==
  ASSUME TypeOK, Course, there' = there, NEW c \in Consoles, spec[c].restart => Waits(c) \/ ToServe(c), HandleActions,
         spec'[c].restart, "wiped" \notin mishaps'
  PROVE  Waits(c)' \/ ToServe(c)'
<1>1. /\ worker # Idle /\ worker.pc = "actions" /\ queue' = queue
      /\ Read({"restart"}, "restart")
      /\ Goes("restart", worker'.inst, worker.result)
      /\ \/ /\ update["restart"] /\ Inst.restart
            /\ spec' = [spec EXCEPT ![Con] = [spec[Con] EXCEPT !.restart = FALSE]]
            /\ Notify(Con, "spec", FALSE)
         \/ /\ ~(update["restart"] /\ Inst.restart)
            /\ UNCHANGED <<spec, watch>>
  BY ActionsEffects
<1>2. Con \in there /\ spec[Con] \in Specs /\ Con \in Consoles
  BY <1>1, WorkerFacts
<1>3. ~[spec[Con] EXCEPT !.restart = FALSE].restart
  BY <1>2, Taken
<1>4. spec'[c] = spec[c]
  BY <1>1, <1>2, <1>3 DEF TypeOK
<1>5. Longer
  BY <1>1, <1>2, LongerNotified DEF Notified
<1>6. /\ due' = due \ Serves("restart") /\ (\A d \in Serves("restart") : d = <<Con, "restart">>)
      /\ Serves("restart") # {} => update["restart"]
  BY <1>1, ReadFacts, ServesFacts DEF Flags
<1>7. Waits(c) => Waits(c)'
  BY <1>5, WaitsLonger
<1>8. CASE c # Con
  BY <1>1, <1>4, <1>6, <1>7, <1>8, RequestHeld DEF Current, On
<1>9. CASE c = Con /\ spec' = spec
  <2>1. worker.base = spec[Con] => Serves("restart") = {}
    <3>1. worker.base = spec[Con] => Inst.restart
      <4>1. Inst.restart = worker.base.restart
        BY <1>1 DEF Course, PreActions
      <4>2. spec[Con].restart
        BY <1>4, <1>9
      <4> QED
        BY <4>1, <4>2
    <3>2. ~(update["restart"] /\ Inst.restart)
      <4> DEFINE t == [spec[Con] EXCEPT !.restart = FALSE]
      <4>1. spec' = [spec EXCEPT ![Con] = t] => spec'[Con] = t
        BY <1>2 DEF TypeOK
      <4>2. ~t.restart /\ spec'[Con].restart
        BY <1>3, <1>9
      <4>3. (update["restart"] /\ Inst.restart) => spec' = [spec EXCEPT ![Con] = t]
        BY <1>1
      <4> HIDE DEF t
      <4> QED
        BY <4>1, <4>2, <4>3
    <3> QED
      BY <1>6, <3>1, <3>2
  <2>2. worker.base # spec[Con] => Serves("restart") = {}
    BY DEF Serves
  <2>3. due' = due
    BY <1>6, <2>1, <2>2
  <2>4. worker.base = spec[Con] => <<Con, "restart">> \notin due
    BY <2>1 DEF Serves
  <2>5. CASE worker.base = spec[Con]
    BY <1>4, <1>7, <1>9, <2>4, <2>5 DEF ToServe
  <2>6. CASE worker.base # spec[Con]
    BY <1>1, <1>4, <1>7, <1>9, <2>3, <2>6, RequestHeld DEF Current
  <2> QED
    BY <2>5, <2>6
<1>10. CASE c = Con /\ spec' # spec
  BY <1>1, <1>2, <1>3, <1>4, <1>10 DEF TypeOK
<1> QED
  BY <1>8, <1>9, <1>10

LEMMA RequestKept == TypeOK /\ Course /\ RequestInv /\ [Next]_vars => RequestInv'
<1> DEFINE M == {"wiped", "refused", "down", "crashed", "panicked", "failed"}
<1> SUFFICES ASSUME TypeOK, Course, RequestInv, [Next]_vars, mishaps' \cap M = {}
             PROVE  up' /\ \A c \in there' \ taken' : spec'[c].network /\ spec'[c].restart =>
                               Waits(c)' \/ ToServe(c)'
  BY DEF RequestInv
<1>1. there' = there /\ taken' = taken
  BY NamesKept
<1>2. /\ up
      /\ \A c \in there \ taken : spec[c].network /\ spec[c].restart => Waits(c) \/ ToServe(c)
  BY MishapsKept DEF RequestInv
<1>3. ~Crash /\ ~StepFails /\ ~DeploymentPanic /\ ~\E upgrade \in BOOLEAN : OperatorStart(upgrade)
  <2>1. Crash => "crashed" \in mishaps'
    BY DEF Crash, Note
  <2>2. StepFails => "failed" \in mishaps'
    BY FailEffects
  <2>3. DeploymentPanic => "panicked" \in mishaps'
    BY DEF DeploymentPanic, Note
  <2> QED
    BY <1>2, <2>1, <2>2, <2>3 DEF OperatorStart
<1>4. up'
  <2>1. CASE Predicates
    BY <2>1, <1>2, PredicatesWorker, SeenCases DEF Note, Take
  <2>2. CASE \/ SetVersion \/ PreReconcileChecks \/ PatchInstance \/ ReconcileManagers \/ ReconcileEnvCM
             \/ ReconcileConfigCMs \/ ReconcileDeployment \/ ReconcileAccess
    BY <1>2, <2>2 DEF SetVersion, PreReconcileChecks, PatchInstance, ReconcileManagers, ReconcileEnvCM,
       ReconcileConfigCMs, ReconcileDeployment, ReconcileAccess, Manage
  <2>3. CASE \/ CheckStates \/ CheckForConfigMapUpdates \/ HandleActions \/ HandleRestart \/ SaveSpecState
             \/ SetStatus \/ SetStatusConflict
    BY <1>2, <2>3 DEF CheckStates, CheckForConfigMapUpdates, HandleActions, HandleRestart, SaveSpecState,
       SetStatus, SetStatusConflict
  <2>4. CASE \E d \in there : Get(d) \/ PodsStart(d) \/ PodsRun(d) \/ PodsFail(d)
    BY <1>2, <2>4 DEF Get, PodsStart, PodsRun, PodsFail, PodsChange
  <2>5. CASE \E d \in there : \E new \in Edits(spec[d]) : \E zone \in {FALSE, new.restart} : Edit(d, new, zone)
    BY <1>2, <2>5 DEF Edit
  <2>6. CASE UNCHANGED vars
    BY <1>2, <2>6 DEF vars
  <2> QED
    BY <1>3, <2>1, <2>2, <2>3, <2>4, <2>5, <2>6 DEF Next, Reconcile
<1>5. ASSUME NEW c \in there \ taken, spec'[c].network, spec'[c].restart
      PROVE  Waits(c)' \/ ToServe(c)'
  <2>1. c \in Consoles /\ spec \in [Consoles -> Specs \cup {NoSpec}] /\ spec[c] \in Specs
    BY DEF TypeOK
  <2>2. ASSUME spec'[c] = spec[c]
        PROVE  Waits(c) \/ ToServe(c)
    BY <1>2, <1>5, <2>2
  <2>3. CASE Predicates
    <3>1. spec' = spec
      BY <2>3 DEF Predicates, CreateFuncNew, CreateFuncRefused, CreateFuncSeen, CreateFuncUnread,
         UpdateFuncIgnored, UpdateFunc, resourceVars
    <3> QED
      BY <1>1, <2>1, <2>2, <2>3, <3>1, RequestPredicates
  <2>4. CASE \/ SetVersion \/ PreReconcileChecks \/ ReconcileManagers \/ ReconcileEnvCM \/ ReconcileConfigCMs
             \/ ReconcileDeployment \/ ReconcileAccess \/ CheckStates \/ CheckForConfigMapUpdates \/ HandleRestart
             \/ SaveSpecState
    <3>1. spec' = spec
      BY <2>4 DEF SetVersion, PreReconcileChecks, ReconcileManagers, ReconcileEnvCM, ReconcileConfigCMs,
         ReconcileDeployment, ReconcileAccess, Manage, CheckStates, CheckForConfigMapUpdates, HandleRestart,
         SaveSpecState, resourceVars
    <3> QED
      BY <1>1, <2>1, <2>2, <2>4, <3>1, RequestCourse
  <2>5. CASE PatchInstance
    <3>1. spec[c].network
      <4>1. worker # Idle /\ (spec' = [spec EXCEPT ![Con] = Merged] \/ spec' = spec)
        BY <2>5, PatchEffects
      <4>2. Merged.network = spec[Con].network
        BY <4>1, MergedFacts
      <4> QED
        BY <1>5, <2>1, <4>1, <4>2
    <3> QED
      BY <1>1, <1>2, <1>5, <2>1, <2>5, <3>1, RequestPatch
  <2>6. CASE HandleActions
    <3>1. spec[c].network
      <4>1. worker # Idle /\ (spec' = [spec EXCEPT ![Con] = [spec[Con] EXCEPT !.restart = FALSE]] \/ spec' = spec)
        BY <2>6, ActionsEffects
      <4>2. [spec[Con] EXCEPT !.restart = FALSE].network = spec[Con].network
        BY <4>1, WorkerFacts, Taken
      <4> QED
        BY <1>5, <2>1, <4>1, <4>2
    <3> QED
      BY <1>1, <1>2, <1>5, <2>1, <2>6, <3>1, RequestActions
  <2>7. CASE SetStatus \/ SetStatusConflict
    <3>1. /\ worker # Idle /\ worker.pc = "status" /\ UNCHANGED <<spec, due>>
          /\ queue' = queue \cup If(Con, worker.result # "done") /\ Notified(Con, "status", FALSE)
      BY <2>7, SetStatusEffects DEF historyVars, Notified
    <3>2. Longer
      BY <1>1, <3>1, LongerNotified, WorkerFacts
    <3>3. Current(c) /\ Serving => c \in queue'
      BY <3>1, IfFacts DEF Current, On, Serving, PreActions, PreManagers, Early
    <3> QED
      BY <2>2, <3>1, <3>2, <3>3, WaitsLonger, RequestHeld
  <2>8. ASSUME NEW d \in there, Get(d)
        PROVE  Waits(c)' \/ ToServe(c)'
    <3>1. /\ worker = Idle /\ queue' = queue \ {d} /\ UNCHANGED <<spec, watch, due>>
          /\ worker' # Idle /\ worker'.pc = "version" /\ worker'.con = d /\ worker'.base = spec[d]
      BY <2>8, GetEffects DEF resourceVars, historyVars
    <3>2. CASE Waits(c)
      BY <3>1, <3>2 DEF Waits
    <3>3. CASE ToServe(c)
      BY <3>1, <3>3 DEF ToServe, Current, On, Con, PreActions, PreManagers, Early
    <3> QED
      BY <2>2, <3>1, <3>2, <3>3
  <2>9. ASSUME NEW d \in there, PodsStart(d) \/ PodsRun(d) \/ PodsFail(d)
        PROVE  Waits(c)' \/ ToServe(c)'
    <3>1. UNCHANGED <<spec, watch, due, worker>> /\ queue \subseteq queue'
      BY <2>9 DEF PodsStart, PodsRun, PodsFail, PodsChange, resourceVars, historyVars
    <3>2. Waits(c) => Waits(c)'
      BY <3>1 DEF Waits
    <3> QED
      BY <2>2, <3>1, <3>2, RequestHeld DEF Current, On, Con, Serving
  <2>10. ASSUME NEW d \in there, NEW new \in Edits(spec[d]), NEW zone \in {FALSE, new.restart}, Edit(d, new, zone)
         PROVE  Waits(c)' \/ ToServe(c)'
    <3>1. /\ spec' = [spec EXCEPT ![d] = new] /\ UNCHANGED <<due, queue, worker>>
          /\ ~zone /\ Notify(d, "spec", new.restart)
      <4>1. zone => "refused" \in mishaps'
        BY <2>10, IfFacts DEF Edit, Note
      <4> QED
        BY <1>2, <2>10, <4>1 DEF Edit
    <3>2. new.restart \in BOOLEAN /\ d \in Consoles
      BY EditsFacts, SpecsFacts DEF TypeOK
    <3>3. /\ Longer
          /\ \E i \in DOMAIN watch' : watch'[i].con = d /\ watch'[i].kind = "spec" /\ watch'[i].restart = new.restart
      BY <1>1, <3>1, <3>2, LongerNotified DEF Notified
    <3>4. CASE c = d
      BY <1>5, <2>1, <3>1, <3>3, <3>4 DEF Waits
    <3>5. CASE c # d
      <4>1. spec'[c] = spec[c]
        BY <2>1, <3>1, <3>5
      <4> QED
        BY <2>2, <3>1, <3>3, <4>1, WaitsLonger, RequestHeld DEF Current, On, Con, Serving
    <3> QED
      BY <3>4, <3>5
  <2>11. CASE UNCHANGED vars
    <3>1. UNCHANGED <<spec, watch, due, worker, queue>>
      BY <2>11 DEF vars, resourceVars, historyVars
    <3> QED
      BY <2>2, <3>1 DEF Waits, ToServe, Current, On, Con
  <2> QED
    BY <1>3, <2>3, <2>4, <2>5, <2>6, <2>7, <2>8, <2>9, <2>10, <2>11 DEF Next, Reconcile
<1> QED
  BY <1>1, <1>4, <1>5

-----------------------------------------------------------------------------
(* Edits: the events                                                       *)

LEMMA AheadLonger ==
  ASSUME NEW c, Longer, queue \subseteq queue', <<c, "spec">> \in due => <<c, "spec">> \in due'
  PROVE  (Edited(c) => Edited(c)') /\ (Ahead(c) => Ahead(c)') /\ (Listed(c) => Listed(c)')
<1>1. (Edited(c) => Edited(c)') /\ (Listed(c) => Listed(c)')
  BY DEF Longer, Edited, Listed
<1> QED
  BY <1>1 DEF Ahead

\* An event is taken: those of other consoles wait on, and so do those of its console that are of
\* another kind.
LEMMA EventsTaken ==
  ASSUME TypeOK, watch # <<>>, watch' = Tail(watch) \/ CreateFuncRefused, NEW c
  PROVE  /\ Edited(c) /\ (c # Next1.con \/ Next1.kind # "spec") => Edited(c)'
         /\ Listed(c) /\ (c # Next1.con \/ Next1.kind # "create") => Listed(c)'
<1>1. /\ Next1 = watch[1]
      /\ \A i \in DOMAIN watch : i # 1 => i - 1 \in DOMAIN watch' /\ watch'[i - 1] = watch[i]
  BY WatchFacts, RefusedWatch, TypeParts
<1> QED
  BY <1>1 DEF Edited, Listed

LEMMA AheadTaken ==
  ASSUME TypeOK, there' = there, watch # <<>>, NEW c,
         NEW flags \in SUBSET Flags, NEW enqueue \in BOOLEAN, Take(flags, enqueue),
         Next1.kind = "spec" => "spec" \in flags /\ enqueue
  PROVE  /\ Ahead(c) => Ahead(c)'
         /\ c = Next1.con /\ "spec" \in flags /\ enqueue => Ahead(c)'
         /\ due \subseteq due' /\ queue \subseteq queue' /\ worker' = worker
<1>1. /\ watch' = Tail(watch) /\ worker' = worker /\ queue \subseteq queue' /\ due \subseteq due'
      /\ enqueue => Next1.con \in queue'
      /\ \A f \in {"spec", "restart"} : f \in flags => <<Next1.con, f>> \in due'
  BY TakeFacts
<1>2. c = Next1.con /\ "spec" \in flags /\ enqueue => Ahead(c)'
  <2>1. "spec" \in flags => <<Next1.con, "spec">> \in due'
    <3>1. "spec" \in {"spec", "restart"}
      OBVIOUS
    <3> QED
      BY <1>1, <3>1, Zenon
  <2> QED
    BY <1>1, <2>1 DEF Ahead
<1>3. Edited(c) /\ (c # Next1.con \/ Next1.kind # "spec") => Edited(c)'
  BY <1>1, EventsTaken
<1> QED
  BY <1>1, <1>2, <1>3 DEF Ahead

LEMMA BehindTaken ==
  ASSUME TypeOK, watch # <<>>, watch' = Tail(watch) \/ CreateFuncRefused, spec' = spec, Behind
  PROVE  Behind'
<1>1. /\ \A i \in DOMAIN watch : i # 1 => i - 1 \in DOMAIN watch' /\ watch'[i - 1] = watch[i]
      /\ \A i \in DOMAIN watch' : watch'[i].kind = "create" => i + 1 \in DOMAIN watch /\ watch'[i] = watch[i + 1]
      /\ \A i \in DOMAIN watch : i \in Int
      /\ \A i \in DOMAIN watch' : i \in Int /\ i >= 1
  <2>1. CASE watch' = Tail(watch)
    BY <2>1, WatchFacts, TypeParts
  <2>2. CASE CreateFuncRefused
    <3> DEFINE e == Changed(Next1.con, "status", FALSE)
    <3>1. \A i \in DOMAIN watch' : \/ i + 1 \in DOMAIN watch /\ watch'[i] = watch[i + 1]
                                   \/ watch'[i] = e
      BY <2>2, RefusedWatch
    <3>2. e.kind # "create"
      BY DEF Changed
    <3> HIDE DEF e
    <3>3. DOMAIN watch = 1..Len(watch) /\ Len(watch) \in Nat /\ DOMAIN watch' = DOMAIN watch
      BY <2>2, RefusedWatch
    <3> QED
      BY <2>2, <3>1, <3>2, <3>3, RefusedWatch
  <2> QED
    BY <2>1, <2>2
<1> SUFFICES ASSUME NEW i \in DOMAIN watch', watch'[i].kind = "create", watch'[i].obj # spec[watch'[i].con]
             PROVE  \E j \in DOMAIN watch' : j > i /\ watch'[j].con = watch'[i].con /\ watch'[j].kind = "spec"
  BY DEF Behind
<1>2. i + 1 \in DOMAIN watch /\ watch'[i] = watch[i + 1]
  BY <1>1
<1>3. PICK j \in DOMAIN watch : j > i + 1 /\ watch[j].con = watch[i + 1].con /\ watch[j].kind = "spec"
  BY <1>2 DEF Behind
<1>4. j - 1 \in DOMAIN watch' /\ watch'[j - 1] = watch[j] /\ j - 1 > i
  BY <1>1, <1>3
<1> QED
  BY <1>2, <1>3, <1>4

LEMMA BehindSame == Behind /\ watch' = watch /\ spec' = spec => Behind'
  BY DEF Behind

\* A spec that changes is notified.
LEMMA BehindNotified ==
  ASSUME TypeOK, there' = there, Behind,
         NEW c \in there, NEW kind \in {"spec", "zone", "status"}, NEW restart \in BOOLEAN,
         Notified(c, kind, restart),
         \A d \in there : spec'[d] = spec[d] \/ (d = c /\ kind = "spec" /\ Notify(c, kind, restart))
  PROVE  Behind'
<1>1. \A i \in DOMAIN watch : watch[i].con \in there
  BY DEF TypeOK
<1>2. CASE watch' = watch /\ ~Notify(c, kind, restart)
  BY <1>1, <1>2 DEF Behind
<1>3. CASE Notify(c, kind, restart)
  <2>1. c \in Consoles /\ WatchOK
    BY TypeParts DEF TypeOK
  <2> DEFINE n == Len(watch) + 1
  <2>2. /\ DOMAIN watch = 1..Len(watch) /\ Len(watch) \in Nat
        /\ \A i \in DOMAIN watch : i \in DOMAIN watch' /\ watch'[i] = watch[i]
        /\ n \in DOMAIN watch' /\ watch'[n].con = c /\ watch'[n].kind = kind
        /\ \A i \in DOMAIN watch' : i \in DOMAIN watch \/ i = n
    BY <1>3, <2>1, NotifyFacts
  <2>3. \A i \in DOMAIN watch : n > i
    BY <2>2
  <2> HIDE DEF n
  <2> SUFFICES ASSUME NEW i \in DOMAIN watch', watch'[i].kind = "create", watch'[i].obj # spec'[watch'[i].con]
               PROVE  \E j \in DOMAIN watch' : j > i /\ watch'[j].con = watch'[i].con /\ watch'[j].kind = "spec"
    BY DEF Behind
  <2>4. i \in DOMAIN watch /\ watch'[i] = watch[i]
    BY <2>2
  <2>5. CASE spec'[watch[i].con] = spec[watch[i].con]
    BY <2>2, <2>4, <2>5 DEF Behind
  <2>6. CASE watch[i].con = c /\ kind = "spec"
    BY <2>2, <2>3, <2>4, <2>6
  <2> QED
    BY <1>1, <2>4, <2>5, <2>6
<1> QED
  BY <1>2, <1>3 DEF Notified

\* A console that has been listed as it was earlier has a change to come.
LEMMA BehindFirst ==
  ASSUME TypeOK, Behind, watch # <<>>, watch' = Tail(watch), Next1.kind = "create",
         NEW c, c = Next1.con, Next1.obj # spec[c]
  PROVE  Edited(c)'
<1>1. /\ Next1 = watch[1] /\ 1 \in DOMAIN watch
      /\ \A i \in DOMAIN watch : i # 1 => i - 1 \in DOMAIN watch' /\ watch'[i - 1] = watch[i]
  BY WatchFacts, TypeParts
<1>2. PICK j \in DOMAIN watch : j > 1 /\ watch[j].con = Next1.con /\ watch[j].kind = "spec"
  BY <1>1 DEF Behind
<1>3. j - 1 \in DOMAIN watch' /\ watch'[j - 1] = watch[j]
  BY <1>1, <1>2
<1> QED
  BY <1>2, <1>3 DEF Edited

-----------------------------------------------------------------------------
(* Edits: the objects                                                      *)

\* Nothing of c's spec and objects changes.
Untouched(c) == spec'[c] = spec[c] /\ Contents(objs'[c]) = Contents(objs[c])

LEMMA UntouchedFacts ==
  ASSUME NEW c, Untouched(c)
  PROVE  /\ Applied(c, spec[c]) => Applied(c, spec[c])'
         /\ MadeFrom(c, spec[c]) => MadeFrom(c, spec[c])'
         /\ objs'[c].env = objs[c].env /\ objs'[c].deployer = objs[c].deployer
         /\ objs'[c].console = objs[c].console /\ objs'[c].dep = objs[c].dep
<1>1. /\ spec'[c] = spec[c]
      /\ objs'[c].env = objs[c].env /\ objs'[c].deployer = objs[c].deployer
      /\ objs'[c].console = objs[c].console /\ objs'[c].dep = objs[c].dep
  BY ContentsFacts DEF Untouched
<1> QED
  BY <1>1 DEF Applied, MadeFrom

\* The events and the flag of c are not forgotten.
Remembered(c) ==
    /\ Ahead(c) => Ahead(c)'
    /\ Listed(c) => Listed(c)'
    /\ <<c, "spec">> \in due => <<c, "spec">> \in due'
    /\ queue \subseteq queue'

\* The worker is with another console, or goes nowhere.
LEMMA CaredApart ==
  ASSUME NEW c, Cared(c), Untouched(c), Remembered(c), worker' = worker \/ (~On(c) /\ ~On(c)')
  PROVE  Cared(c)'
<1>1. /\ Applied(c, spec[c]) => Applied(c, spec[c])'
      /\ MadeFrom(c, spec[c]) => MadeFrom(c, spec[c])'
      /\ objs'[c].env = objs[c].env /\ objs'[c].deployer = objs[c].deployer
      /\ objs'[c].console = objs[c].console /\ objs'[c].dep = objs[c].dep
      /\ spec'[c] = spec[c]
  BY UntouchedFacts DEF Untouched
<1>2. CASE Ahead(c) \/ Listed(c)
  BY <1>2 DEF Cared, Remembered
<1>3. CASE <<c, "spec">> \in due /\ Current(c) /\ (worker.pc \in PreManagers \/ worker.result # "done")
  <2>1. worker' = worker
    BY <1>3 DEF Current
  <2>2. <<c, "spec">> \in due' /\ Current(c)'
    BY <1>1, <1>3, <2>1 DEF Current, On, Con, Remembered
  <2> QED
    BY <1>3, <2>1, <2>2 DEF Cared
<1>4. CASE Applied(c, spec[c]) /\ ~On(c)
  BY <1>1, <1>4 DEF Cared, On, Con
<1>5. CASE InHand(c)
  <2>1. worker' = worker
    BY <1>5 DEF InHand, Current
  <2>2. InHand(c)'
    BY <1>1, <1>5, <2>1 DEF InHand, Current, On, Con, Written
  <2> QED
    BY <2>2 DEF Cared
<1>6. CASE (c \in queue \/ Again(c)) /\ MadeFrom(c, spec[c])
  <2>1. c \in queue' \/ Again(c)'
    BY <1>1, <1>6 DEF Again, Current, On, Con, Remembered
  <2> QED
    BY <1>1, <1>6, <2>1 DEF Cared
<1> QED
  BY <1>2, <1>3, <1>4, <1>5, <1>6 DEF Cared

\* The worker goes on and comes past no object that it has to write.
LEMMA CaredOnward ==
  ASSUME NEW c, Cared(c), Untouched(c), Remembered(c), worker # Idle,
         NEW pc, NEW inst, Goes(pc, inst, worker.result), worker'.upd = worker.upd,
         worker.pc \in PreManagers => pc \in PreManagers,
         worker.pc \in BeforeEnv => pc \in BeforeEnv,
         worker.pc \in BeforeConfigs => pc \in BeforeConfigs,
         worker.pc \in BeforeStates => pc \in BeforeStates,
         pc \in {"access", "states"} => worker.pc \in {"access", "states"}
  PROVE  Cared(c)'
<1>1. /\ Applied(c, spec[c]) => Applied(c, spec[c])'
      /\ MadeFrom(c, spec[c]) => MadeFrom(c, spec[c])'
      /\ objs'[c].env = objs[c].env /\ objs'[c].deployer = objs[c].deployer
      /\ objs'[c].console = objs[c].console /\ objs'[c].dep = objs[c].dep
      /\ spec'[c] = spec[c]
  BY UntouchedFacts DEF Untouched
<1>2. /\ (On(c) <=> On(c)') /\ (Current(c) => Current(c)')
  BY <1>1 DEF On, Current, Goes, Con
<1>3. CASE Ahead(c) \/ Listed(c)
  BY <1>3 DEF Cared, Remembered
<1>4. CASE <<c, "spec">> \in due /\ Current(c) /\ (worker.pc \in PreManagers \/ worker.result # "done")
  BY <1>2, <1>4 DEF Cared, Goes, Remembered
<1>5. CASE Applied(c, spec[c]) /\ ~On(c)
  BY <1>1, <1>2, <1>5 DEF Cared
<1>6. CASE InHand(c)
  <2>1. Current(c)' /\ worker'.result = "done" /\ worker'.pc = pc
    BY <1>2, <1>6 DEF InHand, Goes
  <2>2. Written(objs[c].env, spec[c].conn, BeforeEnv)'
    BY <1>1, <1>6, <2>1 DEF InHand, Written, BeforeEnv
  <2>3. Written(objs[c].deployer, spec[c].rev["deployer"], BeforeConfigs)'
    BY <1>1, <1>6, <2>1 DEF InHand, Written, BeforeConfigs
  <2>4. Written(objs[c].console, spec[c].rev["console"], BeforeConfigs)'
    BY <1>1, <1>6, <2>1 DEF InHand, Written, BeforeConfigs
  <2>5. Written(objs[c].dep, spec[c].rev["pod"], BeforeStates)'
    BY <1>1, <1>6, <2>1 DEF InHand, Written, BeforeStates
  <2>6. InHand(c)'
    BY <2>1, <2>2, <2>3, <2>4, <2>5 DEF InHand
  <2> QED
    BY <2>6 DEF Cared
<1>7. CASE (c \in queue \/ Again(c)) /\ MadeFrom(c, spec[c])
  <2>1. c \in queue' \/ Again(c)'
    BY <1>2, <1>7 DEF Again, Goes, Remembered
  <2> QED
    BY <1>1, <1>7, <2>1 DEF Cared
<1> QED
  BY <1>3, <1>4, <1>5, <1>6, <1>7 DEF Cared

\* An object that a worker without the flag has not written is missing.
LEMMA InHandMade ==
  ASSUME NEW c, InHand(c), ~worker.upd
  PROVE  MadeFrom(c, spec[c])
  BY DEF InHand, Written, MadeFrom

\* The worker ends before it has come to the managers, and comes again.
LEMMA CaredAgain ==
  ASSUME NEW c, Cared(c), Untouched(c), Remembered(c), worker # Idle, ~worker.upd,
         NEW inst, NEW result, result # "done", Goes("save", inst, result)
  PROVE  Cared(c)'
<1>1. /\ Applied(c, spec[c]) => Applied(c, spec[c])'
      /\ MadeFrom(c, spec[c]) => MadeFrom(c, spec[c])'
      /\ spec'[c] = spec[c]
  BY UntouchedFacts DEF Untouched
<1>2. /\ (On(c) <=> On(c)') /\ (Current(c) => Current(c)' /\ Again(c)')
  BY <1>1 DEF On, Current, Again, Goes, Con
<1>3. CASE Ahead(c) \/ Listed(c)
  BY <1>3 DEF Cared, Remembered
<1>4. CASE <<c, "spec">> \in due /\ Current(c) /\ (worker.pc \in PreManagers \/ worker.result # "done")
  BY <1>2, <1>4 DEF Cared, Goes, Remembered
<1>5. CASE Applied(c, spec[c]) /\ ~On(c)
  BY <1>1, <1>2, <1>5 DEF Cared
<1>6. CASE InHand(c)
  <2>1. MadeFrom(c, spec[c]) /\ Current(c)
    BY <1>6, InHandMade DEF InHand
  <2> QED
    BY <1>1, <1>2, <2>1 DEF Cared
<1>7. CASE (c \in queue \/ Again(c)) /\ MadeFrom(c, spec[c])
  <2>1. c \in queue' \/ Again(c)'
    BY <1>2, <1>7 DEF Again, Remembered
  <2> QED
    BY <1>1, <1>7, <2>1 DEF Cared
<1> QED
  BY <1>3, <1>4, <1>5, <1>6, <1>7 DEF Cared

\* The worker writes objects of its console.
LEMMA CaredWrites ==
  ASSUME NEW c, Cared(c), c = Con, worker # Idle, worker.result = "done", worker.pc \notin PreManagers,
         Current(c) \/ Ahead(c), spec'[c] = spec[c], Remembered(c),
         NEW pc, NEW inst, Goes(pc, inst, "done"),
         Current(c) /\ MadeFrom(c, spec[c]) => MadeFrom(c, spec[c])',
         InHand(c) => InHand(c)'
  PROVE  Cared(c)'
<1>1. CASE Ahead(c) \/ Listed(c)
  BY <1>1 DEF Cared, Remembered
<1>2. CASE ~Ahead(c) /\ ~Listed(c)
  <2>1. Current(c)
    BY <1>2
  <2>2. ~Again(c) /\ On(c)
    BY <2>1 DEF Again, Current
  <2>3. InHand(c) \/ (c \in queue /\ MadeFrom(c, spec[c]))
    BY <1>2, <2>2 DEF Cared
  <2> QED
    BY <2>1, <2>3 DEF Cared, Remembered
<1> QED
  BY <1>1, <1>2

-----------------------------------------------------------------------------
(* Edits are kept                                                          *)

EditSafe == mishaps' \cap {"wiped", "skipped", "refused", "failed", "panicked"} = {}

LEMMA EditDown ==
  ASSUME TypeOK, there' = there, Down
  PROVE  EditOK'
<1>1. DOMAIN watch' = {} /\ worker' = Idle /\ up' = FALSE
  BY DownFacts
<1> QED
  BY <1>1 DEF EditOK, Behind, Looks, On

\* An event is taken; one that is a creation leaves its console cared for.
LEMMA EditTaken ==
  ASSUME TypeOK, there' = there, taken' = taken, up, EditOK, watch # <<>>,
         NEW flags \in SUBSET Flags, NEW enqueue \in BOOLEAN, Take(flags, enqueue),
         UNCHANGED <<spec, objs>>,
         Next1.kind = "spec" => "spec" \in flags /\ enqueue,
         \A c \in there \ taken : c = Next1.con /\ Next1.kind = "create" /\ Cared(c) => Cared(c)'
  PROVE  EditOK'
<1>1. /\ watch' = Tail(watch) /\ worker' = worker /\ up' = up
      /\ queue \subseteq queue' /\ due \subseteq due'
  BY TakeFacts
<1>2. \A c : Ahead(c) => Ahead(c)'
  BY AheadTaken
<1>3. Behind'
  BY <1>1, BehindTaken DEF EditOK
<1>4. Looks'
  BY <1>1, <1>2 DEF EditOK, Looks, On, Current, Con
<1>5. ASSUME NEW c \in there \ taken, Cared(c)
      PROVE  Cared(c)'
  <2>1. CASE c = Next1.con /\ Next1.kind = "create"
    BY <1>5, <2>1
  <2>2. CASE c # Next1.con \/ Next1.kind # "create"
    <3>1. Listed(c) => Listed(c)'
      BY <1>1, <2>2, EventsTaken
    <3>2. Remembered(c) /\ Untouched(c)
      BY <1>1, <1>2, <3>1 DEF Remembered, Untouched
    <3> QED
      BY <1>1, <1>5, <3>2, CaredApart
  <2> QED
    BY <2>1, <2>2
<1> QED
  BY <1>1, <1>3, <1>4, <1>5 DEF EditOK, AllCared

LEMMA EditPredicates ==
  ASSUME TypeOK, there' = there, taken' = taken, EditOK, EditSafe, Predicates
  PROVE  EditOK'
<1>1. watch # <<>> /\ up /\ Behind /\ Looks
  BY PredicatesWorker DEF EditOK
<1>2. UNCHANGED <<spec, objs>>
  BY DEF Predicates, CreateFuncNew, CreateFuncRefused, CreateFuncSeen, CreateFuncUnread, UpdateFuncIgnored,
     UpdateFunc, resourceVars, clusterVars
<1>3. CASE CreateFuncNew
  <2>1. /\ Next1.kind = "create" /\ Take({}, TRUE)
        /\ ~MadeFrom(Next1.con, Next1.obj) => "skipped" \in mishaps'
    BY <1>3, IfFacts DEF CreateFuncNew, Delivered, Note
  <2>2. ASSUME NEW c \in there \ taken, c = Next1.con
        PROVE  Cared(c)'
    <3>1. MadeFrom(c, Next1.obj) /\ watch' = Tail(watch) /\ c \in queue'
      BY <1>1, <2>1, <2>2, TakeFacts DEF EditSafe
    <3>2. CASE Next1.obj = spec[c]
      BY <1>2, <3>1, <3>2 DEF Cared, MadeFrom
    <3>3. CASE Next1.obj # spec[c]
      BY <1>1, <2>1, <2>2, <3>1, <3>3, BehindFirst DEF Cared, Ahead
    <3> QED
      BY <3>2, <3>3
  <2> QED
    BY <1>1, <1>2, <2>1, <2>2, EditTaken
<1>4. CASE CreateFuncUnread
  BY <1>4 DEF CreateFuncUnread, Note, EditSafe
<1>5. CASE UpdateFuncIgnored
  <2>1. Take({}, FALSE) /\ Next1.kind \notin {"spec", "create"}
    BY <1>5 DEF UpdateFuncIgnored, Delivered
  <2> QED
    BY <1>1, <1>2, <2>1, EditTaken
<1>6. CASE UpdateFunc
  <2> DEFINE flags == {"spec"} \cup If("restart", Next1.restart)
  <2>1. Take(flags, TRUE) /\ Next1.kind = "spec"
    BY <1>6 DEF UpdateFunc, Delivered
  <2>2. flags \in SUBSET Flags /\ "spec" \in flags
    BY IfFacts DEF Flags
  <2> HIDE DEF flags
  <2> QED
    BY <1>1, <1>2, <2>1, <2>2, EditTaken
<1>7. CASE CreateFuncSeen
  <2>1. Next1.kind = "create"
    BY <1>7, SeenCases
  <2>2. CASE Take({}, FALSE) /\ Note(If("skipped", ~Applied(Next1.con, Next1.obj)))
    <3>1. ASSUME NEW c \in there \ taken, c = Next1.con
          PROVE  Cared(c)'
      <4>1. Applied(c, Next1.obj) /\ watch' = Tail(watch) /\ worker' = worker
        BY <1>1, <2>2, <3>1, TakeFacts, IfFacts DEF EditSafe, Note
      <4>2. CASE Next1.obj # spec[c]
        BY <1>1, <2>1, <3>1, <4>1, <4>2, BehindFirst DEF Cared, Ahead
      <4>3. CASE Next1.obj = spec[c] /\ Ahead(c)
        BY <1>1, <2>1, <2>2, <4>3, AheadTaken DEF Cared
      <4>4. CASE Next1.obj = spec[c] /\ ~Ahead(c)
        <5>1. On(c) => Current(c)
          BY <1>1, <4>4 DEF Looks, TypeOK
        <5>2. worker # Idle => worker.result \in {"done", "requeue", "error"}
          BY WorkerFacts
        <5>3. CASE ~On(c)
          BY <1>2, <4>1, <4>4, <5>3 DEF Cared, Applied, On, Con
        <5>4. CASE On(c) /\ worker.result = "done"
          BY <1>2, <4>1, <4>4, <5>1, <5>4 DEF Cared, InHand, Current, On, Con, Applied, Written
        <5>5. CASE On(c) /\ worker.result # "done"
          BY <1>2, <4>1, <4>4, <5>1, <5>5 DEF Cared, Again, Current, On, Con, Applied, MadeFrom
        <5> QED
          BY <5>3, <5>4, <5>5
      <4> QED
        BY <4>2, <4>3, <4>4
    <3> QED
      BY <1>1, <1>2, <2>1, <2>2, <3>1, EditTaken
  <2>3. CASE Take(Differences(Next1.obj, saved[Next1.con]), TRUE)
    <3> DEFINE flags == Differences(Next1.obj, saved[Next1.con])
    <3>1. flags \in SUBSET Flags /\ "spec" \in flags
      BY DifferencesTyped DEF Differences
    <3> HIDE DEF flags
    <3>2. Take(flags, TRUE)
      BY <2>3 DEF flags
    <3>3. ASSUME NEW c \in there \ taken, c = Next1.con
          PROVE  Cared(c)'
      BY <1>1, <2>1, <3>1, <3>2, <3>3, AheadTaken DEF Cared
    <3> QED
      BY <1>1, <1>2, <2>1, <3>1, <3>2, <3>3, EditTaken
  <2>4. CASE Down
    BY <2>4, EditDown
  <2> QED
    BY <1>7, <2>2, <2>3, <2>4, SeenCases
<1>8. CASE CreateFuncRefused
  <2>1. worker' = worker /\ queue' = queue /\ due' = due /\ up' = up
    BY <1>8 DEF CreateFuncRefused
  <2>2. Next1.con \in taken /\ Next1.kind = "create"
    BY <1>8, RefusedWatch
  <2>3. \A c : Ahead(c) => Ahead(c)'
    BY <1>1, <1>8, <2>1, <2>2, EventsTaken DEF Ahead
  <2>4. Behind'
    BY <1>1, <1>2, <1>8, BehindTaken
  <2>5. Looks'
    BY <1>1, <1>2, <2>1, <2>3 DEF Looks, On, Current, Con
  <2>6. ASSUME NEW c \in there \ taken, Cared(c)
        PROVE  Cared(c)'
    <3>1. Listed(c) => Listed(c)'
      BY <1>1, <1>8, <2>2, EventsTaken
    <3>2. Remembered(c) /\ Untouched(c)
      BY <1>2, <2>1, <2>3, <3>1 DEF Remembered, Untouched
    <3> QED
      BY <2>1, <2>6, <3>2, CaredApart
  <2> QED
    BY <1>1, <1>2, <2>1, <2>4, <2>5, <2>6 DEF EditOK, AllCared
<1> QED
  BY <1>3, <1>4, <1>5, <1>6, <1>7, <1>8 DEF Predicates

\* The worker goes on.
LEMMA EditGoes ==
  ASSUME TypeOK, there' = there, taken' = taken, EditOK, worker # Idle,
         NEW pc, NEW inst, NEW result, Goes(pc, inst, result), Behind',
         pc \in PreManagers => worker.pc \in PreManagers /\ worker'.upd = worker.upd,
         \A c \in Consoles : (spec'[c] = spec[c] /\ (Ahead(c) => Ahead(c)' \/ Current(c))) \/ Ahead(c)',
         \A c \in there \ taken : spec'[c].network => spec[c].network,
         \A c \in there \ taken : Cared(c) => Cared(c)'
  PROVE  EditOK'
<1>1. up /\ Looks /\ AllCared
  BY WorkerFacts DEF EditOK
<1>2. ASSUME NEW c \in Consoles, On(c)'
      PROVE  Current(c)' \/ Ahead(c)'
  <2>1. On(c) /\ worker'.base = worker.base
    BY <1>2 DEF On, Goes, Con
  <2>2. CASE Ahead(c)'
    BY <2>2
  <2>3. CASE spec'[c] = spec[c] /\ (Ahead(c) => Ahead(c)' \/ Current(c))
    BY <1>1, <1>2, <2>1, <2>3 DEF Looks, Current
  <2> QED
    BY <2>2, <2>3
<1>3. worker' # Idle /\ worker'.pc \in PreManagers => ~worker'.upd
  BY <1>1 DEF Looks, Goes
<1>4. AllCared'
  BY <1>1 DEF AllCared
<1> QED
  BY <1>2, <1>3, <1>4 DEF EditOK, Looks

\* What happens to the events and the flags of all consoles.
RememberedAll == \A c : Remembered(c)

LEMMA LongerRemembers ==
  ASSUME TypeOK, there' = there, watch' = watch \/ Notified(Con, "status", FALSE), worker # Idle,
         queue \subseteq queue', \A c : <<c, "spec">> \in due => <<c, "spec">> \in due'
  PROVE  RememberedAll
<1>1. Con \in there
  BY WorkerFacts
<1>2. Longer
  BY <1>1, LongerNotified DEF Longer
<1> QED
  BY <1>2, AheadLonger DEF RememberedAll, Remembered

LEMMA BehindLonger ==
  ASSUME TypeOK, there' = there, watch' = watch \/ Notified(Con, "status", FALSE), worker # Idle, spec' = spec, Behind
  PROVE  Behind'
<1>1. Con \in there
  BY WorkerFacts
<1> QED
  BY <1>1, BehindNotified, BehindSame

LEMMA EditOnward ==
  ASSUME TypeOK, there' = there, taken' = taken, EditOK, worker # Idle,
         NEW pc, NEW inst, Goes(pc, inst, worker.result), worker'.upd = worker.upd,
         spec' = spec, SameContents \/ UNCHANGED objs, watch' = watch \/ Notified(Con, "status", FALSE),
         queue \subseteq queue', \A c : <<c, "spec">> \in due => <<c, "spec">> \in due',
         pc \in PreManagers => worker.pc \in PreManagers,
         worker.pc \in PreManagers => pc \in PreManagers,
         worker.pc \in BeforeEnv => pc \in BeforeEnv,
         worker.pc \in BeforeConfigs => pc \in BeforeConfigs,
         worker.pc \in BeforeStates => pc \in BeforeStates,
         pc \in {"access", "states"} => worker.pc \in {"access", "states"}
  PROVE  EditOK'
<1>1. RememberedAll
  BY LongerRemembers
<1>2. Behind'
  BY BehindLonger DEF EditOK
<1>3. \A c \in Consoles : Untouched(c)
  BY DEF Untouched, SameContents
<1>4. ASSUME NEW c \in there \ taken, Cared(c)
      PROVE  Cared(c)'
  <2>1. Untouched(c) /\ Remembered(c)
    BY <1>1, <1>3 DEF RememberedAll, TypeOK
  <2> QED
    BY <1>4, <2>1, CaredOnward
<1> QED
  BY <1>1, <1>2, <1>4, EditGoes DEF RememberedAll, Remembered

LEMMA EditAgain ==
  ASSUME TypeOK, there' = there, taken' = taken, EditOK, worker # Idle, worker.pc \in PreManagers,
         NEW inst, NEW result, result # "done", Goes("save", inst, result),
         spec' = spec, SameContents \/ UNCHANGED objs, watch' = watch \/ Notified(Con, "status", FALSE),
         queue \subseteq queue', \A c : <<c, "spec">> \in due => <<c, "spec">> \in due'
  PROVE  EditOK'
<1>1. RememberedAll
  BY LongerRemembers
<1>2. Behind' /\ ~worker.upd
  BY BehindLonger DEF EditOK, Looks
<1>3. \A c \in Consoles : Untouched(c)
  BY DEF Untouched, SameContents
<1>4. ASSUME NEW c \in there \ taken, Cared(c)
      PROVE  Cared(c)'
  <2>1. Untouched(c) /\ Remembered(c)
    BY <1>1, <1>3 DEF RememberedAll, TypeOK
  <2> QED
    BY <1>2, <1>4, <2>1, CaredAgain
<1>5. "save" \notin PreManagers
  BY DEF PreManagers, Early
<1> QED
  BY <1>1, <1>2, <1>4, <1>5, EditGoes DEF RememberedAll, Remembered

\* The worker writes the spec of its console: the change is notified.
LEMMA EditWritten ==
  ASSUME TypeOK, there' = there, taken' = taken, EditOK, worker # Idle,
         NEW pc, NEW inst, NEW result, Goes(pc, inst, result), pc \notin PreManagers,
         NEW new, spec' = [spec EXCEPT ![Con] = new], new.network => spec[Con].network,
         NEW restart \in BOOLEAN, Notify(Con, "spec", restart), UNCHANGED objs,
         queue \subseteq queue', \A c : <<c, "spec">> \in due => <<c, "spec">> \in due'
  PROVE  EditOK'
<1>1. Con \in there /\ spec \in [Consoles -> Specs \cup {NoSpec}] /\ there \subseteq Consoles
  BY WorkerFacts DEF TypeOK
<1>2. Notified(Con, "spec", restart)
  BY DEF Notified
<1>3. /\ Longer
      /\ \E i \in DOMAIN watch' : watch'[i].con = Con /\ watch'[i].kind = "spec" /\ watch'[i].restart = restart
  BY <1>1, <1>2, LongerNotified
<1>4. \A c : c = Con => Ahead(c)'
  BY <1>3 DEF Ahead, Edited
<1>5. \A c : Remembered(c)
  BY <1>3, AheadLonger DEF Remembered
<1>6. Behind'
  BY <1>1, <1>2, BehindNotified DEF EditOK
<1>7. \A c \in Consoles : c # Con => Untouched(c)
  BY <1>1 DEF Untouched
<1>8. ASSUME NEW c \in there \ taken, Cared(c)
      PROVE  Cared(c)'
  <2>1. CASE c = Con
    BY <1>4, <2>1 DEF Cared
  <2>2. CASE c # Con
    BY <1>1, <1>5, <1>7, <1>8, <2>2, CaredApart DEF On, Goes, Con
  <2> QED
    BY <2>1, <2>2
<1>9. \A c \in Consoles : (spec'[c] = spec[c] /\ (Ahead(c) => Ahead(c)')) \/ Ahead(c)'
  BY <1>1, <1>4, <1>5 DEF Remembered
<1>10. \A c \in there \ taken : spec'[c].network => spec[c].network
  BY <1>1
<1> QED
  BY <1>6, <1>8, <1>9, <1>10, EditGoes

LEMMA EditCourse ==
  ASSUME TypeOK, Course, there' = there, taken' = taken, EditOK,
         \/ SetVersion \/ PreReconcileChecks \/ PatchInstance \/ ReconcileAccess
         \/ CheckForConfigMapUpdates \/ HandleActions \/ HandleRestart \/ SaveSpecState
  PROVE  EditOK'
<1> USE DEF PreManagers, Early, BeforeEnv, BeforeConfigs, BeforeDeployment, BeforeStates
<1>1. CASE SetVersion
  <2>1. /\ worker # Idle /\ worker.pc = "version" /\ UNCHANGED <<spec, due, queue, objs>>
        /\ (watch' = watch \/ Notified(Con, "status", FALSE)) /\ worker'.upd = worker.upd
        /\ Goes("checks", Inst, worker.result) \/ Goes("save", worker'.inst, "requeue")
    BY <1>1, VersionEffects DEF historyVars, clusterVars, Notified
  <2>2. watch' = watch \/ Notified(Con, "status", FALSE)
    BY <2>1
  <2>3. CASE Goes("checks", Inst, worker.result)
    BY <1>1, <2>1, <2>2, <2>3, EditOnward, VersionEffects
  <2>4. CASE Goes("save", worker'.inst, "requeue")
    BY <2>1, <2>2, <2>4, EditAgain
  <2> QED
    BY <2>1, <2>3, <2>4
<1>2. CASE PreReconcileChecks
  <2> DEFINE new == CreateCouchdbCredentials(CreateSecretsIfRequired(ValidateSpec(Inst)))
  <2>1. /\ worker # Idle /\ worker.pc = "checks" /\ UNCHANGED <<spec, queue, watch>> /\ due \subseteq due'
        /\ SameContents /\ worker'.upd = worker.upd
        /\ \/ Goes("save", Inst, "error") \/ Goes("patch", new, worker.result)
           \/ Goes("managers", new, worker.result)
    BY <1>2, ChecksEffects DEF resourceVars
  <2> HIDE DEF new
  <2>2. CASE Goes("save", Inst, "error")
    BY <2>1, <2>2, EditAgain
  <2>3. CASE Goes("patch", new, worker.result)
    BY <2>1, <2>3, EditOnward
  <2>4. CASE Goes("managers", new, worker.result)
    BY <2>1, <2>4, EditOnward
  <2> QED
    BY <2>1, <2>2, <2>3, <2>4
<1>3. CASE PatchInstance
  <2>1. /\ worker # Idle /\ worker.pc = "patch" /\ UNCHANGED <<queue, due, objs>>
        /\ Goes("save", worker'.inst, "requeue")
        /\ \/ spec' = [spec EXCEPT ![Con] = Merged] /\ Notify(Con, "spec", Merged.restart)
           \/ UNCHANGED <<spec, watch>>
    BY <1>3, PatchEffects DEF clusterVars
  <2>2. Merged.network = spec[Con].network /\ Merged.restart \in BOOLEAN
    BY <2>1, MergedFacts, SpecsFacts
  <2>3. CASE spec' = [spec EXCEPT ![Con] = Merged] /\ Notify(Con, "spec", Merged.restart)
    BY <2>1, <2>2, <2>3, EditWritten
  <2>4. CASE UNCHANGED <<spec, watch>>
    BY <2>1, <2>4, EditAgain
  <2> QED
    BY <2>1, <2>3, <2>4
<1>4. CASE ReconcileAccess
  <2>1. /\ worker # Idle /\ worker.pc = "access" /\ UNCHANGED <<spec, due, queue, watch>>
        /\ SameContents /\ worker'.upd = worker.upd /\ Goes("states", Inst, worker.result)
    BY <1>4, AccessEffects DEF historyVars, resourceVars
  <2> QED
    BY <2>1, EditOnward
<1>5. CASE CheckForConfigMapUpdates
  <2>1. /\ worker # Idle /\ worker.pc = "cmupdates" /\ UNCHANGED <<spec, queue, watch, objs>>
        /\ worker'.upd = worker.upd /\ Goes("actions", Inst, worker.result)
        /\ Read({"deployer", "console", "env"}, "env")
    BY <1>5, UpdatesEffects DEF resourceVars
  <2>2. due' = due \ Serves("env") /\ \A d \in Serves("env") : d = <<Con, "env">>
    BY <2>1, ReadFacts, ServesFacts DEF Flags
  <2> QED
    BY <2>1, <2>2, EditOnward
<1>6. CASE HandleActions
  <2>1. /\ worker # Idle /\ worker.pc = "actions" /\ UNCHANGED <<queue, objs>>
        /\ Read({"restart"}, "restart") /\ worker'.upd = worker.upd
        /\ Goes("restart", worker'.inst, worker.result)
        /\ \/ /\ spec' = [spec EXCEPT ![Con] = [spec[Con] EXCEPT !.restart = FALSE]]
              /\ Notify(Con, "spec", FALSE)
           \/ UNCHANGED <<spec, watch>>
    <3>1. worker'.upd = worker.upd
      BY <1>6, ActionsCases
    <3> QED
      BY <1>6, <3>1, ActionsEffects
  <2>2. due' = due \ Serves("restart") /\ \A d \in Serves("restart") : d = <<Con, "restart">>
    BY <2>1, ReadFacts, ServesFacts DEF Flags
  <2>3. CASE /\ spec' = [spec EXCEPT ![Con] = [spec[Con] EXCEPT !.restart = FALSE]]
             /\ Notify(Con, "spec", FALSE)
    <3> DEFINE new == [spec[Con] EXCEPT !.restart = FALSE]
    <3>1. new.network = spec[Con].network
      BY <2>1, WorkerFacts, Taken
    <3>2. spec' = [spec EXCEPT ![Con] = new]
      BY <2>3
    <3> HIDE DEF new
    <3> QED
      BY <2>1, <2>2, <2>3, <3>1, <3>2, EditWritten
  <2>4. CASE UNCHANGED <<spec, watch>>
    BY <2>1, <2>2, <2>4, EditOnward
  <2> QED
    BY <2>1, <2>3, <2>4
<1>7. CASE HandleRestart
  <2>1. /\ worker # Idle /\ worker.pc = "restart" /\ UNCHANGED <<spec, due, watch, objs>> /\ queue \subseteq queue'
        /\ worker'.upd = worker.upd /\ Goes("save", Inst, worker.result)
    BY <1>7, RestartEffects DEF resourceVars
  <2> QED
    BY <2>1, EditOnward
<1>8. CASE SaveSpecState
  <2>1. /\ worker # Idle /\ worker.pc = "save" /\ UNCHANGED <<spec, due, watch, objs, queue>>
        /\ Goes("status", Inst, worker.result)
    BY <1>8, SaveEffects DEF clusterVars, historyVars
  <2>2. worker'.upd = worker.upd
    BY <1>8, <2>1, GotoFacts DEF SaveSpecState, PCs
  <2> QED
    BY <2>1, <2>2, EditOnward
<1> QED
  BY <1>1, <1>2, <1>3, <1>4, <1>5, <1>6, <1>7, <1>8

\* The worker reads the flag of its console, and will write what the flag is for.
LEMMA EditManagers ==
  ASSUME TypeOK, Course, there' = there, taken' = taken, EditOK, EditSafe, ReconcileManagers
  PROVE  EditOK'
<1>1. /\ worker # Idle /\ worker.pc = "managers" /\ UNCHANGED <<spec, watch, queue>>
      /\ Read({"spec"}, "spec") /\ SameContents
      /\ Goes("env", Inst, worker.result) /\ worker'.upd = update["spec"]
  BY ManagersEffects DEF resourceVars
<1>2. worker.result = "done" /\ ~worker.upd /\ Looks /\ Behind
  BY <1>1 DEF Course, Ending, EditOK, Looks, PreManagers
<1>3. /\ due' = due \ Serves("spec") /\ \A d \in Serves("spec") : d = <<Con, "spec">>
      /\ Serves("spec") # {} => update["spec"]
  BY <1>1, ReadFacts, ServesFacts DEF Flags, EditSafe
<1>4. /\ \A c \in Consoles : Untouched(c)
      /\ \A c : (Edited(c) => Edited(c)') /\ (Listed(c) => Listed(c)')
  BY <1>1 DEF Untouched, SameContents, Edited, Listed
<1>5. Behind'
  BY <1>1, <1>2, BehindSame
<1>6. ASSUME NEW c, c # Con \/ ~Current(c) \/ <<c, "spec">> \notin due
      PROVE  Remembered(c)
  <2>1. <<c, "spec">> \in due => <<c, "spec">> \in due'
    <3>1. c = Con /\ ~Current(c) => Serves("spec") = {}
      BY <1>1 DEF Serves, Current, On
    <3> QED
      BY <1>3, <1>6, <3>1
  <2> QED
    BY <1>1, <1>4, <2>1 DEF Remembered, Ahead
<1>7. \A c \in Consoles : Ahead(c) => Ahead(c)' \/ Current(c)
  BY <1>6 DEF Remembered
<1>8. ASSUME NEW c \in there \ taken, Cared(c)
      PROVE  Cared(c)'
  <2>1. c \in Consoles /\ Untouched(c)
    BY <1>4 DEF TypeOK
  <2>2. CASE c # Con
    BY <1>1, <1>6, <1>8, <2>1, <2>2, CaredApart DEF On, Goes, Con
  <2>3. CASE c = Con /\ ~Current(c)
    <3>1. Ahead(c)
      BY <1>1, <1>2, <2>1, <2>3 DEF Looks, On
    <3> QED
      BY <1>6, <2>3, <3>1 DEF Cared, Remembered
  <2>4. CASE c = Con /\ Current(c)
    <3>1. Current(c)' /\ worker'.result = "done" /\ worker'.pc = "env"
      BY <1>1, <1>2, <2>4 DEF Current, On, Goes, Con
    <3>2. CASE <<c, "spec">> \in due
      <4>1. worker'.upd
        <5>1. <<c, "spec">> \in Serves("spec")
          BY <2>4, <3>2 DEF Serves, Current
        <5> QED
          BY <1>1, <1>3, <5>1
      <4>2. InHand(c)'
        BY <3>1, <4>1 DEF InHand, Written, BeforeEnv, BeforeConfigs, BeforeDeployment, BeforeStates
      <4> QED
        BY <4>2 DEF Cared
    <3>3. CASE <<c, "spec">> \notin due
      <4>1. Remembered(c)
        BY <1>6, <3>3
      <4>2. InHand(c) => InHand(c)'
        BY <1>2, <2>1, <3>1, UntouchedFacts
           DEF InHand, Written, BeforeEnv, BeforeConfigs, BeforeDeployment, BeforeStates, Untouched
      <4>3. MadeFrom(c, spec[c]) => MadeFrom(c, spec[c])'
        BY <2>1, UntouchedFacts
      <4>4. On(c) /\ ~Again(c)
        BY <1>2, <2>4 DEF Again, Current
      <4> QED
        BY <1>8, <3>3, <4>1, <4>2, <4>3, <4>4 DEF Cared, Remembered
    <3> QED
      BY <3>2, <3>3
  <2> QED
    BY <2>2, <2>3, <2>4
<1>9. "env" \notin PreManagers
  BY DEF PreManagers, Early
<1> QED
  BY <1>1, <1>5, <1>7, <1>8, <1>9, EditGoes

\* The worker writes objects of its console.
LEMMA EditObjects ==
  ASSUME TypeOK, Course, there' = there, taken' = taken, EditOK,
         worker # Idle, worker.pc \in {"env", "configs", "deployment", "states"},
         NEW pc, pc \notin PreManagers, Goes(pc, Inst, worker.result), worker'.upd = worker.upd,
         UNCHANGED <<spec, watch, due>>, queue \subseteq queue', OnlyHere,
         \A c \in Consoles : c = Con /\ Current(c) /\ worker.result = "done" =>
            /\ MadeFrom(c, spec[c]) => MadeFrom(c, spec[c])'
            /\ InHand(c) => InHand(c)'
  PROVE  EditOK'
<1>1. worker.result = "done" /\ worker.pc \notin PreManagers /\ Looks /\ Behind
  BY DEF Course, Ending, EditOK, PreManagers, Early
<1>2. RememberedAll
  BY LongerRemembers
<1>3. Behind'
  BY <1>1, BehindSame
<1>4. ASSUME NEW c \in there \ taken, Cared(c)
      PROVE  Cared(c)'
  <2>1. c \in Consoles /\ Remembered(c)
    BY <1>2 DEF TypeOK, RememberedAll
  <2>2. CASE c # Con
    <3>1. Untouched(c)
      BY <2>1, <2>2 DEF Untouched, OnlyHere
    <3> QED
      BY <1>4, <2>1, <2>2, <3>1, CaredApart DEF On, Goes, Con
  <2>3. CASE c = Con
    <3>1. Current(c) \/ Ahead(c)
      BY <1>1, <2>1, <2>3 DEF Looks, On
    <3>2. InHand(c) => Current(c)
      BY DEF InHand
    <3> QED
      BY <1>1, <1>4, <2>1, <2>3, <3>1, <3>2, CaredWrites
  <2> QED
    BY <2>2, <2>3
<1> QED
  BY <1>2, <1>3, <1>4, EditGoes DEF RememberedAll, Remembered

LEMMA EditWrites ==
  ASSUME TypeOK, Course, there' = there, taken' = taken, EditOK,
         ReconcileEnvCM \/ ReconcileConfigCMs \/ ReconcileDeployment \/ CheckStates
  PROVE  EditOK'
<1>1. ASSUME NEW c, c = Con, Current(c), worker.result = "done", worker.pc \in PreActions \ PreManagers
      PROVE  spec[c].conn = Inst.conn /\ spec[c].rev = Inst.rev /\ Current(c) /\ c = Con
  BY <1>1 DEF Course, Current, On, PreManagers, Early
<1>2. CASE ReconcileEnvCM
  <2>1. /\ worker # Idle /\ worker.pc = "env" /\ UNCHANGED <<spec, watch, due, queue>>
        /\ Goes("configs", Inst, worker.result) /\ worker'.upd = worker.upd /\ OnlyHere
        /\ objs'[Con].env \in {objs[Con].env, Inst.conn}
        /\ objs[Con].env = Absent \/ worker.upd => objs'[Con].env = Inst.conn
        /\ objs'[Con].deployer = objs[Con].deployer /\ objs'[Con].console = objs[Con].console
        /\ objs'[Con].dep = objs[Con].dep
    BY <1>2, EnvEffects DEF resourceVars, historyVars
  <2>2. "env" \notin PreManagers /\ "configs" \notin PreManagers
    BY DEF PreManagers, Early
  <2>3. ASSUME NEW c \in Consoles, c = Con, Current(c), worker.result = "done"
        PROVE  /\ MadeFrom(c, spec[c]) => MadeFrom(c, spec[c])'
               /\ InHand(c) => InHand(c)'
    <3>1. spec[c].conn = Inst.conn
      BY <1>1, <2>1, <2>2, <2>3 DEF PreActions, PreManagers, Early
    <3>2. Current(c)' /\ worker'.result = "done" /\ worker'.pc = "configs"
      BY <2>1, <2>3 DEF Current, On, Goes, Con
    <3>3. MadeFrom(c, spec[c]) => MadeFrom(c, spec[c])'
      BY <2>1, <2>3, <3>1 DEF MadeFrom
    <3>4. ASSUME InHand(c)
          PROVE  InHand(c)'
      <4>1. objs'[c].env = spec[c].conn
        BY <2>1, <2>3, <3>1, <3>4 DEF InHand, Written
      <4>2. Written(objs[c].deployer, spec[c].rev["deployer"], BeforeConfigs)'
        BY <2>1, <2>3, <3>2, <3>4 DEF InHand, Written, BeforeConfigs, BeforeEnv
      <4>3. Written(objs[c].console, spec[c].rev["console"], BeforeConfigs)'
        BY <2>1, <2>3, <3>2, <3>4 DEF InHand, Written, BeforeConfigs, BeforeEnv
      <4>4. Written(objs[c].dep, spec[c].rev["pod"], BeforeStates)'
        BY <2>1, <2>3, <3>2, <3>4 DEF InHand, Written, BeforeStates, BeforeDeployment, BeforeConfigs, BeforeEnv
      <4> QED
        BY <2>1, <3>2, <4>1, <4>2, <4>3, <4>4 DEF InHand, Written
    <3> QED
      BY <3>3, <3>4
  <2> QED
    BY <2>1, <2>2, <2>3, EditObjects
<1>3. CASE ReconcileConfigCMs
  <2>1. /\ worker # Idle /\ worker.pc = "configs" /\ UNCHANGED <<spec, watch, due, queue>>
        /\ Goes("deployment", Inst, worker.result) /\ worker'.upd = worker.upd /\ OnlyHere
        /\ objs'[Con].deployer \in {objs[Con].deployer, Inst.rev["deployer"]}
        /\ objs[Con].deployer = Absent \/ worker.upd => objs'[Con].deployer = Inst.rev["deployer"]
        /\ objs'[Con].console \in {objs[Con].console, Inst.rev["console"]}
        /\ objs[Con].console = Absent \/ worker.upd => objs'[Con].console = Inst.rev["console"]
        /\ objs'[Con].env = objs[Con].env /\ objs'[Con].dep = objs[Con].dep
    BY <1>3, ConfigsEffects DEF resourceVars, historyVars
  <2>2. "configs" \notin PreManagers /\ "deployment" \notin PreManagers
    BY DEF PreManagers, Early
  <2>3. ASSUME NEW c \in Consoles, c = Con, Current(c), worker.result = "done"
        PROVE  /\ MadeFrom(c, spec[c]) => MadeFrom(c, spec[c])'
               /\ InHand(c) => InHand(c)'
    <3>1. spec[c].rev = Inst.rev
      BY <1>1, <2>1, <2>2, <2>3 DEF PreActions, PreManagers, Early
    <3>2. Current(c)' /\ worker'.result = "done" /\ worker'.pc = "deployment"
      BY <2>1, <2>3 DEF Current, On, Goes, Con
    <3>3. MadeFrom(c, spec[c]) => MadeFrom(c, spec[c])'
      BY <2>1, <2>3, <3>1 DEF MadeFrom
    <3>4. ASSUME InHand(c)
          PROVE  InHand(c)'
      <4>1. objs'[c].env = spec[c].conn
        BY <2>1, <2>3, <3>4 DEF InHand, Written, BeforeEnv, PreManagers, Early
      <4>2. objs'[c].deployer = spec[c].rev["deployer"]
        BY <2>1, <2>3, <3>1, <3>4 DEF InHand, Written
      <4>3. objs'[c].console = spec[c].rev["console"]
        BY <2>1, <2>3, <3>1, <3>4 DEF InHand, Written
      <4>4. Written(objs[c].dep, spec[c].rev["pod"], BeforeStates)'
        BY <2>1, <2>3, <3>2, <3>4 DEF InHand, Written, BeforeStates, BeforeDeployment
      <4> QED
        BY <2>1, <3>2, <4>1, <4>2, <4>3, <4>4 DEF InHand, Written
    <3> QED
      BY <3>3, <3>4
  <2> QED
    BY <2>1, <2>2, <2>3, EditObjects
<1>4. CASE ReconcileDeployment
  <2>1. /\ worker # Idle /\ worker.pc = "deployment" /\ UNCHANGED <<spec, watch, due>> /\ queue \subseteq queue'
        /\ Goes("access", Inst, worker.result) /\ worker'.upd = worker.upd /\ OnlyHere
        /\ objs'[Con].dep \in {objs[Con].dep, Inst.rev["pod"]}
        /\ objs[Con].dep = Absent \/ worker.upd => objs'[Con].dep = Inst.rev["pod"]
        /\ objs'[Con].deployer = objs[Con].deployer /\ objs'[Con].console = objs[Con].console
        /\ objs'[Con].env = objs[Con].env
    BY <1>4, DeploymentEffects DEF resourceVars, historyVars
  <2>2. "deployment" \notin PreManagers /\ "access" \notin PreManagers
    BY DEF PreManagers, Early
  <2>3. ASSUME NEW c \in Consoles, c = Con, Current(c), worker.result = "done"
        PROVE  /\ MadeFrom(c, spec[c]) => MadeFrom(c, spec[c])'
               /\ InHand(c) => InHand(c)'
    <3>1. spec[c].rev = Inst.rev
      BY <1>1, <2>1, <2>2, <2>3 DEF PreActions, PreManagers, Early
    <3>2. Current(c)' /\ worker'.result = "done" /\ worker'.pc = "access"
      BY <2>1, <2>3 DEF Current, On, Goes, Con
    <3>3. MadeFrom(c, spec[c]) => MadeFrom(c, spec[c])'
      BY <2>1, <2>3, <3>1 DEF MadeFrom
    <3>4. ASSUME InHand(c)
          PROVE  InHand(c)'
      <4>1. /\ objs'[c].env = spec[c].conn /\ objs'[c].deployer = spec[c].rev["deployer"]
            /\ objs'[c].console = spec[c].rev["console"]
        BY <2>1, <2>3, <3>4 DEF InHand, Written, BeforeConfigs, BeforeEnv, PreManagers, Early
      <4>2. objs'[c].dep = spec[c].rev["pod"]
        BY <2>1, <2>3, <3>1, <3>4 DEF InHand, Written
      <4> QED
        BY <2>1, <3>2, <4>1, <4>2 DEF InHand, Written
    <3> QED
      BY <3>3, <3>4
  <2> QED
    BY <2>1, <2>2, <2>3, EditObjects
<1>5. CASE CheckStates
  <2>1. /\ worker # Idle /\ worker.pc = "states" /\ UNCHANGED <<spec, watch, due>> /\ queue \subseteq queue'
        /\ Goes("cmupdates", Inst, worker.result) /\ worker'.upd = worker.upd /\ OnlyHere
        /\ objs'[Con].dep = Inst.rev["pod"]
        /\ objs'[Con].deployer = objs[Con].deployer /\ objs'[Con].console = objs[Con].console
        /\ objs'[Con].env = objs[Con].env
    BY <1>5, StatesEffects DEF resourceVars, historyVars
  <2>2. "states" \notin PreManagers /\ "cmupdates" \notin PreManagers
    BY DEF PreManagers, Early
  <2>3. ASSUME NEW c \in Consoles, c = Con, Current(c), worker.result = "done"
        PROVE  /\ MadeFrom(c, spec[c]) => MadeFrom(c, spec[c])'
               /\ InHand(c) => InHand(c)'
    <3>1. spec[c].rev = Inst.rev
      BY <1>1, <2>1, <2>2, <2>3 DEF PreActions, PreManagers, Early
    <3>2. Current(c)' /\ worker'.result = "done" /\ worker'.pc = "cmupdates"
      BY <2>1, <2>3 DEF Current, On, Goes, Con
    <3>3. MadeFrom(c, spec[c]) => MadeFrom(c, spec[c])'
      BY <2>1, <2>3, <3>1 DEF MadeFrom
    <3>4. ASSUME InHand(c)
          PROVE  InHand(c)'
      <4>1. /\ objs'[c].env = spec[c].conn /\ objs'[c].deployer = spec[c].rev["deployer"]
            /\ objs'[c].console = spec[c].rev["console"]
        BY <2>1, <2>3, <3>4 DEF InHand, Written, BeforeConfigs, BeforeEnv, PreManagers, Early
      <4>2. objs'[c].dep = spec[c].rev["pod"]
        BY <2>1, <2>3, <3>1
      <4> QED
        BY <2>1, <3>2, <4>1, <4>2 DEF InHand, Written
    <3> QED
      BY <3>3, <3>4
  <2> QED
    BY <2>1, <2>2, <2>3, EditObjects
<1> QED
  BY <1>2, <1>3, <1>4, <1>5

\* The reconcile ends: what it had in hand is applied, or the console comes again.
LEMMA EditFinish ==
  ASSUME TypeOK, there' = there, taken' = taken, EditOK, SetStatus \/ SetStatusConflict
  PROVE  EditOK'
<1>1. /\ worker # Idle /\ worker.pc = "status" /\ up /\ worker' = Idle
      /\ UNCHANGED <<spec, objs, up, due>>
      /\ queue' = queue \cup If(Con, worker.result # "done")
      /\ UNCHANGED watch \/ Notify(Con, "status", FALSE)
  BY SetStatusEffects DEF clusterVars, historyVars
<1>2. /\ watch' = watch \/ Notified(Con, "status", FALSE)
      /\ queue \subseteq queue' /\ (worker.result # "done" => Con \in queue')
  BY <1>1, IfFacts DEF Notified
<1>3. RememberedAll
  BY <1>1, <1>2, LongerRemembers
<1>4. Behind' /\ AllCared
  BY <1>1, <1>2, BehindLonger DEF EditOK
<1>5. ASSUME NEW c \in there \ taken, Cared(c)
      PROVE  Cared(c)'
  <2>1. /\ Remembered(c) /\ ~On(c)'
        /\ Applied(c, spec[c]) => Applied(c, spec[c])'
        /\ MadeFrom(c, spec[c]) => MadeFrom(c, spec[c])'
    BY <1>1, <1>3 DEF RememberedAll, On, Applied, MadeFrom
  <2>2. CASE c # Con
    BY <1>1, <1>5, <2>1, <2>2, CaredApart DEF On, Untouched
  <2>3. CASE c = Con
    <3>1. On(c) /\ worker.pc \notin BeforeStates /\ worker.pc \notin PreManagers
      BY <1>1, <2>3 DEF On, BeforeStates, BeforeDeployment, BeforeConfigs, BeforeEnv, PreManagers, Early
    <3>2. CASE Ahead(c) \/ Listed(c)
      BY <2>1, <3>2 DEF Remembered, Cared
    <3>3. CASE <<c, "spec">> \in due /\ worker.result # "done"
      BY <1>1, <1>2, <2>3, <3>3 DEF Cared, Ahead
    <3>4. CASE InHand(c)
      <4>1. Applied(c, spec[c])
        BY <3>1, <3>4 DEF InHand, Written, Applied, BeforeStates, BeforeDeployment, BeforeConfigs
      <4> QED
        BY <2>1, <4>1 DEF Cared
    <3>5. CASE (c \in queue \/ Again(c)) /\ MadeFrom(c, spec[c])
      BY <1>2, <2>1, <2>3, <3>5 DEF Cared, Again
    <3> QED
      BY <1>5, <3>1, <3>2, <3>3, <3>4, <3>5 DEF Cared
  <2> QED
    BY <2>2, <2>3
<1> QED
  BY <1>1, <1>4, <1>5 DEF EditOK, AllCared, Looks, On

\* The worker takes the next console.
LEMMA EditGet ==
  ASSUME TypeOK, there' = there, taken' = taken, EditOK, NEW d \in there, Get(d)
  PROVE  EditOK'
<1>1. /\ worker = Idle /\ up /\ d \in queue /\ queue' = queue \ {d}
      /\ UNCHANGED <<spec, objs, watch, up, due>>
      /\ worker' # Idle /\ worker'.pc = "version" /\ worker'.con = d /\ worker'.base = spec[d]
      /\ worker'.result = "done" /\ worker'.upd = FALSE
  BY GetEffects DEF resourceVars, clusterVars, historyVars
<1>2. Current(d)' /\ "version" \in PreManagers /\ "version" \in BeforeEnv
      /\ "version" \in BeforeConfigs /\ "version" \in BeforeStates
  BY <1>1 DEF Current, On, Con, PreManagers, Early, BeforeEnv, BeforeConfigs, BeforeDeployment, BeforeStates
<1>3. \A c : c # d => ~On(c)'
  BY <1>1 DEF On, Con
<1>4. Behind' /\ AllCared
  BY <1>1, BehindSame DEF EditOK
<1>5. ASSUME NEW c \in there \ taken, Cared(c)
      PROVE  Cared(c)'
  <2>1. ~On(c) /\ ~Current(c) /\ ~Again(c) /\ ~InHand(c)
    BY <1>1 DEF On, Current, Again, InHand
  <2>2. /\ (Edited(c) => Edited(c)') /\ (Listed(c) => Listed(c)')
        /\ <<c, "spec">> \in due => <<c, "spec">> \in due'
        /\ Applied(c, spec[c]) => Applied(c, spec[c])'
        /\ MadeFrom(c, spec[c]) => MadeFrom(c, spec[c])'
    BY <1>1 DEF Edited, Listed, Applied, MadeFrom
  <2>3. CASE c # d
    BY <1>1, <1>3, <1>5, <2>1, <2>2, <2>3 DEF Cared, Ahead
  <2>4. CASE c = d
    <3>1. Edited(c) \/ Listed(c) \/ <<c, "spec">> \in due => Cared(c)'
      BY <1>1, <1>2, <2>2, <2>4 DEF Cared, Ahead
    <3>2. MadeFrom(c, spec[c]) \/ Applied(c, spec[c]) => InHand(c)'
      BY <1>1, <1>2, <2>4 DEF InHand, Written, MadeFrom, Applied
    <3> QED
      BY <1>5, <2>1, <3>1, <3>2 DEF Cared, Ahead
  <2> QED
    BY <2>3, <2>4
<1>6. Looks'
  BY <1>1, <1>2, <1>3 DEF Looks
<1> QED
  BY <1>1, <1>4, <1>5, <1>6 DEF EditOK, AllCared

\* Pods change: their console may be enqueued.
LEMMA EditPods ==
  ASSUME TypeOK, there' = there, taken' = taken, EditOK, NEW d \in there, PodsStart(d) \/ PodsRun(d) \/ PodsFail(d)
  PROVE  EditOK'
<1>1. UNCHANGED <<spec, objs, watch, worker, up, due>> /\ queue \subseteq queue'
  BY DEF PodsStart, PodsRun, PodsFail, PodsChange, resourceVars, historyVars
<1>2. \A c : Remembered(c) /\ Untouched(c)
  BY <1>1 DEF Remembered, Untouched, Ahead, Edited, Listed
<1>3. Behind' /\ Looks
  BY <1>1, BehindSame DEF EditOK
<1>4. Looks'
  BY <1>1, <1>2, <1>3 DEF Looks, Current, On, Con, Remembered
<1>5. \A c \in there \ taken : Cared(c) => Cared(c)'
  BY <1>1, <1>2, CaredApart
<1> QED
  BY <1>1, <1>3, <1>4, <1>5 DEF EditOK, AllCared

\* The operator starts and lists every console.
LEMMA EditStart ==
  ASSUME TypeOK, Course, there' = there, taken' = taken, NEW upgrade \in BOOLEAN, OperatorStart(upgrade)
  PROVE  EditOK'
<1>1. worker' = Idle /\ spec' = spec
  BY DEF OperatorStart, Course
<1>2. /\ \A i \in DOMAIN watch' :
            /\ watch'[i].kind = "create" /\ watch'[i].con \in there
            /\ watch'[i].obj = spec[watch'[i].con]
      /\ \A c \in there : \E i \in DOMAIN watch' : watch'[i].con = c
  BY ListFacts
<1>3. \A c \in there : Cared(c)'
  BY <1>2 DEF Cared, Listed
<1>4. Behind' /\ Looks'
  BY <1>1, <1>2 DEF Behind, Looks, On
<1> QED
  BY <1>3, <1>4 DEF EditOK, AllCared

\* A user edits a console: the watch has the event, or the operator will list the console.
LEMMA EditUser ==
  ASSUME TypeOK, Course, there' = there, taken' = taken, EditOK, EditSafe,
         NEW d \in there, NEW new \in Edits(spec[d]), NEW zone \in {FALSE, new.restart}, Edit(d, new, zone)
  PROVE  EditOK'
<1>1. /\ spec' = [spec EXCEPT ![d] = new] /\ UNCHANGED <<objs, worker, up, due, queue>>
      /\ ~zone /\ (up => Notify(d, "spec", new.restart)) /\ (~up => watch' = watch)
  <2>1. zone => "refused" \in mishaps'
    BY IfFacts DEF Edit, Note
  <2> QED
    BY <2>1 DEF Edit, EditSafe, clusterVars
<1>2. new.restart \in BOOLEAN /\ d \in Consoles /\ spec \in [Consoles -> Specs \cup {NoSpec}]
  BY EditsFacts, SpecsFacts DEF TypeOK
<1>3. Behind /\ Looks
  BY DEF EditOK
<1>4. CASE ~up
  <2>1. watch' = <<>> /\ worker' = Idle /\ up' = FALSE
    BY <1>1, <1>4 DEF Course, TypeOK
  <2>2. DOMAIN watch' = {}
    BY <2>1, EmptySeq
  <2> QED
    BY <2>1, <2>2 DEF EditOK, Behind, Looks, On
<1>5. CASE up
  <2>1. Notified(d, "spec", new.restart) /\ Notify(d, "spec", new.restart)
    BY <1>1, <1>5 DEF Notified
  <2>2. /\ Longer
        /\ \E i \in DOMAIN watch' : watch'[i].con = d /\ watch'[i].kind = "spec" /\ watch'[i].restart = new.restart
    BY <1>2, <2>1, LongerNotified
  <2>3. \A c : c = d => Ahead(c)'
    BY <2>2 DEF Ahead, Edited
  <2>4. \A c : Remembered(c)
    BY <1>1, <2>2, AheadLonger DEF Remembered
  <2>5. \A c \in Consoles : c # d => Untouched(c)
    BY <1>1, <1>2 DEF Untouched
  <2>6. Behind'
    BY <1>1, <1>2, <1>3, <2>1, BehindNotified
  <2>7. Looks'
    <3>1. \A c \in Consoles : On(c)' => Current(c)' \/ Ahead(c)'
      BY <1>1, <1>3, <2>3, <2>4, <2>5 DEF Looks, Current, On, Con, Remembered, Untouched
    <3> QED
      BY <1>1, <1>3, <3>1 DEF Looks
  <2>8. ASSUME NEW c \in there \ taken, new.network \/ c # d, Cared(c) \/ c = d
        PROVE  Cared(c)'
    <3>1. CASE c = d
      BY <2>3, <3>1 DEF Cared
    <3>2. CASE c # d
      BY <1>1, <2>4, <2>5, <2>8, <3>2, CaredApart DEF TypeOK
    <3> QED
      BY <3>1, <3>2
  <2>9. AllCared'
    <3>1. AllCared
      BY <1>5 DEF EditOK
    <3>2. \A c \in there \ taken : c # d => spec'[c] = spec[c]
      BY <2>5 DEF Untouched, TypeOK
    <3>3. \A c : c = d => Cared(c)'
      BY <2>3 DEF Cared
    <3> QED
      BY <2>8, <3>1, <3>2, <3>3 DEF AllCared
  <2> QED
    BY <2>6, <2>7, <2>9 DEF EditOK
<1> QED
  BY <1>4, <1>5

LEMMA EditKept == TypeOK /\ Course /\ EditInv /\ [Next]_vars => EditInv'
<1> SUFFICES ASSUME TypeOK, Course, EditInv, [Next]_vars, EditSafe
             PROVE  EditOK'
  BY DEF EditInv, EditSafe
<1>1. there' = there /\ taken' = taken /\ EditOK
  BY NamesKept, MishapsKept DEF EditInv, EditSafe
<1>2. CASE Predicates
  BY <1>1, <1>2, EditPredicates
<1>3. CASE Reconcile
  <2>1. CASE DeploymentPanic
    BY <2>1 DEF DeploymentPanic, Note, EditSafe
  <2>2. CASE SetStatus
    BY <1>1, <2>2, EditFinish
  <2>3. CASE ReconcileManagers
    BY <1>1, <2>3, EditManagers
  <2>4. CASE ReconcileEnvCM \/ ReconcileConfigCMs \/ ReconcileDeployment \/ CheckStates
    BY <1>1, <2>4, EditWrites
  <2>5. CASE \/ SetVersion \/ PreReconcileChecks \/ PatchInstance \/ ReconcileAccess
             \/ CheckForConfigMapUpdates \/ HandleActions \/ HandleRestart \/ SaveSpecState
    BY <1>1, <2>5, EditCourse
  <2> QED
    BY <1>3, <2>1, <2>2, <2>3, <2>4, <2>5 DEF Reconcile
<1>4. CASE StepFails
  BY <1>4, FailEffects DEF EditSafe
<1>5. CASE SetStatusConflict
  BY <1>1, <1>5, EditFinish
<1>6. CASE Crash
  BY <1>1, <1>6, EditDown DEF Crash
<1>7. CASE \E upgrade \in BOOLEAN : OperatorStart(upgrade)
  BY <1>1, <1>7, EditStart
<1>8. ASSUME NEW c \in there, Get(c)
      PROVE  EditOK'
  BY <1>1, <1>8, EditGet
<1>9. ASSUME NEW c \in there, PodsStart(c) \/ PodsRun(c) \/ PodsFail(c)
      PROVE  EditOK'
  BY <1>1, <1>9, EditPods
<1>10. ASSUME NEW c \in there, NEW new \in Edits(spec[c]), NEW zone \in {FALSE, new.restart}, Edit(c, new, zone)
       PROVE  EditOK'
  BY <1>1, <1>10, EditUser
<1>11. CASE UNCHANGED vars
  <2>1. UNCHANGED <<spec, objs, watch, worker, up, due, queue, there, taken>>
    BY <1>11 DEF vars, resourceVars, names, clusterVars, historyVars
  <2>2. \A c : Cared(c) => Cared(c)'
    BY <2>1, CaredApart DEF Remembered, Untouched, Ahead, Edited, Listed
  <2>3. Looks => Looks'
    BY <2>1 DEF Looks, Ahead, Edited, Current, On, Con
  <2> QED
    BY <1>1, <2>1, <2>2, <2>3, BehindSame DEF EditOK, AllCared
<1> QED
  BY <1>2, <1>3, <1>4, <1>5, <1>6, <1>7, <1>8, <1>9, <1>10, <1>11 DEF Next

-----------------------------------------------------------------------------
(* The theorems                                                            *)

LEMMA InvariantAtFirst == Init => IInv
  BY InitTypes, InitCourse, InitDatabase, InitOwner, InitRest, InitNetwork, InitRemote, InitPanic,
     InitRequest, InitEdit
     DEF IInv

LEMMA InvariantKept == IInv /\ [Next]_vars => IInv'
  BY NextTypes, CourseKept, DatabaseKept, OwnerKept, RestKept, NetworkKept, RemoteKept, PanicKept,
     RequestKept, EditKept
     DEF IInv

LEMMA Invariance == Spec => []IInv
<1>1. Init => IInv
  BY InvariantAtFirst
<1>2. IInv /\ [Next]_vars => IInv'
  BY InvariantKept
<1> QED
  BY <1>1, <1>2, PTL DEF Spec

\* Credentials that a config map and a database have been given agree, so a console reaches its
\* database whatever fails or crashes, as long as nobody resets its connection string.
THEOREM ReachesItsDatabase == Spec => []DatabaseReachable
<1>1. IInv => DatabaseReachable
  <2> SUFFICES ASSUME IInv, NEW c \in Consoles, objs[c].db # Default, objs[c].env > 0, "reset" \notin mishaps
               PROVE  objs[c].env = objs[c].db
    BY DEF DatabaseReachable
  <2>1. objs[c].db \in Nat
    BY ObjectsFacts DEF IInv, TypeOK
  <2>2. Agree(c, objs[c].env)
    BY DEF IInv, DatabaseInv, DatabaseOf
  <2> QED
    BY <2>1, <2>2 DEF Agree, Default
<1>2. Spec => []IInv
  BY Invariance
<1> QED
  BY <1>1, <1>2, PTL

\* The predicates and the worker share one record of flags, and the saved spec stands in for the
\* one a restarted operator has forgotten; all the same HandleRestart restarts a console only if a
\* user has asked for that or has changed what its pods read, but for the mishaps it names.
THEOREM RestartsHaveReasons == Spec => RestartsWanted
<1>1. IInv /\ [Next]_vars =>
         [\A c \in Consoles : pending[c] /\ ~pending'[c] =>
            c \in wanted \/ mishaps \cap {"borrowed", "reread", "outdated", "normalised", "unsaved"} # {}]_vars
  <2> SUFFICES ASSUME IInv, NEW c \in Consoles, pending[c],
                      mishaps \cap {"borrowed", "reread", "outdated", "normalised", "unsaved"} = {}
               PROVE  c \in wanted
    OBVIOUS
  <2> QED
    BY DEF IInv, RestInv, AtRest
<1> QED
  BY <1>1, Invariance, PTL DEF Spec, RestartsWanted

\* What is left of the predicates and of the reconcile when nothing is left to do.
LEMMA NothingLeft ==
  ASSUME Quiet, NEW c
  PROVE  /\ up /\ ~On(c) /\ ~Current(c) /\ c \notin queue
         /\ ~Edited(c) /\ ~Listed(c) /\ ~Ahead(c) /\ ~Waits(c)
<1>1. DOMAIN watch = {} /\ worker = Idle /\ queue = {} /\ up
  BY EmptySeq DEF Quiet
<1> QED
  BY <1>1 DEF On, Current, Edited, Listed, Ahead, Waits

\* A request to restart is in an event that waits, or in a flag whose console is to be reconciled,
\* until the patch of HandleActions takes it out of the spec: none is left behind, but for the
\* mishaps RequestsServed names.
THEOREM RequestsAreServed == Spec => []RequestsServed
<1>1. IInv => RequestsServed
  <2> SUFFICES ASSUME IInv, Quiet, NEW c \in Consoles, Fit(c),
                      mishaps \cap {"wiped", "refused", "down", "crashed", "panicked", "failed"} = {}
               PROVE  ~spec[c].restart
    BY DEF RequestsServed
  <2>1. c \in there \ taken /\ spec[c].network
    BY DEF Fit
  <2>2. ~Waits(c) /\ ~ToServe(c)
    BY NothingLeft DEF ToServe
  <2> QED
    BY <2>1, <2>2 DEF IInv, RequestInv
<1> QED
  BY <1>1, Invariance, PTL

\* An edit is in an event that waits, in a flag whose console is to be reconciled, or in the hands
\* of the worker until config maps and deployment have its content; only the mishaps EditsApplied
\* names lose one, and the operator panics only where a console goes from a remote to a local
\* database or has had no NetworkInfo.
THEOREM EditsAreApplied == Spec => []EditsApplied
<1>1. IInv => EditsApplied
  <2> SUFFICES ASSUME IInv, Quiet, ~Panicked, mishaps \cap {"wiped", "skipped", "refused", "failed"} = {},
                      NEW c \in Consoles, Fit(c)
               PROVE  Applied(c, spec[c])
    BY DEF EditsApplied
  <2>1. "panicked" \notin mishaps
    BY DEF IInv, PanicInv, Panicked
  <2>2. /\ up /\ ~On(c) /\ ~Current(c) /\ c \notin queue
        /\ ~Listed(c) /\ ~Ahead(c)
    BY NothingLeft
  <2>3. c \in there \ taken /\ spec[c].network
    BY DEF Fit
  <2>4. EditOK
    BY <2>1 DEF IInv, EditInv
  <2>5. Cared(c)
    BY <2>2, <2>3, <2>4 DEF EditOK, AllCared
  <2> QED
    BY <2>2, <2>5 DEF Cared, InHand, Again
<1> QED
  BY <1>1, Invariance, PTL

=============================================================================
