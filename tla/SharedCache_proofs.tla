------------------------- MODULE SharedCache_proofs --------------------------
(***************************************************************************)
(* For any number of sessions, versions of the code, deploys and crashes:  *)
(* the types, and that a finished snapshot was built by the code its stamp *)
(* names.                                                                  *)
(***************************************************************************)
EXTENDS SharedCache, TLAPS

\* What the book's directory holds.
Built == raw \cup ir \cup layout

\* Session s has the book lock.
Working(s) == run[s].pc \notin {"idle", "queued", "boot"}

LockInv == \A s \in Sessions : lock = s <=> Working(s)

\* A child has imported some code.
ModInv == \A s \in Sessions : Alive(s) => run[s].mod \in Hashes

\* The stamp a child takes is that of the code it has imported.
StampOK(s) ==
    /\ Alive(s) /\ run[s].stamp = NoHash => run[s].mod = code
    /\ Alive(s) /\ run[s].stamp # NoHash => run[s].stamp = run[s].mod
    /\ ~Working(s) => run[s].stamp = NoHash

\* meta.json has both stamps or none, and a success has them.
MetaOK(s) ==
    /\ meta[s].pub = meta[s].stages /\ meta[s].pub \in Hashes \cup {NoHash}
    /\ meta[s].st = "succeeded" => meta[s].pub # NoHash

\* The files are made in order and only by the stages before them, and a run that
\* replaces them without stages.json has raw/ before it writes it.
NestOK(s) ==
    /\ run[s].pc \in {"compile", "layout", "graph", "publish", "finish"} => raw # {}
    /\ run[s].pc = "stamp" /\ ~side.there /\ run[s].rebuilt # 0 => raw # {}

NestInv ==
    /\ raw = {} => ir = {} /\ layout = {}
    /\ \A x \in raw \cup ir : x[1] <= Compile
    /\ \A x \in layout : x[1] <= Layout
    /\ \A s \in Sessions : NestOK(s)

\* stages.json is complete, and true while nobody works on the book.
SideInv ==
    /\ ~side.there => side = NoSide
    /\ side.there => side.stages \in Hashes /\ side.pub = side.stages
    /\ side.there /\ lock = None => MadeBy(Built, side.stages)

\* Without stages.json, every session that has a stamp has the same one, and the files
\* are of that code, unless a run is replacing them.
NoSideOK(s) ==
    meta[s].pub # NoHash =>
        /\ raw # {} /\ MadeBy(Built, meta[s].pub)
        /\ \A t \in Sessions : meta[t].pub \in {NoHash, meta[s].pub}
        /\ lock # None => meta[s].pub = run[lock].mod

NoSideInv ==
    ~side.there /\ (lock = None \/ run[lock].rebuilt = 0) => \A s \in Sessions : NoSideOK(s)

\* The run that has the lock works on files of its own code, and knows which stages of
\* stages.json are.
RunOK(s) ==
    Working(s) =>
        /\ MadeBy(Built, run[s].mod) /\ MadeBy(context[s] \cup graph[s], run[s].mod)
        /\ meta[s].pub \in {NoHash, run[s].mod}
        /\ side.there => \A n \in STAGE_ORDER :
                            Reached(run[s].rebuilt, n) \/ side.stages[n] = run[s].mod[n]
        /\ ~side.there => run[s].rebuilt = Compile \/ (run[s].rebuilt = 0 /\ run[s].adopt)

\* The publications of a session at rest are of the code its stamp names.
SessionOK(s) ==
    /\ \A x \in graph[s] : x[1] <= Graph
    /\ ~Working(s) /\ meta[s].pub # NoHash => MadeBy(context[s] \cup graph[s], meta[s].pub)

Truth ==
    /\ NestInv /\ SideInv /\ NoSideInv
    /\ \A s \in Sessions : StampOK(s) /\ MetaOK(s) /\ RunOK(s) /\ SessionOK(s)

IInv == TypeOK /\ LockInv /\ ModInv /\ (windows = {} => Truth)

(***************************************************************************)
(* Stamps and what they claim.                                             *)
(***************************************************************************)

\* The four stages.
LEMMA StageSet ==
    /\ STAGE_ORDER = {1, 2, 3, 4} /\ STAGE_ORDER = 1 .. 4
    /\ Compile = 1 /\ Layout = 2 /\ Graph = 3 /\ Publish = 4
  BY DEF STAGE_ORDER, Compile, Layout, Graph, Publish

\* A real hash map is a stamp and is not the missing one.
LEMMA HashesReal ==
    /\ NoHash \in Stamps /\ NoHash \notin Hashes
    /\ Hashes \subseteq Stamps
    /\ \A h \in Hashes : h # NoHash
    /\ \A h \in Stamps : \A n \in STAGE_ORDER : h[n] \in 0 .. MaxHash
    /\ \A h \in Hashes : \A n \in STAGE_ORDER : h[n] \in 1 .. MaxHash /\ h[n] # 0
  <1>1. NoHash \in Stamps
    BY CacheAssumption DEF NoHash, Stamps
  <1>2. ASSUME NEW h \in Hashes, NEW n \in STAGE_ORDER PROVE h[n] \in 1 .. MaxHash /\ h[n] # 0
    BY CacheAssumption DEF Hashes
  <1>3. \A n \in STAGE_ORDER : NoHash[n] = 0
    BY DEF NoHash
  <1>4. \A h \in Hashes : h # NoHash
    BY <1>2, <1>3, StageSet
  <1>5. Hashes \subseteq Stamps
    BY CacheAssumption DEF Hashes, Stamps
  <1> QED
    BY <1>1, <1>2, <1>4, <1>5 DEF Stamps

\* Two hash maps that agree on every stage are the same.
LEMMA SameHashes ==
    ASSUME NEW g \in Hashes, NEW h \in Hashes, \A n \in STAGE_ORDER : g[n] = h[n]
    PROVE  g = h
  BY DEF Hashes

\* MadeBy, element by element.
LEMMA MadeByIs ==
    ASSUME NEW f, NEW h
    PROVE  MadeBy(f, h) <=> \A x \in f : \E n \in STAGE_ORDER : x = <<n, h[n]>>
  BY DEF MadeBy

\* It holds of nothing, of parts and of unions.
LEMMA MadeByParts ==
    ASSUME NEW h
    PROVE  /\ MadeBy({}, h)
           /\ \A f, g : MadeBy(f \cup g, h) <=> MadeBy(f, h) /\ MadeBy(g, h)
           /\ \A f, g : g \subseteq f /\ MadeBy(f, h) => MadeBy(g, h)
           /\ \A n \in STAGE_ORDER : MadeBy(By(n, h[n]), h)
  BY DEF MadeBy, By

\* The same for the files of the book.
LEMMA BuiltParts ==
    ASSUME NEW h
    PROVE  MadeBy(Built, h) <=> MadeBy(raw, h) /\ MadeBy(ir, h) /\ MadeBy(layout, h)
  BY DEF MadeBy, Built

\* A set of stages has a first one.
LEMMA FirstStage ==
    ASSUME NEW D \in SUBSET STAGE_ORDER, D # {}
    PROVE  \E s \in D : \A t \in D : s <= t
  <1>1. D \subseteq {1, 2, 3, 4}
    BY StageSet
  <1>2. CASE 1 \in D
    BY <1>1, <1>2
  <1>3. CASE 1 \notin D /\ 2 \in D
    BY <1>1, <1>3
  <1>4. CASE 1 \notin D /\ 2 \notin D /\ 3 \in D
    BY <1>1, <1>4
  <1>5. CASE 1 \notin D /\ 2 \notin D /\ 3 \notin D
    <2>1. D = {4}
      BY <1>1, <1>5
    <2> QED
      BY <2>1
  <1> QED
    BY <1>2, <1>3, <1>4, <1>5

\* stale_from_meta: nothing is stale only for the stamp of this code, and the stages
\* before the stale one have the hashes of this code.
LEMMA StaleFrom ==
    ASSUME NEW m, code \in Hashes, m.stages \in Stamps
    PROVE  /\ stale_from_meta(m) \in 0 .. 4
           /\ stale_from_meta(m) = 0 <=> m.pub = code
           /\ m.pub # code /\ m.stages = NoHash => stale_from_meta(m) = 2
           /\ stale_from_meta(m) # 0 /\ m.stages # NoHash =>
                \A n \in STAGE_ORDER : n < stale_from_meta(m) => m.stages[n] = code[n]
  <1> DEFINE D == {s \in STAGE_ORDER : m.stages[s] # code[s]}
             x == stale_from_meta(m)
  <1>1. CASE m.pub = code
    <2>1. x = 0
      BY <1>1 DEF stale_from_meta, publisher_matches
    <2> QED
      BY <1>1, <2>1
  <1>2. CASE m.pub # code /\ (m.stages = NoHash \/ D = {})
    <2>1. x = 2
      BY <1>2, StageSet DEF stale_from_meta, publisher_matches
    <2>2. m.stages # NoHash => \A n \in STAGE_ORDER : m.stages[n] = code[n]
      BY <1>2
    <2> QED
      BY <1>2, <2>1, <2>2
  <1>3. CASE m.pub # code /\ m.stages # NoHash /\ D # {}
    <2>1. x = CHOOSE s \in D : \A t \in D : s <= t
      BY <1>3 DEF stale_from_meta, publisher_matches
    <2>2. x \in D /\ \A t \in D : x <= t
      <3>1. \E s \in D : \A t \in D : s <= t
        BY <1>3, FirstStage
      <3> QED
        BY <2>1, <3>1
    <2>3. x \in 1 .. 4
      BY <2>2, StageSet
    <2>4. ASSUME NEW n \in STAGE_ORDER, n < x PROVE m.stages[n] = code[n]
      <3>1. n \notin D
        BY <2>2, <2>3, <2>4, StageSet
      <3> QED
        BY <3>1
    <2> QED
      BY <1>3, <2>3, <2>4
  <1> QED
    BY <1>1, <1>2, <1>3

(***************************************************************************)
(* Steps and types.                                                        *)
(***************************************************************************)

Child == [pc : Pcs, mod : Stamps, stamp : Stamps, trusted : Stamps,
          rebuilt : 0 .. Publish, adopt : BOOLEAN]

Document == [st : {"none", "queued", "running"} \cup TERMINAL_STATUS,
             pub : Stamps, stages : Stamps, rebuild : 0 .. Publish]

\* Only the child of s moves, within its type.
Moves(s) == run' \in [Sessions -> Child] /\ \A q \in Sessions \ {s} : run'[q] = run[q]

\* Only s has its meta.json and publications written.
Owns(s) ==
    /\ meta' \in [Sessions -> Document]
    /\ graph' \in [Sessions -> Files] /\ context' \in [Sessions -> Files]
    /\ \A q \in Sessions \ {s} :
        meta'[q] = meta[q] /\ graph'[q] = graph[q] /\ context'[q] = context[q]

SessionType ==
    /\ run \in [Sessions -> Child] /\ meta \in [Sessions -> Document]
    /\ graph \in [Sessions -> Files] /\ context \in [Sessions -> Files]

\* The functions of TypeOK.
LEMMA SessionTypes ==
    ASSUME TypeOK
    PROVE  /\ SessionType /\ code \in Hashes
           /\ \A s \in Sessions : run[s] \in Child /\ meta[s] \in Document
           /\ \A s \in Sessions : meta[s].stages \in Stamps /\ meta[s].pub \in Stamps
           /\ side.stages \in Stamps /\ side.pub \in Stamps
  BY DEF TypeOK, SessionType, Child, Document

\* A child that goes on with other locals.
LEMMA ChildPc ==
    ASSUME SessionType, NEW s \in Sessions, NEW c \in Pcs, run' = [run EXCEPT ![s].pc = c]
    PROVE  /\ Moves(s) /\ run'[s].pc = c /\ run'[s].mod = run[s].mod
           /\ run'[s].stamp = run[s].stamp /\ run'[s].rebuilt = run[s].rebuilt
           /\ run'[s].trusted = run[s].trusted /\ run'[s].adopt = run[s].adopt
  BY DEF SessionType, Child, Moves

\* The child imports the code.
LEMMA ChildSpawned ==
    ASSUME SessionType, NEW s \in Sessions, NEW c \in Pcs, NEW h \in Stamps,
           run' = [run EXCEPT ![s].pc = c, ![s].mod = h]
    PROVE  Moves(s) /\ run'[s].pc = c /\ run'[s].mod = h /\ run'[s].stamp = run[s].stamp
  <1> DEFINE old == run[s]
             new == [old EXCEPT !.pc = c, !.mod = h]
  <1>1. old \in Child
    BY DEF SessionType
  <1>2. new \in Child /\ new.pc = c /\ new.mod = h /\ new.stamp = old.stamp
    BY <1>1 DEF Child
  <1>3. run' = [run EXCEPT ![s] = new]
    BY DEF SessionType
  <1>4. run'[s] = new /\ Moves(s)
    BY <1>2, <1>3 DEF SessionType, Moves
  <1> QED
    BY <1>2, <1>4

\* It takes its stamp.
LEMMA ChildWrote ==
    ASSUME SessionType, NEW s \in Sessions, NEW c \in Pcs, NEW h \in Stamps,
           run' = [run EXCEPT ![s].pc = c, ![s].stamp = h]
    PROVE  /\ Moves(s) /\ run'[s].pc = c /\ run'[s].mod = run[s].mod
           /\ run'[s].stamp = h /\ run'[s].rebuilt = run[s].rebuilt
           /\ run'[s].adopt = run[s].adopt
  <1> DEFINE old == run[s]
             new == [old EXCEPT !.pc = c, !.stamp = h]
  <1>1. old \in Child
    BY DEF SessionType
  <1>2. /\ new \in Child /\ new.pc = c /\ new.mod = old.mod /\ new.stamp = h
        /\ new.rebuilt = old.rebuilt /\ new.adopt = old.adopt
    BY <1>1 DEF Child
  <1>3. run' = [run EXCEPT ![s] = new]
    BY DEF SessionType
  <1>4. run'[s] = new /\ Moves(s)
    BY <1>2, <1>3 DEF SessionType, Moves
  <1> QED
    BY <1>2, <1>4

\* It ends, or is queued again.
LEMMA ChildEnded ==
    ASSUME SessionType, NEW s \in Sessions,
           \/ run' = [run EXCEPT ![s] = NoRun]
           \/ run' = [run EXCEPT ![s] = [NoRun EXCEPT !.pc = "queued"]]
    PROVE  Moves(s) /\ run'[s].pc \in {"idle", "queued"} /\ run'[s].stamp = NoHash
  <1>1. NoRun \in Child /\ NoRun.pc = "idle" /\ NoRun.stamp = NoHash
    BY HashesReal, StageSet DEF NoRun, Child, Pcs
  <1> DEFINE new == [NoRun EXCEPT !.pc = "queued"]
  <1>2. new \in Child /\ new.pc = "queued" /\ new.stamp = NoHash
    <2>1. ASSUME NEW n \in Child, n.stamp = NoHash, NEW m, m = [n EXCEPT !.pc = "queued"]
          PROVE  m \in Child /\ m.pc = "queued" /\ m.stamp = NoHash
      BY <2>1 DEF Child, Pcs
    <2> QED
      BY <1>1, <2>1
  <1> HIDE DEF new
  <1>3. PICK x \in {NoRun, new} : run' = [run EXCEPT ![s] = x]
    BY DEF new
  <1>4. x \in Child /\ x.pc \in {"idle", "queued"} /\ x.stamp = NoHash
    BY <1>1, <1>2
  <1> QED
    BY <1>3, <1>4 DEF SessionType, Moves

\* The documents a step may leave.
LEMMA DocumentTypes ==
    /\ NoMeta \in Document
    /\ \A h \in Stamps, st \in {"running", "succeeded"} :
        [st |-> st, pub |-> h, stages |-> h, rebuild |-> 0] \in Document
    /\ \A r \in 0 .. Publish :
        [st |-> "failed", pub |-> NoHash, stages |-> NoHash, rebuild |-> r] \in Document
  BY HashesReal, StageSet DEF NoMeta, Document, TERMINAL_STATUS

\* The stamp a child would take.
LEMMA StampedType ==
    ASSUME TypeOK, NEW s \in Sessions
    PROVE  Stamped(s) \in Stamps
  BY SessionTypes, HashesReal DEF Stamped, Child

\* Types, when one session moves.
LEMMA TypeStep ==
    ASSUME TypeOK, NEW s \in Sessions, Moves(s), Owns(s),
           UNCHANGED code, raw' \in Files, ir' \in Files, layout' \in Files,
           side' \in [there : BOOLEAN, pub : Stamps, stages : Stamps],
           lock' \in Sessions \cup {None}, windows' \in SUBSET Windows,
           posts' \in 0 .. MaxPosts, deploys' \in 0 .. MaxDeploys, crashes' \in 0 .. MaxCrashes
    PROVE  TypeOK'
  BY DEF TypeOK, Moves, Owns, Child, Document

\* A session whose meta.json and publications are left alone.
LEMMA OwnsNothing ==
    ASSUME SessionType, NEW s \in Sessions, UNCHANGED sessionVars
    PROVE  Owns(s)
  BY DEF SessionType, Owns, sessionVars

\* A session that only writes meta.json.
LEMMA OwnsMeta ==
    ASSUME SessionType, NEW s \in Sessions, NEW d \in Document,
           meta' = [meta EXCEPT ![s] = d], UNCHANGED <<graph, context>>
    PROVE  Owns(s) /\ meta'[s] = d
  BY DEF SessionType, Owns

(***************************************************************************)
(* The effect of each action on the session that takes it.                 *)
(***************************************************************************)

\* clear_shared_artifacts and clear_downstream_artifacts only remove.
LEMMA Cleared ==
    ASSUME TypeOK, NEW s \in Sessions, NEW from
    PROVE  /\ ClearShared(from) =>
                /\ raw' \in {raw, {}} /\ ir' \in {ir, {}} /\ layout' \in {layout, {}}
                /\ raw' \in Files /\ ir' \in Files /\ layout' \in Files
           /\ ClearSession(s, from) =>
                /\ graph' \in [Sessions -> Files] /\ context' \in [Sessions -> Files]
                /\ graph'[s] \in {graph[s], {}} /\ context'[s] \in {context[s], {}}
                /\ Reached(from, Publish) => context'[s] = {}
                /\ Reached(from, Graph) => graph'[s] = {}
                /\ \A q \in Sessions \ {s} : graph'[q] = graph[q] /\ context'[q] = context[q]
  BY DEF TypeOK, ClearShared, ClearSession, Files

\* The first step of a POST.
LEMMA PostEffect ==
    ASSUME TypeOK, NEW s \in Sessions, Post(s)
    PROVE  /\ TypeOK' /\ Moves(s) /\ Owns(s)
           /\ run[s].pc = "idle" /\ run'[s].pc = "queued" /\ run'[s].stamp = run[s].stamp
           /\ UNCHANGED <<code, bookVars, lock, windows>>
           /\ meta'[s].pub = meta[s].pub /\ meta'[s].stages = meta[s].stages
           /\ meta'[s].st = "queued"
           /\ graph'[s] \subseteq graph[s] /\ context'[s] \subseteq context[s]
  <1>0. SessionType /\ code \in Hashes /\ meta[s] \in Document /\ meta[s].stages \in Stamps
    BY SessionTypes
  <1>1. /\ run[s].pc = "idle" /\ run' = [run EXCEPT ![s].pc = "queued"]
        /\ posts < MaxPosts /\ posts' = posts + 1
        /\ UNCHANGED <<code, bookVars, lock, windows, deploys, crashes>>
    BY DEF Post
  <1>2. Moves(s) /\ run'[s].pc = "queued" /\ run'[s].stamp = run[s].stamp
    BY <1>0, <1>1, ChildPc DEF Pcs
  <1>3. PICK stale, from :
            /\ stale \in 0 .. 4 /\ ClearSession(s, from)
            /\ meta' = [meta EXCEPT ![s].st = "queued", ![s].rebuild = stale]
    <2>1. PICK rebuild \in BOOLEAN :
              LET stale == IF rebuild THEN Compile ELSE stale_from_meta(meta[s]) IN
              /\ ClearSession(s, IF stale = 0 THEN Layout ELSE stale)
              /\ meta' = [meta EXCEPT ![s].st = "queued", ![s].rebuild = stale]
      BY DEF Post
    <2>2. (IF rebuild THEN Compile ELSE stale_from_meta(meta[s])) \in 0 .. 4
      BY <1>0, StaleFrom, StageSet
    <2> QED
      BY <2>1, <2>2
  <1> DEFINE old == meta[s]
             new == [old EXCEPT !.st = "queued", !.rebuild = stale]
  <1>4. /\ new \in Document /\ new.pub = old.pub /\ new.stages = old.stages
        /\ new.st = "queued"
    <2>1. old \in Document /\ "queued" \in {"none", "queued", "running"} \cup TERMINAL_STATUS
          /\ stale \in 0 .. Publish
      BY <1>0, <1>3, StageSet
    <2> QED
      BY <2>1 DEF Document
  <1>5. meta' = [meta EXCEPT ![s] = new]
    BY <1>0, <1>3 DEF SessionType
  <1>6. /\ meta' \in [Sessions -> Document] /\ meta'[s] = new
        /\ \A q \in Sessions \ {s} : meta'[q] = meta[q]
    BY <1>0, <1>4, <1>5 DEF SessionType
  <1>7. Owns(s) /\ graph'[s] \subseteq graph[s] /\ context'[s] \subseteq context[s]
    BY <1>3, <1>6, Cleared DEF Owns
  <1>8. TypeOK'
    <2>1. posts' \in 0 .. MaxPosts
      BY <1>1, CacheAssumption DEF TypeOK
    <2> QED
      BY <1>1, <1>2, <1>7, <2>1, TypeStep DEF TypeOK, bookVars
  <1> QED
    BY <1>1, <1>2, <1>4, <1>6, <1>7, <1>8

\* The child imports the code on disk.
LEMMA SpawnEffect ==
    ASSUME TypeOK, NEW s \in Sessions, Spawn(s)
    PROVE  /\ TypeOK' /\ Moves(s) /\ Owns(s)
           /\ run[s].pc = "queued" /\ run'[s].pc = "boot" /\ run'[s].mod = code
           /\ run'[s].stamp = run[s].stamp
           /\ UNCHANGED <<code, bookVars, lock, sessionVars, windows>>
  <1>0. SessionType /\ code \in Hashes /\ code \in Stamps
    BY SessionTypes, HashesReal
  <1>1. /\ run[s].pc = "queued" /\ run' = [run EXCEPT ![s].pc = "boot", ![s].mod = code]
        /\ UNCHANGED <<code, bookVars, lock, sessionVars, windows, bounds>>
    BY DEF Spawn
  <1>2. Moves(s) /\ run'[s].pc = "boot" /\ run'[s].mod = code /\ run'[s].stamp = run[s].stamp
    BY <1>0, <1>1, ChildSpawned DEF Pcs
  <1>3. Owns(s)
    BY <1>0, <1>1, OwnsNothing
  <1>4. TypeOK'
    BY <1>1, <1>2, <1>3, TypeStep DEF TypeOK, bookVars, bounds
  <1> QED
    BY <1>1, <1>2, <1>3, <1>4

\* A run that finds the book locked ends.
LEMMA BusyEffect ==
    ASSUME TypeOK, NEW s \in Sessions, Busy(s)
    PROVE  /\ TypeOK' /\ Moves(s) /\ Owns(s)
           /\ run[s].pc = "boot" /\ run'[s].pc \in {"idle", "queued"} /\ run'[s].stamp = NoHash
           /\ UNCHANGED <<code, bookVars, lock, sessionVars, windows>>
  <1>0. SessionType
    BY SessionTypes
  <1>1. /\ run[s].pc = "boot" /\ run' = [run EXCEPT ![s] = [NoRun EXCEPT !.pc = "queued"]]
        /\ UNCHANGED <<code, bookVars, lock, sessionVars, windows, bounds>>
    BY DEF Busy
  <1>2. Moves(s) /\ run'[s].pc \in {"idle", "queued"} /\ run'[s].stamp = NoHash
    BY <1>0, <1>1, ChildEnded
  <1>3. Owns(s)
    BY <1>0, <1>1, OwnsNothing
  <1>4. TypeOK'
    BY <1>1, <1>2, <1>3, TypeStep DEF TypeOK, bookVars, bounds
  <1> QED
    BY <1>1, <1>2, <1>3, <1>4

\* A run that raises, times out or is killed.
LEMMA LeaveEffect ==
    ASSUME TypeOK, NEW s \in Sessions, Fail(s) \/ Kill(s)
    PROVE  /\ TypeOK' /\ Moves(s) /\ Owns(s)
           /\ Alive(s) /\ run'[s].pc \in {"idle", "queued"} /\ run'[s].stamp = NoHash
           /\ UNCHANGED <<code, bookVars, graph, context>>
           /\ lock' = IF lock = s THEN None ELSE lock
           /\ windows' = windows \cup
                IF lock = s /\ run[s].rebuilt # 0 THEN {"half_rebuilt"} ELSE {}
           /\ \/ meta'[s] = meta[s]
              \/ /\ meta'[s].pub = NoHash /\ meta'[s].stages = NoHash
                 /\ meta'[s].st = "failed"
  <1>0. SessionType /\ meta[s] \in Document
    BY SessionTypes
  <1>1. Leave(s)
    BY DEF Fail, Kill
  <1>2. /\ Alive(s) /\ crashes < MaxCrashes /\ crashes' = crashes + 1
        /\ UNCHANGED <<code, bookVars, graph, context, posts, deploys>>
        /\ lock' = IF lock = s THEN None ELSE lock
        /\ windows' = windows \cup
             IF lock = s /\ run[s].rebuilt # 0 THEN {"half_rebuilt"} ELSE {}
    BY <1>1 DEF Leave
  <1>3. Moves(s) /\ run'[s].pc \in {"idle", "queued"} /\ run'[s].stamp = NoHash
    BY <1>0, ChildEnded DEF Fail, Kill
  <1> DEFINE d == [NoMeta EXCEPT !.st = "failed", !.rebuild = meta[s].rebuild]
  <1>5. d \in Document /\ d.pub = NoHash /\ d.stages = NoHash /\ d.st = "failed"
    <2>1. meta[s].rebuild \in 0 .. Publish
      BY <1>0 DEF Document
    <2>2. NoMeta \in Document /\ NoMeta.pub = NoHash /\ NoMeta.stages = NoHash
      BY DocumentTypes DEF NoMeta
    <2>3. ASSUME NEW n \in Document, n.pub = NoHash, n.stages = NoHash,
                 NEW r \in 0 .. Publish, NEW m, m = [n EXCEPT !.st = "failed", !.rebuild = r]
          PROVE  m \in Document /\ m.pub = NoHash /\ m.stages = NoHash /\ m.st = "failed"
      BY <2>3 DEF Document, TERMINAL_STATUS
    <2> QED
      BY <2>1, <2>2, <2>3
  <1>6. UNCHANGED meta \/ meta' = [meta EXCEPT ![s] = d]
    BY DEF Fail, Kill
  <1>7. Owns(s) /\ meta'[s] \in {meta[s], d}
    <2>1. CASE UNCHANGED meta
      <3>1. UNCHANGED sessionVars
        BY <1>2, <2>1 DEF sessionVars
      <3> QED
        BY <1>0, <2>1, <3>1, OwnsNothing
    <2>2. CASE meta' = [meta EXCEPT ![s] = d]
      <3> HIDE DEF d
      <3> QED
        BY <1>0, <1>2, <1>5, <2>2, OwnsMeta
    <2> QED
      BY <1>6, <2>1, <2>2
  <1>8. TypeOK'
    <2>1. crashes' \in 0 .. MaxCrashes /\ lock' \in Sessions \cup {None}
      BY <1>2, CacheAssumption DEF TypeOK
    <2>2. windows' \in SUBSET Windows
      BY <1>2 DEF TypeOK, Windows
    <2> QED
      BY <1>2, <1>3, <1>7, <2>1, <2>2, TypeStep DEF TypeOK, bookVars
  <1> QED
    BY <1>2, <1>3, <1>5, <1>7, <1>8

\* What a step of the work on the book does besides its files.
Worked(s) ==
    /\ Moves(s) /\ Owns(s)
    /\ run[s].pc \in {"parse", "compile", "layout", "graph", "publish", "finish"}
    /\ run'[s].pc \in {"compile", "layout", "graph", "publish", "finish", "stamp"}
    /\ run'[s].mod = run[s].mod /\ run'[s].rebuilt = run[s].rebuilt
    /\ run'[s].adopt = run[s].adopt /\ run'[s].stamp = Stamped(s)
    /\ meta'[s].pub = Stamped(s) /\ meta'[s].stages = Stamped(s)
    /\ UNCHANGED <<code, side, lock, windows>>

\* _write_meta.
LEMMA WriteEffect ==
    ASSUME TypeOK, NEW s \in Sessions, NEW st \in {"running", "succeeded"}, NEW c \in Pcs,
           Write(s, st, c)
    PROVE  /\ Moves(s) /\ run'[s].pc = c /\ run'[s].mod = run[s].mod
           /\ run'[s].rebuilt = run[s].rebuilt /\ run'[s].adopt = run[s].adopt
           /\ run'[s].stamp = Stamped(s)
           /\ meta' \in [Sessions -> Document]
           /\ meta'[s].pub = Stamped(s) /\ meta'[s].stages = Stamped(s)
           /\ \A q \in Sessions \ {s} : meta'[q] = meta[q]
  <1>0. SessionType /\ Stamped(s) \in Stamps
    BY SessionTypes, StampedType
  <1>1. run' = [run EXCEPT ![s].pc = c, ![s].stamp = Stamped(s)]
    BY DEF Write
  <1> DEFINE d == [st |-> st, pub |-> Stamped(s), stages |-> Stamped(s), rebuild |-> 0]
  <1>2. d \in Document /\ d.pub = Stamped(s) /\ d.stages = Stamped(s)
    BY <1>0, DocumentTypes
  <1>3. meta' = [meta EXCEPT ![s] = d]
    BY DEF Write
  <1> HIDE DEF d
  <1>4. /\ meta' \in [Sessions -> Document] /\ meta'[s] = d
        /\ \A q \in Sessions \ {s} : meta'[q] = meta[q]
    BY <1>0, <1>2, <1>3 DEF SessionType
  <1> QED
    BY <1>0, <1>1, <1>2, <1>4, ChildWrote

\* A stage of the code of a child is a mark on its file.
LEMMA ByType ==
    ASSUME ModInv, NEW s \in Sessions, Alive(s), NEW n \in STAGE_ORDER
    PROVE  By(n, run[s].mod[n]) \in Files
  BY HashesReal DEF ModInv, By, Files

\* Types of a step of the work.
LEMMA WorkedType ==
    ASSUME TypeOK, NEW s \in Sessions, Worked(s), UNCHANGED bounds,
           raw' \in Files, ir' \in Files, layout' \in Files
    PROVE  TypeOK'
  BY TypeStep DEF TypeOK, Worked, bounds

\* set_stage("parse") and parse_workbook.
LEMMA ParseEffect ==
    ASSUME TypeOK, ModInv, NEW s \in Sessions, Parse(s)
    PROVE  /\ TypeOK' /\ Worked(s)
           /\ raw' = IF raw = {} THEN By(Compile, run[s].mod[Compile]) ELSE raw
           /\ UNCHANGED <<ir, layout, graph, context>>
  <1>1. /\ run[s].pc = "parse" /\ Write(s, "running", "compile")
        /\ raw' = IF raw = {} THEN By(Compile, run[s].mod[Compile]) ELSE raw
        /\ UNCHANGED <<code, ir, layout, side, lock, graph, context, windows, bounds>>
    BY DEF Parse
  <1>2. Worked(s)
    BY <1>1, WriteEffect DEF Pcs, Worked, Owns, TypeOK
  <1>3. By(Compile, run[s].mod[Compile]) \in Files
    BY <1>1, ByType, StageSet DEF Alive
  <1>4. raw' \in Files
    BY <1>1, <1>3 DEF TypeOK
  <1>5. TypeOK'
    BY <1>1, <1>2, <1>4, WorkedType DEF TypeOK
  <1> QED
    BY <1>1, <1>2, <1>5

\* compile_workbook.
LEMMA CompileEffect ==
    ASSUME TypeOK, ModInv, NEW s \in Sessions, CompileStage(s)
    PROVE  /\ TypeOK' /\ Worked(s) /\ run[s].pc = "compile"
           /\ ir' = IF ir = {} THEN raw \cup By(Compile, run[s].mod[Compile]) ELSE ir
           /\ UNCHANGED <<raw, layout, graph, context>>
  <1>1. /\ run[s].pc = "compile" /\ Write(s, "running", "layout")
        /\ ir' = IF ir = {} THEN raw \cup By(Compile, run[s].mod[Compile]) ELSE ir
        /\ UNCHANGED <<code, raw, layout, side, lock, graph, context, windows, bounds>>
    BY DEF CompileStage
  <1>2. Worked(s)
    BY <1>1, WriteEffect DEF Pcs, Worked, Owns, TypeOK
  <1>3. By(Compile, run[s].mod[Compile]) \in Files
    BY <1>1, ByType, StageSet DEF Alive
  <1>4. ir' \in Files
    BY <1>1, <1>3 DEF TypeOK, Files
  <1>5. TypeOK'
    BY <1>1, <1>2, <1>4, WorkedType DEF TypeOK
  <1> QED
    BY <1>1, <1>2, <1>5

\* layout_workbook.
LEMMA LayoutEffect ==
    ASSUME TypeOK, ModInv, NEW s \in Sessions, LayoutStage(s)
    PROVE  /\ TypeOK' /\ Worked(s) /\ run[s].pc = "layout"
           /\ layout' = IF layout = {} THEN raw \cup ir \cup By(Layout, run[s].mod[Layout])
                        ELSE layout
           /\ UNCHANGED <<raw, ir, graph, context>>
  <1>1. /\ run[s].pc = "layout" /\ Write(s, "running", "graph")
        /\ layout' = IF layout = {} THEN raw \cup ir \cup By(Layout, run[s].mod[Layout])
                     ELSE layout
        /\ UNCHANGED <<code, raw, ir, side, lock, graph, context, windows, bounds>>
    BY DEF LayoutStage
  <1>2. Worked(s)
    BY <1>1, WriteEffect DEF Pcs, Worked, Owns, TypeOK
  <1>3. By(Layout, run[s].mod[Layout]) \in Files
    BY <1>1, ByType, StageSet DEF Alive
  <1>4. layout' \in Files
    BY <1>1, <1>3 DEF TypeOK, Files
  <1>5. TypeOK'
    BY <1>1, <1>2, <1>4, WorkedType DEF TypeOK
  <1> QED
    BY <1>1, <1>2, <1>5

\* A session's file that is written.
LEMMA Rewritten ==
    ASSUME NEW f \in [Sessions -> Files], NEW s \in Sessions, NEW x \in Files,
           NEW g, g = [f EXCEPT ![s] = x]
    PROVE  g \in [Sessions -> Files] /\ g[s] = x /\ \A q \in Sessions \ {s} : g[q] = f[q]
  OBVIOUS

\* build_formula_graph.
LEMMA GraphEffect ==
    ASSUME TypeOK, ModInv, NEW s \in Sessions, GraphStage(s)
    PROVE  /\ TypeOK' /\ Worked(s) /\ run[s].pc = "graph"
           /\ graph'[s] = IF graph[s] = {} THEN ir \cup layout \cup By(Graph, run[s].mod[Graph])
                          ELSE graph[s]
           /\ UNCHANGED <<raw, ir, layout, context>>
  <1> DEFINE x == IF graph[s] = {} THEN ir \cup layout \cup By(Graph, run[s].mod[Graph])
                  ELSE graph[s]
  <1>1. /\ run[s].pc = "graph" /\ Write(s, "running", "publish")
        /\ graph' = [graph EXCEPT ![s] = x]
        /\ UNCHANGED <<code, raw, ir, layout, side, lock, context, windows, bounds>>
    BY DEF GraphStage, bookVars
  <1>2. By(Graph, run[s].mod[Graph]) \in Files
    BY <1>1, ByType, StageSet DEF Alive
  <1>3. x \in Files
    BY <1>2 DEF TypeOK, Files
  <1> HIDE DEF x
  <1>4. /\ graph' \in [Sessions -> Files] /\ graph'[s] = x
        /\ \A q \in Sessions \ {s} : graph'[q] = graph[q]
    BY <1>1, <1>3, Rewritten DEF TypeOK
  <1>5. Worked(s)
    BY <1>1, <1>4, WriteEffect DEF Pcs, Worked, Owns, TypeOK
  <1>6. TypeOK'
    BY <1>1, <1>5, WorkedType DEF TypeOK
  <1> QED
    BY <1>1, <1>4, <1>5, <1>6 DEF x

\* build_context and the markdown.
LEMMA PublishEffect ==
    ASSUME TypeOK, ModInv, NEW s \in Sessions, PublishStage(s)
    PROVE  /\ TypeOK' /\ Worked(s) /\ run[s].pc = "publish"
           /\ context'[s] = ir \cup layout \cup graph[s] \cup By(Layout, run[s].mod[Layout])
                               \cup By(Publish, run[s].mod[Publish])
           /\ UNCHANGED <<raw, ir, layout, graph>>
  <1> DEFINE x == ir \cup layout \cup graph[s] \cup By(Layout, run[s].mod[Layout])
                     \cup By(Publish, run[s].mod[Publish])
  <1>1. /\ run[s].pc = "publish" /\ Write(s, "running", "finish")
        /\ context' = [context EXCEPT ![s] = x]
        /\ UNCHANGED <<code, raw, ir, layout, side, lock, graph, windows, bounds>>
    BY DEF PublishStage, bookVars
  <1>2. By(Layout, run[s].mod[Layout]) \in Files /\ By(Publish, run[s].mod[Publish]) \in Files
    BY <1>1, ByType, StageSet DEF Alive
  <1>3. x \in Files
    BY <1>2 DEF TypeOK, Files
  <1> HIDE DEF x
  <1>4. /\ context' \in [Sessions -> Files] /\ context'[s] = x
        /\ \A q \in Sessions \ {s} : context'[q] = context[q]
    BY <1>1, <1>3, Rewritten DEF TypeOK
  <1>5. Worked(s)
    BY <1>1, <1>4, WriteEffect DEF Pcs, Worked, Owns, TypeOK
  <1>6. TypeOK'
    BY <1>1, <1>5, WorkedType DEF TypeOK
  <1> QED
    BY <1>1, <1>4, <1>5, <1>6 DEF x

\* The final meta.json.
LEMMA FinishEffect ==
    ASSUME TypeOK, NEW s \in Sessions, Finish(s)
    PROVE  /\ TypeOK' /\ Worked(s) /\ run[s].pc = "finish"
           /\ UNCHANGED <<raw, ir, layout, graph, context>>
  <1>1. /\ run[s].pc = "finish" /\ Write(s, "succeeded", "stamp")
        /\ UNCHANGED <<code, raw, ir, layout, side, lock, graph, context, windows, bounds>>
    BY DEF Finish, bookVars
  <1>2. Worked(s)
    BY <1>1, WriteEffect DEF Pcs, Worked, Owns, TypeOK
  <1>3. TypeOK'
    BY <1>1, <1>2, WorkedType DEF TypeOK
  <1> QED
    BY <1>1, <1>2, <1>3

\* The stages a run may find stale.
LEMMA StaleStages ==
    ASSUME TypeOK, NEW s \in Sessions
    PROVE  /\ session_stale_stage(meta[s]) \in 0 .. 4
           /\ \A adopt, recorded : shared_stale_stage(adopt, recorded) \in 0 .. 4
           /\ 0 .. Publish = 0 .. 4
  <1>1. meta[s].rebuild \in 0 .. 4
    BY SessionTypes, StageSet DEF Document
  <1>2. stale_from_meta(meta[s]) \in 0 .. 4 /\ stale_from_meta(side) \in 0 .. 4
    BY SessionTypes, StaleFrom
  <1>3. session_stale_stage(meta[s]) \in 0 .. 4
    BY <1>1, <1>2 DEF session_stale_stage
  <1>4. ASSUME NEW adopt, NEW recorded PROVE shared_stale_stage(adopt, recorded) \in 0 .. 4
    BY <1>2, StageSet DEF shared_stale_stage, _recorded_or_layout
  <1> QED
    BY <1>3, <1>4, StageSet

\* What invalidate_for_run finds: the session's stale stage, whether the files of the
\* book are adopted, the book's stale stage.
Recorded(s) == session_stale_stage(meta[s])
Adopts(s) == publisher_matches(meta[s]) \/ ~_cache_has_body
StaleBook(s) == shared_stale_stage(Adopts(s), Recorded(s))

\* invalidate_for_run.
LEMMA InvalidateEffect ==
    ASSUME TypeOK, NEW s \in Sessions, Invalidate(s)
    PROVE  /\ TypeOK' /\ Moves(s) /\ Owns(s)
           /\ Recorded(s) \in 0 .. 4 /\ StaleBook(s) \in 0 .. 4
           /\ run[s].pc = "boot" /\ lock = None /\ lock' = s
           /\ run'[s].pc = (IF context'[s] # {} THEN "stamp" ELSE "parse")
           /\ run'[s].mod = run[s].mod /\ run'[s].stamp = run[s].stamp
           /\ run'[s].rebuilt = StaleBook(s) /\ run'[s].adopt = Adopts(s)
           /\ meta'[s] = (IF Recorded(s) = 0 THEN meta[s] ELSE NoMeta)
           /\ ClearShared(StaleBook(s)) /\ ClearSession(s, Recorded(s))
           /\ UNCHANGED <<code, side>> /\ windows \subseteq windows'
           /\ windows' = {} =>
                /\ ~(~side.there /\ StaleBook(s) = Layout /\ (raw # {} \/ ir # {}))
                /\ ~Reached(stale_from_meta(meta[s]), Recorded(s) - 1)
  <1> DEFINE recorded == Recorded(s)
             adopt == Adopts(s)
             stale == StaleBook(s)
  <1>0. SessionType /\ meta[s].stages \in Stamps
    BY SessionTypes
  <1>a. adopt \in BOOLEAN
    BY DEF Adopts
  <1>1. recorded \in 0 .. 4 /\ stale \in 0 .. 4 /\ stale \in 0 .. Publish
    BY StaleStages DEF Recorded, StaleBook
  <1>2. /\ run[s].pc = "boot" /\ lock = None /\ lock' = s
        /\ ClearShared(stale) /\ ClearSession(s, recorded)
        /\ meta' = IF recorded = 0 THEN meta ELSE [meta EXCEPT ![s] = NoMeta]
        /\ run' = [run EXCEPT ![s].pc = IF context'[s] # {} THEN "stamp" ELSE "parse",
                              ![s].rebuilt = stale,
                              ![s].trusted = meta[s].stages,
                              ![s].adopt = adopt]
        /\ UNCHANGED <<code, side, bounds>>
    BY DEF Invalidate, Recorded, Adopts, StaleBook
  <1>3. windows' = windows \cup
         {w \in Windows :
            \/ /\ w = "no_sidecar"
               /\ ~side.there /\ stale = Layout /\ (raw # {} \/ ir # {})
            \/ /\ w = "recorded"
               /\ Reached(stale_from_meta(meta[s]), recorded - 1)}
    BY DEF Invalidate, Recorded, Adopts, StaleBook
  <1> HIDE DEF recorded, adopt, stale
  <1>4. /\ windows \subseteq windows' /\ windows' \in SUBSET Windows
        /\ windows' = {} =>
                /\ ~(~side.there /\ stale = Layout /\ (raw # {} \/ ir # {}))
                /\ ~Reached(stale_from_meta(meta[s]), recorded - 1)
    BY <1>3 DEF Windows, TypeOK
  <1>5. (IF context'[s] # {} THEN "stamp" ELSE "parse") \in Pcs
    BY DEF Pcs
  <1>6. /\ Moves(s) /\ run'[s].pc = (IF context'[s] # {} THEN "stamp" ELSE "parse")
        /\ run'[s].mod = run[s].mod /\ run'[s].stamp = run[s].stamp
        /\ run'[s].rebuilt = stale /\ run'[s].adopt = adopt
    <2>1. PICK c \in Pcs : c = IF context'[s] # {} THEN "stamp" ELSE "parse"
      BY <1>5
    <2>2. run' = [run EXCEPT ![s].pc = c, ![s].rebuilt = stale, ![s].trusted = meta[s].stages,
                             ![s].adopt = adopt]
      BY <1>2, <2>1
    <2> DEFINE old == run[s]
               h == meta[s].stages
               new == [old EXCEPT !.pc = c, !.rebuilt = stale, !.trusted = h, !.adopt = adopt]
    <2>3. old \in Child /\ h \in Stamps
      BY <1>0 DEF SessionType
    <2>4. run' = [run EXCEPT ![s] = new]
      BY <1>0, <2>2 DEF SessionType
    <2> HIDE DEF h
    <2>5. /\ new \in Child /\ new.pc = c /\ new.mod = old.mod /\ new.stamp = old.stamp
          /\ new.rebuilt = stale /\ new.adopt = adopt
      BY <1>a, <1>1, <2>3 DEF Child
    <2>6. run'[s] = new /\ Moves(s)
      BY <1>0, <2>4, <2>5 DEF SessionType, Moves
    <2> QED
      BY <2>1, <2>5, <2>6
  <1>7. /\ meta' \in [Sessions -> Document]
        /\ meta'[s] = (IF recorded = 0 THEN meta[s] ELSE NoMeta)
        /\ \A q \in Sessions \ {s} : meta'[q] = meta[q]
    <2>1. NoMeta \in Document
      BY DocumentTypes
    <2> QED
      BY <1>0, <1>2, <2>1 DEF SessionType
  <1>8. Owns(s) /\ raw' \in Files /\ ir' \in Files /\ layout' \in Files
    BY <1>2, <1>7, Cleared DEF Owns
  <1>9. TypeOK'
    BY <1>2, <1>4, <1>6, <1>8, TypeStep DEF TypeOK, bounds
  <1> QED
    BY <1>1, <1>2, <1>4, <1>6, <1>7, <1>8, <1>9 DEF recorded, adopt, stale

\* write_shared_stamp.
LEMMA WriteStampEffect ==
    ASSUME TypeOK, NEW s \in Sessions, WriteStamp(s)
    PROVE  /\ TypeOK' /\ Moves(s) /\ Owns(s)
           /\ run[s].pc = "stamp" /\ run'[s].pc \in {"idle", "queued"}
           /\ run'[s].stamp = NoHash /\ lock' = None
           /\ UNCHANGED <<code, raw, ir, layout, sessionVars, windows>>
           /\ \/ ~_cache_has_body /\ side' = side
              \/ /\ _cache_has_body /\ side'.there
                 /\ side'.stages = SideStages(run[s], Stamped(s))
                 /\ side'.stages = Stamped(s) => side'.pub = Stamped(s)
  <1> DEFINE h == Stamped(s)
             g == SideStages(run[s], Stamped(s))
             d == [there |-> TRUE, stages |-> g, pub |-> IF g = h THEN h ELSE NoHash]
  <1>0. SessionType /\ run[s] \in Child /\ side.stages \in Stamps /\ h \in Stamps
    BY SessionTypes, StampedType
  <1>1. /\ run[s].pc = "stamp" /\ run' = [run EXCEPT ![s] = NoRun] /\ lock' = None
        /\ UNCHANGED <<code, raw, ir, layout, sessionVars, windows, bounds>>
        /\ side' = IF ~_cache_has_body THEN side ELSE d
    BY DEF WriteStamp
  <1>2. Moves(s) /\ run'[s].pc \in {"idle", "queued"} /\ run'[s].stamp = NoHash
    BY <1>0, <1>1, ChildEnded
  <1>3. Owns(s)
    BY <1>0, <1>1, OwnsNothing
  <1>4. g \in Stamps
    <2>1. \A n \in STAGE_ORDER : h[n] \in 0 .. MaxHash /\ side.stages[n] \in 0 .. MaxHash
      BY <1>0, HashesReal
    <2>2. 0 \in 0 .. MaxHash
      BY CacheAssumption
    <2> HIDE DEF h
    <2>3. SideStages(run[s], h) \in Stamps
      BY <2>1, <2>2 DEF SideStages, Stamps
    <2> QED
      BY <2>3 DEF h
  <1> HIDE DEF g, h
  <1>5. /\ d \in [there : BOOLEAN, pub : Stamps, stages : Stamps] /\ d.there
        /\ d.stages = g /\ (g = h => d.pub = h)
    BY <1>0, <1>4, HashesReal
  <1> HIDE DEF d
  <1>6. TypeOK'
    BY <1>1, <1>2, <1>3, <1>5, TypeStep DEF TypeOK, bounds
  <1> QED
    BY <1>1, <1>2, <1>3, <1>5, <1>6 DEF g, h

\* The code on disk is replaced.
LEMMA DeployEffect ==
    ASSUME TypeOK, Deploy
    PROVE  /\ TypeOK' /\ windows \subseteq windows'
           /\ windows' = {} => \A s \in Sessions : Alive(s) => run[s].stamp # NoHash
           /\ UNCHANGED <<bookVars, lock, sessionVars, run>>
  <1>1. /\ deploys < MaxDeploys /\ deploys' = deploys + 1 /\ code' \in Hashes
        /\ UNCHANGED <<bookVars, lock, sessionVars, run, posts, crashes>>
        /\ windows' = windows \cup
             IF \E s \in Sessions : Alive(s) /\ run[s].stamp = NoHash
             THEN {"late_stamp"} ELSE {}
    BY DEF Deploy
  <1>2. deploys' \in 0 .. MaxDeploys
    BY <1>1, CacheAssumption DEF TypeOK
  <1>3. /\ windows' \in SUBSET Windows /\ windows \subseteq windows'
        /\ windows' = {} => \A s \in Sessions : Alive(s) => run[s].stamp # NoHash
    BY <1>1 DEF TypeOK, Windows
  <1>4. TypeOK'
    BY <1>1, <1>2, <1>3 DEF TypeOK, bookVars, sessionVars
  <1> QED
    BY <1>1, <1>3, <1>4

(***************************************************************************)
(* What the kinds of steps preserve.                                       *)
(***************************************************************************)

\* The lock, when only s may take or free it.
LEMMA LockStep ==
    ASSUME LockInv, NEW s \in Sessions, Moves(s), lock' = s <=> Working(s)',
           \A q \in Sessions \ {s} : lock' = q <=> lock = q
    PROVE  LockInv'
  BY DEF LockInv, Moves, Working

\* The code a child has imported.
LEMMA ModStep ==
    ASSUME ModInv, NEW s \in Sessions, Moves(s), Alive(s)' => run'[s].mod \in Hashes
    PROVE  ModInv'
  BY DEF ModInv, Moves, Alive

\* Two sessions do not work at once.
LEMMA OneWorks ==
    ASSUME TypeOK, LockInv, NEW s \in Sessions, lock \in {s, None}
    PROVE  \A q \in Sessions \ {s} : ~Working(q)
  BY CacheAssumption DEF TypeOK, LockInv

\* What another session's step leaves as it is.
LEMMA OthersKeep ==
    ASSUME Truth, NEW s \in Sessions, Moves(s), Owns(s), UNCHANGED code
    PROVE  \A q \in Sessions \ {s} : StampOK(q)' /\ MetaOK(q)' /\ SessionOK(q)'
  <1> SUFFICES ASSUME NEW q \in Sessions \ {s}
               PROVE  StampOK(q)' /\ MetaOK(q)' /\ SessionOK(q)'
    OBVIOUS
  <1>1. /\ run'[q] = run[q] /\ meta'[q] = meta[q] /\ graph'[q] = graph[q]
        /\ context'[q] = context[q]
    BY DEF Moves, Owns
  <1>2. StampOK(q) /\ MetaOK(q) /\ SessionOK(q)
    BY DEF Truth
  <1>3. StampOK(q)'
    BY <1>1, <1>2 DEF StampOK, Alive, Working
  <1>4. MetaOK(q)'
    BY <1>1, <1>2 DEF MetaOK
  <1>5. SessionOK(q)'
    BY <1>1, <1>2 DEF SessionOK, Working, MadeBy
  <1> QED
    BY <1>3, <1>4, <1>5

\* Hashes from stage to stage.
LEMMA SideIs ==
    ASSUME NEW g \in Hashes, NEW h \in Hashes, NEW r, r = 0,
           \A n \in STAGE_ORDER : Reached(r, n) \/ g[n] = h[n]
    PROVE  g = h
  BY SameHashes DEF Reached

\* A session that is not, or no longer, at work and replaces nothing in the book.
LEMMA RestStep ==
    ASSUME TypeOK, LockInv, ModInv, Truth, NEW s \in Sessions, Moves(s), Owns(s),
           ~Working(s)', UNCHANGED <<code, raw, ir, layout, side>>,
           lock' = IF lock = s THEN None ELSE lock, lock = s => run[s].rebuilt = 0,
           StampOK(s)', MetaOK(s)', meta'[s].pub \in {meta[s].pub, NoHash},
           graph'[s] \subseteq graph[s], context'[s] \subseteq context[s]
    PROVE  Truth'
  <1>0. /\ NestInv /\ SideInv /\ NoSideInv /\ MetaOK(s) /\ RunOK(s) /\ SessionOK(s)
        /\ \A q \in Sessions : RunOK(q)
    BY DEF Truth
  <1>1. \A q \in Sessions \ {s} : StampOK(q)' /\ MetaOK(q)' /\ SessionOK(q)'
    BY OthersKeep
  <1>2. NestInv'
    BY <1>0 DEF NestInv, NestOK, Moves, Working
  <1>3. Working(s) <=> lock = s
    BY DEF LockInv
  <1>4. SessionOK(s)'
    <2>1. meta'[s].pub # NoHash => MadeBy(context[s] \cup graph[s], meta[s].pub)
      <3>1. meta'[s].pub # NoHash => meta[s].pub # NoHash
        OBVIOUS
      <3> QED
        BY <1>0, <3>1 DEF RunOK, SessionOK
    <2>2. meta'[s].pub # NoHash => MadeBy(context'[s] \cup graph'[s], meta'[s].pub)
      BY <2>1 DEF MadeBy
    <2> QED
      BY <1>0, <2>2 DEF SessionOK, MadeBy
  <1>5. SideInv'
    <2>1. ASSUME side.there, lock' = None PROVE MadeBy(Built, side.stages)
      <3>1. CASE lock = s
        <4>1. run[s].rebuilt = 0 /\ Working(s) /\ Alive(s)
          BY <1>3, <3>1 DEF Working, Alive
        <4>2. /\ MadeBy(Built, run[s].mod)
              /\ \A n \in STAGE_ORDER :
                    Reached(run[s].rebuilt, n) \/ side.stages[n] = run[s].mod[n]
          BY <1>0, <2>1, <4>1 DEF RunOK
        <4>3. side.stages \in Hashes /\ run[s].mod \in Hashes
          BY <1>0, <2>1, <4>1 DEF SideInv, ModInv
        <4>4. side.stages = run[s].mod
          BY <4>1, <4>2, <4>3, SideIs
        <4> QED
          BY <4>2, <4>4
      <3>2. CASE lock # s
        BY <1>0, <2>1, <3>2 DEF SideInv
      <3> QED
        BY <3>1, <3>2
    <2>2. side.there /\ lock' = None => MadeBy(Built, side.stages)'
      BY <2>1 DEF Built, MadeBy
    <2> QED
      BY <1>0, <2>2 DEF SideInv, NoSide
  <1>6. NoSideInv'
    <2> SUFFICES ASSUME ~side'.there, lock' = None \/ run'[lock'].rebuilt = 0,
                        NEW q \in Sessions, meta'[q].pub # NoHash
                 PROVE  /\ raw' # {} /\ MadeBy(Built, meta[q].pub)'
                        /\ \A t \in Sessions : meta'[t].pub \in {NoHash, meta'[q].pub}
                        /\ lock' # None => meta'[q].pub = run'[lock'].mod
      BY DEF NoSideInv, NoSideOK
    <2>1. lock' # None => lock' = lock /\ lock \in Sessions \ {s}
      BY DEF TypeOK
    <2>2. ~side.there /\ (lock = None \/ run[lock].rebuilt = 0)
      <3>1. CASE lock' # None
        BY <2>1, <3>1 DEF Moves
      <3>2. CASE lock' = None
        BY <3>2
      <3> QED
        BY <3>1, <3>2
    <2>3. \A t \in Sessions : NoSideOK(t)
      BY <1>0, <2>2 DEF NoSideInv
    <2>4. \A t \in Sessions : meta'[t].pub \in {meta[t].pub, NoHash}
      BY DEF Owns
    <2>5. meta'[q].pub = meta[q].pub /\ meta[q].pub # NoHash
      BY <2>4
    <2>6. /\ raw # {} /\ MadeBy(Built, meta[q].pub)
          /\ \A t \in Sessions : meta[t].pub \in {NoHash, meta[q].pub}
          /\ lock # None => meta[q].pub = run[lock].mod
      BY <2>3, <2>5 DEF NoSideOK
    <2>7. MadeBy(Built, meta[q].pub)'
      BY <2>5, <2>6 DEF MadeBy, Built
    <2>8. lock' # None => meta'[q].pub = run'[lock'].mod
      BY <2>1, <2>5, <2>6 DEF Moves
    <2> QED
      BY <2>4, <2>5, <2>6, <2>7, <2>8
  <1>7. \A q \in Sessions : RunOK(q)'
    <2>1. RunOK(s)'
      BY DEF RunOK
    <2>2. ASSUME NEW q \in Sessions \ {s} PROVE RunOK(q)'
      BY <1>0 DEF RunOK, Moves, Owns, Working, MadeBy, Built, Reached
    <2> QED
      BY <2>1, <2>2
  <1> QED
    BY <1>1, <1>2, <1>4, <1>5, <1>6, <1>7 DEF Truth

\* The stamp of a child is that of its code.
LEMMA StampIsMod ==
    ASSUME ModInv, NEW s \in Sessions, StampOK(s), Alive(s)
    PROVE  Stamped(s) = run[s].mod /\ run[s].mod \in Hashes /\ run[s].mod # NoHash
  BY HashesReal DEF StampOK, Stamped, ModInv

\* A step of the work that leaves files of this code.
LEMMA WorkStep ==
    ASSUME TypeOK, LockInv, ModInv, Truth, NEW s \in Sessions, Worked(s),
           raw' # {}, MadeBy(raw' \cup ir' \cup layout', run[s].mod),
           MadeBy(context'[s] \cup graph'[s], run[s].mod),
           \A x \in graph'[s] : x[1] <= Graph, \A x \in raw' \cup ir' : x[1] <= Compile,
           \A x \in layout' : x[1] <= Layout
    PROVE  Truth'
  <1>0. /\ SideInv /\ NoSideInv /\ StampOK(s) /\ RunOK(s)
    BY DEF Truth
  <1>1. Moves(s) /\ Owns(s) /\ UNCHANGED <<code, side, lock>> /\ Working(s) /\ Working(s)'
        /\ Alive(s) /\ Alive(s)'
    BY DEF Worked, Working, Alive
  <1>2. lock = s /\ lock' = s /\ lock # None /\ lock' # None
    BY <1>1, CacheAssumption DEF LockInv
  <1>3. Stamped(s) = run[s].mod /\ run[s].mod \in Hashes /\ run[s].mod # NoHash
    BY <1>0, <1>1, StampIsMod
  <1>4. /\ run'[s].mod = run[s].mod /\ run'[s].rebuilt = run[s].rebuilt
        /\ run'[s].adopt = run[s].adopt /\ run'[s].stamp = run[s].mod
        /\ meta'[s].pub = run[s].mod /\ meta'[s].stages = run[s].mod
    BY <1>3 DEF Worked
  <1>5. \A q \in Sessions \ {s} : StampOK(q)' /\ MetaOK(q)' /\ SessionOK(q)'
    BY <1>1, OthersKeep
  <1>6. StampOK(s)'
    BY <1>1, <1>3, <1>4 DEF StampOK
  <1>7. MetaOK(s)'
    BY <1>3, <1>4 DEF MetaOK
  <1>8. SessionOK(s)'
    BY <1>1 DEF SessionOK
  <1>9. \A q \in Sessions \ {s} : ~Working(q) /\ ~Working(q)'
    <2>1. \A q \in Sessions \ {s} : ~Working(q)
      BY <1>2, OneWorks
    <2> QED
      BY <1>1, <2>1 DEF Moves, Working
  <1>10. NestInv'
    BY DEF NestInv, NestOK
  <1>11. SideInv'
    BY <1>0, <1>1, <1>2 DEF SideInv, NoSide
  <1>12. MadeBy(Built, run[s].mod)'
    BY <1>4 DEF Built, MadeBy
  <1>13. NoSideInv'
    <2> SUFFICES ASSUME ~side'.there, run'[s].rebuilt = 0, NEW q \in Sessions,
                        meta'[q].pub # NoHash
                 PROVE  /\ meta'[q].pub = run[s].mod
                        /\ \A t \in Sessions : meta'[t].pub \in {NoHash, run[s].mod}
      BY <1>2, <1>4, <1>12 DEF NoSideInv, NoSideOK
    <2>1. \A t \in Sessions : NoSideOK(t)
      BY <1>0, <1>1, <1>2, <1>4 DEF NoSideInv
    <2>2. \A t \in Sessions : meta[t].pub \in {NoHash, run[s].mod}
      BY <1>2, <2>1 DEF NoSideOK
    <2>3. \A t \in Sessions : meta'[t].pub \in {NoHash, run[s].mod}
      BY <1>1, <1>4, <2>2 DEF Owns
    <2> QED
      BY <2>3
  <1>14. RunOK(s)'
    <2>1. MadeBy(context[s] \cup graph[s], run[s].mod)'
      BY <1>4 DEF MadeBy
    <2>2. /\ side'.there => \A n \in STAGE_ORDER :
                Reached(run'[s].rebuilt, n) \/ side'.stages[n] = run'[s].mod[n]
          /\ ~side'.there => run'[s].rebuilt = Compile \/ (run'[s].rebuilt = 0 /\ run'[s].adopt)
      BY <1>0, <1>1, <1>4 DEF RunOK
    <2> QED
      BY <1>4, <1>12, <2>1, <2>2 DEF RunOK, Reached
  <1>15. \A q \in Sessions \ {s} : RunOK(q)'
    BY <1>9 DEF RunOK
  <1> QED
    BY <1>5, <1>6, <1>7, <1>8, <1>10, <1>11, <1>13, <1>14, <1>15 DEF Truth

\* The code on disk is replaced: only the stamps not yet taken depend on it.
LEMMA DeployTruth ==
    ASSUME TypeOK, Truth, Deploy, windows' = {}
    PROVE  Truth'
  <1>1. /\ \A s \in Sessions : Alive(s) => run[s].stamp # NoHash
        /\ UNCHANGED <<bookVars, lock, sessionVars, run>>
    BY DeployEffect
  <1>2. UNCHANGED <<raw, ir, layout, side, lock, meta, graph, context, run>>
    BY <1>1 DEF bookVars, sessionVars
  <1>3. NestInv' /\ SideInv' /\ NoSideInv'
    <2>1. NestInv'
      BY <1>2 DEF Truth, NestInv, NestOK
    <2>2. SideInv'
      BY <1>2 DEF Truth, SideInv, MadeBy, Built, NoSide
    <2>3. NoSideInv'
      BY <1>2 DEF Truth, NoSideInv, NoSideOK, MadeBy, Built
    <2> QED
      BY <2>1, <2>2, <2>3
  <1>4. ASSUME NEW s \in Sessions PROVE StampOK(s)' /\ MetaOK(s)' /\ RunOK(s)' /\ SessionOK(s)'
    <2>1. StampOK(s)'
      BY <1>1, <1>2 DEF Truth, StampOK, Alive, Working
    <2>2. MetaOK(s)'
      BY <1>2 DEF Truth, MetaOK
    <2>3. RunOK(s)'
      BY <1>2 DEF Truth, RunOK, Working, MadeBy, Built, Reached
    <2>4. SessionOK(s)'
      BY <1>2 DEF Truth, SessionOK, Working, MadeBy
    <2> QED
      BY <2>1, <2>2, <2>3, <2>4
  <1> QED
    BY <1>3, <1>4 DEF Truth

\* A run that ends stamps the book with its own code, stage by stage.
LEMMA SideStagesExact ==
    ASSUME TypeOK, ModInv, NEW s \in Sessions, Working(s), StampOK(s), RunOK(s), SideInv
    PROVE  SideStages(run[s], Stamped(s)) = run[s].mod /\ Stamped(s) = run[s].mod
  <1> DEFINE h == run[s].mod
             r == run[s].rebuilt
             g == SideStages(run[s], h)
  <1>1. Stamped(s) = h /\ h \in Hashes
    BY StampIsMod DEF Working, Alive
  <1>2. \A n \in STAGE_ORDER : h[n] \in 1 .. MaxHash /\ h[n] # 0
    BY <1>1, HashesReal
  <1>3. ASSUME NEW n \in STAGE_ORDER PROVE g[n] = h[n]
    <2>1. g[n] = IF Reached(r, n) THEN h[n]
                 ELSE IF side.stages[n] = h[n] \/ run[s].trusted[n] = h[n] THEN h[n]
                 ELSE IF side.stages[n] # 0 THEN side.stages[n]
                 ELSE IF run[s].adopt THEN h[n] ELSE 0
      BY DEF SideStages
    <2>2. CASE side.there
      <3>1. Reached(r, n) \/ side.stages[n] = h[n]
        BY <2>2 DEF RunOK
      <3> QED
        BY <2>1, <3>1
    <2>3. CASE ~side.there /\ r = Compile
      <3>1. Reached(r, n)
        BY <2>3, StageSet DEF Reached
      <3> QED
        BY <2>1, <3>1
    <2>4. CASE ~side.there /\ run[s].adopt
      <3>1. side.stages[n] = 0
        BY <2>4 DEF SideInv, NoSide, NoHash
      <3> QED
        BY <2>1, <2>4, <3>1
    <2> QED
      BY <2>2, <2>3, <2>4 DEF RunOK
  <1>4. g \in Hashes
    <2>1. g = [n \in STAGE_ORDER |-> g[n]]
      BY DEF SideStages
    <2> HIDE DEF g, h
    <2> QED
      BY <1>2, <1>3, <2>1 DEF Hashes
  <1> HIDE DEF g, h
  <1>5. g = h
    BY <1>1, <1>3, <1>4, SameHashes
  <1> QED
    BY <1>1, <1>5 DEF g, h

\* write_shared_stamp frees the book with stages.json true of it.
LEMMA WriteStampTruth ==
    ASSUME TypeOK, LockInv, ModInv, Truth, NEW s \in Sessions, WriteStamp(s)
    PROVE  Truth'
  <1>0. /\ NestInv /\ SideInv /\ NoSideInv /\ StampOK(s) /\ MetaOK(s) /\ RunOK(s) /\ SessionOK(s)
    BY DEF Truth
  <1>1. /\ Moves(s) /\ Owns(s) /\ run[s].pc = "stamp" /\ run'[s].pc \in {"idle", "queued"}
        /\ run'[s].stamp = NoHash /\ lock' = None
        /\ UNCHANGED <<code, raw, ir, layout, meta, graph, context>>
        /\ \/ ~_cache_has_body /\ side' = side
           \/ /\ _cache_has_body /\ side'.there
              /\ side'.stages = SideStages(run[s], Stamped(s))
              /\ side'.stages = Stamped(s) => side'.pub = Stamped(s)
    BY WriteStampEffect DEF sessionVars
  <1>2. Working(s) /\ Alive(s) /\ ~Working(s)' /\ ~Alive(s)'
    BY <1>1 DEF Working, Alive
  <1>3. /\ SideStages(run[s], Stamped(s)) = run[s].mod /\ Stamped(s) = run[s].mod
        /\ run[s].mod \in Hashes
    BY <1>0, <1>2, SideStagesExact DEF ModInv
  <1>4. MadeBy(Built, run[s].mod) /\ MadeBy(context[s] \cup graph[s], run[s].mod)
        /\ meta[s].pub \in {NoHash, run[s].mod} /\ Built' = Built
    BY <1>0, <1>1, <1>2 DEF RunOK, Built
  <1>5. lock = s
    BY <1>2 DEF LockInv
  <1>6. \A q \in Sessions \ {s} : StampOK(q)' /\ MetaOK(q)' /\ SessionOK(q)'
    BY <1>1, OthersKeep
  <1>7. StampOK(s)' /\ MetaOK(s)'
    BY <1>0, <1>1, <1>2 DEF StampOK, MetaOK
  <1>8. SessionOK(s)'
    BY <1>0, <1>1, <1>4 DEF SessionOK, MadeBy
  <1>9. \A q \in Sessions : ~Working(q)'
    <2>1. \A q \in Sessions \ {s} : ~Working(q)
      BY <1>5, OneWorks
    <2> QED
      BY <1>1, <1>2, <2>1 DEF Moves, Working
  <1>10. \A q \in Sessions : RunOK(q)'
    BY <1>9 DEF RunOK
  <1>11. NestInv'
    BY <1>0, <1>1, <1>9 DEF NestInv, NestOK, Working
  <1>12. CASE ~_cache_has_body /\ side' = side
    <2>1. raw = {} /\ Built = {}
      BY <1>12 DEF _cache_has_body, Built
    <2>2. SideInv'
      <3>1. MadeBy(Built, side.stages)'
        BY <1>4, <2>1 DEF MadeBy
      <3> QED
        BY <1>0, <1>12, <3>1 DEF SideInv, NoSide
    <2>3. NoSideInv'
      <3>1. ASSUME ~side.there, NEW q \in Sessions PROVE meta[q].pub = NoHash
        <4>1. run[s].rebuilt = 0
          BY <1>0, <1>1, <2>1, <3>1 DEF NestInv, NestOK
        <4>2. NoSideOK(q)
          BY <1>0, <1>5, <3>1, <4>1 DEF NoSideInv
        <4> QED
          BY <2>1, <4>2 DEF NoSideOK
      <3> QED
        BY <1>1, <1>12, <3>1 DEF NoSideInv, NoSideOK
    <2> QED
      BY <1>6, <1>7, <1>8, <1>10, <1>11, <2>2, <2>3 DEF Truth
  <1>13. CASE _cache_has_body /\ side'.there
              /\ side'.stages = SideStages(run[s], Stamped(s))
              /\ (side'.stages = Stamped(s) => side'.pub = Stamped(s))
    <2>1. side'.there /\ side'.stages = run[s].mod /\ side'.pub = run[s].mod
      BY <1>3, <1>13
    <2>2. MadeBy(Built, side.stages)'
      BY <1>4, <2>1 DEF MadeBy
    <2>3. SideInv'
      BY <1>3, <2>1, <2>2 DEF SideInv
    <2>4. NoSideInv'
      BY <2>1 DEF NoSideInv
    <2> QED
      BY <1>6, <1>7, <1>8, <1>10, <1>11, <2>3, <2>4 DEF Truth
  <1> QED
    BY <1>1, <1>12, <1>13

\* A file whose marks end before the stale stage is of this code when the stamp is.
LEMMA FreshBefore ==
    ASSUME NEW f, NEW g \in Stamps, NEW h, MadeBy(f, g), NEW k \in 0 .. 4,
           \A x \in f : x[1] <= k, \A n \in STAGE_ORDER : n <= k => g[n] = h[n]
    PROVE  MadeBy(f, h)
  <1> SUFFICES ASSUME NEW x \in f PROVE \E n \in STAGE_ORDER : x = <<n, h[n]>>
    BY MadeByIs
  <1>1. PICK n \in STAGE_ORDER : x = <<n, g[n]>>
    BY MadeByIs
  <1>2. n <= k
    <2>1. x[1] = n
      BY <1>1
    <2> QED
      BY <2>1
  <1> QED
    BY <1>1, <1>2

\* What invalidate_for_run leaves of the session is of the code on disk.
LEMMA KeptSession ==
    ASSUME TypeOK, NEW s \in Sessions, MetaOK(s), SessionOK(s), ~Working(s),
           NEW recorded, recorded = Recorded(s), recorded \in 0 .. 4,
           ~Reached(stale_from_meta(meta[s]), recorded - 1), ClearSession(s, recorded)
    PROVE  /\ MadeBy(context'[s] \cup graph'[s], code)
           /\ recorded = 0 => meta[s].pub = code
           /\ recorded # 0 => context'[s] = {}
           /\ graph'[s] \subseteq graph[s]
  <1> DEFINE x == stale_from_meta(meta[s])
  <1>0. code \in Hashes /\ meta[s].stages \in Stamps /\ code # NoHash
    BY SessionTypes, HashesReal
  <1>1. /\ x \in 0 .. 4 /\ (x = 0 <=> meta[s].pub = code)
        /\ meta[s].pub # code /\ meta[s].stages = NoHash => x = 2
        /\ x # 0 /\ meta[s].stages # NoHash =>
                \A n \in STAGE_ORDER : n < x => meta[s].stages[n] = code[n]
    BY <1>0, StaleFrom
  <1>2. recorded = 0 => meta[s].pub = code
    BY <1>1 DEF Recorded, session_stale_stage
  <1>3. /\ graph'[s] \in {graph[s], {}} /\ context'[s] \in {context[s], {}}
        /\ Reached(recorded, Publish) => context'[s] = {}
        /\ Reached(recorded, Graph) => graph'[s] = {}
    BY Cleared
  <1>4. x = 0 \/ x >= recorded
    <2> HIDE DEF x
    <2>1. ~(x # 0 /\ x <= recorded - 1)
      BY DEF Reached, x
    <2>2. x \in Int /\ recorded \in Int
      BY <1>1
    <2> QED
      BY <2>1, <2>2
  <1>5. recorded # 0 => context'[s] = {}
    BY <1>3, StageSet DEF Reached
  <1>6. meta[s].pub # NoHash => MadeBy(context[s], meta[s].pub) /\ MadeBy(graph[s], meta[s].pub)
    BY MadeByParts DEF SessionOK
  <1>7. CASE meta[s].pub = code
    <2>1. MadeBy(context'[s], code) /\ MadeBy(graph'[s], code)
      BY <1>0, <1>3, <1>6, <1>7, MadeByParts
    <2> QED
      BY <1>2, <1>3, <1>5, <2>1, MadeByParts
  <1>8. CASE meta[s].pub # code
    <2>1. x # 0 /\ recorded # 0 /\ context'[s] = {}
      BY <1>1, <1>2, <1>5, <1>8
    <2>2. MadeBy(graph'[s], code)
      <3>1. CASE recorded <= 3
        <4>1. graph'[s] = {}
          BY <1>3, <2>1, <3>1, StageSet DEF Reached
        <4> QED
          BY <4>1, MadeByParts
      <3>2. CASE recorded = 4
        <4>1. x = 4
          BY <1>1, <1>4, <2>1, <3>2
        <4>2. meta[s].stages # NoHash /\ meta[s].pub = meta[s].stages
          BY <1>1, <1>8, <4>1 DEF MetaOK
        <4>3. \A n \in STAGE_ORDER : n <= 3 => meta[s].stages[n] = code[n]
          BY <1>1, <4>1, <4>2, StageSet
        <4>4. \A y \in graph[s] : y[1] <= 3
          BY StageSet DEF SessionOK
        <4>5. MadeBy(graph[s], code)
          BY <1>0, <1>6, <4>2, <4>3, <4>4, FreshBefore
        <4> QED
          BY <1>3, <4>5, MadeByParts
      <3> QED
        BY <3>1, <3>2
    <2>3. MadeBy(context'[s], code)
      BY <2>1, MadeByParts
    <2> QED
      BY <1>2, <1>3, <1>5, <2>2, <2>3, MadeByParts
  <1> QED
    BY <1>7, <1>8

\* What clear_shared_artifacts leaves, by the stage it clears from.
LEMMA KeptFiles ==
    ASSUME NEW from \in 0 .. 4, ClearShared(from)
    PROVE  /\ from = 1 => raw' = {} /\ ir' = {} /\ layout' = {}
           /\ from = 2 => raw' = raw /\ ir' = ir /\ layout' = {}
           /\ from \notin {1, 2} => raw' = raw /\ ir' = ir /\ layout' = layout
  BY StageSet DEF ClearShared, Reached

\* What invalidate_for_run leaves of the book is of the code on disk: with stages.json
\* by its hashes, without it because the run adopts files of its own code, finds none, or
\* replaces them all.
LEMMA KeptBook ==
    ASSUME TypeOK, Truth, lock = None, NEW s \in Sessions,
           Recorded(s) \in 0 .. 4, Recorded(s) = 0 => meta[s].pub = code,
           NEW stale, stale = StaleBook(s), stale \in 0 .. 4, ClearShared(stale),
           ~(~side.there /\ stale = Layout /\ (raw # {} \/ ir # {}))
    PROVE  /\ MadeBy(raw' \cup ir' \cup layout', code)
           /\ side.there => \A n \in STAGE_ORDER : Reached(stale, n) \/ side.stages[n] = code[n]
           /\ ~side.there => stale = Compile \/ (stale = 0 /\ Adopts(s))
           /\ ~side.there /\ stale = 0 => \A q \in Sessions :
                meta[q].pub # NoHash => meta[q].pub = code /\ raw' # {}
           /\ ~side.there /\ stale # 0 => ~publisher_matches(meta[s])
  <1>0. NestInv /\ SideInv /\ NoSideInv /\ code \in Hashes /\ code # NoHash
    BY SessionTypes, HashesReal DEF Truth
  <1>1. /\ stale = 1 => raw' = {} /\ ir' = {} /\ layout' = {}
        /\ stale = 2 => raw' = raw /\ ir' = ir /\ layout' = {}
        /\ stale \notin {1, 2} => raw' = raw /\ ir' = ir /\ layout' = layout
    BY KeptFiles
  <1>2. CASE side.there
    <2> DEFINE g == side.stages
               x == stale_from_meta(side)
    <2>1. g \in Hashes /\ side.pub = g /\ g \in Stamps /\ g # NoHash
      BY <1>0, <1>2, HashesReal DEF SideInv
    <2>2. MadeBy(raw, g) /\ MadeBy(ir, g) /\ MadeBy(layout, g)
      BY <1>0, <1>2, BuiltParts DEF SideInv
    <2>3. /\ x \in 0 .. 4 /\ (x = 0 <=> g = code)
          /\ x # 0 => \A n \in STAGE_ORDER : n < x => g[n] = code[n]
      BY <1>0, <2>1, StaleFrom
    <2>4. stale = IF x # 0 THEN x
                  ELSE IF Recorded(s) \in {Compile, Layout} THEN Recorded(s) ELSE 0
      BY <1>2 DEF shared_stale_stage, StaleBook
    <2> HIDE DEF g, x
    <2>5. \A n \in STAGE_ORDER : stale = 0 \/ n < stale => g[n] = code[n]
      BY <2>3, <2>4, StageSet
    <2>6. \A n \in STAGE_ORDER : Reached(stale, n) \/ g[n] = code[n]
      BY <2>5, StageSet DEF Reached
    <2>7. MadeBy(raw', code) /\ MadeBy(ir', code) /\ MadeBy(layout', code)
      <3>1. CASE stale = 1
        BY <1>1, <3>1, MadeByParts
      <3>2. CASE stale # 1
        <4>1. \A n \in STAGE_ORDER : n <= 1 => g[n] = code[n]
          BY <2>5, <3>2, StageSet
        <4>2. (\A y \in raw : y[1] <= 1) /\ (\A y \in ir : y[1] <= 1)
          BY <1>0, StageSet DEF NestInv
        <4>3. MadeBy(raw, code) /\ MadeBy(ir, code)
          BY <2>1, <2>2, <4>1, <4>2, FreshBefore
        <4>4. MadeBy(layout', code)
          <5>1. CASE stale = 2
            BY <1>1, <5>1, MadeByParts
          <5>2. CASE stale # 2
            <6>1. \A n \in STAGE_ORDER : n <= 2 => g[n] = code[n]
              BY <2>5, <3>2, <5>2, StageSet
            <6>2. \A y \in layout : y[1] <= 2
              BY <1>0, StageSet DEF NestInv
            <6>3. MadeBy(layout, code)
              BY <2>1, <2>2, <6>1, <6>2, FreshBefore
            <6> QED
              BY <1>1, <3>2, <5>2, <6>3
          <5> QED
            BY <5>1, <5>2
        <4> QED
          BY <1>1, <3>2, <4>3, <4>4
      <3> QED
        BY <3>1, <3>2
    <2> QED
      BY <1>2, <2>6, <2>7, MadeByParts DEF g
  <1>3. CASE ~side.there
    <2>1. \A q \in Sessions : NoSideOK(q)
      BY <1>0, <1>3 DEF NoSideInv
    <2>2. stale = IF Adopts(s) \/ ~_cache_has_body THEN 0
                  ELSE _recorded_or_layout(Recorded(s))
      BY <1>3 DEF shared_stale_stage, StaleBook
    <2>3. CASE Adopts(s)
      <3>1. stale = 0 /\ raw' = raw /\ ir' = ir /\ layout' = layout
        BY <1>1, <2>2, <2>3
      <3>2. CASE meta[s].pub = code
        <4>1. /\ raw # {} /\ MadeBy(Built, code)
              /\ \A q \in Sessions : meta[q].pub \in {NoHash, code}
          BY <1>0, <2>1, <3>2 DEF NoSideOK
        <4> QED
          BY <1>3, <2>3, <3>1, <4>1 DEF Built
      <3>3. CASE ~_cache_has_body
        <4>1. raw = {} /\ ir = {} /\ layout = {}
          BY <3>3 DEF _cache_has_body
        <4>2. \A q \in Sessions : meta[q].pub = NoHash
          BY <2>1, <4>1 DEF NoSideOK
        <4> QED
          BY <1>3, <2>3, <3>1, <4>1, <4>2, MadeByParts
      <3> QED
        BY <2>3, <3>2, <3>3 DEF Adopts, publisher_matches
    <2>4. CASE ~Adopts(s)
      <3>1. ~publisher_matches(meta[s]) /\ _cache_has_body
        BY <2>4 DEF Adopts
      <3>2. raw # {}
        BY <1>0, <3>1 DEF NestInv, _cache_has_body
      <3>3. stale = 1
        BY <1>3, <2>2, <2>4, <3>1, <3>2, StageSet DEF _recorded_or_layout
      <3> QED
        BY <1>1, <1>3, <3>1, <3>3, StageSet, MadeByParts
    <2> QED
      BY <2>3, <2>4
  <1> QED
    BY <1>2, <1>3

\* invalidate_for_run.
LEMMA InvalidateTruth ==
    ASSUME TypeOK, LockInv, ModInv, Truth, NEW s \in Sessions, Invalidate(s), windows' = {}
    PROVE  Truth'
  <1>0. /\ NestInv /\ SideInv /\ NoSideInv /\ StampOK(s) /\ MetaOK(s) /\ RunOK(s) /\ SessionOK(s)
    BY DEF Truth
  <1>1. /\ Moves(s) /\ Owns(s)
        /\ Recorded(s) \in 0 .. 4 /\ StaleBook(s) \in 0 .. 4
        /\ run[s].pc = "boot" /\ lock = None /\ lock' = s
        /\ run'[s].pc = (IF context'[s] # {} THEN "stamp" ELSE "parse")
        /\ run'[s].mod = run[s].mod /\ run'[s].stamp = run[s].stamp
        /\ run'[s].rebuilt = StaleBook(s) /\ run'[s].adopt = Adopts(s)
        /\ meta'[s] = (IF Recorded(s) = 0 THEN meta[s] ELSE NoMeta)
        /\ ClearShared(StaleBook(s)) /\ ClearSession(s, Recorded(s))
        /\ UNCHANGED <<code, side>>
        /\ ~(~side.there /\ StaleBook(s) = Layout /\ (raw # {} \/ ir # {}))
        /\ ~Reached(stale_from_meta(meta[s]), Recorded(s) - 1)
    BY InvalidateEffect
  <1>2. Alive(s) /\ ~Working(s) /\ Alive(s)' /\ Working(s)' /\ lock' # None
    BY <1>1, CacheAssumption DEF Alive, Working
  <1>3. run[s].stamp = NoHash /\ run[s].mod = code /\ code \in Hashes /\ code # NoHash
    BY <1>0, <1>2, SessionTypes, HashesReal DEF StampOK
  <1>4. /\ MadeBy(context'[s] \cup graph'[s], code)
        /\ Recorded(s) = 0 => meta[s].pub = code
        /\ Recorded(s) # 0 => context'[s] = {}
        /\ graph'[s] \subseteq graph[s]
    BY <1>0, <1>1, <1>2, KeptSession
  <1>5. /\ MadeBy(raw' \cup ir' \cup layout', code)
        /\ side.there => \A n \in STAGE_ORDER : Reached(StaleBook(s), n) \/ side.stages[n] = code[n]
        /\ ~side.there => StaleBook(s) = Compile \/ (StaleBook(s) = 0 /\ Adopts(s))
        /\ ~side.there /\ StaleBook(s) = 0 => \A q \in Sessions :
                meta[q].pub # NoHash => meta[q].pub = code /\ raw' # {}
        /\ ~side.there /\ StaleBook(s) # 0 => ~publisher_matches(meta[s])
    BY <1>1, <1>4, KeptBook
  <1>6. /\ meta'[s].pub \in {NoHash, code} /\ meta'[s].pub = meta'[s].stages
        /\ meta'[s].pub \in {NoHash, meta[s].pub}
    <2>1. NoMeta.pub = NoHash /\ NoMeta.stages = NoHash
      BY DEF NoMeta
    <2> QED
      BY <1>0, <1>1, <1>4, <2>1 DEF MetaOK
  <1>7. \A q \in Sessions \ {s} : StampOK(q)' /\ MetaOK(q)' /\ SessionOK(q)'
    BY <1>1, OthersKeep
  <1>8. StampOK(s)'
    BY <1>1, <1>2, <1>3 DEF StampOK
  <1>9. MetaOK(s)'
    <2>1. CASE Recorded(s) = 0
      BY <1>0, <1>1, <2>1 DEF MetaOK
    <2>2. CASE Recorded(s) # 0
      <3>1. NoMeta.pub = NoHash /\ NoMeta.stages = NoHash /\ NoMeta.st = "none"
        BY DEF NoMeta
      <3> QED
        BY <1>1, <2>2, <3>1 DEF MetaOK
    <2> QED
      BY <2>1, <2>2
  <1>10. SessionOK(s)'
    BY <1>0, <1>2, <1>4 DEF SessionOK
  <1>11. \A q \in Sessions \ {s} : ~Working(q)'
    <2>1. \A q \in Sessions \ {s} : ~Working(q)
      BY <1>1, OneWorks
    <2> QED
      BY <1>1, <2>1 DEF Moves, Working
  <1>12. NestInv'
    <2>1. /\ raw' = {} => ir' = {} /\ layout' = {}
          /\ \A x \in raw' \cup ir' : x[1] <= Compile
          /\ \A x \in layout' : x[1] <= Layout
      BY <1>0, <1>1, KeptFiles DEF NestInv
    <2>2. NestOK(s)'
      <3>1. ASSUME run'[s].pc = "stamp", ~side'.there, run'[s].rebuilt # 0 PROVE FALSE
        <4>1. context'[s] # {} /\ ~side.there /\ StaleBook(s) # 0
          BY <1>1, <3>1
        <4>2. meta[s].pub = code
          BY <1>4, <4>1
        <4> QED
          BY <1>5, <4>1, <4>2 DEF publisher_matches
      <3> QED
        BY <1>1, <3>1 DEF NestOK
    <2>3. \A q \in Sessions \ {s} : NestOK(q)'
      BY <1>11 DEF NestOK, Working
    <2> QED
      BY <2>1, <2>2, <2>3 DEF NestInv
  <1>13. SideInv'
    BY <1>0, <1>1, <1>2 DEF SideInv, NoSide
  <1>14. NoSideInv'
    <2> SUFFICES ASSUME ~side'.there, run'[s].rebuilt = 0, NEW q \in Sessions,
                        meta'[q].pub # NoHash
                 PROVE  /\ raw' # {} /\ meta'[q].pub = code
                        /\ \A t \in Sessions : meta'[t].pub \in {NoHash, code}
      BY <1>1, <1>2, <1>3, <1>5 DEF NoSideInv, NoSideOK, Built, MadeBy
    <2>1. \A t \in Sessions : meta'[t].pub \in {NoHash, meta[t].pub}
      BY <1>1, <1>6 DEF Owns
    <2>2. ~side.there /\ StaleBook(s) = 0
      BY <1>1
    <2>3. \A t \in Sessions : meta[t].pub # NoHash => meta[t].pub = code /\ raw' # {}
      BY <1>5, <2>2
    <2> QED
      BY <2>1, <2>3
  <1>15. RunOK(s)'
    <2>1. MadeBy(Built, run[s].mod)' /\ MadeBy(context[s] \cup graph[s], run[s].mod)'
      BY <1>1, <1>3, <1>4, <1>5 DEF Built, MadeBy
    <2>2. /\ side'.there => \A n \in STAGE_ORDER :
                Reached(run'[s].rebuilt, n) \/ side'.stages[n] = run'[s].mod[n]
          /\ ~side'.there => run'[s].rebuilt = Compile \/ (run'[s].rebuilt = 0 /\ run'[s].adopt)
      BY <1>1, <1>3, <1>5
    <2> QED
      BY <1>1, <1>3, <1>6, <2>1, <2>2 DEF RunOK, Reached
  <1>16. \A q \in Sessions \ {s} : RunOK(q)'
    BY <1>11 DEF RunOK
  <1> QED
    BY <1>7, <1>8, <1>9, <1>10, <1>12, <1>13, <1>14, <1>15, <1>16 DEF Truth

(***************************************************************************)
(* The invariant, action by action.                                        *)
(***************************************************************************)

\* Posting, spawning, giving up on a locked book, and leaving without having replaced
\* shared files.
LEMMA RestSteps ==
    ASSUME TypeOK, LockInv, ModInv, NEW s \in Sessions,
           Post(s) \/ Spawn(s) \/ Busy(s) \/ Fail(s) \/ Kill(s)
    PROVE  /\ TypeOK' /\ LockInv' /\ ModInv' /\ windows \subseteq windows'
           /\ Truth /\ windows' = {} => Truth'
  <1>0. lock = s <=> Working(s)
    BY DEF LockInv
  <1>s. s # None
    BY CacheAssumption
  <1>1. CASE Post(s)
    <2>1. /\ TypeOK' /\ Moves(s) /\ Owns(s)
          /\ run[s].pc = "idle" /\ run'[s].pc = "queued" /\ run'[s].stamp = run[s].stamp
          /\ UNCHANGED <<code, raw, ir, layout, side, lock, windows>>
          /\ meta'[s].pub = meta[s].pub /\ meta'[s].stages = meta[s].stages
          /\ meta'[s].st = "queued"
          /\ graph'[s] \subseteq graph[s] /\ context'[s] \subseteq context[s]
      BY <1>1, PostEffect DEF bookVars
    <2>2. ~Working(s) /\ ~Working(s)' /\ ~Alive(s) /\ ~Alive(s)' /\ lock # s /\ lock' # s
      BY <1>0, <2>1 DEF Working, Alive
    <2>3. LockInv' /\ ModInv'
      BY <2>1, <2>2, LockStep, ModStep
    <2>4. ASSUME Truth PROVE Truth'
      <3>1. StampOK(s)' /\ MetaOK(s)'
        BY <2>1, <2>2, <2>4 DEF Truth, StampOK, MetaOK
      <3> QED
        BY <2>1, <2>2, <2>4, <3>1, RestStep
    <2> QED
      BY <2>1, <2>3, <2>4
  <1>2. CASE Spawn(s)
    <2>1. /\ TypeOK' /\ Moves(s) /\ Owns(s)
          /\ run[s].pc = "queued" /\ run'[s].pc = "boot" /\ run'[s].mod = code
          /\ run'[s].stamp = run[s].stamp
          /\ UNCHANGED <<code, raw, ir, layout, side, lock, meta, graph, context, windows>>
      BY <1>2, SpawnEffect DEF bookVars, sessionVars
    <2>2. ~Working(s) /\ ~Working(s)' /\ ~Alive(s) /\ Alive(s)' /\ lock # s /\ lock' # s
      BY <1>0, <2>1 DEF Working, Alive
    <2>3. code \in Hashes
      BY SessionTypes
    <2>4. LockInv' /\ ModInv'
      BY <2>1, <2>2, <2>3, LockStep, ModStep
    <2>5. ASSUME Truth PROVE Truth'
      <3>1. StampOK(s)' /\ MetaOK(s)'
        BY <2>1, <2>2, <2>5 DEF Truth, StampOK, MetaOK
      <3> QED
        BY <2>1, <2>2, <2>5, <3>1, RestStep
    <2> QED
      BY <2>1, <2>4, <2>5
  <1>3. CASE Busy(s)
    <2>1. /\ TypeOK' /\ Moves(s) /\ Owns(s)
          /\ run[s].pc = "boot" /\ run'[s].pc \in {"idle", "queued"} /\ run'[s].stamp = NoHash
          /\ UNCHANGED <<code, raw, ir, layout, side, lock, meta, graph, context, windows>>
      BY <1>3, BusyEffect DEF bookVars, sessionVars
    <2>2. ~Working(s) /\ ~Working(s)' /\ ~Alive(s)' /\ lock # s /\ lock' # s
      BY <1>0, <2>1 DEF Working, Alive
    <2>3. LockInv' /\ ModInv'
      BY <2>1, <2>2, LockStep, ModStep
    <2>4. ASSUME Truth PROVE Truth'
      <3>1. StampOK(s)' /\ MetaOK(s)'
        BY <2>1, <2>2, <2>4 DEF Truth, StampOK, MetaOK
      <3> QED
        BY <2>1, <2>2, <2>4, <3>1, RestStep
    <2> QED
      BY <2>1, <2>3, <2>4
  <1>4. CASE Fail(s) \/ Kill(s)
    <2>1. /\ TypeOK' /\ Moves(s) /\ Owns(s)
          /\ run'[s].pc \in {"idle", "queued"} /\ run'[s].stamp = NoHash
          /\ UNCHANGED <<code, raw, ir, layout, side, graph, context>>
          /\ lock' = IF lock = s THEN None ELSE lock
          /\ windows' = windows \cup
               IF lock = s /\ run[s].rebuilt # 0 THEN {"half_rebuilt"} ELSE {}
          /\ \/ meta'[s] = meta[s]
             \/ /\ meta'[s].pub = NoHash /\ meta'[s].stages = NoHash
                /\ meta'[s].st = "failed"
      BY <1>4, LeaveEffect DEF bookVars
    <2>2. ~Working(s)' /\ ~Alive(s)' /\ lock' # s
      BY <1>s, <2>1 DEF Working, Alive
    <2>3. \A q \in Sessions \ {s} : lock' = q <=> lock = q
      BY <2>1, CacheAssumption
    <2>4. LockInv' /\ ModInv'
      BY <2>1, <2>2, <2>3, LockStep, ModStep
    <2>5. windows \subseteq windows' /\ (windows' = {} /\ lock = s => run[s].rebuilt = 0)
      BY <2>1
    <2>6. ASSUME Truth, windows' = {} PROVE Truth'
      <3>1. StampOK(s)'
        BY <2>1, <2>2 DEF StampOK
      <3>2. MetaOK(s)' /\ meta'[s].pub \in {meta[s].pub, NoHash}
        BY <2>1, <2>6 DEF Truth, MetaOK
      <3> QED
        BY <2>1, <2>2, <2>5, <2>6, <3>1, <3>2, RestStep
    <2> QED
      BY <2>1, <2>4, <2>5, <2>6
  <1> QED
    BY <1>1, <1>2, <1>3, <1>4

\* The files and marks a step of the work starts from.
LEMMA WorkFrom ==
    ASSUME ModInv, LockInv, Truth, NEW s \in Sessions, Worked(s)
    PROVE  /\ MadeBy(raw, run[s].mod) /\ MadeBy(ir, run[s].mod) /\ MadeBy(layout, run[s].mod)
           /\ MadeBy(context[s], run[s].mod) /\ MadeBy(graph[s], run[s].mod)
           /\ \A x \in graph[s] : x[1] <= 3
           /\ \A x \in raw \cup ir : x[1] <= 1
           /\ \A x \in layout : x[1] <= 2
           /\ run[s].pc # "parse" => raw # {}
  <1>1. Working(s)
    BY DEF Worked, Working
  <1>2. RunOK(s) /\ SessionOK(s) /\ NestInv
    BY DEF Truth
  <1>3. MadeBy(Built, run[s].mod) /\ MadeBy(context[s] \cup graph[s], run[s].mod)
    BY <1>1, <1>2 DEF RunOK
  <1>4. run[s].pc # "parse" => raw # {}
    BY <1>2 DEF Worked, NestInv, NestOK
  <1>5. MadeBy(raw, run[s].mod) /\ MadeBy(ir, run[s].mod) /\ MadeBy(layout, run[s].mod)
    BY <1>3, BuiltParts
  <1>6. MadeBy(context[s], run[s].mod) /\ MadeBy(graph[s], run[s].mod)
    BY <1>3, MadeByParts
  <1>7. /\ \A x \in graph[s] : x[1] <= 3
        /\ \A x \in raw \cup ir : x[1] <= 1
        /\ \A x \in layout : x[1] <= 2
    BY <1>2, StageSet DEF SessionOK, NestInv
  <1> QED
    BY <1>4, <1>5, <1>6, <1>7

\* The mark of a file names a stage by its rank.
LEMMA MarkType ==
    ASSUME NEW f \in Files
    PROVE  \A x \in f : x[1] \in Int
  BY StageSet DEF Files

\* The stages of the run.
LEMMA WorkSteps ==
    ASSUME TypeOK, LockInv, ModInv, NEW s \in Sessions,
           \/ Parse(s) \/ CompileStage(s) \/ LayoutStage(s) \/ GraphStage(s)
           \/ PublishStage(s) \/ Finish(s)
    PROVE  /\ TypeOK' /\ Worked(s) /\ LockInv' /\ ModInv'
           /\ Truth => Truth'
  <1>1. TypeOK' /\ Worked(s)
    BY ParseEffect, CompileEffect, LayoutEffect, GraphEffect, PublishEffect, FinishEffect
  <1>2. /\ Moves(s) /\ Working(s) /\ Working(s)' /\ Alive(s) /\ lock' = lock
        /\ run'[s].mod = run[s].mod
    BY <1>1 DEF Worked, Working, Alive
  <1>3. LockInv' /\ ModInv'
    <2>1. lock = s /\ run[s].mod \in Hashes
      BY <1>2 DEF LockInv, ModInv
    <2> QED
      BY <1>2, <2>1, LockStep, ModStep
  <1>4. ASSUME Truth PROVE Truth'
    <2> DEFINE h == run[s].mod
    <2>0. /\ MadeBy(raw, h) /\ MadeBy(ir, h) /\ MadeBy(layout, h)
          /\ MadeBy(context[s], h) /\ MadeBy(graph[s], h)
          /\ \A x \in graph[s] : x[1] <= 3
          /\ \A x \in raw \cup ir : x[1] <= 1
          /\ \A x \in layout : x[1] <= 2
          /\ run[s].pc # "parse" => raw # {}
      BY <1>1, <1>4, WorkFrom
    <2>m. /\ \A n \in STAGE_ORDER : MadeBy(By(n, h[n]), h)
          /\ \A f, g : MadeBy(f \cup g, h) <=> MadeBy(f, h) /\ MadeBy(g, h)
      BY MadeByParts
    <2> SUFFICES /\ raw' # {} /\ MadeBy(raw', h) /\ MadeBy(ir', h) /\ MadeBy(layout', h)
                 /\ MadeBy(context'[s], h) /\ MadeBy(graph'[s], h)
                 /\ \A x \in graph'[s] : x[1] <= 3
                 /\ \A x \in raw' : x[1] <= 1
                 /\ \A x \in ir' : x[1] <= 1
                 /\ \A x \in layout' : x[1] <= 2
      <3> HIDE DEF h
      <3>1. MadeBy(raw' \cup ir' \cup layout', h) /\ MadeBy(context'[s] \cup graph'[s], h)
        BY <2>m
      <3> QED
        BY <1>1, <1>4, <3>1, StageSet, WorkStep DEF h
    <2> HIDE DEF h
    <2>1. CASE Parse(s)
      <3>1. raw' = (IF raw = {} THEN By(1, h[1]) ELSE raw)
            /\ UNCHANGED <<ir, layout, graph, context>>
        BY <2>1, ParseEffect, StageSet DEF h
      <3>2. By(1, h[1]) # {} /\ \A x \in By(1, h[1]) : x[1] <= 1
        BY DEF By
      <3>3. MadeBy(raw', h) /\ raw' # {} /\ \A x \in raw' : x[1] <= 1
        BY <2>0, <2>m, <3>1, <3>2, StageSet
      <3> QED
        BY <2>0, <3>1, <3>3
    <2>2. CASE CompileStage(s)
      <3>1. /\ ir' = (IF ir = {} THEN raw \cup By(1, h[1]) ELSE ir) /\ run[s].pc = "compile"
            /\ UNCHANGED <<raw, layout, graph, context>>
        BY <2>2, CompileEffect, StageSet DEF h
      <3>2. \A x \in By(1, h[1]) : x[1] <= 1
        BY DEF By
      <3>3. MadeBy(ir', h) /\ \A x \in ir' : x[1] <= 1
        BY <2>0, <2>m, <3>1, <3>2, StageSet
      <3> QED
        BY <2>0, <3>1, <3>3
    <2>3. CASE LayoutStage(s)
      <3>1. /\ layout' = (IF layout = {} THEN raw \cup ir \cup By(2, h[2]) ELSE layout)
            /\ run[s].pc = "layout" /\ UNCHANGED <<raw, ir, graph, context>>
        BY <2>3, LayoutEffect, StageSet DEF h
      <3>2. \A x \in By(2, h[2]) : x[1] <= 2
        BY DEF By
      <3>3. MadeBy(layout', h)
        <4>1. MadeBy(By(2, h[2]), h) /\ MadeBy(raw \cup ir, h)
          BY <2>0, <2>m, StageSet
        <4>2. MadeBy((raw \cup ir) \cup By(2, h[2]), h)
          BY <2>m, <4>1
        <4> QED
          BY <2>0, <3>1, <4>2
      <3>4. \A x \in raw \cup ir : x[1] <= 2
        BY <1>1, <2>0, MarkType DEF TypeOK
      <3>5. \A x \in layout' : x[1] <= 2
        BY <2>0, <3>1, <3>2, <3>4
      <3> QED
        BY <2>0, <3>1, <3>3, <3>5
    <2>4. CASE GraphStage(s)
      <3>1. /\ graph'[s] = (IF graph[s] = {} THEN ir \cup layout \cup By(3, h[3]) ELSE graph[s])
            /\ run[s].pc = "graph" /\ UNCHANGED <<raw, ir, layout, context>>
        BY <2>4, GraphEffect, StageSet DEF h
      <3>2. \A x \in By(3, h[3]) : x[1] <= 3
        BY DEF By
      <3>3. MadeBy(graph'[s], h)
        <4>1. MadeBy(By(3, h[3]), h) /\ MadeBy(ir \cup layout, h)
          BY <2>0, <2>m, StageSet
        <4>2. MadeBy((ir \cup layout) \cup By(3, h[3]), h)
          BY <2>m, <4>1
        <4> QED
          BY <2>0, <3>1, <4>2
      <3>4. \A x \in ir \cup layout : x[1] <= 3
        BY <1>1, <2>0, MarkType DEF TypeOK
      <3>5. \A x \in graph'[s] : x[1] <= 3
        BY <2>0, <3>1, <3>2, <3>4
      <3> QED
        BY <2>0, <3>1, <3>3, <3>5
    <2>5. CASE PublishStage(s)
      <3>1. /\ context'[s] = ir \cup layout \cup graph[s] \cup By(2, h[2]) \cup By(4, h[4])
            /\ run[s].pc = "publish" /\ UNCHANGED <<raw, ir, layout, graph>>
        BY <2>5, PublishEffect, StageSet DEF h
      <3>2. MadeBy(By(2, h[2]), h) /\ MadeBy(By(4, h[4]), h)
        BY <2>m, StageSet
      <3>3. MadeBy(context'[s], h)
        <4>1. MadeBy((ir \cup layout) \cup graph[s], h)
          <5>1. MadeBy(ir \cup layout, h)
            BY <2>0, <2>m
          <5> QED
            BY <2>0, <2>m, <5>1
        <4>2. MadeBy(((ir \cup layout) \cup graph[s]) \cup By(2, h[2]), h)
          BY <2>m, <3>2, <4>1
        <4>3. MadeBy((((ir \cup layout) \cup graph[s]) \cup By(2, h[2])) \cup By(4, h[4]), h)
          BY <2>m, <3>2, <4>2
        <4> QED
          BY <3>1, <4>3
      <3> QED
        BY <2>0, <3>1, <3>3
    <2>6. CASE Finish(s)
      BY <2>0, <2>6, FinishEffect
    <2> QED
      BY <2>1, <2>2, <2>3, <2>4, <2>5, <2>6
  <1> QED
    BY <1>1, <1>3, <1>4

\* Every step preserves the inductive invariant.
LEMMA Step ==
    ASSUME IInv, [Next]_vars
    PROVE  IInv'
  <1>0. TypeOK /\ LockInv /\ ModInv /\ (windows = {} => Truth)
    BY DEF IInv
  <1> SUFFICES /\ TypeOK' /\ LockInv' /\ ModInv' /\ windows \subseteq windows'
               /\ Truth /\ windows' = {} => Truth'
    BY <1>0 DEF IInv
  <1>1. ASSUME NEW s \in Sessions, Post(s) \/ Spawn(s) \/ Busy(s) \/ Fail(s) \/ Kill(s)
        PROVE  /\ TypeOK' /\ LockInv' /\ ModInv' /\ windows \subseteq windows'
               /\ Truth /\ windows' = {} => Truth'
    BY <1>0, <1>1, RestSteps
  <1>2. ASSUME NEW s \in Sessions,
               \/ Parse(s) \/ CompileStage(s) \/ LayoutStage(s) \/ GraphStage(s)
               \/ PublishStage(s) \/ Finish(s)
        PROVE  /\ TypeOK' /\ LockInv' /\ ModInv' /\ windows \subseteq windows'
               /\ Truth => Truth'
    BY <1>0, <1>2, WorkSteps DEF Worked
  <1>3. ASSUME NEW s \in Sessions, Invalidate(s)
        PROVE  /\ TypeOK' /\ LockInv' /\ ModInv' /\ windows \subseteq windows'
               /\ Truth /\ windows' = {} => Truth'
    <2>1. /\ TypeOK' /\ Moves(s) /\ run[s].pc = "boot" /\ lock = None /\ lock' = s
          /\ run'[s].pc \in {"stamp", "parse"} /\ run'[s].mod = run[s].mod
          /\ windows \subseteq windows'
      BY <1>0, <1>3, InvalidateEffect
    <2>2. Working(s)' /\ Alive(s) /\ lock # s
      BY <2>1, CacheAssumption DEF Working, Alive
    <2>3. LockInv'
      BY <1>0, <2>1, <2>2, LockStep, CacheAssumption
    <2>4. ModInv'
      BY <1>0, <2>1, <2>2, ModStep DEF ModInv
    <2> QED
      BY <1>0, <1>3, <2>1, <2>3, <2>4, InvalidateTruth
  <1>4. ASSUME NEW s \in Sessions, WriteStamp(s)
        PROVE  /\ TypeOK' /\ LockInv' /\ ModInv' /\ windows \subseteq windows'
               /\ Truth => Truth'
    <2>1. /\ TypeOK' /\ Moves(s) /\ run[s].pc = "stamp" /\ run'[s].pc \in {"idle", "queued"}
          /\ lock' = None /\ windows' = windows
      BY <1>0, <1>4, WriteStampEffect
    <2>2. ~Working(s)' /\ ~Alive(s)' /\ Working(s) /\ lock = s
      BY <1>0, <2>1 DEF Working, Alive, LockInv
    <2>3. LockInv'
      BY <1>0, <2>1, <2>2, LockStep, CacheAssumption
    <2>4. ModInv'
      BY <1>0, <2>1, <2>2, ModStep
    <2> QED
      BY <1>0, <1>4, <2>1, <2>3, <2>4, WriteStampTruth
  <1>5. CASE Deploy
    <2>1. TypeOK' /\ windows \subseteq windows' /\ UNCHANGED <<lock, run>>
      BY <1>0, <1>5, DeployEffect
    <2>2. LockInv' /\ ModInv'
      BY <1>0, <2>1 DEF LockInv, ModInv, Working, Alive
    <2> QED
      BY <1>0, <1>5, <2>1, <2>2, DeployTruth
  <1>6. CASE UNCHANGED vars
    <2>1. UNCHANGED <<code, raw, ir, layout, side, lock, meta, graph, context, run, windows,
                      posts, deploys, crashes>>
      BY <1>6 DEF vars, bookVars, sessionVars, bounds
    <2>2. TypeOK'
      BY <1>0, <2>1 DEF TypeOK
    <2>3. LockInv' /\ ModInv'
      BY <1>0, <2>1 DEF LockInv, ModInv, Working, Alive
    <2>4. ASSUME Truth PROVE Truth'
      <3>1. NestInv'
        BY <2>1, <2>4 DEF Truth, NestInv, NestOK
      <3>2. SideInv'
        BY <2>1, <2>4 DEF Truth, SideInv, MadeBy, Built, NoSide
      <3>3. NoSideInv'
        BY <2>1, <2>4 DEF Truth, NoSideInv, NoSideOK, MadeBy, Built
      <3>4. ASSUME NEW s \in Sessions
            PROVE  StampOK(s)' /\ MetaOK(s)' /\ RunOK(s)' /\ SessionOK(s)'
        <4>1. StampOK(s)'
          BY <2>1, <2>4 DEF Truth, StampOK, Alive, Working
        <4>2. MetaOK(s)'
          BY <2>1, <2>4 DEF Truth, MetaOK
        <4>3. RunOK(s)'
          BY <2>1, <2>4 DEF Truth, RunOK, Working, MadeBy, Built, Reached
        <4>4. SessionOK(s)'
          BY <2>1, <2>4 DEF Truth, SessionOK, Working, MadeBy
        <4> QED
          BY <4>1, <4>2, <4>3, <4>4
      <3> QED
        BY <3>1, <3>2, <3>3, <3>4 DEF Truth
    <2> QED
      BY <2>1, <2>2, <2>3, <2>4
  <1> QED
    BY <1>1, <1>2, <1>3, <1>4, <1>5, <1>6 DEF Next

\* Nothing is cached before the first POST.
LEMMA Start ==
    ASSUME Init
    PROVE  IInv
  <1>1. NoRun \in Child /\ NoRun.pc = "idle" /\ NoRun.stamp = NoHash
    BY HashesReal, StageSet DEF NoRun, Child, Pcs
  <1>2. NoMeta \in Document /\ NoMeta.pub = NoHash /\ NoMeta.stages = NoHash /\ NoMeta.st = "none"
    BY DocumentTypes DEF NoMeta
  <1>3. NoSide \in [there : BOOLEAN, pub : Stamps, stages : Stamps] /\ ~NoSide.there
    BY HashesReal DEF NoSide
  <1>4. code \in Hashes
    BY CacheAssumption DEF Init, Hashes
  <1>5. {} \in Files
    BY DEF Files
  <1>6. TypeOK
    BY <1>1, <1>2, <1>3, <1>4, <1>5, CacheAssumption DEF Init, TypeOK, Child, Document
  <1>7. \A s \in Sessions : ~Working(s) /\ ~Alive(s)
    BY <1>1 DEF Init, Working, Alive
  <1>8. LockInv /\ ModInv
    BY <1>7, CacheAssumption DEF Init, LockInv, ModInv
  <1>9. NestInv
    BY <1>1 DEF Init, NestInv, NestOK
  <1>10. SideInv /\ NoSideInv
    BY <1>2, <1>3 DEF Init, SideInv, NoSideInv, NoSideOK
  <1>11. ASSUME NEW s \in Sessions PROVE StampOK(s) /\ MetaOK(s) /\ RunOK(s) /\ SessionOK(s)
    <2>1. StampOK(s)
      BY <1>1, <1>7 DEF Init, StampOK
    <2>2. MetaOK(s)
      BY <1>2 DEF Init, MetaOK
    <2>3. RunOK(s) /\ SessionOK(s)
      BY <1>2, <1>7 DEF Init, RunOK, SessionOK
    <2> QED
      BY <2>1, <2>2, <2>3
  <1> QED
    BY <1>6, <1>8, <1>9, <1>10, <1>11 DEF IInv, Truth

\* Every file, stamp and pipeline child keeps its type (write_shared_stamp,
\* invalidate_for_run, _write_meta): a stage that is stale is a stage.
THEOREM TypeCorrect == Spec => []TypeOK
  <1>1. IInv => TypeOK
    BY DEF IInv
  <1> QED
    BY <1>1, Start, Step, PTL DEF Spec

\* For any number of sessions that share a workbook, any deploys and any crashes: outside
\* the named windows, a finished snapshot was built, the shared files included, by the code
\* its publisher stamp names, so _ready_meta may return it.
THEOREM SnapshotsHonest == Spec => []SnapshotHonest
  <1>1. IInv => SnapshotHonest
    <2> SUFFICES ASSUME IInv, windows = {}, NEW s \in Sessions, meta[s].st = "succeeded"
                 PROVE  MadeBy(context[s] \cup graph[s], meta[s].pub)
      BY DEF SnapshotHonest, Honest
    <2>1. MetaOK(s) /\ RunOK(s) /\ SessionOK(s)
      BY DEF IInv, Truth
    <2>2. meta[s].pub # NoHash
      BY <2>1 DEF MetaOK
    <2>3. CASE Working(s)
      BY <2>1, <2>2, <2>3 DEF RunOK
    <2>4. CASE ~Working(s)
      BY <2>1, <2>2, <2>4 DEF SessionOK
    <2> QED
      BY <2>3, <2>4
  <1> QED
    BY <1>1, Start, Step, PTL DEF Spec

====
