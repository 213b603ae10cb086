----------------------------- MODULE SharedCache -----------------------------
(***************************************************************************)
(* One workbook in several sessions.  shared/books/{job_id} holds what the *)
(* compile and layout stages made of it (raw/, formula IR, layout.json)    *)
(* and stages.json, the code hashes those files were made by; each session *)
(* keeps its own graph, context and meta.json.  A run may take over what   *)
(* is there, so the question is whether the stamps tell the truth:         *)
(* app/shared_cache.py, app/publisher.py, app/artifacts.py, Pipeline.run.  *)
(*                                                                         *)
(* A file is modelled by where it came from: the set of pairs <<stage,     *)
(* hash of that stage's code>> that took part in making it, {} when the    *)
(* file is missing.  POST's and RQ's own races are in JobLifecycle.        *)
(***************************************************************************)
EXTENDS Integers, FiniteSets

CONSTANTS
    Sessions,
    None,         \* nobody holds the book lock
    MaxHash,      \* bound: versions of one stage's code
    MaxPosts,     \* bound: POSTs that start a run
    MaxDeploys,   \* bound: times the code on disk is replaced
    MaxCrashes    \* bound: runs that raise or are killed

ASSUME CacheAssumption ==
    /\ None \notin Sessions
    /\ MaxHash \in Nat \ {0} /\ MaxPosts \in Nat /\ MaxDeploys \in Nat
    /\ MaxCrashes \in Nat

VARIABLES
    code,       \* the stage hashes of the code on disk
    raw,        \* raw/ of the book
    ir,         \* formula IR of the book
    layout,     \* layout.json of the book
    side,       \* stages.json of the book
    lock,       \* holder of shared/books/{job_id}/.lock
    meta,       \* meta.json of each session
    graph,      \* graph.json of each session
    context,    \* context.json and context.md of each session
    run,        \* the pipeline child of each session
    windows,    \* history: the windows described at Windows below
    posts, deploys, crashes

bookVars == <<raw, ir, layout, side>>
sessionVars == <<meta, graph, context>>
bounds == <<posts, deploys, crashes>>
vars == <<code, bookVars, lock, sessionVars, run, windows, bounds>>

(* STAGE_ORDER, by rank. 0 stands for Python's None. *)
Compile == 1
Layout == 2
Graph == 3
Publish == 4
STAGE_ORDER == Compile .. Publish

Hashes == [STAGE_ORDER -> 1 .. MaxHash]

(* No hash recorded; also what a partial or unverified stamp compares as. *)
NoHash == [s \in STAGE_ORDER |-> 0]

NoSide == [there |-> FALSE, pub |-> NoHash, stages |-> NoHash]

NoMeta == [st |-> "none", pub |-> NoHash, stages |-> NoHash, rebuild |-> 0]

NoRun == [pc |-> "idle", mod |-> NoHash, stamp |-> NoHash, rebuilt |-> 0,
          trusted |-> NoHash, adopt |-> FALSE]

By(s, hash) == {<<s, hash>>}

TERMINAL_STATUS == {"succeeded", "failed"}

(***************************************************************************)
(* Windows that let a file made by other code pass for this code's.        *)
(*   "late_stamp"   the code on disk is replaced after the child has       *)
(*                  imported it and before it first asks for its stamp     *)
(*                  (first meta.json, or stages.json when the finished     *)
(*                  artifacts are kept): the stamp is of the new code.     *)
(*   "no_sidecar"   a run finds files without stages.json, and keeps raw/  *)
(*                  and formula IR whoever made them.                      *)
(*   "recorded"     the code on disk is replaced between POST, which       *)
(*                  records rebuild_from, and the run, which believes it.  *)
(*   "half_rebuilt" a run that replaced shared files dies before it writes *)
(*                  stages.json: the files are not those that stages.json, *)
(*                  or without it the meta.json of another session that    *)
(*                  began on them, describes; a roll-back makes that       *)
(*                  description match.                                     *)
(***************************************************************************)
Windows == {"late_stamp", "no_sidecar", "recorded", "half_rebuilt"}

-----------------------------------------------------------------------------
(* app/publisher.py *)

publisher_matches(m) == m.pub = code

(* A mutant of stale_from_meta: off by one, the stage after it. *)
stale_from_meta_NextStage(m) ==
    LET differ == {s \in STAGE_ORDER : m.stages[s] # code[s]} IN
    IF publisher_matches(m) THEN 0
    ELSE IF m.stages = NoHash \/ differ = {} THEN Layout
    ELSE 1 + CHOOSE s \in differ : \A t \in differ : s <= t

(* The first stage whose stored hash differs from the code on disk. A missing
   map, and a replaced combined stamp over an equal map, mean layout. *)
stale_from_meta(m) ==
    LET differ == {s \in STAGE_ORDER : m.stages[s] # code[s]} IN
    IF publisher_matches(m) THEN 0
    ELSE IF m.stages = NoHash \/ differ = {} THEN Layout
    ELSE CHOOSE s \in differ : \A t \in differ : s <= t

(* publisher_stamp: the code on disk when it is first asked for. *)
Stamped(s) == IF run[s].stamp = NoHash THEN code ELSE run[s].stamp

-----------------------------------------------------------------------------
(* app/artifacts.py and app/shared_cache.py *)

(* A stage is stale from rank `from' on; 0 is nothing. *)
Reached(from, s) == from # 0 /\ from <= s

_cache_has_body == raw # {} \/ ir # {} \/ layout # {}

(* clear_shared_artifacts *)
ClearShared(from) ==
    /\ layout' = IF Reached(from, Layout) THEN {} ELSE layout
    /\ ir' = IF Reached(from, Compile) THEN {} ELSE ir
    /\ raw' = IF Reached(from, Compile) THEN {} ELSE raw

(* clear_downstream_artifacts, the session's publications. *)
ClearSession(s, from) ==
    /\ context' = [context EXCEPT ![s] = IF Reached(from, Publish) THEN {} ELSE @]
    /\ graph' = [graph EXCEPT ![s] = IF Reached(from, Graph) THEN {} ELSE @]

(* session_stale_stage: the recorded rebuild_from wins. *)
session_stale_stage(m) == IF m.rebuild # 0 THEN m.rebuild ELSE stale_from_meta(m)

_recorded_or_layout(recorded) == IF recorded = Compile THEN Compile ELSE Layout

(* A mutant of shared_stale_stage: the session's own map decides. *)
shared_stale_stage_SessionOnly(adopt, recorded) ==
    IF adopt \/ ~_cache_has_body THEN 0 ELSE _recorded_or_layout(recorded)

(* shared_stale_stage: what stages.json says, else what the session says. *)
shared_stale_stage(adopt, recorded) ==
    IF ~side.there
    THEN IF adopt \/ ~_cache_has_body THEN 0 ELSE _recorded_or_layout(recorded)
    ELSE IF stale_from_meta(side) # 0 THEN stale_from_meta(side)
    ELSE IF recorded \in {Compile, Layout} THEN recorded ELSE 0

(* write_shared_stamp, the hash of each stage: rebuilt by this run, already
   known to be this code's, known to be another's, adopted, or unverified. *)
SideStages(r, current) ==
    [n \in STAGE_ORDER |->
        IF Reached(r.rebuilt, n) THEN current[n]
        ELSE IF side.stages[n] = current[n] \/ r.trusted[n] = current[n]
             THEN current[n]
        ELSE IF side.stages[n] # 0 THEN side.stages[n]
        ELSE IF r.adopt THEN current[n] ELSE 0]

-----------------------------------------------------------------------------
(* POST and the pipeline child of session s *)

(* _ready_meta *)
Ready(s) ==
    /\ context[s] # {} /\ graph[s] # {}
    /\ meta[s].st \in TERMINAL_STATUS
    /\ publisher_matches(meta[s])

(* _enqueue_or_reuse: a finished snapshot of this code is returned as it is,
   which changes nothing; otherwise the session is cleared and queued. *)
Post(s) ==
    /\ run[s].pc = "idle"
    /\ posts < MaxPosts
    /\ posts' = posts + 1
    /\ \E rebuild \in BOOLEAN :
         LET stale == IF rebuild THEN Compile ELSE stale_from_meta(meta[s]) IN
         /\ rebuild \/ ~Ready(s)
         /\ ClearSession(s, IF stale = 0 THEN Layout ELSE stale)
         /\ meta' = [meta EXCEPT ![s].st = "queued", ![s].rebuild = stale]
    /\ run' = [run EXCEPT ![s].pc = "queued"]
    /\ UNCHANGED <<code, bookVars, lock, windows, deploys, crashes>>

(* The horse spawns the child, which imports the code on disk. *)
Spawn(s) ==
    /\ run[s].pc = "queued"
    /\ run' = [run EXCEPT ![s].pc = "boot", ![s].mod = code]
    /\ UNCHANGED <<code, bookVars, lock, sessionVars, windows, bounds>>

(* shared_book_lock is held: exit 75, and the job is scheduled again. *)
Busy(s) ==
    /\ run[s].pc = "boot" /\ lock # None
    /\ run' = [run EXCEPT ![s] = [NoRun EXCEPT !.pc = "queued"]]
    /\ UNCHANGED <<code, bookVars, lock, sessionVars, windows, bounds>>

(* invalidate_for_run, under the book lock and dest/.lock. *)
Invalidate(s) ==
    LET recorded == session_stale_stage(meta[s])
        adopt == publisher_matches(meta[s]) \/ ~_cache_has_body
        stale == shared_stale_stage(adopt, recorded) IN
    /\ run[s].pc = "boot" /\ lock = None
    /\ lock' = s
    /\ ClearShared(stale)
    /\ ClearSession(s, recorded)
    /\ meta' = IF recorded = 0 THEN meta ELSE [meta EXCEPT ![s] = NoMeta]
    /\ run' = [run EXCEPT ![s].pc = IF context'[s] # {} THEN "stamp" ELSE "parse",
                          ![s].rebuilt = stale,
                          ![s].trusted = meta[s].stages,
                          ![s].adopt = adopt]
    /\ windows' = windows \cup
         {w \in Windows :
            \/ /\ w = "no_sidecar"
               /\ ~side.there /\ stale = Layout /\ (raw # {} \/ ir # {})
            \/ /\ w = "recorded"
               /\ Reached(stale_from_meta(meta[s]), recorded - 1)}
    /\ UNCHANGED <<code, side, bounds>>

(* _write_meta of the child; s goes on at pc. *)
Write(s, status, pc) ==
    /\ run' = [run EXCEPT ![s].pc = pc, ![s].stamp = Stamped(s)]
    /\ meta' = [meta EXCEPT ![s] =
           [st |-> status, pub |-> Stamped(s), stages |-> Stamped(s), rebuild |-> 0]]

(* set_stage("parse") takes the stamp, then parse_workbook if there is no raw/. *)
Parse(s) ==
    /\ run[s].pc = "parse"
    /\ Write(s, "running", "compile")
    /\ raw' = IF raw = {} THEN By(Compile, run[s].mod[Compile]) ELSE raw
    /\ UNCHANGED <<code, ir, layout, side, lock, graph, context, windows, bounds>>

(* compile_workbook if ir_is_current says no; a deploy is taken to leave the
   schema id of the IR alone. *)
CompileStage(s) ==
    /\ run[s].pc = "compile"
    /\ Write(s, "running", "layout")
    /\ ir' = IF ir = {} THEN raw \cup By(Compile, run[s].mod[Compile]) ELSE ir
    /\ UNCHANGED <<code, raw, layout, side, lock, graph, context, windows, bounds>>

(* layout_workbook if there is no layout.json. *)
LayoutStage(s) ==
    /\ run[s].pc = "layout"
    /\ Write(s, "running", "graph")
    /\ layout' = IF layout = {} THEN raw \cup ir \cup By(Layout, run[s].mod[Layout])
                 ELSE layout
    /\ UNCHANGED <<code, raw, ir, side, lock, graph, context, windows, bounds>>

(* build_formula_graph if the session has no graph. *)
GraphStage(s) ==
    /\ run[s].pc = "graph"
    /\ Write(s, "running", "publish")
    /\ graph' = [graph EXCEPT ![s] =
           IF @ = {} THEN ir \cup layout \cup By(Graph, run[s].mod[Graph]) ELSE @]
    /\ UNCHANGED <<code, bookVars, lock, context, windows, bounds>>

(* build_context (with the relations of the layout code) and the markdown. *)
PublishStage(s) ==
    /\ run[s].pc = "publish"
    /\ Write(s, "running", "finish")
    /\ context' = [context EXCEPT ![s] =
           ir \cup layout \cup graph[s] \cup By(Layout, run[s].mod[Layout])
              \cup By(Publish, run[s].mod[Publish])]
    /\ UNCHANGED <<code, bookVars, lock, graph, windows, bounds>>

(* The final meta.json. *)
Finish(s) ==
    /\ run[s].pc = "finish"
    /\ Write(s, "succeeded", "stamp")
    /\ UNCHANGED <<code, bookVars, lock, graph, context, windows, bounds>>

(* write_shared_stamp, then the locks are freed and the child exits. *)
WriteStamp(s) ==
    LET current == Stamped(s)
        stages == SideStages(run[s], current) IN
    /\ run[s].pc = "stamp"
    /\ side' = IF ~_cache_has_body THEN side
               ELSE [there |-> TRUE, stages |-> stages,
                     pub |-> IF stages = current THEN current ELSE NoHash]
    /\ lock' = None
    /\ run' = [run EXCEPT ![s] = NoRun]
    /\ UNCHANGED <<code, raw, ir, layout, sessionVars, windows, bounds>>

(* s has a child: it has imported its code. *)
Alive(s) == run[s].pc \notin {"idle", "queued"}

Leave(s) ==
    /\ Alive(s)
    /\ crashes < MaxCrashes
    /\ crashes' = crashes + 1
    /\ lock' = IF lock = s THEN None ELSE lock
    /\ windows' = windows \cup
         IF lock = s /\ run[s].rebuilt # 0 THEN {"half_rebuilt"} ELSE {}
    /\ UNCHANGED <<code, bookVars, graph, context, posts, deploys>>

(* The run raises or times out: mark_job_failed drops the stamp. *)
Fail(s) ==
    /\ Leave(s)
    /\ run' = [run EXCEPT ![s] = NoRun]
    /\ meta' = IF context[s] # {} /\ graph[s] # {} /\ meta[s].st \in TERMINAL_STATUS
               THEN meta
               ELSE [meta EXCEPT ![s] = [NoMeta EXCEPT !.st = "failed",
                                                       !.rebuild = meta[s].rebuild]]

(* The worker is lost and RQ runs the same job again. *)
Kill(s) ==
    /\ Leave(s)
    /\ run' = [run EXCEPT ![s] = [NoRun EXCEPT !.pc = "queued"]]
    /\ UNCHANGED meta

(* Other code, or an earlier version again, is put on disk. *)
Deploy ==
    /\ deploys < MaxDeploys
    /\ deploys' = deploys + 1
    /\ code' \in Hashes \ {code}
    /\ windows' = windows \cup
         IF \E s \in Sessions : Alive(s) /\ run[s].stamp = NoHash
         THEN {"late_stamp"} ELSE {}
    /\ UNCHANGED <<bookVars, lock, sessionVars, run, posts, crashes>>

Init ==
    /\ code = [s \in STAGE_ORDER |-> 1]
    /\ raw = {} /\ ir = {} /\ layout = {} /\ side = NoSide
    /\ lock = None
    /\ meta = [s \in Sessions |-> NoMeta]
    /\ graph = [s \in Sessions |-> {}]
    /\ context = [s \in Sessions |-> {}]
    /\ run = [s \in Sessions |-> NoRun]
    /\ windows = {}
    /\ posts = 0 /\ deploys = 0 /\ crashes = 0

Next ==
    \/ \E s \in Sessions :
         \/ Post(s) \/ Spawn(s) \/ Busy(s) \/ Invalidate(s) \/ Parse(s)
         \/ CompileStage(s) \/ LayoutStage(s) \/ GraphStage(s)
         \/ PublishStage(s) \/ Finish(s) \/ WriteStamp(s) \/ Fail(s) \/ Kill(s)
    \/ Deploy

Spec == Init /\ [][Next]_vars

-----------------------------------------------------------------------------
Files == SUBSET (STAGE_ORDER \X (1 .. MaxHash))
Stamps == [STAGE_ORDER -> 0 .. MaxHash]
Pcs == {"idle", "queued", "boot", "parse", "compile", "layout", "graph", "publish",
        "finish", "stamp"}

(* Every file, stamp and pipeline child has its type: a stage that is stale is
   a stage. *)
TypeOK ==
    /\ code \in Hashes
    /\ raw \in Files /\ ir \in Files /\ layout \in Files
    /\ side \in [there : BOOLEAN, pub : Stamps, stages : Stamps]
    /\ lock \in Sessions \cup {None}
    /\ meta \in [Sessions -> [st : {"none", "queued", "running"} \cup TERMINAL_STATUS,
                              pub : Stamps, stages : Stamps, rebuild : 0 .. Publish]]
    /\ graph \in [Sessions -> Files] /\ context \in [Sessions -> Files]
    /\ run \in [Sessions -> [pc : Pcs, mod : Stamps, stamp : Stamps, trusted : Stamps,
                             rebuilt : 0 .. Publish, adopt : BOOLEAN]]
    /\ windows \in SUBSET Windows
    /\ posts \in 0 .. MaxPosts /\ deploys \in 0 .. MaxDeploys
    /\ crashes \in 0 .. MaxCrashes

(* What the given stamp claims of a file. *)
MadeBy(file, stamp) == file \subseteq {<<s, stamp[s]>> : s \in STAGE_ORDER}

Honest(s) ==
    meta[s].st = "succeeded" => MadeBy(context[s] \cup graph[s], meta[s].pub)

(* A finished snapshot was built by the code its publisher stamp names, the
   shared files it was built from included, whatever the other session, the
   deploys and the crashes did, outside the windows above: POST may return it.
   _ready_meta, write_shared_stamp, invalidate_for_run. *)
SnapshotHonest == windows = {} => \A s \in Sessions : Honest(s)

(* "rebuilds from the first stale stage": the same of a run that was queued
   while the code was replaced. session_stale_stage. *)
HonestAfterQueue ==
    windows \subseteq {"recorded"} => \A s \in Sessions : Honest(s)
=============================================================================
