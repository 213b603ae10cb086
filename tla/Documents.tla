----------------------------- MODULE Documents -----------------------------
(***************************************************************************)
(* The documents of one workbook hash: what a build leaves in its session's *)
(* directory, the copy of it in the bucket (store/duckdb_io.py), and the   *)
(* routes that serve it (api/routes/documents.py).                         *)
(*                                                                         *)
(* The bucket prefix and the publish lock belong to the hash, so every     *)
(* session that posted the same workbook writes the same keys.  The marker *)
(* object _complete.json lists the keys that may be served.  Any call to   *)
(* the bucket may fail, and a failed put may leave the old object, the new *)
(* one, or one cut short.  Any process may be killed between two steps.    *)
(***************************************************************************)
EXTENDS Naturals, Sequences, FiniteSets

CONSTANTS
    Sessions,
    Procs,        \* pipeline children and request threads
    Exported,     \* the keys of a book in the order they are copied
    MaxBuilds,    \* bound on the builds of all sessions
    MaxFaults,    \* bound on the bucket calls that fail
    MaxKills,     \* bound on the processes killed
    MaxRenderer   \* bound on MARKDOWN_RENDERER, which a deployment bumps

Files == {Exported[i] : i \in 1 .. Len(Exported)}

\* Nobody holds the lock.
NoProc == "nobody"

ASSUME DocumentsAssumption ==
    /\ Exported \in Seq({"json", "md"}) /\ Files = {"json", "md"}
    /\ MaxBuilds \in Nat /\ MaxFaults \in Nat /\ MaxKills \in Nat
    /\ MaxRenderer \in Nat \ {0}
    /\ NoProc \notin Procs /\ "none" \notin Sessions /\ "torn" \notin Sessions

VARIABLES
    local,    \* [session -> [file -> content]]: the session's own files
    meta,     \* [session -> [status, warn]]: meta.json
    stamp,    \* [session -> renderer named by context.md.renderer]
    bucket,   \* [file -> content]: the objects below books/{job_id}/
    marker,   \* [state, keys]: the object _complete.json
    lock,     \* who holds .minio-publish.lock
    proc,     \* [process -> what it is doing]
    killed,   \* the sessions whose last build died after its final meta.json
    builds, faults, kills, renderer

vars == <<local, meta, stamp, bucket, marker, lock, proc,
          killed, builds, faults, kills, renderer>>

files == <<local, meta, stamp>>
counts == <<builds, faults, kills, renderer>>

\* A file's content: its session, its build and its renderer.
None == <<"none", 0, 0>>
Torn == <<"torn", 0, 0>>
NoSession == "none"

Contents == (Sessions \X (1 .. MaxBuilds) \X (0 .. MaxRenderer))
Whole(c) == c \notin {None, Torn}

Idle == [pc |-> "idle", s |-> NoSession, f |-> "json", i |-> 1, then |-> "idle",
         nest |-> FALSE, floor |-> 0]

\* Process p goes on at step pc.
Goto(p, pc) == proc' = [proc EXCEPT ![p].pc = pc]
Finish(p) == proc' = [proc EXCEPT ![p] = Idle]

Init ==
    /\ local = [s \in Sessions |-> [f \in {"json", "md"} |-> None]]
    /\ meta = [s \in Sessions |-> [status |-> "none", warn |-> FALSE]]
    /\ stamp = [s \in Sessions |-> 0]
    /\ bucket = [f \in {"json", "md"} |-> None]
    /\ marker = [state |-> "missing", keys |-> {}]
    /\ lock = NoProc
    /\ proc = [p \in Procs |-> Idle]
    /\ killed = {}
    /\ builds = 0 /\ faults = 0 /\ kills = 0 /\ renderer = 1

(***************************************************************************)
(* The bucket.                                                             *)
(***************************************************************************)
Ok == [state |-> "ok", keys |-> {}]

\* store.put and the size check of a marker: whether it succeeds, and what the
\* marker is afterwards.
put_marker(keys) ==
    {<<TRUE, [state |-> "ok", keys |-> keys]>>}
    \cup (IF faults < MaxFaults
          THEN {<<FALSE, marker>>, <<FALSE, [state |-> "torn", keys |-> {}]>>,
                <<FALSE, [state |-> "ok", keys |-> keys]>>}
          ELSE {})

\* store.put of the file with content c over the object o.
Put(c, o) ==
    {<<TRUE, c>>}
    \cup (IF faults < MaxFaults THEN {<<FALSE, o>>, <<FALSE, Torn>>, <<FALSE, c>>} ELSE {})

Count(ok) == faults' = IF ok THEN faults ELSE faults + 1

\* A read of an object that may fail.
Reads == {TRUE} \cup (IF faults < MaxFaults THEN {FALSE} ELSE {})

(***************************************************************************)
(* The publish lock.  A thread that holds it enters it again.              *)
(***************************************************************************)
publish_lock(p, pc) ==
    /\ lock \in {NoProc, p}
    /\ lock' = p
    /\ proc' = [proc EXCEPT ![p].pc = pc, ![p].nest = lock = p]

\* Leave the lock and go on at pc; the outermost holder frees it.
Leave(p, pc) ==
    /\ lock' = IF proc[p].nest THEN p ELSE NoProc
    /\ proc' = [proc EXCEPT ![p].pc = pc, ![p].nest = FALSE]

(***************************************************************************)
(* export_succeeded_book: clear the marker, copy every file and check its  *)
(* size, list every key.  proc[p].then is what the caller does with a      *)
(* warning, x_done what it does without one.                               *)
(***************************************************************************)
ExportLock(p) ==
    /\ proc[p].pc = "x_lock"
    /\ publish_lock(p, "x_clear")
    /\ UNCHANGED <<files, bucket, marker, killed, counts>>

ExportClear(p) ==
    /\ proc[p].pc = "x_clear"
    /\ \E r \in put_marker({}) :
          /\ marker' = r[2] /\ Count(r[1])
          /\ proc' = [proc EXCEPT ![p].pc = IF r[1] THEN "x_put" ELSE "x_fail", ![p].i = 1]
    /\ UNCHANGED <<files, bucket, lock, killed, builds, kills, renderer>>

ExportPut(p) ==
    LET f == Exported[proc[p].i] c == local[proc[p].s][f] IN
    /\ proc[p].pc = "x_put"
    /\ IF c = None
       THEN Goto(p, "x_fail") /\ UNCHANGED <<bucket, faults>>
       ELSE \E r \in Put(c, bucket[f]) :
              /\ bucket' = [bucket EXCEPT ![f] = r[2]] /\ Count(r[1])
              /\ Goto(p, IF r[1] THEN "x_check" ELSE "x_fail")
    /\ UNCHANGED <<files, marker, lock, killed, builds, kills, renderer>>

\* The size of the object against the size the local file has by now: a file
\* rewritten since the put may or may not have kept its size.
SizeMatches(f, s) == IF local[s][f] = bucket[f] THEN {TRUE}
                     ELSE IF local[s][f] = None THEN {FALSE} ELSE BOOLEAN

\* Mutant: the index runs past the last file.
ExportCheck_Past(p) ==
    LET i == proc[p].i IN
    /\ proc[p].pc = "x_check"
    /\ \E same \in SizeMatches(Exported[i], proc[p].s) :
          proc' = [proc EXCEPT ![p].pc = IF ~same THEN "x_fail"
                                         ELSE IF i < Len(Exported) THEN "x_put" ELSE "x_mark",
                               ![p].i = IF same THEN i + 1 ELSE i]
    /\ UNCHANGED <<files, bucket, marker, lock, killed, counts>>

ExportCheck(p) ==
    LET i == proc[p].i IN
    /\ proc[p].pc = "x_check"
    /\ \E same \in SizeMatches(Exported[i], proc[p].s) :
          proc' = [proc EXCEPT ![p].pc = IF ~same THEN "x_fail"
                                         ELSE IF i < Len(Exported) THEN "x_put" ELSE "x_mark",
                               ![p].i = IF same /\ i < Len(Exported) THEN i + 1 ELSE i]
    /\ UNCHANGED <<files, bucket, marker, lock, killed, counts>>

ExportMark(p) ==
    /\ proc[p].pc = "x_mark"
    /\ \E r \in put_marker(Files) :
          /\ marker' = r[2] /\ Count(r[1])
          /\ IF r[1] THEN Leave(p, IF proc[p].then = "b_warn" THEN "b_end" ELSE "e_done")
                     ELSE Goto(p, "x_fail") /\ UNCHANGED lock
    /\ UNCHANGED <<files, bucket, killed, builds, kills, renderer>>

\* A 403 skips the second clearing of the marker; the failure of that clearing
\* is ignored.
ExportFail(p) ==
    /\ proc[p].pc = "x_fail"
    /\ \/ \E r \in put_marker({}) : marker' = r[2] /\ Count(r[1])
       \/ UNCHANGED <<marker, faults>>
    /\ Leave(p, proc[p].then)
    /\ UNCHANGED <<files, bucket, killed, builds, kills, renderer>>

(***************************************************************************)
(* republish_file: take the key off the marker, copy the file and check    *)
(* its size, put the key back.  The caller goes on at proc[p].then, or at  *)
(* Failed(then) after an exception.                                        *)
(***************************************************************************)
Failed(then) == CASE then = "g_stamp" -> "local" [] then = "b_stamp" -> "b_end" [] OTHER -> "e_done"

RepublishLock(p) ==
    /\ proc[p].pc = "r_lock"
    /\ publish_lock(p, "r_off")
    /\ UNCHANGED <<files, bucket, marker, killed, counts>>

\* _mark_published_key: read the marker, write it when it changes, and go on at
\* next; an exception leaves the lock.
mark_published_key(p, keys, next) ==
    \/ /\ marker.state = "ok" /\ keys = marker.keys
       /\ Goto(p, next)
       /\ UNCHANGED <<marker, lock, faults>>
    \/ /\ marker.state = "ok" /\ keys # marker.keys
       /\ \E r \in put_marker(keys) :
            /\ marker' = r[2] /\ Count(r[1])
            /\ IF r[1] THEN Goto(p, next) /\ UNCHANGED lock
                       ELSE Leave(p, Failed(proc[p].then))
    \/ /\ marker.state # "ok" \/ FALSE \in Reads
       /\ Count(marker.state # "ok")
       /\ Leave(p, Failed(proc[p].then))
       /\ UNCHANGED marker

\* Mutant: the key stays listed while its object is replaced.
RepublishOff_KeepKey(p) ==
    /\ proc[p].pc = "r_off"
    /\ mark_published_key(p, marker.keys, "r_put")
    /\ UNCHANGED <<files, bucket, killed, builds, kills, renderer>>

RepublishOff(p) ==
    /\ proc[p].pc = "r_off"
    /\ mark_published_key(p, marker.keys \ {proc[p].f}, "r_put")
    /\ UNCHANGED <<files, bucket, killed, builds, kills, renderer>>

RepublishPut(p) ==
    LET f == proc[p].f c == local[proc[p].s][f] IN
    /\ proc[p].pc = "r_put"
    /\ IF c = None
       THEN Leave(p, Failed(proc[p].then)) /\ UNCHANGED <<bucket, faults>>
       ELSE \E r \in Put(c, bucket[f]) :
              /\ bucket' = [bucket EXCEPT ![f] = r[2]] /\ Count(r[1])
              /\ IF r[1] THEN Goto(p, "r_check") /\ UNCHANGED lock
                         ELSE Leave(p, Failed(proc[p].then))
    /\ UNCHANGED <<files, marker, killed, builds, kills, renderer>>

RepublishCheck(p) ==
    /\ proc[p].pc = "r_check"
    /\ \E same \in SizeMatches(proc[p].f, proc[p].s) :
          IF same THEN Goto(p, "r_on") /\ UNCHANGED lock
                  ELSE Leave(p, Failed(proc[p].then))
    /\ UNCHANGED <<files, bucket, marker, killed, counts>>

\* The second marker write; the caller goes on without the lock.
RepublishOn(p) ==
    /\ proc[p].pc = "r_on"
    /\ mark_published_key(p, marker.keys \cup {proc[p].f}, "r_end")
    /\ UNCHANGED <<files, bucket, killed, builds, kills, renderer>>

RepublishEnd(p) ==
    /\ proc[p].pc = "r_end"
    /\ Leave(p, proc[p].then)
    /\ UNCHANGED <<files, bucket, marker, killed, counts>>

(***************************************************************************)
(* A pipeline child.  The shared book's lock lets one build run at a time. *)
(***************************************************************************)
Building(p) == proc[p].pc \in {"b_json", "b_md", "b_meta", "b_warn", "b_end", "b_stamp"}
               \/ proc[p].then \in {"b_warn", "b_stamp"}

\* A POST clears the session's documents and its child starts.  What a GET under
\* way was owed is void: it may see either build.
StartBuild(p, s) ==
    /\ proc[p].pc = "idle" /\ \A q \in Procs : ~Building(q)
    /\ builds < MaxBuilds
    /\ builds' = builds + 1
    /\ local' = [local EXCEPT ![s] = [f \in Files |-> None]]
    /\ meta' = [meta EXCEPT ![s] = [status |-> "running", warn |-> FALSE]]
    /\ proc' = [q \in Procs |-> IF q = p THEN [Idle EXCEPT !.pc = "b_json", !.s = s]
                               ELSE IF proc[q].s = s THEN [proc[q] EXCEPT !.floor = 0]
                               ELSE proc[q]]
    /\ UNCHANGED <<stamp, bucket, marker, lock, killed, faults, kills, renderer>>

BuildJson(p) ==
    /\ proc[p].pc = "b_json"
    /\ local' = [local EXCEPT ![proc[p].s]["json"] = <<proc[p].s, builds, 0>>]
    /\ Goto(p, "b_md")
    /\ UNCHANGED <<meta, stamp, bucket, marker, lock, killed, counts>>

\* write_context_markdown and its stamp.
BuildMarkdown(p) ==
    LET s == proc[p].s IN
    /\ proc[p].pc = "b_md"
    /\ local' = [local EXCEPT ![s]["md"] = <<s, builds, renderer>>]
    /\ stamp' = [stamp EXCEPT ![s] = renderer]
    /\ Goto(p, "b_meta")
    /\ UNCHANGED <<meta, bucket, marker, lock, killed, counts>>

\* The final meta.json, then export_succeeded_book.
BuildMeta(p) ==
    /\ proc[p].pc = "b_meta"
    /\ meta' = [meta EXCEPT ![proc[p].s] = [status |-> "done", warn |-> FALSE]]
    /\ killed' = killed \ {proc[p].s}
    /\ proc' = [proc EXCEPT ![p].pc = "x_lock", ![p].then = "b_warn"]
    /\ UNCHANGED <<local, stamp, bucket, marker, lock, counts>>

\* Mutant: the failed export is not recorded.
append_export_warning_Silent(p) ==
    /\ proc[p].pc = "b_warn"
    /\ Goto(p, "b_end")
    /\ UNCHANGED <<files, bucket, marker, lock, killed, counts>>

append_export_warning(p) ==
    /\ proc[p].pc = "b_warn"
    /\ meta' = [meta EXCEPT ![proc[p].s].warn = TRUE]
    /\ Goto(p, "b_end")
    /\ UNCHANGED <<local, stamp, bucket, marker, lock, killed, counts>>

\* refresh_context_markdown: does it rewrite context.md?
Rewrites(s) ==
    /\ stamp[s] # renderer \/ local[s]["md"] = None
    /\ local[s]["json"] # None

Refreshed(s) == [local EXCEPT ![s]["md"] = <<s, local[s]["json"][2], renderer>>]

\* A child started again over finished documents keeps them: it refreshes the
\* markdown and does not export.
StartReuse(p, s) ==
    /\ proc[p].pc = "idle" /\ \A q \in Procs : ~Building(q)
    /\ \A f \in Files : local[s][f] # None
    /\ Rewrites(s)
    /\ local' = Refreshed(s)
    /\ proc' = [proc EXCEPT ![p] = [Idle EXCEPT !.pc = "r_lock", !.s = s, !.f = "md",
                                                !.then = "b_stamp"]]
    /\ UNCHANGED <<meta, stamp, bucket, marker, lock, killed, counts>>

commit_renderer_stamp(p) ==
    /\ proc[p].pc \in {"b_stamp", "g_stamp"}
    /\ stamp' = [stamp EXCEPT ![proc[p].s] = renderer]
    /\ Goto(p, IF proc[p].pc = "b_stamp" THEN "b_end" ELSE "warned")
    /\ UNCHANGED <<local, meta, bucket, marker, lock, killed, counts>>

BuildEnd(p) ==
    /\ proc[p].pc = "b_end"
    /\ Finish(p)
    /\ UNCHANGED <<files, bucket, marker, lock, killed, counts>>

(***************************************************************************)
(* GET .../context.json, graph.json ("json") and context.md ("md").        *)
(***************************************************************************)

\* What a quiet, finished session has: a GET may not be answered with less.
Floor(s, f) == IF s \notin killed /\ meta[s].status = "done"
                  /\ \A q \in Procs : ~(Building(q) /\ proc[q].s = s)
               THEN local[s][f][2] ELSE 0

\* _require_artifact.
Get(p, s, f) ==
    /\ proc[p].pc = "idle"
    /\ local[s][f] # None
    /\ proc' = [proc EXCEPT ![p] = [Idle EXCEPT !.pc = IF f = "md" THEN "refresh" ELSE "warned",
                                       !.s = s, !.f = f, !.floor = Floor(s, f)]]
    /\ UNCHANGED <<files, bucket, marker, lock, killed, counts>>

\* get_context_md.
GetRefresh(p) ==
    LET s == proc[p].s IN
    /\ proc[p].pc = "refresh"
    /\ IF Rewrites(s)
       THEN /\ local' = Refreshed(s)
            /\ proc' = [proc EXCEPT ![p].pc = "r_lock", ![p].then = "g_stamp"]
       ELSE Goto(p, "warned") /\ UNCHANGED local
    /\ UNCHANGED <<meta, stamp, bucket, marker, lock, killed, counts>>

\* read_published_file: the warning, the marker, the object.
GetWarned(p) ==
    /\ proc[p].pc = "warned"
    /\ Goto(p, IF meta[proc[p].s].warn THEN "local" ELSE "look")
    /\ UNCHANGED <<files, bucket, marker, lock, killed, counts>>

marker_lists(p) == marker.state = "ok" /\ proc[p].f \in marker.keys

GetLook(p) ==
    /\ proc[p].pc \in {"look", "look2"}
    /\ \E readable \in Reads :
          /\ Count(readable)
          /\ Goto(p, IF readable /\ marker_lists(p) THEN "object"
                     ELSE IF proc[p].pc = "look" THEN "ensure" ELSE "local")
    /\ UNCHANGED <<files, bucket, marker, lock, killed, builds, kills, renderer>>

read_bucket_or_local(p) ==
    /\ proc[p].pc = "object"
    /\ \E readable \in Reads :
          /\ Count(readable)
          /\ IF readable /\ bucket[proc[p].f] # None
             THEN Finish(p) ELSE Goto(p, "local")
    /\ UNCHANGED <<files, bucket, marker, lock, killed, builds, kills, renderer>>

ReadLocal(p) ==
    /\ proc[p].pc = "local"
    /\ Finish(p)
    /\ UNCHANGED <<files, bucket, marker, lock, killed, counts>>

\* _ensure_published_book.
job_is_settled(s) == meta[s].status \in {"done", "failed"}
local_book_complete(s) == \A f \in Files : local[s][f] # None

EnsureStart(p) ==
    /\ proc[p].pc = "ensure"
    /\ Goto(p, IF job_is_settled(proc[p].s) /\ local_book_complete(proc[p].s)
               THEN "e_lock" ELSE "look2")
    /\ UNCHANGED <<files, bucket, marker, lock, killed, counts>>

EnsureLock(p) ==
    /\ proc[p].pc = "e_lock"
    /\ publish_lock(p, "e_load")
    /\ UNCHANGED <<files, bucket, marker, killed, counts>>

EnsureLoad(p) ==
    LET s == proc[p].s IN
    /\ proc[p].pc = "e_load"
    /\ \E readable \in Reads :
          /\ Count(readable)
          /\ IF meta[s].warn \/ ~job_is_settled(s) \/ ~readable \/ marker.state = "torn"
                \/ proc[p].f \in marker.keys
             THEN Goto(p, "e_done")
             ELSE IF marker.state = "missing"
             THEN proc' = [proc EXCEPT ![p].pc = "x_lock", ![p].then = "e_warn"]
             ELSE proc' = [proc EXCEPT ![p].pc = "r_lock", ![p].then = "e_done"]
    /\ UNCHANGED <<files, bucket, marker, lock, killed, builds, kills, renderer>>

set_export_warning(p) ==
    /\ proc[p].pc = "e_warn"
    /\ meta' = [meta EXCEPT ![proc[p].s].warn = TRUE]
    /\ Goto(p, "e_done")
    /\ UNCHANGED <<local, stamp, bucket, marker, lock, killed, counts>>

EnsureDone(p) ==
    /\ proc[p].pc = "e_done"
    /\ lock' = NoProc
    /\ Goto(p, "look2")
    /\ UNCHANGED <<files, bucket, marker, killed, counts>>

(***************************************************************************)
(* Faults.                                                                 *)
(***************************************************************************)

\* A killed process loses its flock; a child that had not written its final
\* meta.json is recorded as failed, one that had is not exported any more.
Kill(p) ==
    LET s == proc[p].s IN
    /\ proc[p].pc # "idle"
    /\ kills < MaxKills
    /\ kills' = kills + 1
    /\ Finish(p)
    /\ lock' = IF lock = p THEN NoProc ELSE lock
    /\ killed' = IF Building(p) /\ meta[s].status = "done" THEN killed \cup {s} ELSE killed
    /\ meta' = IF Building(p) /\ meta[s].status = "running"
               THEN [meta EXCEPT ![s].status = "failed"] ELSE meta
    /\ UNCHANGED <<local, stamp, bucket, marker, builds, faults, renderer>>

\* A release with another renderer is deployed while nothing runs.
Deploy ==
    /\ \A p \in Procs : proc[p].pc = "idle"
    /\ renderer < MaxRenderer
    /\ renderer' = renderer + 1
    /\ UNCHANGED <<files, bucket, marker, lock, proc, killed, builds, faults, kills>>

Export(p) == \/ ExportLock(p) \/ ExportClear(p) \/ ExportPut(p)
             \/ ExportCheck(p) \/ ExportMark(p) \/ ExportFail(p)

Republish(p) == \/ RepublishLock(p) \/ RepublishOff(p) \/ RepublishPut(p)
                \/ RepublishCheck(p) \/ RepublishOn(p) \/ RepublishEnd(p)

Build(p) == \/ BuildJson(p) \/ BuildMarkdown(p) \/ BuildMeta(p)
            \/ append_export_warning(p) \/ commit_renderer_stamp(p) \/ BuildEnd(p)

Read(p) == \/ GetRefresh(p) \/ GetWarned(p) \/ GetLook(p) \/ read_bucket_or_local(p)
           \/ ReadLocal(p) \/ EnsureStart(p) \/ EnsureLock(p) \/ EnsureLoad(p)
           \/ set_export_warning(p) \/ EnsureDone(p)

Step(p) == Export(p) \/ Republish(p) \/ Build(p) \/ Read(p)

Next ==
    \/ \E p \in Procs : Step(p) \/ Kill(p)
    \/ \E p \in Procs, s \in Sessions : StartBuild(p, s) \/ StartReuse(p, s)
    \/ \E p \in Procs, s \in Sessions, f \in Files : Get(p, s, f)
    \/ Deploy

Spec == Init /\ [][Next]_vars

(***************************************************************************)
(* Properties.                                                             *)
(***************************************************************************)
States == {"idle", "x_lock", "x_clear", "x_put", "x_check", "x_mark", "x_fail", "r_lock",
           "r_off", "r_put", "r_check", "r_on", "r_end", "b_json", "b_md", "b_meta", "b_warn",
           "b_stamp", "b_end", "g_stamp", "refresh", "warned", "look", "look2", "object", "local",
           "ensure", "e_lock", "e_load", "e_warn", "e_done"}

\* Where a process goes on after an export or a republishing.
Thens == {"idle", "b_warn", "b_stamp", "g_stamp", "e_warn", "e_done"}

Process == [pc : States, s : Sessions \cup {NoSession}, f : Files, i : 1 .. Len(Exported),
            then : Thens, nest : BOOLEAN, floor : 0 .. MaxBuilds]

\* Every file, object and process has its type, the position of an export never
\* runs past the files it copies (_export_body), and a process that is at work
\* works for a session.
TypeOK ==
    /\ local \in [Sessions -> [Files -> Contents \cup {None}]]
    /\ meta \in [Sessions -> [status : {"none", "running", "done", "failed"}, warn : BOOLEAN]]
    /\ stamp \in [Sessions -> 0 .. MaxRenderer]
    /\ bucket \in [Files -> Contents \cup {None, Torn}]
    /\ marker \in [state : {"missing", "torn", "ok"}, keys : SUBSET Files]
    /\ lock \in Procs \cup {NoProc}
    /\ proc \in [Procs -> Process]
    /\ \A p \in Procs : proc[p].pc # "idle" => proc[p].s \in Sessions
    /\ killed \subseteq Sessions
    /\ builds \in 0 .. MaxBuilds /\ faults \in 0 .. MaxFaults
    /\ kills \in 0 .. MaxKills /\ renderer \in 1 .. MaxRenderer

\* The marker lists a key only while the object under it is a whole, size-checked
\* copy: through concurrent exports and republishing by several sessions, failed
\* and torn puts of objects and of the marker itself, and kills between any two
\* calls (_export_body, _republish_body).
MarkerHonest == \A f \in marker.keys : Whole(bucket[f])

\* Once a session's build has ended and recorded whether its export failed, a
\* GET of that session that no new POST overtakes is not answered from the
\* session's own earlier export (export_succeeded_book, _append_export_warning,
\* get_context_md).
FreshAnswer ==
    [][\A p \in Procs :
        LET c == bucket[proc[p].f] IN
        /\ proc[p].pc = "object" /\ proc'[p].pc = "idle" /\ kills' = kills
        /\ c[1] = proc[p].s
        => c[2] >= proc[p].floor]_vars

=============================================================================
