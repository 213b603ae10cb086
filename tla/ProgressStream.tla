---------------------------- MODULE ProgressStream ----------------------------
(***************************************************************************)
(* Live progress of one job: the publishers (jobqueue/progress.py) in the  *)
(* API, the pool worker, its forked horse and the spawned pipeline child,  *)
(* the Redis stream they XADD to, and the SSE readers that follow it       *)
(* (api/routes/events.py).                                                 *)
(*                                                                         *)
(* The run itself is reduced to what emits an event or moves meta.json:    *)
(* POST, GET, locks, retries and overlapping runs are in JobLifecycle.     *)
(* `succeeded' here stands for that status with all four documents on      *)
(* disk.                                                                   *)
(***************************************************************************)
EXTENDS Integers, Sequences, FiniteSets

CONSTANTS
    Readers,        \* SSE clients
    Limit,          \* JOB_EVENTS_MAX_CONNECTIONS
    MaxLen,         \* JOB_EVENTS_MAXLEN
    Count,          \* count= of the XREAD (50)
    Stages,         \* how many mapped stages a run opens (compile .. publish)
    MaxGen,         \* bound: POSTs that start a run
    MaxCrashes,     \* bound: processes killed, runs that find the book busy
    MaxErrors,      \* bound: Redis errors
    MaxReconnects   \* bound: connections per client

ASSUME StreamAssumption ==
    /\ IsFiniteSet(Readers)
    /\ Limit \in Nat /\ MaxLen \in Nat \ {0} /\ Count \in Nat \ {0}
    /\ Stages \in Nat \ {0} /\ MaxGen \in Nat
    /\ MaxCrashes \in Nat /\ MaxErrors \in Nat /\ MaxReconnects \in Nat

VARIABLES
    meta,       \* meta.json: status and generation
    job,        \* the RQ job: none, queued, run, over or retry (execute_job
                \* has returned), lost (no process left)
    post,       \* POST has enqueued and has not emitted `queued' yet
    cpc,        \* the pipeline child: none, run, export, stamp, exit
    open,       \* open_stage of _run_loaded: 0 before the first one
    pub,        \* one ProgressPublisher per process
    stream,     \* entries of the Redis stream, oldest first
    top,        \* the last id XADD has given out
    ttl,        \* the key has an EXPIRE
    gate,       \* _StreamGate.current
    rpc,        \* where each SSE connection is
    snap,       \* the meta.json the connection read
    cur,        \* last_id of the connection; 0 is "$"
    from,       \* the id the pending XREAD was resolved to
    rows,       \* entries read and not yet sent
    seen,       \* ids the client has received since it began without an id
    conns,      \* connections each client has made
    crashes,    \* crashes so far
    errors      \* Redis errors so far

jobVars == <<meta, job, post, cpc, open>>
streamVars == <<stream, top, ttl>>
sseVars == <<gate, rpc, snap, cur, from, rows, seen, conns>>
faults == <<crashes, errors>>
vars == <<jobVars, pub, streamVars, sseVars, faults>>

Procs == {"api", "worker", "horse", "child"}
Statuses == {"queued", "running", "succeeded", "failed"}

TERMINAL_EVENTS == {"succeeded", "failed", "queue_lost"}
TERMINAL_STATUSES == {"succeeded", "failed"}

Kinds == TERMINAL_EVENTS \cup
    {"queued", "running", "stage_start", "stage_done", "retry"}

NoJob == [st |-> "queued", gen |-> 0]

Event(ev, st) == [ev |-> ev, st |-> st, gen |-> meta.gen]

-----------------------------------------------------------------------------
(* ProgressPublisher. *)

NewPublisher == [pending |-> <<>>, thread |-> "none", warned |-> FALSE]

(* emit: nothing once a publish has failed; otherwise start the thread, if
   the object does not have one, and queue the events. *)
Emit(p, events) ==
    IF p.warned THEN p
    ELSE [p EXCEPT !.pending = @ \o events,
                   !.thread = IF @ = "none" THEN "live" ELSE @]

(* os.fork copies the module's publishers into the horse. The Thread object
   is copied, the thread is not. *)
Forked(p) == [p EXCEPT !.thread = IF @ = "none" THEN "none" ELSE "dead"]

(* XADD with an approximate MAXLEN keeps at least the newest MaxLen. *)
Trimmed(s) ==
    {SubSeq(s, k, Len(s)) :
        k \in 1 .. IF Len(s) > MaxLen THEN Len(s) - MaxLen + 1 ELSE 1}

Xadd(e) ==
    /\ stream' \in Trimmed(Append(stream,
           [id |-> top + 1, ev |-> e.ev, st |-> e.st, gen |-> e.gen]))
    /\ top' = top + 1

RedisError == errors < MaxErrors /\ errors' = errors + 1 /\ UNCHANGED crashes

Crash == crashes < MaxCrashes /\ crashes' = crashes + 1 /\ UNCHANGED errors

(* _loop takes one event and sends it. After _disable the rest is dropped.
   A Redis error, before or after the server applied the XADD, disables the
   publisher of this process for good. *)
Send(p) ==
    /\ pub[p].thread = "live"
    /\ pub[p].pending # <<>>
    /\ LET e == Head(pub[p].pending)
           rest == [pub[p] EXCEPT !.pending = Tail(pub[p].pending)] IN
       \/ /\ pub[p].warned
          /\ pub' = [pub EXCEPT ![p] = rest]
          /\ UNCHANGED <<streamVars, faults>>
       \/ /\ ~pub[p].warned
          /\ pub' = [pub EXCEPT ![p] = rest]
          /\ Xadd(e)
          /\ ttl' = (ttl \/ e.ev \in TERMINAL_EVENTS)
          /\ UNCHANGED faults
       \/ /\ ~pub[p].warned /\ RedisError
          /\ pub' = [pub EXCEPT ![p] = [rest EXCEPT !.warned = TRUE]]
          /\ Xadd(e) \/ UNCHANGED <<stream, top>>
          /\ UNCHANGED ttl
    /\ UNCHANGED <<jobVars, sseVars>>

(* The EXPIRE of a terminal event runs out. A later XADD does not clear it. *)
StreamExpire ==
    /\ ttl
    /\ stream' = <<>> /\ ttl' = FALSE
    /\ UNCHANGED <<jobVars, pub, top, sseVars, faults>>

-----------------------------------------------------------------------------
(* The run, as far as it emits. *)

(* mark_job_failed, for the generation of the run: a finished job is left
   alone. *)
Marked == IF meta.st = "succeeded" THEN meta ELSE [meta EXCEPT !.st = "failed"]

(* ... and _emit_failure follows whether or not meta.json was written. *)
MarkJobFailed(p, ev) ==
    /\ meta' = Marked
    /\ pub' = [pub EXCEPT ![p] = Emit(@, <<Event(ev, "failed")>>)]

(* The tail of _enqueue_or_reuse: stamp and enqueue, then emit. *)
PostEnqueue ==
    /\ job \in {"none", "lost"} /\ ~post
    /\ meta.gen < MaxGen
    /\ meta' = [st |-> "queued", gen |-> meta.gen + 1]
    /\ job' = "queued" /\ post' = TRUE
    /\ UNCHANGED <<cpc, open, pub, streamVars, sseVars, faults>>

PostEmit ==
    /\ post
    /\ post' = FALSE
    /\ pub' = [pub EXCEPT !["api"] = Emit(@, <<Event("queued", "queued")>>)]
    /\ UNCHANGED <<meta, job, cpc, open, streamVars, sseVars, faults>>

(* The worker forks a horse, whose execute_job emits `running'. *)
HorseStart ==
    /\ job = "queued"
    /\ job' = "run"
    /\ pub' = [pub EXCEPT !["horse"] =
                  Emit(Forked(pub["worker"]), <<Event("running", "running")>>)]
    /\ UNCHANGED <<meta, post, cpc, open, streamVars, sseVars, faults>>

(* The spawned child has a publisher of its own. set_stage("parse"). *)
ChildParse ==
    /\ job = "run" /\ cpc = "none"
    /\ meta.st # "succeeded"
    /\ cpc' = "run" /\ open' = 0
    /\ meta' = [meta EXCEPT !.st = "running"]
    /\ pub' = [pub EXCEPT !["child"] =
                  Emit(NewPublisher, <<Event("running", "running")>>)]
    /\ UNCHANGED <<job, post, streamVars, sseVars, faults>>

(* set_stage of the next mapped stage: close the open one, open this one. *)
ChildStage ==
    /\ cpc = "run" /\ open < Stages
    /\ open' = open + 1
    /\ pub' = [pub EXCEPT !["child"] = Emit(@,
           (IF open = 0 THEN <<>> ELSE <<Event("stage_done", "running")>>)
           \o <<Event("stage_start", "running")>>)]
    /\ UNCHANGED <<meta, job, post, cpc, streamVars, sseVars, faults>>

(* A mutant of ChildPublish: announce the verdict before it is stored. *)
ChildPublish_EmitFirst ==
    /\ cpc = "run" /\ open = Stages
    /\ cpc' = "export"
    /\ pub' = [pub EXCEPT !["child"] = Emit(@, <<Event("succeeded", "succeeded")>>)]
    /\ UNCHANGED <<meta, job, post, open, streamVars, sseVars, faults>>

(* The documents are on disk and the final meta.json is written. The export
   to the object store comes next, still inside the job timeout. *)
ChildPublish ==
    /\ cpc = "run" /\ open = Stages
    /\ cpc' = "export"
    /\ meta' = [meta EXCEPT !.st = "succeeded"]
    /\ UNCHANGED <<job, post, open, pub, streamVars, sseVars, faults>>

(* After the export: close the open stage, with the final status, and emit
   the verdict. *)
ChildSucceeded ==
    /\ cpc = "export"
    /\ cpc' = "stamp"
    /\ pub' = [pub EXCEPT !["child"] = Emit(@,
           <<Event("stage_done", "succeeded"), Event("succeeded", "succeeded")>>)]
    /\ UNCHANGED <<meta, job, post, open, streamVars, sseVars, faults>>

(* _run_pipeline_child catches an exception of Pipeline.run, which writes the
   shared stamp last. *)
ChildRaise ==
    /\ cpc \in {"run", "export", "stamp"}
    /\ cpc' = "exit"
    /\ MarkJobFailed("child", "failed")
    /\ UNCHANGED <<job, post, open, streamVars, sseVars, faults>>

(* The process of the child ends: what its daemon thread has not sent is
   lost. The horse reads meta.json in _finish. *)
ChildOver ==
    /\ job' = "over" /\ cpc' = "none"
    /\ UNCHANGED <<post, open, streamVars, sseVars>>

Ended(p) == [pub EXCEPT ![p] = NewPublisher]

ChildExit ==
    /\ cpc \in {"stamp", "exit"}
    /\ ChildOver
    /\ pub' = Ended("child")
    /\ UNCHANGED <<meta, faults>>

(* A retry of a run that had finished: the documents are there, and the
   child returns them and emits nothing. *)
ChildReuse ==
    /\ job = "run" /\ cpc = "none"
    /\ meta.st = "succeeded"
    /\ ChildOver
    /\ UNCHANGED <<meta, pub, faults>>

(* watch_child kills the child (JOB_TIMEOUT_SEC, RSS budget), or it dies of
   a signal. Timed out or over budget, _finish marks the job failed whatever
   meta.json says; otherwise only if meta.json has no verdict. *)
HorseFinish(killed) ==
    /\ job = "run" /\ cpc # "none"
    /\ Crash
    /\ ChildOver
    /\ IF killed \/ meta.st \notin TERMINAL_STATUSES
       THEN /\ meta' = Marked
            /\ pub' = [Ended("child") EXCEPT !["horse"] =
                          Emit(@, <<Event("failed", "failed")>>)]
       ELSE pub' = Ended("child") /\ UNCHANGED meta

(* The child found the shared book locked: _requeue_shared_cache emits
   `retry' and the same job is scheduled again, or the cap is spent. *)
HorseBusy ==
    /\ job = "run" /\ cpc = "none"
    /\ Crash
    /\ \/ /\ job' = "retry"
          /\ pub' = [pub EXCEPT !["horse"] = Emit(@, <<Event("retry", "queued")>>)]
          /\ UNCHANGED meta
       \/ /\ job' = "over"
          /\ MarkJobFailed("horse", "failed")
    /\ UNCHANGED <<post, cpc, open, streamVars, sseVars>>

(* execute_job has returned and RQ ends the horse with os._exit. *)
HorseExit ==
    /\ job \in {"over", "retry"}
    /\ job' = IF job = "retry" THEN "queued" ELSE "none"
    /\ pub' = Ended("horse")
    /\ UNCHANGED <<meta, post, cpc, open, streamVars, sseVars, faults>>

(* The horse is killed and the child dies with it. on_horse_killed, in the
   worker: RQ retries the job, or the retry is spent and it is lost. *)
HorseKilled ==
    /\ job = "run"
    /\ Crash
    /\ cpc' = "none"
    /\ LET left == [Ended("horse") EXCEPT !["child"] = NewPublisher] IN
       \/ /\ job' = "queued"
          /\ pub' = left
          /\ UNCHANGED meta
       \/ /\ job' = "none"
          /\ meta' = Marked
          /\ pub' = [left EXCEPT !["worker"] =
                        Emit(@, <<Event("failed", "failed")>>)]
    /\ UNCHANGED <<post, open, streamVars, sseVars>>

(* The worker dies with its horse and child. The pool starts another, and RQ
   finds the abandoned job later and retries it or gives it up. *)
WorkerCrash ==
    /\ job = "run"
    /\ Crash
    /\ job' \in {"queued", "lost"} /\ cpc' = "none"
    /\ pub' = [p \in Procs |-> IF p = "api" THEN pub[p] ELSE NewPublisher]
    /\ UNCHANGED <<meta, post, open, streamVars, sseVars>>

(* GET finds the RQ job gone and meta.json without a verdict. *)
GetQueueLost ==
    /\ job = "lost" /\ meta.st \notin TERMINAL_STATUSES
    /\ MarkJobFailed("api", "queue_lost")
    /\ UNCHANGED <<job, post, cpc, open, streamVars, sseVars, faults>>

-----------------------------------------------------------------------------
(* api/routes/events.py *)

Terminal(e) == e.ev \in TERMINAL_EVENTS \/ e.st \in TERMINAL_STATUSES

Streaming(r) == rpc[r] \in {"loop", "block", "rows"}

(* How many entries have an id up to the given one: they come first. *)
UpTo(id) ==
    CHOOSE n \in 0 .. Len(stream) :
        \A k \in DOMAIN stream : k <= n <=> stream[k].id <= id

After(id) == SubSeq(stream, UpTo(id) + 1, Len(stream))

(* The locals of the handler are gone. *)
Forget(r) ==
    /\ rpc' = [rpc EXCEPT ![r] = "idle"]
    /\ snap' = [snap EXCEPT ![r] = NoJob]
    /\ cur' = [cur EXCEPT ![r] = 0]
    /\ from' = [from EXCEPT ![r] = 0]
    /\ rows' = [rows EXCEPT ![r] = <<>>]

(* job_events reads meta.json, then asks Redis for a ping. *)
Connect(r) ==
    /\ rpc[r] = "idle"
    /\ conns[r] < MaxReconnects
    /\ meta.gen > 0
    /\ conns' = [conns EXCEPT ![r] = @ + 1]
    /\ rpc' = [rpc EXCEPT ![r] = "meta"]
    /\ snap' = [snap EXCEPT ![r] = meta]
    /\ UNCHANGED <<jobVars, pub, streamVars, gate, cur, from, rows, seen,
                   faults>>

(* A mutant of HasRoom: one connection more than the limit. *)
HasRoom_OneMore == gate <= Limit

(* _StreamGate.acquire *)
HasRoom == gate < Limit

(* 503: Redis did not answer, or the gate is full. *)
Refuse(r) ==
    /\ rpc[r] = "meta"
    /\ \/ ~HasRoom /\ UNCHANGED faults
       \/ RedisError
    /\ Forget(r)
    /\ UNCHANGED <<jobVars, pub, streamVars, gate, seen, conns>>

(* gate.acquire, then Last-Event-ID or "$". A client without an id starts
   over. *)
Admit(r) ==
    /\ rpc[r] = "meta"
    /\ HasRoom
    /\ gate' = gate + 1
    /\ rpc' = [rpc EXCEPT ![r] = "open"]
    /\ \/ /\ seen[r] # <<>>
          /\ cur' = [cur EXCEPT ![r] = seen[r][Len(seen[r])]]
          /\ UNCHANGED seen
       \/ /\ cur' = [cur EXCEPT ![r] = 0]
          /\ seen' = [seen EXCEPT ![r] = <<>>]
    /\ UNCHANGED <<jobVars, pub, streamVars, snap, from, rows, conns,
                   faults>>

(* _StreamGate.release *)
Release == gate' = IF gate > 0 THEN gate - 1 ELSE 0

(* The generator returns, or is closed: the finally clause. *)
Close(r) == Release /\ Forget(r)

(* A mutant of Snapshot: the early return of a finished job leaves the gate. *)
Snapshot_NoRelease(r) ==
    /\ rpc[r] = "open"
    /\ IF snap[r].st \in TERMINAL_STATUSES
       THEN Forget(r)
       ELSE /\ rpc' = [rpc EXCEPT ![r] = "loop"]
            /\ UNCHANGED <<snap, cur, from, rows>>
    /\ UNCHANGED <<jobVars, pub, streamVars, gate, seen, conns, faults>>

(* The snapshot frame; a finished job ends the response. *)
Snapshot(r) ==
    /\ rpc[r] = "open"
    /\ IF snap[r].st \in TERMINAL_STATUSES
       THEN Close(r)
       ELSE /\ rpc' = [rpc EXCEPT ![r] = "loop"]
            /\ UNCHANGED <<gate, snap, cur, from, rows>>
    /\ UNCHANGED <<jobVars, pub, streamVars, seen, conns, faults>>

(* XREAD BLOCK. Redis resolves "$" to the stream's last id on every call. *)
ReadBegin(r) ==
    /\ rpc[r] = "loop"
    /\ rpc' = [rpc EXCEPT ![r] = "block"]
    /\ from' = [from EXCEPT ![r] = IF cur[r] = 0 THEN top ELSE cur[r]]
    /\ UNCHANGED <<jobVars, pub, streamVars, gate, snap, cur, rows, seen,
                   conns, faults>>

(* The XREAD returns at most Count entries after the id. *)
ReadRows(r) ==
    /\ rpc[r] = "block"
    /\ LET found == After(from[r]) IN
       /\ found # <<>>
       /\ rows' = [rows EXCEPT ![r] =
               SubSeq(found, 1, IF Len(found) > Count THEN Count ELSE Len(found))]
    /\ rpc' = [rpc EXCEPT ![r] = "rows"]
    /\ from' = [from EXCEPT ![r] = 0]
    /\ UNCHANGED <<jobVars, pub, streamVars, gate, snap, cur, seen, conns,
                   faults>>

(* Nothing came within the block time, or Redis failed: a heartbeat. *)
ReadEmpty(r) ==
    /\ rpc[r] = "block"
    /\ \/ After(from[r]) = <<>> /\ UNCHANGED faults
       \/ RedisError
    /\ rpc' = [rpc EXCEPT ![r] = "loop"]
    /\ from' = [from EXCEPT ![r] = 0]
    /\ UNCHANGED <<jobVars, pub, streamVars, gate, snap, cur, rows, seen,
                   conns>>

(* One frame; ends says whether it is the last of the response. *)
Frame(r, advance, ends) ==
    /\ rpc[r] = "rows"
    /\ LET e == Head(rows[r]) IN
       /\ seen' = [seen EXCEPT ![r] = Append(@, e.id)]
       /\ IF ends
          THEN Close(r)
          ELSE /\ cur' = [cur EXCEPT ![r] = IF advance THEN e.id ELSE @]
               /\ rows' = [rows EXCEPT ![r] = Tail(@)]
               /\ rpc' = [rpc EXCEPT ![r] =
                             IF Len(rows[r]) = 1 THEN "loop" ELSE "rows"]
               /\ UNCHANGED <<gate, snap, from>>
    /\ UNCHANGED <<jobVars, pub, streamVars, conns, faults>>

(* A mutant of Deliver: last_id is not advanced past the frame. *)
Deliver_KeepLastId(r) == Frame(r, FALSE, Terminal(Head(rows[r])))

(* A mutant of Deliver: a terminal event ends the batch, not the response. *)
Deliver_Break(r) == Frame(r, TRUE, FALSE)

(* A terminal event ends the response. *)
Deliver(r) == Frame(r, TRUE, Terminal(Head(rows[r])))

(* The client goes away: is_disconnected, or the generator is closed at an
   await or a yield. *)
Disconnect(r) ==
    /\ Streaming(r) \/ rpc[r] = "open"
    /\ Close(r)
    /\ UNCHANGED <<jobVars, pub, streamVars, seen, conns, faults>>

-----------------------------------------------------------------------------
Init ==
    /\ meta = NoJob
    /\ job = "none" /\ post = FALSE /\ cpc = "none" /\ open = 0
    /\ pub = [p \in Procs |-> NewPublisher]
    /\ stream = <<>> /\ top = 0 /\ ttl = FALSE
    /\ gate = 0
    /\ rpc = [r \in Readers |-> "idle"]
    /\ snap = [r \in Readers |-> NoJob]
    /\ cur = [r \in Readers |-> 0]
    /\ from = [r \in Readers |-> 0]
    /\ rows = [r \in Readers |-> <<>>]
    /\ seen = [r \in Readers |-> <<>>]
    /\ conns = [r \in Readers |-> 0]
    /\ crashes = 0 /\ errors = 0

ChildStep ==
    ChildParse \/ ChildStage \/ ChildPublish \/ ChildSucceeded \/ ChildExit
        \/ ChildReuse

Run ==
    \/ PostEnqueue \/ PostEmit \/ HorseStart \/ HorseBusy \/ HorseExit
    \/ HorseKilled \/ WorkerCrash \/ GetQueueLost
    \/ ChildStep \/ ChildRaise
    \/ \E killed \in BOOLEAN : HorseFinish(killed)

Sse(r) ==
    Snapshot(r) \/ ReadBegin(r) \/ ReadRows(r) \/ ReadEmpty(r) \/ Deliver(r)

Next ==
    \/ Run
    \/ \E p \in Procs : Send(p)
    \/ StreamExpire
    \/ \E r \in Readers :
          Connect(r) \/ Refuse(r) \/ Admit(r) \/ Sse(r) \/ Disconnect(r)

Spec == Init /\ [][Next]_vars

(* A sender thread and a connection with something to do get to do it. POSTs,
   connections, faults, expiry and disconnects need not happen. *)
FairSpec ==
    /\ Spec
    /\ WF_vars(ChildStep) /\ WF_vars(HorseExit) /\ WF_vars(HorseStart)
    /\ \A p \in Procs : WF_vars(Send(p))
    /\ \A r \in Readers : WF_vars(Sse(r))

-----------------------------------------------------------------------------
Events == [ev : Kinds, st : Statuses, gen : 0 .. MaxGen]
Entries == [id : 1 .. top, ev : Kinds, st : Statuses, gen : 0 .. MaxGen]
Jobs == [st : Statuses, gen : 0 .. MaxGen]

(* Publishers that hold events of the given set. *)
Publishers(S) ==
    [pending : Seq(S), thread : {"none", "live", "dead"}, warned : BOOLEAN]

(* Every variable has its type; the gate never lets in more than Limit streams
   (_StreamGate) and no cursor is ahead of the stream. *)
TypeOK ==
    /\ meta \in Jobs
    /\ job \in {"none", "queued", "run", "over", "retry", "lost"}
    /\ post \in BOOLEAN /\ open \in 0 .. Stages
    /\ cpc \in {"none", "run", "export", "stamp", "exit"}
    /\ pub \in [Procs -> Publishers(Events)]
    /\ top \in Nat /\ ttl \in BOOLEAN
    /\ stream \in Seq(Entries)
    /\ gate \in 0 .. Limit
    /\ rpc \in [Readers -> {"idle", "meta", "open", "loop", "block", "rows"}]
    /\ snap \in [Readers -> Jobs]
    /\ cur \in [Readers -> 0 .. top] /\ from \in [Readers -> 0 .. top]
    /\ rows \in [Readers -> Seq(Entries)] /\ seen \in [Readers -> Seq(1 .. top)]
    /\ conns \in [Readers -> 0 .. MaxReconnects]
    /\ \A r \in Readers : rpc[r] = "rows" => rows[r] # <<>>
    /\ crashes \in 0 .. MaxCrashes /\ errors \in 0 .. MaxErrors

(* The gate counts exactly the responses that are open, on every way a
   response can end (finished snapshot, terminal event, client gone), so a
   slot is neither leaked nor given out twice. _StreamGate, _stream. *)
GateExact ==
    gate = Cardinality({r \in Readers : Streaming(r) \/ rpc[r] = "open"})

(* A client that reconnects with Last-Event-ID receives every entry once and
   in stream order: from the first id it was given to the last one, nothing
   still in the stream was skipped. Trimming, expiry and lost connections in
   between may only remove entries. _stream, read_events. *)
NoGap ==
    \A r \in Readers :
        /\ \A i, j \in DOMAIN seen[r] : i < j => seen[r][i] < seen[r][j]
        /\ \A k \in DOMAIN stream :
              LET id == stream[k].id IN
              seen[r] # <<>> /\ seen[r][1] < id /\ id < seen[r][Len(seen[r])]
                  => \E i \in DOMAIN seen[r] : seen[r][i] = id

(* No entry says a generation succeeded unless meta.json says so, or a newer
   generation has replaced it: a client that reacts to the event finds the
   documents. _run_loaded writes meta.json before it emits. *)
SuccessIsRecorded ==
    \A k \in DOMAIN stream :
        stream[k].st = "succeeded" =>
            meta.gen > stream[k].gen \/ meta.st = "succeeded"

TerminalAhead(id) == \E k \in DOMAIN stream : stream[k].id > id /\ Terminal(stream[k])

(* A connection that follows the stream from a real id ends once a terminal
   entry is ahead of it, through Redis errors and batches, unless every
   terminal entry is trimmed or expires first. _stream. *)
ResumedCloses ==
    \A r \in Readers :
        (Streaming(r) /\ cur[r] # 0 /\ TerminalAhead(cur[r]))
            ~> (rpc[r] = "idle" \/ ~TerminalAhead(0))

(* "The response closes after a terminal event": a connection that follows a
   generation ends once a terminal entry of that generation is in the stream,
   unless the entry is trimmed or expires. _stream sends "$" again after
   every empty read. *)
Verdict(gen) == \E k \in DOMAIN stream : stream[k].gen = gen /\ Terminal(stream[k])

TerminalCloses ==
    \A r \in Readers :
        \A gen \in 1 .. MaxGen :
            (Streaming(r) /\ snap[r].gen = gen /\ Verdict(gen))
                ~> (rpc[r] = "idle" \/ ~Verdict(gen))
=============================================================================
