---------------------------- MODULE JobLifecycle ----------------------------
(***************************************************************************)
(* One workbook ("book") in one session: the HTTP threads that accept and  *)
(* report it, the RQ record that queues it, the work horse and the spawned *)
(* pipeline child that build it, and the files on the shared volume they   *)
(* all use instead of talking to each other:                               *)
(*                                                                         *)
(*   meta/meta.json   what GET reports (status, error, generation, stamp)  *)
(*   .lock            POST's enqueue window, GET's lost mark, the pipeline *)
(*   .run.lock        held by the spawned child from before the pipeline   *)
(*   .horse.lock      held by the horse for the whole of execute_job       *)
(*   .horse.json      the generation of the horse that took .horse.lock    *)
(*                                                                         *)
(* Grain of atomicity of the API threads: one step per Redis call, a       *)
(* Job.fetch together with the call that uses what it fetched; the file    *)
(* reads and flock probes between two Redis calls are one step; every file *)
(* write is a step of its own.  The horse and the child take one step per  *)
(* lock operation and per write, and RQ pops an id and marks its hash      *)
(* started in two.                                                         *)
(***************************************************************************)
EXTENDS Naturals

CONSTANTS
    Posters,      \* API threads running POST /v1/context-jobs for this book
    Getters,      \* API threads running GET /v1/context-jobs/{id}
    Workers,      \* worker slots; a slot runs one horse, a horse one child
    None,         \* "nobody holds this lock"
    RetryOnLost,  \* JOB_RETRY_ON_LOST
    MaxGen,       \* bound: no POST goes past this generation
    MaxVersion,   \* bound: how often the code on disk is replaced
    MaxFaults     \* bound: SIGKILLed horses, crashed workers, API exits, outages

Api == Posters \cup Getters

ASSUME LifecycleAssumption ==
    /\ RetryOnLost \in Nat /\ MaxGen \in Nat
    /\ MaxVersion \in Nat  /\ MaxFaults \in Nat
    /\ Posters \cap Getters = {}
    /\ Api \cap Workers = {}
    /\ None \notin Api \cup Workers

VARIABLES
    meta,       \* meta.json, or NoMeta when the file is missing
    docs,       \* context.json, context.md, graph.json, graph.md all present
    version,    \* the code on disk (publisher_fingerprint)
    rq,         \* the RQ hash of {SESSION_ID}--{job_id}
    listed,     \* the id is in the RQ queue list
    stopReq,    \* a stop-job command is on its way to the worker
    destLock,   \* holder of dest/.lock
    runLock,    \* holder of dest/.run.lock
    horseLock,  \* holder of dest/.horse.lock
    horseRec,   \* generation in dest/.horse.json, 0 when the file is missing
    hpc,        \* where each slot's horse is in execute_job
    hgen,       \* the generation of each slot's horse and child
    hret,       \* what the horse, or its death, hands to RQ
    cpc,        \* where each slot's spawned child is
    cver,       \* publisher_stamp of the child, 0 until its first meta.json
    apc,        \* where each API thread is
    lst,        \* RQ status an API thread has read
    lmeta,      \* meta.json an API thread has read
    rebuild,    \* ?rebuild=true of a POST
    faults,     \* how many faults the environment has used up
    races,      \* history: the windows described at Races below
    accepted    \* history: the generation of the POST that was accepted last

diskVars  == <<meta, docs, version>>
rqVars    == <<rq, listed, stopReq>>
lockVars  == <<destLock, runLock, horseLock, horseRec>>
horseVars == <<hpc, hgen, hret>>
childVars == <<cpc, cver>>
apiVars   == <<apc, lst, lmeta, rebuild>>
envVars   == <<faults, races, accepted>>
vars == <<diskVars, rqVars, lockVars, horseVars, childVars, apiVars, envVars>>

-----------------------------------------------------------------------------
(* Types *)

RqStatus == {"none", "queued", "started", "deferred", "scheduled",
             "failed", "canceled", "finished", "stopped"}

INFLIGHT_STATUSES == {"queued", "started", "deferred", "scheduled"}

\* Mutant of LOST_STATUSES: a hash that is gone is not lost.
LOST_STATUSES_Known == {"failed", "canceled", "finished"}

LOST_STATUSES == {"none", "failed", "canceled", "finished"}

MetaStatus == {"none", "queued", "running", "succeeded", "failed"}

TERMINAL_STATUS == {"succeeded", "failed"}

\* pub 0: no publisher stamp.  rebuild: rebuild_from is recorded.
Meta == [st : MetaStatus, err : {"none", "queue_lost", "other"},
         gen : Nat, pub : Nat, rebuild : BOOLEAN]

NoMeta == [st |-> "none", err |-> "none", gen |-> 0, pub |-> 0,
           rebuild |-> FALSE]

\* by: the slot that has popped its id, later RQ's worker_name.
RqRecord == [st : RqStatus, gen : Nat, left : Nat, by : {None} \cup Workers]

NoRq == [st |-> "none", gen |-> 0, left |-> 0, by |-> None]

\* A horse that is inside execute_job, up to the return that frees its lock.
Executing == {"start", "locked", "watch", "finish"}

\* A horse that runs, or is about to run, the job its slot has popped.
Taken == Executing \cup {"popped"}

HorsePc == Taken \cup {"idle", "saving", "dead", "lost", "stopped"}

\* A child that has been started and has not ended yet.
ChildLive == {"boot", "run", "inv", "build", "rendered", "done", "raised"}

\* A child inside Pipeline.run.
InPipeline == {"inv", "build", "rendered", "done"}

ChildPc == ChildLive \cup {"none", "exited", "busy", "killed"}

PostPc == {"post", "look", "corpse", "corpse2", "abandon", "abandon2",
           "stop", "cancel", "waitstop", "waitfail", "lock", "status3",
           "decide", "delete", "drop", "sweep", "cap", "clear", "stamp",
           "enqueue"}

GetPc == {"gstatus", "gprobe", "gstatus2", "gprobe2", "glock",
          "gstatus3", "gprobe3", "gmark"}

\* POST's and GET's steps under dest/.lock.
PostLocked == {"status3", "decide", "delete", "drop", "sweep", "cap",
               "clear", "stamp", "enqueue"}
GetLocked == {"gstatus3", "gprobe3", "gmark"}

\* Steps whose Redis call can raise QueueUnavailable.
RedisPc == {"post", "corpse", "stop", "cancel", "waitstop", "waitfail",
            "status3", "delete", "drop", "sweep", "cap", "enqueue",
            "gstatus", "gstatus2", "gstatus3"}

(***************************************************************************)
(* Four windows the protocol leaves open; the history variable races names *)
(* the ones a behaviour has met.                                           *)
(*   "stale_record"  RQ takes generation g while .horse.json still says g  *)
(*                   from a horse that died: until the new horse takes     *)
(*                   .horse.lock it looks like the dead one.               *)
(*   "late_save"     a worker handles the death of its horse, or saves its *)
(*                   outcome, after POST has deleted or replaced the hash. *)
(*   "reused_gen"    a run died after invalidate_for_run had unlinked      *)
(*                   meta.json, so POST counts from 1 again, while a       *)
(*                   process of that or a later generation is still there. *)
(*   "late_cancel"   request_stop cancels a job that a worker has taken    *)
(*                   since request_stop read its status: RQ writes         *)
(*                   "canceled" on the hash and the horse goes on.         *)
(***************************************************************************)
Races == {"stale_record", "late_save", "reused_gen", "late_cancel"}

\* Every file, RQ record, lock and process has its type: retries_left is never
\* counted below zero (on_horse_killed) and a lock belongs to who may take it.
TypeOK ==
    /\ meta \in Meta /\ docs \in BOOLEAN /\ version \in Nat
    /\ rq \in RqRecord /\ listed \in BOOLEAN /\ stopReq \in BOOLEAN
    /\ destLock \in {None} \cup Api \cup Workers
    /\ runLock \in {None} \cup Workers
    /\ horseLock \in {None} \cup Workers
    /\ horseRec \in Nat
    /\ hpc \in [Workers -> HorsePc]
    /\ hgen \in [Workers -> Nat]
    /\ hret \in [Workers -> {"none", "done", "retry", "known", "unknown"}]
    /\ cpc \in [Workers -> ChildPc]
    /\ cver \in [Workers -> Nat]
    /\ apc \in [Api -> {"idle"} \cup PostPc \cup GetPc]
    /\ lst \in [Api -> RqStatus]
    /\ lmeta \in [Api -> Meta]
    /\ rebuild \in [Api -> BOOLEAN]
    /\ faults \in Nat
    /\ races \in SUBSET Races
    /\ accepted \in Nat

Init ==
    /\ meta = NoMeta /\ docs = FALSE /\ version = 1
    /\ rq = NoRq /\ listed = FALSE /\ stopReq = FALSE
    /\ destLock = None /\ runLock = None /\ horseLock = None /\ horseRec = 0
    /\ hpc = [w \in Workers |-> "idle"]
    /\ hgen = [w \in Workers |-> 0]
    /\ hret = [w \in Workers |-> "none"]
    /\ cpc = [w \in Workers |-> "none"]
    /\ cver = [w \in Workers |-> 0]
    /\ apc = [t \in Api |-> "idle"]
    /\ lst = [t \in Api |-> "none"]
    /\ lmeta = [t \in Api |-> NoMeta]
    /\ rebuild = [t \in Api |-> FALSE]
    /\ faults = 0 /\ races = {} /\ accepted = 0

-----------------------------------------------------------------------------
(* Reading and writing meta.json, and the flock probes *)

\* publisher_changed: a missing stamp does not count as a change.
publisher_changed(m) == m.pub # 0 /\ m.pub # version

\* stale_from_meta: a missing document or a stamp that is not this code.
stale_from_meta(m) == m.pub # version

\* session_stale_stage: the recorded rebuild_from wins.
session_stale(m) == m.rebuild \/ stale_from_meta(m)

\* Mutant of Failed: a finished book is not protected.
Failed_Always(gen, error) ==
    IF meta.st # "none" /\ meta.gen # gen
    THEN meta
    ELSE [st |-> "failed", err |-> error, gen |-> gen, pub |-> 0,
          rebuild |-> meta.rebuild]

\* Mutant of Failed: a missing meta.json is taken for the first generation.
Failed_FirstGen(gen, error) ==
    IF \/ meta.st # "none" /\ meta.gen # gen
       \/ docs /\ meta.st \in TERMINAL_STATUS
    THEN meta
    ELSE [st |-> "failed", err |-> error, pub |-> 0, rebuild |-> meta.rebuild,
          gen |-> IF meta.st = "none" THEN 1 ELSE gen]

\* What mark_job_failed leaves in meta.json.
Failed(gen, error) ==
    IF \/ meta.st # "none" /\ meta.gen # gen
       \/ docs /\ meta.st \in TERMINAL_STATUS
    THEN meta
    ELSE [st |-> "failed", err |-> error, gen |-> gen, pub |-> 0,
          rebuild |-> meta.rebuild]

\* publisher_stamp: the hash of the code on disk when it is first asked for.
Stamp(w) == IF cver[w] = 0 THEN version ELSE cver[w]

\* What _write_meta of the child in slot w leaves in meta.json.
Written(w, status) ==
    IF meta.st # "none" /\ meta.gen > hgen[w]
    THEN meta
    ELSE [st |-> status, err |-> "none", gen |-> hgen[w], pub |-> Stamp(w),
          rebuild |-> FALSE]

\* A probe takes the flock for a moment, so a thread that probes at the same
\* time as another one may find a free lock busy.
OthersProbe(t) == \E u \in Api \ {t} : apc[u] # "idle"

\* The answers run_lock_busy can give thread t.
RunBusy(t) ==
    IF runLock # None THEN {TRUE}
    ELSE IF OthersProbe(t) THEN BOOLEAN ELSE {FALSE}

\* The answers horse_owner_alive(dest, gen) can give thread t.
HorseAlive(t, gen) ==
    IF horseRec = 0 \/ horseRec # gen THEN {"unknown"}
    ELSE IF horseLock # None THEN {"alive"}
    ELSE IF OthersProbe(t) THEN {"alive", "dead"} ELSE {"dead"}

\* The four predicates below take the answers of the probes as arguments.
started_without_child(status, m, busy) ==
    status = "started" /\ ~busy /\ m.st \in {"queued", "running"}

recorded_failure(m) == m.st = "failed" /\ m.err # "queue_lost"

recorded_failure_clear(m, status, busy, alive) ==
    /\ recorded_failure(m)
    /\ ~busy
    /\ status \in INFLIGHT_STATUSES => alive = "dead"

\* _queue_lost_corpse: "yes", "no" or "unknown" for True, False and None.
queue_lost_corpse(m, status, busy, alive) ==
    IF ~(/\ status \in INFLIGHT_STATUSES
         /\ m.st = "failed" /\ m.err = "queue_lost") THEN "unknown"
    ELSE IF busy \/ alive = "alive" THEN "no"
    ELSE IF alive = "dead" THEN "yes" ELSE "unknown"

Release(lock, p) == IF lock = p THEN None ELSE lock

-----------------------------------------------------------------------------
(* API threads: control *)

Goto(t, pc) == apc' = [apc EXCEPT ![t] = pc]

\* The request ends: the thread forgets what it read and frees dest/.lock.
Respond(t) ==
    /\ apc' = [apc EXCEPT ![t] = "idle"]
    /\ lst' = [lst EXCEPT ![t] = "none"]
    /\ lmeta' = [lmeta EXCEPT ![t] = NoMeta]
    /\ rebuild' = [rebuild EXCEPT ![t] = FALSE]
    /\ destLock' = Release(destLock, t)

\* One Redis call: read the RQ status, then go on at pc.
ReadStatus(t, from, pc) ==
    /\ apc[t] = from
    /\ lst' = [lst EXCEPT ![t] = rq.st]
    /\ Goto(t, pc)
    /\ UNCHANGED <<diskVars, rqVars, lockVars, horseVars, childVars, lmeta,
                   rebuild, envVars>>

\* The request goes on at pc, keeping m and, where a later step needs it, the
\* status it has read.
Continue(t, pc, m) ==
    /\ Goto(t, pc)
    /\ lmeta' = [lmeta EXCEPT ![t] = m]
    /\ lst' = IF pc \in {"waitfail", "delete"} THEN lst
              ELSE [lst EXCEPT ![t] = "none"]
    /\ UNCHANGED <<rebuild, destLock>>

\* Steps that only read: nothing but the thread itself and dest/.lock changes.
OnlyReads == UNCHANGED <<diskVars, rqVars, runLock, horseLock, horseRec,
                         horseVars, childVars, envVars>>

-----------------------------------------------------------------------------
(* POST: _accept_upload *)

\* The upload arrives; mkdir, source bytes and owner.json are not modelled.
PostStart(t) ==
    /\ apc[t] = "idle"
    /\ meta.gen < MaxGen
    /\ \E r \in BOOLEAN : rebuild' = [rebuild EXCEPT ![t] = r]
    /\ Goto(t, "post")
    /\ UNCHANGED <<diskVars, rqVars, lockVars, horseVars, childVars, lst,
                   lmeta, envVars>>

\* The job is in flight and neither a corpse nor abandoned: 409 for a rebuild,
\* dedup while the code is the same, otherwise stop it.
LiveJob(t, m) ==
    IF ~rebuild[t] /\ publisher_changed(m)
    THEN Continue(t, "stop", NoMeta)
    ELSE Respond(t)

\* _inflight_response after its first status read, up to the next Redis call.
PostLook(t) ==
    /\ apc[t] = "look"
    /\ \E busy \in RunBusy(t), alive \in HorseAlive(t, meta.gen) :
         LET corpse == queue_lost_corpse(meta, lst[t], busy, alive)
             gone == started_without_child(lst[t], meta, busy)
                     /\ alive = "dead"
             inflight == lst[t] \in INFLIGHT_STATUSES \/ busy
         IN IF corpse # "unknown" THEN Continue(t, "corpse", NoMeta)
            ELSE IF gone THEN Continue(t, "abandon", meta)
            ELSE IF ~inflight THEN Continue(t, "lock", NoMeta)
            ELSE IF recorded_failure(meta) THEN Continue(t, "waitfail", meta)
            ELSE LiveJob(t, meta)
    /\ OnlyReads

\* _rechecked_queue_lost, second look: only a dead horse may be relaunched.
\* An answer that turned into None ends in dedup (409 for a rebuild): the
\* queue_lost meta carries no stamp, so no stop is sent.
PostCorpse(t) ==
    /\ apc[t] = "corpse2"
    /\ \E busy \in RunBusy(t), alive \in HorseAlive(t, meta.gen) :
         IF queue_lost_corpse(meta, lst[t], busy, alive) = "yes"
         THEN Continue(t, "lock", NoMeta)
         ELSE Respond(t)
    /\ OnlyReads

\* _abandoned_started, second look.  When the horse turns out to be there,
\* the request goes on with the meta.json it read first.
PostAbandon(t) ==
    /\ apc[t] = "abandon2"
    /\ \E busy \in RunBusy(t), alive \in HorseAlive(t, meta.gen) :
         IF started_without_child(lst[t], meta, busy) /\ alive = "dead"
         THEN Continue(t, "lock", NoMeta)
         ELSE LiveJob(t, lmeta[t])
    /\ OnlyReads

\* Mutant of PostCancel: request_stop cancels whatever it finds.
PostCancel_Started(t) ==
    /\ apc[t] = "cancel"
    /\ IF rq.st = "none" THEN UNCHANGED <<rqVars, races>>
       ELSE /\ rq' = [rq EXCEPT !.st = "canceled"]
            /\ listed' = FALSE
            /\ UNCHANGED <<stopReq, races>>
    /\ Goto(t, "waitstop")
    /\ lst' = [lst EXCEPT ![t] = "none"]
    /\ UNCHANGED <<diskVars, lockVars, horseVars, childVars, lmeta, rebuild,
                   faults, accepted>>

\* request_stop, its status read: only a job in flight is worth a call.
PostStop(t) ==
    IF rq.st \in INFLIGHT_STATUSES THEN ReadStatus(t, "stop", "cancel")
    ELSE apc[t] = "stop" /\ Continue(t, "waitstop", NoMeta) /\ OnlyReads

\* request_stop acts on the status it has read, not on the one there is now:
\* the stop command for a started job, Job.cancel for a waiting one.  RQ
\* refuses to cancel only a hash that is gone or canceled already.
PostCancel(t) ==
    /\ apc[t] = "cancel"
    /\ \/ /\ lst[t] = "started"
          /\ stopReq' = (stopReq \/ rq.by # None)
          /\ UNCHANGED <<rq, listed, races>>
       \/ /\ lst[t] # "started" /\ rq.st \notin {"none", "canceled"}
          /\ rq' = [rq EXCEPT !.st = "canceled"]
          /\ listed' = FALSE
          /\ races' = races \cup
                       IF rq.by = None THEN {} ELSE {"late_cancel"}
          /\ UNCHANGED stopReq
       \/ /\ lst[t] # "started" /\ rq.st \in {"none", "canceled"}
          /\ UNCHANGED <<rqVars, races>>
    /\ Goto(t, "waitstop")
    /\ lst' = [lst EXCEPT ![t] = "none"]
    /\ UNCHANGED <<diskVars, lockVars, horseVars, childVars, lmeta, rebuild,
                   faults, accepted>>

\* _wait_until_clear saw the id leave the inflight states and a free run lock.
PostWaited(t) ==
    /\ apc[t] \in {"waitstop", "waitfail"}
    /\ rq.st \notin INFLIGHT_STATUSES
    /\ FALSE \in RunBusy(t)
    /\ Continue(t, "lock", NoMeta)
    /\ OnlyReads

\* _wait_until_clear ran into its deadline.  Only a recorded failure whose
\* horse is gone may still be relaunched.
PostDeadline(t) ==
    /\ apc[t] \in {"waitstop", "waitfail"}
    /\ \E busy \in RunBusy(t), alive \in HorseAlive(t, lmeta[t].gen) :
         /\ rq.st \in INFLIGHT_STATUSES \/ busy
         /\ IF /\ apc[t] = "waitfail"
               /\ recorded_failure_clear(lmeta[t], lst[t], busy, alive)
            THEN Continue(t, "lock", NoMeta)
            ELSE Respond(t)
    /\ OnlyReads

\* dest/.lock without waiting, then the run lock: either busy ends the POST.
PostLock(t) ==
    /\ apc[t] = "lock"
    /\ \/ /\ destLock = None
          /\ FALSE \in RunBusy(t)
          /\ destLock' = t
          /\ Goto(t, "status3")
          /\ UNCHANGED <<lst, lmeta, rebuild>>
       \/ /\ destLock # None \/ TRUE \in RunBusy(t)
          /\ Respond(t)
    /\ OnlyReads

\* _enqueue_or_reuse up to its first write: 409, dedup, the finished job, or on.
\* A started job without a child counts as free here; whether its horse holds
\* .horse.lock is not asked again.  (MaxGen is the model's bound.)
PostDecide(t) ==
    /\ apc[t] = "decide"
    /\ \E busy \in RunBusy(t), alive \in HorseAlive(t, meta.gen) :
         LET corpse == queue_lost_corpse(meta, lst[t], busy, alive)
             inflight == \/ busy
                         \/ /\ lst[t] \in INFLIGHT_STATUSES
                            /\ ~started_without_child(lst[t], meta, busy)
             ready == /\ docs
                      /\ meta.st \in TERMINAL_STATUS
                      /\ meta.pub = version
         IN IF /\ corpse # "no"
               /\ \/ corpse = "yes"
                  \/ ~inflight
                  \/ recorded_failure_clear(meta, lst[t], busy, alive)
               /\ ~ready \/ rebuild[t]
               /\ meta.gen < MaxGen
            THEN Continue(t, "delete", meta)
            ELSE Respond(t)
    /\ OnlyReads

\* queue.delete, for a job whose status was read: the id leaves the list, then
\* the hash goes, then the id leaves the list once more.
PostDelete(t) ==
    /\ \/ /\ apc[t] = "delete" /\ lst[t] = "none"
          /\ Goto(t, "cap")
          /\ UNCHANGED <<rq, listed>>
       \/ /\ apc[t] = "delete" /\ lst[t] # "none"
          /\ Goto(t, "drop")
          /\ listed' = FALSE /\ UNCHANGED rq
       \/ /\ apc[t] = "drop"
          /\ Goto(t, IF rq.st = "none" THEN "cap" ELSE "sweep")
          /\ rq' = NoRq
          /\ listed' = (listed /\ rq.st = "none")
       \/ /\ apc[t] = "sweep"
          /\ Goto(t, "cap")
          /\ listed' = FALSE /\ UNCHANGED rq
    /\ UNCHANGED <<diskVars, stopReq, lockVars, horseVars, childVars, lst,
                   lmeta, rebuild, envVars>>

\* session_inflight: the session's other books may fill the cap (429).
PostCap(t) ==
    /\ apc[t] = "cap"
    /\ \/ /\ Goto(t, "clear")
          /\ UNCHANGED <<lst, lmeta, rebuild, destLock>>
       \/ Respond(t)
    /\ UNCHANGED <<diskVars, rqVars, runLock, horseLock, horseRec, horseVars,
                   childVars, envVars>>

\* clear_downstream_artifacts(drop_meta=False): the session's documents go.
PostClear(t) ==
    /\ apc[t] = "clear"
    /\ docs' = FALSE
    /\ Goto(t, "stamp")
    /\ UNCHANGED <<meta, version, rqVars, lockVars, horseVars, childVars, lst,
                   lmeta, rebuild, envVars>>

\* record_rebuild_stage, then the stamp: queued under the next generation.
PostStamp(t) ==
    /\ apc[t] = "stamp"
    /\ meta' = [st |-> "queued", err |-> "none", gen |-> lmeta[t].gen + 1,
                pub |-> meta.pub,
                rebuild |-> rebuild[t] \/ stale_from_meta(lmeta[t])]
    /\ races' = races \cup
                 IF \E w \in Workers : hgen[w] > lmeta[t].gen
                 THEN {"reused_gen"} ELSE {}
    /\ accepted' = lmeta[t].gen + 1
    /\ Goto(t, "enqueue")
    /\ UNCHANGED <<docs, version, rqVars, lockVars, horseVars, childVars, lst,
                   lmeta, rebuild, faults>>

\* queue.enqueue(unique=True); a hash that is already there is a dedup.
PostEnqueue(t) ==
    /\ apc[t] = "enqueue"
    /\ IF rq.st = "none"
       THEN /\ rq' = [st |-> "queued", gen |-> lmeta[t].gen + 1,
                      left |-> RetryOnLost, by |-> None]
            /\ listed' = TRUE
       ELSE UNCHANGED <<rq, listed>>
    /\ Respond(t)
    /\ UNCHANGED <<diskVars, stopReq, runLock, horseLock, horseRec, horseVars,
                   childVars, envVars>>

\* The Redis calls that only read a status and go on.
PostStatus(t) ==
    \/ ReadStatus(t, "post", "look")
    \/ ReadStatus(t, "corpse", "corpse2")
    \/ ReadStatus(t, "abandon", "abandon2")
    \/ ReadStatus(t, "status3", "decide")

-----------------------------------------------------------------------------
(* GET: _read_job *)

\* meta.json and the run lock.  Any answer but a possible loss ends the GET;
\* those answers change nothing, so only the possible loss is a step.
GetStart(t) ==
    /\ apc[t] = "idle"
    /\ meta.st \in {"queued", "running"}
    /\ FALSE \in RunBusy(t)
    /\ Goto(t, "gstatus")
    /\ lmeta' = [lmeta EXCEPT ![t] = meta]
    /\ UNCHANGED <<diskVars, rqVars, lockVars, horseVars, childVars, lst,
                   rebuild, envVars>>

\* A status read of GET: lost, or started and worth a look at the horse.
GetStatus(t) ==
    /\ \/ /\ apc[t] = "gstatus"
          /\ IF rq.st \in LOST_STATUSES THEN Continue(t, "glock", NoMeta)
             ELSE IF rq.st = "started" THEN Continue(t, "gprobe", lmeta[t])
             ELSE Respond(t)
       \/ /\ apc[t] = "gstatus2"
          /\ IF rq.st = "started" THEN Continue(t, "gprobe2", NoMeta)
             ELSE Respond(t)
       \/ /\ apc[t] = "gstatus3"
          /\ IF rq.st \in LOST_STATUSES THEN Continue(t, "gmark", lmeta[t])
             ELSE IF rq.st = "started" THEN Continue(t, "gprobe3", lmeta[t])
             ELSE Respond(t)
    /\ OnlyReads

\* The looks at the horse: _abandoned_started twice, _lost_now once.
GetProbe(t) ==
    /\ apc[t] \in {"gprobe", "gprobe2", "gprobe3"}
    /\ LET m == IF apc[t] = "gprobe2" THEN meta ELSE lmeta[t]
       IN \E busy \in RunBusy(t), alive \in HorseAlive(t, m.gen) :
            IF started_without_child("started", m, busy) /\ alive = "dead"
            THEN \/ apc[t] = "gprobe" /\ Continue(t, "gstatus2", NoMeta)
                 \/ apc[t] = "gprobe2" /\ Continue(t, "glock", NoMeta)
                 \/ apc[t] = "gprobe3" /\ Continue(t, "gmark", m)
            ELSE Respond(t)
    /\ OnlyReads

\* dest/.lock without waiting; under it meta.json and the run lock again.
GetLock(t) ==
    /\ apc[t] = "glock"
    /\ \/ /\ destLock = None
          /\ meta.st \in {"queued", "running"}
          /\ FALSE \in RunBusy(t)
          /\ destLock' = t
          /\ Goto(t, "gstatus3")
          /\ lmeta' = [lmeta EXCEPT ![t] = meta]
          /\ UNCHANGED <<lst, rebuild>>
       \/ /\ \/ destLock # None
             \/ meta.st \notin {"queued", "running"}
             \/ TRUE \in RunBusy(t)
          /\ Respond(t)
    /\ OnlyReads

\* mark_job_failed(queue_lost) with the generation read under the lock.
GetMark(t) ==
    /\ apc[t] = "gmark"
    /\ meta' = Failed(lmeta[t].gen, "queue_lost")
    /\ Respond(t)
    /\ UNCHANGED <<docs, version, rqVars, runLock, horseLock, horseRec,
                   horseVars, childVars, envVars>>

\* QueueUnavailable: 503 from a POST, "not lost" from a GET.  The second look
\* of _abandoned_started swallows it and takes the job for a live one.
RedisDown(t) ==
    /\ \/ apc[t] \in RedisPc /\ Respond(t)
       \/ apc[t] = "abandon" /\ LiveJob(t, lmeta[t])
    /\ faults < MaxFaults
    /\ faults' = faults + 1
    /\ UNCHANGED <<diskVars, rqVars, runLock, horseLock, horseRec, horseVars,
                   childVars, races, accepted>>

\* The API process exits with a request open; the kernel frees its flocks.
ApiCrash(t) ==
    /\ apc[t] # "idle"
    /\ faults < MaxFaults
    /\ faults' = faults + 1
    /\ Respond(t)
    /\ UNCHANGED <<diskVars, rqVars, runLock, horseLock, horseRec, horseVars,
                   childVars, races, accepted>>

-----------------------------------------------------------------------------
(* The horse: jobqueue.jobs.execute_job, inside an RQ worker slot *)

\* RQ (external): a slot pops the id, fetches the job and forks a horse.  A
\* slot waits for its previous child only so that the two are told apart.
HorsePop(w) ==
    /\ hpc[w] = "idle" /\ cpc[w] = "none"
    /\ listed /\ rq.st # "none"
    /\ rq' = [rq EXCEPT !.by = w]
    /\ listed' = FALSE
    /\ hpc' = [hpc EXCEPT ![w] = "popped"]
    /\ hgen' = [hgen EXCEPT ![w] = rq.gen]
    /\ races' = races \cup IF horseRec = rq.gen THEN {"stale_record"} ELSE {}
    /\ UNCHANGED <<diskVars, stopReq, lockVars, hret, childVars, apiVars,
                   faults, accepted>>

\* RQ (external): the horse marks the hash started, whatever it says by now.
HorseStart(w) ==
    /\ hpc[w] = "popped"
    /\ rq' = [rq EXCEPT !.st = "started", !.by = w]
    /\ hpc' = [hpc EXCEPT ![w] = "start"]
    /\ UNCHANGED <<diskVars, listed, stopReq, lockVars, hgen, hret, childVars,
                   apiVars, envVars>>

\* hold_horse_lock (blocking) and write_horse_owner.
HorseLock(w) ==
    /\ hpc[w] = "start"
    /\ horseLock = None
    /\ horseLock' = w
    /\ horseRec' = hgen[w]
    /\ hpc' = [hpc EXCEPT ![w] = "locked"]
    /\ UNCHANGED <<diskVars, rqVars, destLock, runLock, hgen, hret, childVars,
                   apiVars, envVars>>

\* Mutant of VoluntaryRetry: release_horse_record is forgotten.
VoluntaryRetry_KeepRecord(w) ==
    /\ horseLock' = None
    /\ hpc' = [hpc EXCEPT ![w] = "saving"]
    /\ hret' = [hret EXCEPT ![w] = "retry"]
    /\ UNCHANGED horseRec

\* The horse returns rq.Retry: .horse.json goes, then .horse.lock.
VoluntaryRetry(w) ==
    /\ horseRec' = 0
    /\ horseLock' = None
    /\ hpc' = [hpc EXCEPT ![w] = "saving"]
    /\ hret' = [hret EXCEPT ![w] = "retry"]

\* _admission_waiting: the cgroup has no room.
HorseAdmission(w) ==
    /\ hpc[w] = "locked"
    /\ VoluntaryRetry(w)
    /\ UNCHANGED <<diskVars, rqVars, destLock, runLock, hgen, childVars,
                   apiVars, envVars>>

\* spawn_child.
HorseSpawn(w) ==
    /\ hpc[w] = "locked"
    /\ hpc' = [hpc EXCEPT ![w] = "watch"]
    /\ cpc' = [cpc EXCEPT ![w] = "boot"]
    /\ UNCHANGED <<diskVars, rqVars, lockVars, hgen, hret, cver, apiVars,
                   envVars>>

\* A child ends as pc: the kernel frees its flocks.
ChildGone(w, pc) ==
    /\ cpc' = [cpc EXCEPT ![w] = pc]
    /\ cver' = [cver EXCEPT ![w] = 0]
    /\ runLock' = Release(runLock, w)
    /\ destLock' = Release(destLock, w)

\* What a step that only ends a child or moves its flocks leaves alone.
ChildLocal == UNCHANGED <<diskVars, rqVars, horseLock, horseRec, horseVars,
                          apiVars, envVars>>

\* watch_child: timeout, RSS over the budget, or the kernel's OOM killer.
HorseKillChild(w) ==
    /\ hpc[w] = "watch" /\ cpc[w] \in ChildLive
    /\ ChildGone(w, "killed")
    /\ ChildLocal

\* _finish: a killed child is a failure, a child that left no terminal status too.
HorseFinish(w) ==
    /\ hpc[w] = "watch" /\ cpc[w] \in {"exited", "killed"}
    /\ meta' = IF cpc[w] = "killed" \/ meta.st \notin TERMINAL_STATUS
               THEN Failed(hgen[w], "other") ELSE meta
    /\ hpc' = [hpc EXCEPT ![w] = "finish"]
    /\ cpc' = [cpc EXCEPT ![w] = "none"]
    /\ UNCHANGED <<docs, version, rqVars, lockVars, hgen, hret, cver, apiVars,
                   envVars>>

\* _requeue_shared_cache: retry later, or fail once the cap is spent.
HorseBusy(w) ==
    /\ hpc[w] = "watch" /\ cpc[w] = "busy"
    /\ cpc' = [cpc EXCEPT ![w] = "none"]
    /\ \/ /\ VoluntaryRetry(w)
          /\ UNCHANGED meta
       \/ /\ meta' = Failed(hgen[w], "other")
          /\ hpc' = [hpc EXCEPT ![w] = "finish"]
          /\ UNCHANGED <<horseLock, horseRec, hret>>
    /\ UNCHANGED <<docs, version, rqVars, destLock, runLock, hgen, cver,
                   apiVars, envVars>>

\* execute_job returns None: .horse.lock is freed, .horse.json stays.
HorseReturn(w) ==
    /\ hpc[w] = "finish"
    /\ horseLock' = None
    /\ hpc' = [hpc EXCEPT ![w] = "saving"]
    /\ hret' = [hret EXCEPT ![w] = "done"]
    /\ UNCHANGED <<diskVars, rqVars, destLock, runLock, horseRec, hgen,
                   childVars, apiVars, envVars>>

-----------------------------------------------------------------------------
(* What RQ stores (external), and the worker's on_horse_killed *)

\* The hash is still the one this slot has popped or marked started.
OwnHash(w) == rq.st \in {"queued", "started"} /\ rq.by = w

\* RQ rewrites the hash of the job the slot was running; a hash that POST has
\* deleted or replaced in the meantime is overwritten.  The slot forgets its
\* generation once no child of it is left.
Save(w, status, left) ==
    /\ rq' = [st |-> status, gen |-> hgen[w], left |-> left, by |-> None]
    /\ listed' = (listed \/ status = "queued")
    /\ races' = races \cup
                 IF OwnHash(w) THEN {} ELSE {"late_save"}
    /\ hpc' = [hpc EXCEPT ![w] = "idle"]
    /\ hret' = [hret EXCEPT ![w] = "none"]
    /\ hgen' = [hgen EXCEPT ![w] = IF cpc[w] = "none" THEN 0 ELSE @]

\* A lost job: requeued while retries are left, failed otherwise.
SaveLost(w) ==
    IF rq.left > 0 THEN Save(w, "queued", rq.left - 1)
    ELSE Save(w, "failed", 0)

\* A horse that returned, died, or was stopped: the last step of the slot.
HorseSave(w) ==
    /\ \/ hpc[w] = "saving" /\ hret[w] = "done"
          /\ Save(w, "finished", rq.left)
       \/ hpc[w] = "saving" /\ hret[w] = "retry"
          /\ Save(w, "scheduled", rq.left)
       \/ hpc[w] = "lost" /\ SaveLost(w)
       \/ hpc[w] = "stopped" /\ Save(w, "stopped", rq.left)
    /\ UNCHANGED <<diskVars, stopReq, lockVars, childVars, apiVars, faults,
                   accepted>>

\* The horse is SIGKILLed.  Before its save_meta the worker's handler will not
\* know which book it was ("unknown").
HorseKilled(w) ==
    /\ hpc[w] \in Taken \cup {"saving"}
    /\ faults < MaxFaults
    /\ faults' = faults + 1
    /\ hpc' = [hpc EXCEPT ![w] = "dead"]
    /\ \E known \in {"known", "unknown"} :
         /\ hpc[w] = "popped" => known = "unknown"
         /\ hpc[w] \notin {"popped", "start"} => known = "known"
         /\ hret' = [hret EXCEPT ![w] = known]
    /\ horseLock' = Release(horseLock, w)
    /\ UNCHANGED <<diskVars, rqVars, destLock, runLock, horseRec, hgen,
                   childVars, apiVars, races, accepted>>

\* on_horse_killed once POST has deleted or replaced the hash: _refreshed_meta
\* reads what is there now, so the handler does nothing (no hash, no metadata
\* yet, a retry left) or fails the new start; an OOM also saves the old job.
ForeignHash(w) ==
    /\ races' = races \cup {"late_save"}
    /\ \/ UNCHANGED <<rq, meta>>
       \/ /\ rq.st # "none"
          /\ meta' = Failed(rq.gen, "other")
          /\ rq' \in {rq, [st |-> "started", gen |-> hgen[w], left |-> 0,
                          by |-> w]}

\* Mutant of OnHorseKilled: an OOM takes one retry, even from zero.
OnHorseKilled_OneRetry(w) ==
    /\ hpc[w] = "dead"
    /\ hpc' = [hpc EXCEPT ![w] = "lost"]
    /\ \/ /\ OwnHash(w)
          /\ \E oom \in BOOLEAN :
               /\ rq' = IF oom THEN [rq EXCEPT !.left = @ - 1] ELSE rq
               /\ meta' = IF hret[w] = "known" /\ (oom \/ rq.left = 0)
                          THEN Failed(hgen[w], "other") ELSE meta
          /\ UNCHANGED races
       \/ ~OwnHash(w) /\ ForeignHash(w)
    /\ UNCHANGED <<docs, version, listed, stopReq, lockVars, hgen, hret,
                   childVars, apiVars, faults, accepted>>

\* on_horse_killed: an OOM spends the retries; with a retry left meta.json stays.
OnHorseKilled(w) ==
    /\ hpc[w] = "dead"
    /\ hpc' = [hpc EXCEPT ![w] = "lost"]
    /\ \/ /\ OwnHash(w)
          /\ \E oom \in BOOLEAN :
               /\ rq' = IF oom THEN [rq EXCEPT !.left = 0] ELSE rq
               /\ meta' = IF hret[w] = "known" /\ (oom \/ rq.left = 0)
                          THEN Failed(hgen[w], "other") ELSE meta
          /\ UNCHANGED races
       \/ ~OwnHash(w) /\ ForeignHash(w)
    /\ UNCHANGED <<docs, version, listed, stopReq, lockVars, hgen, hret,
                   childVars, apiVars, faults, accepted>>

\* The worker dies with its horse: nobody runs the handler, the hash stays.
WorkerCrash(w) ==
    /\ hpc[w] # "idle"
    /\ faults < MaxFaults
    /\ faults' = faults + 1
    /\ hpc' = [hpc EXCEPT ![w] = "idle"]
    /\ hret' = [hret EXCEPT ![w] = "none"]
    /\ hgen' = [hgen EXCEPT ![w] = IF cpc[w] = "none" THEN 0 ELSE @]
    /\ horseLock' = Release(horseLock, w)
    /\ UNCHANGED <<diskVars, rqVars, destLock, runLock, horseRec, childVars,
                   apiVars, races, accepted>>

\* The stop command reaches the worker: it kills the horse, or drops a command
\* for a job that has left the horse.
StopHorse(w) ==
    /\ stopReq
    /\ hpc[w] \in Executing
    /\ stopReq' = FALSE
    /\ hpc' = [hpc EXCEPT ![w] = "stopped"]
    /\ horseLock' = Release(horseLock, w)
    /\ UNCHANGED <<diskVars, rq, listed, destLock, runLock, horseRec, hgen,
                   hret, childVars, apiVars, envVars>>

StopIgnored ==
    /\ stopReq
    /\ \A w \in Workers : hpc[w] \notin Executing
    /\ stopReq' = FALSE
    /\ UNCHANGED <<diskVars, rq, listed, lockVars, horseVars, childVars,
                   apiVars, envVars>>

\* RQ's scheduler puts a delayed retry back in the list.
RqSchedule ==
    /\ rq.st = "scheduled"
    /\ rq' = [rq EXCEPT !.st = "queued"]
    /\ listed' = TRUE
    /\ UNCHANGED <<diskVars, stopReq, lockVars, horseVars, childVars, apiVars,
                   envVars>>

\* RQ's maintenance finds a job whose worker is gone: started, or popped and
\* still in RQ's intermediate queue.  (It may have read the registry before
\* queue.delete swept it.)
RqMaintain ==
    /\ rq.st \in {"queued", "started"} /\ rq.by # None
    /\ \A w \in Workers : hpc[w] = "idle"
    /\ IF rq.left > 0
       THEN /\ rq' = [st |-> "queued", gen |-> rq.gen, left |-> rq.left - 1,
                      by |-> None]
            /\ listed' = TRUE
       ELSE /\ rq' = [rq EXCEPT !.st = "failed", !.by = None]
            /\ UNCHANGED listed
    /\ UNCHANGED <<diskVars, stopReq, lockVars, horseVars, childVars, apiVars,
                   envVars>>

\* QUEUE_RESULT_TTL_SEC and QUEUE_FAILURE_TTL_SEC: a finished hash expires.
RqExpire ==
    /\ rq.st \in {"finished", "failed", "canceled", "stopped"}
    /\ ~listed
    /\ rq' = NoRq
    /\ UNCHANGED <<diskVars, listed, stopReq, lockVars, horseVars, childVars,
                   apiVars, envVars>>

-----------------------------------------------------------------------------
(* The spawned child: spawn.run_child, then Pipeline.run *)

\* Mutant of ChildLock: getppid is not checked again after the flock.
ChildLock_NoParentCheck(w) ==
    /\ cpc[w] = "boot"
    /\ runLock = None
    /\ runLock' = w
    /\ cpc' = [cpc EXCEPT ![w] = "run"]
    /\ UNCHANGED <<destLock, cver>>
    /\ ChildLocal

\* The blocking .run.lock, with getppid checked before and after it.
ChildLock(w) ==
    /\ cpc[w] = "boot" /\ hpc[w] = "watch"
    /\ runLock = None
    /\ runLock' = w
    /\ cpc' = [cpc EXCEPT ![w] = "run"]
    /\ UNCHANGED <<destLock, cver>>
    /\ ChildLocal

\* The horse is gone: the parent-death signal or the watch thread ends the
\* child, at any point of its run.
ChildOrphanExit(w) ==
    /\ cpc[w] # "none" /\ hpc[w] # "watch"
    /\ ChildGone(w, "none")
    /\ hgen' = [hgen EXCEPT ![w] = IF hpc[w] = "idle" THEN 0 ELSE @]
    /\ UNCHANGED <<diskVars, rqVars, horseLock, horseRec, hpc, hret, apiVars,
                   envVars>>

\* shared_book_lock is held by another session: exit 75.
ChildBusy(w) ==
    /\ cpc[w] = "run"
    /\ ChildGone(w, "busy")
    /\ ChildLocal

\* The blocking dest/.lock, then invalidate_for_run: a stale session loses its
\* documents and its meta.json.
ChildDest(w) ==
    /\ cpc[w] = "run"
    /\ destLock = None
    /\ destLock' = w
    /\ cpc' = [cpc EXCEPT ![w] = "inv"]
    /\ docs' = (docs /\ ~session_stale(meta))
    /\ meta' = IF session_stale(meta) THEN NoMeta ELSE meta
    /\ UNCHANGED <<version, rqVars, runLock, horseLock, horseRec, horseVars,
                   cver, apiVars, envVars>>

\* context.json and context.md are there: Pipeline.run returns, meta.json stays.
ChildReuse(w) ==
    /\ cpc[w] = "inv" /\ docs
    /\ ChildGone(w, "exited")
    /\ ChildLocal

\* The child writes its status to meta.json.
Write(w, status, pc) ==
    /\ meta' = Written(w, status)
    /\ cver' = [cver EXCEPT ![w] = Stamp(w)]
    /\ cpc' = [cpc EXCEPT ![w] = pc]
    /\ UNCHANGED <<docs, version, rqVars, lockVars, horseVars, apiVars,
                   envVars>>

\* set_stage, before each stage from parse to render.
ChildStage(w) ==
    /\ \/ cpc[w] = "inv" /\ ~docs
       \/ cpc[w] = "build"
    /\ Write(w, "running", "build")

\* The last document is published.
ChildRender(w) ==
    /\ cpc[w] = "build"
    /\ docs' = TRUE
    /\ cpc' = [cpc EXCEPT ![w] = "rendered"]
    /\ UNCHANGED <<meta, version, rqVars, lockVars, horseVars, cver, apiVars,
                   envVars>>

\* The final meta.json.
ChildDone(w) ==
    /\ cpc[w] = "rendered"
    /\ Write(w, "succeeded", "done")

ChildExit(w) ==
    /\ cpc[w] = "done"
    /\ ChildGone(w, "exited")
    /\ ChildLocal

\* A stage, the export or the shared stamp raises: dest/.lock is freed by the
\* with block, the handler has still to run.
ChildRaise(w) ==
    /\ cpc[w] \in InPipeline
    /\ cpc' = [cpc EXCEPT ![w] = "raised"]
    /\ destLock' = Release(destLock, w)
    /\ UNCHANGED <<runLock, cver>>
    /\ ChildLocal

\* mark_job_failed in _run_pipeline_child, then the end of run_child.
ChildMark(w) ==
    /\ cpc[w] = "raised"
    /\ meta' = Failed(hgen[w], "other")
    /\ ChildGone(w, "exited")
    /\ UNCHANGED <<docs, version, rqVars, horseLock, horseRec, horseVars,
                   apiVars, envVars>>

\* New code is put on disk.
Deploy ==
    /\ version < MaxVersion
    /\ version' = version + 1
    /\ UNCHANGED <<meta, docs, rqVars, lockVars, horseVars, childVars, apiVars,
                   envVars>>

-----------------------------------------------------------------------------
(* The system *)

Post(t) ==
    \/ PostStart(t) \/ PostStatus(t) \/ PostLook(t) \/ PostCorpse(t)
    \/ PostAbandon(t) \/ PostStop(t) \/ PostCancel(t) \/ PostWaited(t)
    \/ PostDeadline(t) \/ PostLock(t) \/ PostDecide(t) \/ PostDelete(t)
    \/ PostCap(t) \/ PostClear(t) \/ PostStamp(t) \/ PostEnqueue(t)

Get(t) ==
    \/ GetStart(t) \/ GetStatus(t) \/ GetProbe(t) \/ GetLock(t) \/ GetMark(t)

Horse(w) ==
    \/ HorsePop(w) \/ HorseStart(w) \/ HorseLock(w) \/ HorseAdmission(w)
    \/ HorseSpawn(w) \/ HorseKillChild(w) \/ HorseFinish(w) \/ HorseBusy(w)
    \/ HorseReturn(w) \/ HorseSave(w) \/ HorseKilled(w) \/ OnHorseKilled(w)
    \/ WorkerCrash(w) \/ StopHorse(w)

Child(w) ==
    \/ ChildLock(w) \/ ChildOrphanExit(w) \/ ChildBusy(w) \/ ChildDest(w)
    \/ ChildReuse(w) \/ ChildStage(w) \/ ChildRender(w) \/ ChildDone(w)
    \/ ChildExit(w) \/ ChildRaise(w) \/ ChildMark(w)

Rq == StopIgnored \/ RqSchedule \/ RqMaintain \/ RqExpire

Next ==
    \/ \E t \in Posters : Post(t)
    \/ \E t \in Getters : Get(t)
    \/ \E t \in Api : RedisDown(t) \/ ApiCrash(t)
    \/ \E w \in Workers : Horse(w) \/ Child(w)
    \/ Rq \/ Deploy

Spec == Init /\ [][Next]_vars

(***************************************************************************)
(* Fairness.  Live processes keep running, RQ keeps its timers, requests   *)
(* are answered and the client keeps polling.  Strong fairness is assumed  *)
(* where the code retries without a bound of its own: memory becomes free  *)
(* for a waiting admission, and the other session leaves the shared book.  *)
(* Nothing is assumed of kills, crashes, failing stages or new requests.   *)
(***************************************************************************)
HorseStep(w) ==
    \/ HorsePop(w) \/ HorseStart(w) \/ HorseLock(w) \/ HorseFinish(w)
    \/ HorseBusy(w) \/ HorseReturn(w) \/ HorseSave(w) \/ OnHorseKilled(w)
    \/ StopHorse(w)

ChildStep(w) ==
    \/ ChildLock(w) \/ ChildOrphanExit(w) \/ ChildReuse(w) \/ ChildStage(w)
    \/ ChildRender(w) \/ ChildDone(w) \/ ChildExit(w) \/ ChildMark(w)

Fairness ==
    /\ \A w \in Workers :
         /\ WF_vars(HorseStep(w)) /\ SF_vars(HorseSpawn(w))
         /\ WF_vars(ChildStep(w)) /\ SF_vars(ChildDest(w))
    /\ \A t \in Posters : WF_vars(apc[t] # "idle" /\ Post(t))
    /\ \A t \in Getters : WF_vars(Get(t))
    /\ WF_vars(StopIgnored) /\ WF_vars(RqSchedule)
    /\ WF_vars(RqMaintain) /\ WF_vars(RqExpire)

FairSpec == Spec /\ Fairness

-----------------------------------------------------------------------------
(* Properties *)

\* POST enqueues a book only when no horse works on it or is about to, whatever
\* the order of its status reads, lock probes and RQ's own steps:
\* _JobStillRunning, "do not enqueue over it".  The windows named by Races are
\* left out.
LaunchWhenIdle ==
    [][ races = {} /\ rq.st = "none" /\ rq'.st = "queued"
        => \A w \in Workers : hpc[w] \notin Taken ]_vars

\* The same after a stop, without the exception for a job that is taken while
\* request_stop cancels it: _wait_until_clear "True when the id is gone".
LaunchAfterStop ==
    [][ races \subseteq {"late_cancel"} /\ rq.st = "none" /\ rq'.st = "queued"
        => \A w \in Workers : hpc[w] \notin Taken ]_vars

\* A run that POST has replaced never works on the book: a child that holds
\* .run.lock or is inside Pipeline.run is not older than meta.json, because a
\* child whose horse died leaves before it starts the pipeline.
NoStaleRun ==
    races = {} =>
      \A w \in Workers :
        cpc[w] \in {"run"} \cup InPipeline => meta.gen <= hgen[w]

\* A horse that is at work on generation gen or about to be, or has just handed
\* its job back to RQ for a voluntary retry.
NotOver(w, gen) ==
    /\ hpc[w] \in Taken \/ hret[w] = "retry"
    /\ hgen[w] = gen

\* GET writes queue_lost only when no horse of that generation is at work or
\* on its way to a retry (_abandoned_started, _lost_now).
MarkLostOnlyIfDead ==
    [][ races = {} /\ meta.err # "queue_lost" /\ meta'.err = "queue_lost"
        => \A w \in Workers : ~NotOver(w, meta'.gen) ]_vars

\* The same without the exception for the window of a retried horse that has
\* not yet taken .horse.lock.
NoFalseLoss ==
    [][ meta.err # "queue_lost" /\ meta'.err = "queue_lost"
        => \A w \in Workers : ~NotOver(w, meta'.gen) ]_vars

\* A finished book stays finished: a late failure report, an orphan child, a
\* GET or a retry leaves it alone; only a POST's next generation replaces it.
SucceededStays ==
    [][ meta.st = "succeeded" /\ docs /\ ~session_stale(meta)
        => meta' = meta ]_vars

\* An accepted book that is queued or running gets a final status as long as
\* somebody polls it, through any single fault (RQ's retry, on_horse_killed,
\* RqMaintain and GET's queue_lost between them).
Settles ==
    meta.st \in {"queued", "running"} ~> meta.st \in TERMINAL_STATUS

\* A child of the generation accepted last is at work on the book.
AtWork ==
    \E w \in Workers :
      hgen[w] = accepted /\ cpc[w] \in {"run"} \cup InPipeline

Status == INSTANCE JobStatus WITH status <- meta.st, gen <- meta.gen,
                                  working <- AtWork,
                                  outdated <- session_stale(meta),
                                  window <- races # {}

\* meta.json shows a polling client the behaviour of module JobStatus: every
\* status is written for the generation POST accepted last, also after its run
\* has withdrawn the file, success comes from a child at work on it and is
\* withdrawn only when it is outdated, whichever of the API threads, the horse,
\* its orphaned child and on_horse_killed writes the file, until one of the
\* windows named by Races is met.
ShowsStatus == Status!Spec
=============================================================================
