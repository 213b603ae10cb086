--------------------------- MODULE EmbeddedWorker ---------------------------
(***************************************************************************)
(* The RQ pool that "finance-context serve" runs as its child process.     *)
(* Serve's main thread starts the pool and stops it when the server ends;  *)
(* a supervisor thread restarts a pool that exits.  Both meet in _stop and *)
(* _proc, and both may be in _shutdown_proc at the same time.              *)
(*                                                                         *)
(* A pool's workers are in its process group; a horse has left the group   *)
(* (os.setpgrp) and watches its worker.  The workers of a pool are one     *)
(* unit here, and at most one of them has a horse.                         *)
(***************************************************************************)
EXTENDS Naturals

CONSTANT MaxCrashes   \* bound: how often a pool dies by itself

ASSUME EmbeddedAssumption == MaxCrashes \in Nat

\* The n-th Popen of this serve process makes pool n; 0 is None.
Pools == 1 .. MaxCrashes + 1
Threads == {"main", "sup"}

VARIABLES
    stop,     \* the event _stop
    cur,      \* _proc
    tpc,      \* where each thread is
    proc,     \* the local variable proc of each thread
    desc,     \* the thread's list of descendants holds the pool's horse
    joined,   \* stop() saw the supervisor thread end
    made,     \* pools made so far
    pool,     \* "none", "boot" (not armed yet), "up" or "gone"
    armed,    \* the pool is told when serve dies
    term,     \* the pool and its group have got SIGTERM
    workers,  \* the pool's workers are alive
    horse,    \* the horse of one of them is alive
    crashes

threadVars == <<stop, cur, tpc, proc, desc, joined>>
poolVars == <<made, pool, armed, term, workers, horse, crashes>>
vars == <<threadVars, poolVars>>

Alive(i) == pool[i] \in {"boot", "up"}

\* "off": the thread does not exist yet; "done": it has returned; "exited":
\* the process is gone.
MainPc == {"start", "serve", "take", "snap", "signal", "grace", "join",
           "stopped", "exited"}
SupPc == {"off", "loop", "wait", "backoff", "spawn", "popen", "place",
          "snap", "signal", "grace", "done"}

\* Every variable has its type, and no pool is started that does not replace
\* one that died (_supervise).
TypeOK ==
    /\ stop \in BOOLEAN /\ joined \in BOOLEAN
    /\ cur \in {0} \cup Pools
    /\ tpc["main"] \in MainPc /\ tpc["sup"] \in SupPc
    /\ tpc \in [Threads -> MainPc \cup SupPc]
    /\ proc \in [Threads -> {0} \cup Pools]
    /\ desc \in [Threads -> BOOLEAN]
    /\ made \in 0 .. crashes + 1
    /\ pool \in [Pools -> {"none", "boot", "up", "gone"}]
    /\ armed \in [Pools -> BOOLEAN] /\ term \in [Pools -> BOOLEAN]
    /\ workers \in [Pools -> BOOLEAN] /\ horse \in [Pools -> BOOLEAN]
    /\ crashes \in 0 .. MaxCrashes

Init ==
    /\ stop = FALSE /\ cur = 0 /\ joined = FALSE
    /\ tpc = [t \in Threads |-> IF t = "main" THEN "start" ELSE "off"]
    /\ proc = [t \in Threads |-> 0]
    /\ desc = [t \in Threads |-> FALSE]
    /\ made = 0 /\ crashes = 0
    /\ pool = [i \in Pools |-> "none"]
    /\ armed = [i \in Pools |-> FALSE]
    /\ term = [i \in Pools |-> FALSE]
    /\ workers = [i \in Pools |-> FALSE]
    /\ horse = [i \in Pools |-> FALSE]

Goto(t, pc) == tpc' = [tpc EXCEPT ![t] = pc]

-----------------------------------------------------------------------------
(* Popen *)

NewPool(i) ==
    /\ i = made + 1
    /\ made' = i
    /\ pool' = [pool EXCEPT ![i] = "boot"]
    /\ UNCHANGED <<armed, term, workers, horse, crashes>>

\* start: _spawn, where an OSError leaves _proc None, then the supervisor.
Start ==
    /\ tpc["main"] = "start"
    /\ tpc' = [main |-> "serve", sup |-> "loop"]
    /\ \/ \E i \in Pools : NewPool(i) /\ cur' = i
       \/ UNCHANGED <<cur, poolVars>>
    /\ UNCHANGED <<stop, proc, desc, joined>>

-----------------------------------------------------------------------------
(* _shutdown_proc, run by stop() and by _spawn *)

\* Where a thread goes on after _shutdown_proc.
AfterShutdown(t) == IF t = "main" THEN "join" ELSE "loop"

\* _kill_group: the pool and its workers die, the horse is outside the group.
KillGroup(i) ==
    /\ pool' = [pool EXCEPT ![i] = "gone"]
    /\ workers' = [workers EXCEPT ![i] = FALSE]

\* A pool that has exited: _kill_tree finds no descendants any more.  Otherwise
\* the list of descendants is taken.
ShutdownSnap(t) ==
    /\ tpc[t] = "snap"
    /\ \/ /\ ~Alive(proc[t])
          /\ KillGroup(proc[t])
          /\ Goto(t, AfterShutdown(t))
          /\ UNCHANGED desc
       \/ /\ Alive(proc[t])
          /\ desc' = [desc EXCEPT ![t] = horse[proc[t]]]
          /\ Goto(t, "signal")
          /\ UNCHANGED <<pool, workers>>
    /\ UNCHANGED <<stop, cur, proc, joined, made, armed, term, horse, crashes>>

\* SIGTERM to the pool and to its group.
ShutdownSignal(t) ==
    /\ tpc[t] = "signal"
    /\ term' = [term EXCEPT ![proc[t]] = TRUE]
    /\ Goto(t, "grace")
    /\ UNCHANGED <<stop, cur, proc, desc, joined, made, pool, armed, workers,
                   horse, crashes>>

\* Everything has ended or the grace is over: _kill_tree, then the pids of the
\* list.  A horse forked after the list was taken is found through its pool.
ShutdownKill(t) ==
    /\ tpc[t] = "grace"
    /\ KillGroup(proc[t])
    /\ horse' = [horse EXCEPT ![proc[t]] =
                   @ /\ ~desc[t] /\ ~(Alive(proc[t]) /\ workers[proc[t]])]
    /\ desc' = [desc EXCEPT ![t] = FALSE]
    /\ Goto(t, AfterShutdown(t))
    /\ UNCHANGED <<stop, cur, proc, joined, made, armed, term, crashes>>

-----------------------------------------------------------------------------
(* stop, in the main thread *)

StopSet ==
    /\ tpc["main"] = "serve"
    /\ stop' = TRUE
    /\ Goto("main", "take")
    /\ UNCHANGED <<cur, proc, desc, joined, poolVars>>

StopTake ==
    /\ tpc["main"] = "take"
    /\ proc' = [proc EXCEPT !["main"] = cur]
    /\ cur' = 0
    /\ Goto("main", IF cur = 0 THEN "join" ELSE "snap")
    /\ UNCHANGED <<stop, desc, joined, poolVars>>

\* join with its time-out.
StopJoin ==
    /\ tpc["main"] = "join"
    /\ joined' = (tpc["sup"] = "done")
    /\ Goto("main", "stopped")
    /\ UNCHANGED <<stop, cur, proc, desc, poolVars>>

\* Serve ends after stop(), or is killed: the supervisor is a daemon thread.
ServeExit ==
    /\ tpc["main"] \notin {"start", "exited"}
    /\ tpc' = [main |-> "exited", sup |-> "done"]
    /\ UNCHANGED <<stop, cur, proc, desc, joined, poolVars>>

-----------------------------------------------------------------------------
(* _supervise *)

\* The head of the loop: stop, or look at _proc.
SupLoop ==
    /\ tpc["sup"] = "loop"
    /\ proc' = [proc EXCEPT !["sup"] = IF stop THEN @ ELSE cur]
    /\ Goto("sup", IF stop THEN "done" ELSE IF cur = 0 THEN "backoff"
                   ELSE "wait")
    /\ UNCHANGED <<stop, cur, desc, joined, poolVars>>

\* Mutant of SupWait: TimeoutExpired is taken for an exit.
SupWait_TimeoutIsExit ==
    /\ tpc["sup"] = "wait"
    /\ Goto("sup", IF stop THEN "done" ELSE "backoff")
    /\ UNCHANGED <<stop, cur, proc, desc, joined, poolVars>>

\* Mutant of SupWait: the dead pool's group is not killed.
SupWait_NoKill ==
    /\ tpc["sup"] = "wait"
    /\ Goto("sup", IF Alive(proc["sup"]) THEN "loop"
                   ELSE IF stop THEN "done" ELSE "backoff")
    /\ UNCHANGED <<stop, cur, proc, desc, joined, poolVars>>

\* proc.wait(timeout=0.2): still running, stopping, or _kill_group.
SupWait ==
    /\ tpc["sup"] = "wait"
    /\ \/ /\ Alive(proc["sup"])
          /\ Goto("sup", "loop")
          /\ UNCHANGED <<pool, workers>>
       \/ /\ ~Alive(proc["sup"]) /\ stop
          /\ Goto("sup", "done")
          /\ UNCHANGED <<pool, workers>>
       \/ /\ ~Alive(proc["sup"]) /\ ~stop
          /\ KillGroup(proc["sup"])
          /\ Goto("sup", "backoff")
    /\ UNCHANGED <<stop, cur, proc, desc, joined, made, armed, term, horse,
                   crashes>>

\* _stop.wait(backoff).
SupBackoff ==
    /\ tpc["sup"] = "backoff"
    /\ Goto("sup", IF stop THEN "done" ELSE "spawn")
    /\ UNCHANGED <<stop, cur, proc, desc, joined, poolVars>>

\* _spawn's first look at _stop.
SupSpawn ==
    /\ tpc["sup"] = "spawn"
    /\ Goto("sup", IF stop THEN "loop" ELSE "popen")
    /\ UNCHANGED <<stop, cur, proc, desc, joined, poolVars>>

SupPopen ==
    /\ tpc["sup"] = "popen"
    /\ \E i \in Pools : NewPool(i) /\ proc' = [proc EXCEPT !["sup"] = i]
    /\ Goto("sup", "place")
    /\ UNCHANGED <<stop, cur, desc, joined>>

\* Mutant of SupPopenFails: the supervisor gives up.
SupPopenFails_End ==
    /\ tpc["sup"] = "popen"
    /\ Goto("sup", "done")
    /\ UNCHANGED <<stop, cur, proc, desc, joined, poolVars>>

\* OSError: _proc keeps the pool that died, and the loop comes back to it.
SupPopenFails ==
    /\ tpc["sup"] = "popen"
    /\ Goto("sup", "loop")
    /\ UNCHANGED <<stop, cur, proc, desc, joined, poolVars>>

\* Mutant of SupPlace: _stop is not looked at again under the lock.
SupPlace_NoRecheck ==
    /\ tpc["sup"] = "place"
    /\ cur' = proc["sup"]
    /\ Goto("sup", "loop")
    /\ UNCHANGED <<stop, proc, desc, joined, poolVars>>

\* Under _lock: publish the pool, or shut it down when stop() was called.
SupPlace ==
    /\ tpc["sup"] = "place"
    /\ cur' = IF stop THEN 0 ELSE proc["sup"]
    /\ Goto("sup", IF stop THEN "snap" ELSE "loop")
    /\ UNCHANGED <<stop, proc, desc, joined, poolVars>>

-----------------------------------------------------------------------------
(* The pool, its workers and their horse *)

\* arm_embedded_parent: a parent that is already gone cannot be watched.
PoolArm(i) ==
    /\ pool[i] = "boot"
    /\ pool' = [pool EXCEPT ![i] = "up"]
    /\ armed' = [armed EXCEPT ![i] = tpc["main"] # "exited"]
    /\ UNCHANGED <<threadVars, made, term, workers, horse, crashes>>

\* Mutant of ParentDeath: getppid is compared with 1, under a subreaper.
ParentDeath_Init(i) == FALSE /\ armed[i] /\ UNCHANGED vars

\* The parent's death: PR_SET_PDEATHSIG or the watch thread sends SIGTERM;
\* the pool passes it on to its workers.
ParentDeath(i) ==
    /\ pool[i] = "up" /\ armed[i] /\ ~term[i]
    /\ tpc["main"] = "exited"
    /\ term' = [term EXCEPT ![i] = TRUE]
    /\ UNCHANGED <<threadVars, made, pool, armed, workers, horse, crashes>>

\* serve_workers: RQ (external) forks the workers.
WorkersStart(i) ==
    /\ pool[i] = "up" /\ ~workers[i] /\ ~term[i]
    /\ workers' = [workers EXCEPT ![i] = TRUE]
    /\ UNCHANGED <<threadVars, made, pool, armed, term, horse, crashes>>

\* fork_work_horse.
HorseFork(i) ==
    /\ workers[i] /\ ~horse[i] /\ ~term[i]
    /\ horse' = [horse EXCEPT ![i] = TRUE]
    /\ UNCHANGED <<threadVars, made, pool, armed, term, workers, crashes>>

HorseGone(i) ==
    /\ horse' = [horse EXCEPT ![i] = FALSE]
    /\ desc' = [t \in Threads |-> desc[t] /\ proc[t] # i]
    /\ UNCHANGED <<stop, cur, tpc, proc, joined, made, pool, armed, term,
                   workers, crashes>>

\* The job ends.
HorseEnd(i) == horse[i] /\ HorseGone(i)

\* arm_horse_death: the horse leaves when its worker is gone.
HorseWatch(i) == horse[i] /\ ~workers[i] /\ HorseGone(i)

\* RQ (external) stops warmly: a worker waits for its horse, the pool for its
\* workers; a pool that is still booting has no handler and dies.
WorkersExit(i) ==
    /\ workers[i] /\ term[i] /\ ~horse[i]
    /\ workers' = [workers EXCEPT ![i] = FALSE]
    /\ UNCHANGED <<threadVars, made, pool, armed, term, horse, crashes>>

PoolExit(i) ==
    /\ Alive(i) /\ term[i] /\ ~workers[i]
    /\ pool' = [pool EXCEPT ![i] = "gone"]
    /\ UNCHANGED <<threadVars, made, armed, term, workers, horse, crashes>>

\* The pool is killed or raises; its workers and their horse stay.
PoolCrash(i) ==
    /\ Alive(i)
    /\ crashes < MaxCrashes
    /\ crashes' = crashes + 1
    /\ pool' = [pool EXCEPT ![i] = "gone"]
    /\ UNCHANGED <<threadVars, made, armed, term, workers, horse>>

-----------------------------------------------------------------------------
Shutdown(t) == ShutdownSnap(t) \/ ShutdownSignal(t) \/ ShutdownKill(t)

SupStep == SupLoop \/ SupWait \/ SupBackoff \/ SupSpawn \/ SupPlace

PoolStep(i) ==
    \/ PoolArm(i) \/ ParentDeath(i) \/ HorseWatch(i) \/ WorkersExit(i)
    \/ PoolExit(i)

Next ==
    \/ Start \/ StopSet \/ StopTake \/ StopJoin \/ ServeExit
    \/ \E t \in Threads : Shutdown(t)
    \/ SupStep \/ SupPopen \/ SupPopenFails
    \/ \E i \in Pools : \/ PoolStep(i) \/ WorkersStart(i) \/ HorseFork(i)
                        \/ HorseEnd(i) \/ PoolCrash(i)

Spec == Init /\ [][Next]_vars

(* The threads and the processes run; jobs end (JOB_TIMEOUT_SEC); Popen does
   not fail for ever.  Stopping, crashes, new jobs and serve's end need not
   happen, and a thread may be joined late. *)
FairSpec ==
    /\ Spec
    /\ WF_vars(SupStep) /\ SF_vars(SupPopen)
    /\ WF_vars(SupPopen \/ SupPopenFails)
    /\ \A t \in Threads : WF_vars(Shutdown(t))
    /\ WF_vars(StopTake) /\ WF_vars(StopJoin)
    /\ \A i \in Pools : WF_vars(PoolStep(i)) /\ WF_vars(HorseEnd(i))

-----------------------------------------------------------------------------
(* Properties *)

\* While a pool runs there is no other one, and no worker of an earlier one is
\* left to take jobs beside it (_supervise waits for the pool and kills its
\* group before it spawns the next).
OnePool ==
    \A i, j \in Pools :
        Alive(i) /\ i # j => ~Alive(j) /\ ~workers[j]

\* stop() leaves no pool and no worker behind, at whatever point of _supervise
\* and _spawn it comes, unless the join ran into its time-out.
StoppedClean ==
    tpc["main"] = "stopped" /\ joined
    => \A i \in Pools : ~Alive(i) /\ ~workers[i]

\* A pool that has died is replaced as long as the server is not stopping,
\* also when Popen fails now and then.
Restarts ==
    tpc["main"] = "serve" ~> (\E i \in Pools : pool[i] = "up") \/ stop
                             \/ tpc["main"] = "exited"

\* When serve is gone, stopped or killed, its armed pools follow for good, with
\* the workers that were told, and every horse whose worker is gone leaves:
\* arm_embedded_parent and arm_horse_death reach what _shutdown_proc missed.
NothingLeft ==
    tpc["main"] = "exited"
    ~> [](\A i \in Pools : /\ armed[i] => ~Alive(i)
                           /\ term[i] => ~workers[i]
                           /\ horse[i] => workers[i])
=============================================================================
