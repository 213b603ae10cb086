------------------------ MODULE EmbeddedWorker_proofs ------------------------
(***************************************************************************)
(* For any number of crashes: the variables keep their types, no two pools *)
(* run at once, and a joined stop() leaves no pool and no worker.          *)
(***************************************************************************)
EXTENDS EmbeddedWorker, TLAPS

InShutdown == {"snap", "signal", "grace"}

Live(i) == Alive(i) \/ workers[i]

\* Pools are made one after the other; all but the last one are dead, and none
\* of them runs before it is made.
PoolInv ==
    /\ \A i \in Pools : i > made <=> pool[i] = "none"
    /\ \A i \in Pools : i # made => ~Live(i)
    /\ cur <= made /\ \A t \in Threads : proc[t] <= made

\* Where the supervisor is tells what it knows of the last pool.
SupInv ==
    /\ tpc["main"] \in {"start", "serve"} => ~stop
    /\ tpc["main"] = "exited" => tpc["sup"] = "done"
    /\ tpc["main"] = "start" => made = 0 /\ tpc["sup"] = "off"
    /\ tpc["main"] \notin {"start", "serve", "exited"} => stop
    /\ ~stop /\ tpc["main"] # "exited" /\ tpc["sup"] # "place" => cur = made
    /\ tpc["sup"] = "wait" /\ ~stop => proc["sup"] = made
    /\ tpc["sup"] \in {"wait", "place"} \cup InShutdown => proc["sup"] # 0
    /\ tpc["sup"] \in {"place"} \cup InShutdown => proc["sup"] = made
    /\ tpc["sup"] \in InShutdown => stop
    /\ tpc["sup"] \in {"backoff", "spawn", "popen"} =>
          \A i \in Pools : ~Live(i)

\* A pool ends by a crash unless stop() was called or serve has gone.
CrashInv ==
    /\ ~stop /\ tpc["main"] # "exited" => \A i \in Pools : ~term[i]
    /\ ~stop /\ tpc["main"] # "exited" /\ made \in Pools
          /\ pool[made] = "gone" => made <= crashes
    /\ tpc["sup"] \in {"backoff", "spawn", "popen"} => made <= crashes

\* A pool that is not dead has an owner that will shut it down.
OwnerInv ==
    /\ tpc["main"] \in {"join", "stopped"} \cup InShutdown => cur = 0
    /\ tpc["main"] \in InShutdown => proc["main"] # 0
    /\ tpc["main"] = "stopped" /\ joined => tpc["sup"] = "done"
    /\ tpc["main"] # "exited" /\ made \in Pools /\ Live(made) =>
          \/ cur = made
          \/ tpc["main"] \in InShutdown /\ proc["main"] = made
          \/ tpc["sup"] \in {"place"} \cup InShutdown

IInv == TypeOK /\ PoolInv /\ SupInv /\ CrashInv /\ OwnerInv

USE DEF Pools, Threads, Goto, Alive


\* The invariant is inductive: one case per action.
LEMMA StepInv ==
    ASSUME IInv, [Next]_vars
    PROVE  IInv'
<1> USE EmbeddedAssumption
<1> USE DEF IInv, TypeOK, MainPc, SupPc, PoolInv, SupInv, CrashInv, OwnerInv,
            Live, InShutdown, threadVars, poolVars
<1>1. CASE Start
  BY <1>1 DEF Start, NewPool
<1>2. CASE StopSet
  BY <1>2 DEF StopSet
<1>3. CASE StopTake
  BY <1>3 DEF StopTake
<1>4. CASE StopJoin
  BY <1>4 DEF StopJoin
<1>5. CASE ServeExit
  BY <1>5 DEF ServeExit
<1>6. ASSUME NEW t \in Threads, ShutdownSnap(t) PROVE IInv'
  <2>1. CASE Alive(proc[t])
    BY <1>6, <2>1 DEF ShutdownSnap
  <2>2. CASE ~Alive(proc[t])
    <3>1. KillGroup(proc[t]) /\ Goto(t, AfterShutdown(t)) /\ UNCHANGED desc
      BY <1>6, <2>2 DEF ShutdownSnap
    <3>2. TypeOK'
      BY <1>6, <3>1 DEF ShutdownSnap, KillGroup, AfterShutdown
    <3>3. PoolInv'
      BY <1>6, <3>1 DEF ShutdownSnap, KillGroup, AfterShutdown
    <3>4. SupInv'
      BY <1>6, <3>1 DEF ShutdownSnap, KillGroup, AfterShutdown
    <3>5. CrashInv'
      BY <1>6, <3>1 DEF ShutdownSnap, KillGroup, AfterShutdown
    <3>6. OwnerInv'
      BY <1>6, <3>1 DEF ShutdownSnap, KillGroup, AfterShutdown
    <3> QED
      BY <3>2, <3>3, <3>4, <3>5, <3>6
  <2> QED
    BY <2>1, <2>2
<1>7. ASSUME NEW t \in Threads, ShutdownSignal(t) PROVE IInv'
  BY <1>7 DEF ShutdownSignal
<1>8. ASSUME NEW t \in Threads, ShutdownKill(t) PROVE IInv'
  BY <1>8 DEF ShutdownKill, KillGroup, AfterShutdown
<1>9. CASE SupLoop
  BY <1>9 DEF SupLoop
<1>10. CASE SupWait
  <2>1. CASE Alive(proc["sup"])
    BY <1>10, <2>1 DEF SupWait
  <2>2. CASE ~Alive(proc["sup"]) /\ stop
    BY <1>10, <2>2 DEF SupWait
  <2>3. CASE ~Alive(proc["sup"]) /\ ~stop
    <3>1. proc["sup"] = made /\ made \in Pools /\ tpc["main"] # "exited"
      BY <1>10, <2>3 DEF SupWait
    <3>2. KillGroup(made) /\ Goto("sup", "backoff")
      BY <1>10, <2>3, <3>1 DEF SupWait
    <3>3. pool[made] = "gone"
      BY <1>10, <2>3, <3>1 DEF SupWait
    <3>4. TypeOK'
      BY <1>10, <3>1, <3>2 DEF SupWait, KillGroup
    <3>5. PoolInv'
      BY <1>10, <3>1, <3>2 DEF SupWait, KillGroup
    <3>6. SupInv'
      BY <1>10, <2>3, <3>1, <3>2, <3>3 DEF SupWait, KillGroup
    <3>7. CrashInv' /\ OwnerInv'
      BY <1>10, <2>3, <3>1, <3>2, <3>3 DEF SupWait, KillGroup
    <3> QED
      BY <3>4, <3>5, <3>6, <3>7
  <2> QED
    BY <2>1, <2>2, <2>3
<1>11. CASE SupBackoff
  BY <1>11 DEF SupBackoff
<1>12. CASE SupSpawn
  BY <1>12 DEF SupSpawn
<1>13. CASE SupPlace
  BY <1>13 DEF SupPlace
<1>14. CASE SupPopen
  BY <1>14 DEF SupPopen, NewPool
<1>15. CASE SupPopenFails
  BY <1>15 DEF SupPopenFails
<1>16. ASSUME NEW i \in Pools, PoolArm(i) PROVE IInv'
  BY <1>16 DEF PoolArm
<1>17. ASSUME NEW i \in Pools, ParentDeath(i) PROVE IInv'
  BY <1>17 DEF ParentDeath
<1>18. ASSUME NEW i \in Pools, HorseWatch(i) PROVE IInv'
  BY <1>18 DEF HorseWatch, HorseGone
<1>19. ASSUME NEW i \in Pools, WorkersExit(i) PROVE IInv'
  BY <1>19 DEF WorkersExit
<1>20. ASSUME NEW i \in Pools, PoolExit(i) PROVE IInv'
  BY <1>20 DEF PoolExit
<1>21. ASSUME NEW i \in Pools, WorkersStart(i) PROVE IInv'
  BY <1>21 DEF WorkersStart
<1>22. ASSUME NEW i \in Pools, HorseFork(i) PROVE IInv'
  BY <1>22 DEF HorseFork
<1>23. ASSUME NEW i \in Pools, HorseEnd(i) PROVE IInv'
  BY <1>23 DEF HorseEnd, HorseGone
<1>24. ASSUME NEW i \in Pools, PoolCrash(i) PROVE IInv'
  BY <1>24 DEF PoolCrash
<1>25. CASE UNCHANGED vars
  BY <1>25 DEF vars
<1> QED
  BY <1>1, <1>2, <1>3, <1>4, <1>5, <1>6, <1>7, <1>8, <1>9, <1>10, <1>11, <1>12, <1>13, <1>14, <1>15, <1>16, <1>17, <1>18, <1>19, <1>20, <1>21, <1>22, <1>23, <1>24, <1>25
     DEF Next, Shutdown, SupStep, PoolStep

\* The two safety properties follow from the invariant.
LEMMA InvImplies == IInv => OnePool /\ StoppedClean
BY EmbeddedAssumption
   DEF IInv, TypeOK, PoolInv, OwnerInv, Live, InShutdown, OnePool,
       StoppedClean

\* The invariant holds in every reachable state.
LEMMA Invariant == Spec => []IInv
<1>1. Init => IInv
  <2> SUFFICES ASSUME Init PROVE IInv
    OBVIOUS
  <2>1. tpc["main"] = "start" /\ tpc["sup"] = "off"
    BY DEF Init
  <2>2. tpc \in [Threads -> MainPc \cup SupPc]
    BY DEF Init, MainPc, SupPc
  <2>3. crashes \in 0 .. MaxCrashes /\ made \in 0 .. crashes + 1
    BY EmbeddedAssumption DEF Init
  <2>4. stop \in BOOLEAN /\ joined \in BOOLEAN /\ cur \in {0} \cup Pools
    BY DEF Init
  <2>5. /\ proc \in [Threads -> {0} \cup Pools]
        /\ pool \in [Pools -> {"none", "boot", "up", "gone"}]
    BY DEF Init
  <2>6. /\ desc \in [Threads -> BOOLEAN] /\ armed \in [Pools -> BOOLEAN]
        /\ term \in [Pools -> BOOLEAN] /\ workers \in [Pools -> BOOLEAN]
        /\ horse \in [Pools -> BOOLEAN]
    BY DEF Init
  <2>7. TypeOK
    BY <2>1, <2>2, <2>3, <2>5, <2>6, <2>4 DEF TypeOK, MainPc, SupPc
  <2>8. PoolInv /\ SupInv /\ CrashInv /\ OwnerInv
    BY <2>7, <2>1, EmbeddedAssumption
       DEF Init, TypeOK, PoolInv, SupInv, CrashInv, OwnerInv, Live, InShutdown
  <2> QED
    BY <2>7, <2>8 DEF IInv
<1>2. IInv /\ [Next]_vars => IInv'
  BY StepInv
<1> QED
  BY <1>1, <1>2, PTL DEF Spec

\* Every variable keeps its type, and a pool is only ever started for one that
\* died (_supervise), however often pools die.
THEOREM TypeCorrect == Spec => []TypeOK
<1>1. IInv => TypeOK
  BY DEF IInv
<1> QED
  BY <1>1, Invariant, PTL

\* At most one pool runs, and no worker of an earlier pool lives beside it:
\* _supervise kills the group of the dead pool before _spawn.
THEOREM AtMostOnePool == Spec => []OnePool
BY Invariant, InvImplies, PTL

\* A stop() that has joined the supervisor leaves no pool and no worker,
\* wherever in _supervise and _spawn it came.
THEOREM StopLeavesNothing == Spec => []StoppedClean
BY Invariant, InvImplies, PTL
=============================================================================
