-------------------------- MODULE JobStatus_proofs --------------------------
(***************************************************************************)
(* JobLifecycle implements JobStatus: what meta.json shows to a client     *)
(* that polls the book, for any number of pollers, worker slots, deploys   *)
(* and faults and one POST of the book at a time.                          *)
(*                                                                         *)
(* The argument.  Seven pieces of code write meta.json and only some of    *)
(* them hold dest/.lock.  A write fits the abstract status when it is of   *)
(* the generation POST accepted last and does not take success back.  The  *)
(* first follows from Counted: meta.json, a hash in flight and a working   *)
(* child are of that generation, so a report is too, also where the child  *)
(* has withdrawn meta.json and the report writes it anew.  The second      *)
(* follows from Finished: a book that is finished but has lost its         *)
(* documents (a POST that died after clear_downstream_artifacts) has       *)
(* nobody left who could report on it.                                     *)
(***************************************************************************)
EXTENDS JobLaunch_proofs

\* A success without documents is the leftover of a POST: nobody runs it.
Finished ==
    meta.st = "succeeded" /\ ~docs => ~InFlight /\ runLock = None

\* No slot and no hash in flight is ahead of meta.json.
Newest ==
    meta.st # "none" =>
      /\ \A w \in Workers : hgen[w] <= meta.gen
      /\ InFlight => rq.gen <= meta.gen

\* meta.json, a hash in flight and a working child are of the generation that
\* POST accepted last.
Counted ==
    /\ meta.st # "none" => meta.gen = accepted
    /\ InFlight => rq.gen = accepted
    /\ \A w \in Workers : cpc[w] \in Working => hgen[w] = accepted

\* A child that builds has written meta.json; only failures came after that.
Built ==
    \A w \in Workers :
        /\ cpc[w] \in {"build", "rendered"} =>
             meta.st \in {"running", "failed"} /\ meta.gen = hgen[w]
        /\ cpc[w] = "rendered" => docs

\* POST stamps the successor of the generation that is in meta.json.
Accepting(t) ==
    /\ apc[t] = "decide" /\ lst[t] \notin INFLIGHT_STATUSES => ~InFlight
    /\ apc[t] \in {"delete", "drop", "sweep", "cap", "clear", "stamp"} =>
         meta.gen = lmeta[t].gen
    /\ apc[t] \in {"delete", "drop"} /\ meta.st = "none" => ~InFlight
    /\ apc[t] = "enqueue" => meta.st # "succeeded"

\* A book that GET holds for a mark does not become finished.
Marking(t) == apc[t] \in GetLocked => meta.st # "succeeded"

StatusOK ==
    /\ Finished /\ Newest /\ Counted /\ Built
    /\ \A t \in Posters : Accepting(t)
    /\ \A t \in Getters : Marking(t)

\* What this module adds to JobInv.
StatusInv == races = {} => StatusOK

-----------------------------------------------------------------------------
(* What a step does to the hash and the slots *)

\* Only POST accepts a generation and puts a book in flight; a slot takes the
\* generation of the hash; .run.lock is taken for a book in flight.
Moves ==
    /\ accepted' = accepted
    /\ InFlight' => InFlight /\ rq'.gen = rq.gen
    /\ \A w \in Workers : \/ hgen'[w] \in {hgen[w], 0}
                          \/ InFlight /\ hgen'[w] = rq.gen
    /\ runLock' # None => runLock # None \/ InFlight

\* No build is started or handed over; who works has worked before, or starts
\* on the generation of the hash.
Builds ==
    /\ \A w \in Workers : cpc'[w] \in {"build", "rendered"} =>
         cpc'[w] = cpc[w] /\ hgen'[w] = hgen[w]
    /\ \A w \in Workers : cpc'[w] \in Working =>
         \/ cpc[w] \in Working /\ hgen'[w] = hgen[w]
         \/ InFlight /\ hgen'[w] = rq.gen

LEMMA RqMoves ==
    ASSUME TypeOK, Rq \/ Deploy
    PROVE  Moves
  <1>t. rq \in RqRecord
    BY DEF TypeOK
  <1>0. UNCHANGED <<hgen, runLock, accepted>>
    BY DEF Rq, StopIgnored, RqSchedule, RqMaintain, RqExpire, Deploy, lockVars,
       horseVars, envVars
  <1>1. InFlight' => InFlight /\ rq'.gen = rq.gen
    <2>1. CASE StopIgnored \/ Deploy
      BY <2>1 DEF StopIgnored, Deploy, InFlight, rqVars
    <2>2. CASE RqSchedule
      BY <1>t, <2>2 DEF RqSchedule, InFlight, INFLIGHT_STATUSES, RqRecord
    <2>3. CASE RqMaintain
      <3>1. InFlight
        BY <2>3 DEF RqMaintain, InFlight, INFLIGHT_STATUSES
      <3>2. CASE rq.left > 0
        BY <2>3, <3>1, <3>2 DEF RqMaintain
      <3>3. CASE ~(rq.left > 0)
        BY <1>t, <2>3, <3>1, <3>3 DEF RqMaintain, RqRecord
      <3> QED
        BY <3>2, <3>3
    <2>4. CASE RqExpire
      BY <2>4 DEF RqExpire, InFlight, INFLIGHT_STATUSES, NoRq
    <2> QED
      BY <2>1, <2>2, <2>3, <2>4 DEF Rq
  <1> QED
    BY <1>0, <1>1 DEF Moves

LEMMA HorseMoves ==
    ASSUME TypeOK, HorseOK, HashOK, NEW w \in Workers, Horse(w), races' = {}
    PROVE  Moves
  <1>t. rq \in RqRecord /\ hgen \in [Workers -> Nat]
    BY DEF TypeOK
  <1>0. accepted' = accepted
    BY DEF Horse, HorsePop, HorseStart, HorseLock, HorseAdmission, HorseSpawn,
       HorseKillChild, HorseFinish, HorseBusy, HorseReturn, HorseSave,
       HorseKilled, OnHorseKilled, WorkerCrash, StopHorse, ChildLocal, envVars
  <1>p. CASE HorsePop(w)
    <2>1. InFlight
      BY <1>p DEF HorsePop, HashOK, InFlight, INFLIGHT_STATUSES
    <2>2. rq'.gen = rq.gen /\ runLock' = runLock
      BY <1>p, <1>t DEF HorsePop, RqRecord, lockVars
    <2>3. hgen' = [hgen EXCEPT ![w] = rq.gen]
      BY <1>p DEF HorsePop
    <2> QED
      BY <1>0, <1>t, <2>1, <2>2, <2>3 DEF Moves
  <1>1. CASE HorseStart(w)
    <2>1. InFlight
      BY <1>1, AtWorkOwns DEF HorseStart, Engaged, Taken
    <2>2. rq'.gen = rq.gen /\ UNCHANGED <<runLock, hgen>>
      BY <1>1, <1>t DEF HorseStart, RqRecord, lockVars
    <2> QED
      BY <1>0, <2>1, <2>2 DEF Moves
  <1>2. CASE HorseSave(w)
    <2>1. PICK st, n : Save(w, st, n)
      BY <1>2 DEF HorseSave, SaveLost
    <2>2. OwnHash(w) /\ hpc[w] # "idle"
      BY <1>2, <2>1 DEF HorseSave, Save
    <2>3. InFlight /\ rq.gen = hgen[w]
      BY <2>2 DEF OwnHash, HorseOK, InFlight, INFLIGHT_STATUSES
    <2>4. rq'.gen = rq.gen /\ runLock' = runLock
      BY <1>2, <2>1, <2>3 DEF Save, HorseSave, lockVars
    <2>5. hgen' = [hgen EXCEPT ![w] = IF cpc[w] = "none" THEN 0 ELSE @]
      BY <2>1 DEF Save
    <2> QED
      BY <1>0, <1>t, <2>3, <2>4, <2>5 DEF Moves
  <1>3. CASE HorseKillChild(w)
    <2>1. UNCHANGED <<rq, hgen>> /\ runLock' = Release(runLock, w)
      BY <1>3 DEF HorseKillChild, ChildGone, ChildLocal, rqVars, horseVars
    <2> QED
      BY <1>0, <2>1 DEF Moves, Release, InFlight
  <1>4. CASE OnHorseKilled(w)
    <2>1. OwnHash(w)
      BY <1>4 DEF OnHorseKilled, ForeignHash
    <2>2. rq'.st = rq.st /\ rq'.gen = rq.gen /\ UNCHANGED <<hgen, runLock>>
      BY <1>4, <1>t, <2>1 DEF OnHorseKilled, RqRecord, lockVars
    <2> QED
      BY <1>0, <2>2 DEF Moves, InFlight
  <1>5. CASE WorkerCrash(w)
    <2>1. /\ UNCHANGED <<rq, runLock>>
          /\ hgen' = [hgen EXCEPT ![w] = IF cpc[w] = "none" THEN 0 ELSE @]
      BY <1>5 DEF WorkerCrash, rqVars
    <2> QED
      BY <1>0, <1>t, <2>1 DEF Moves, InFlight
  <1>6. CASE \/ HorseLock(w) \/ HorseAdmission(w) \/ HorseSpawn(w)
             \/ HorseFinish(w) \/ HorseBusy(w) \/ HorseReturn(w)
             \/ HorseKilled(w) \/ StopHorse(w)
    <2>1. UNCHANGED <<rq, runLock, hgen>>
      BY <1>6 DEF HorseLock, HorseAdmission, HorseSpawn, HorseFinish,
         HorseBusy, HorseReturn, HorseKilled, StopHorse, rqVars, lockVars
    <2> QED
      BY <1>0, <2>1 DEF Moves, InFlight
  <1> QED
    BY <1>p, <1>1, <1>2, <1>3, <1>4, <1>5, <1>6 DEF Horse

LEMMA ChildMoves ==
    ASSUME TypeOK, HorseOK, NEW w \in Workers, Child(w)
    PROVE  Moves
  <1>t. hgen \in [Workers -> Nat]
    BY DEF TypeOK
  <1>0. accepted' = accepted
    BY DEF Child, ChildLock, ChildOrphanExit, ChildBusy, ChildDest, ChildReuse,
       ChildStage, ChildRender, ChildDone, ChildExit, ChildRaise, ChildMark,
       ChildLocal, Write, envVars
  <1>1. CASE ChildLock(w)
    <2>1. Engaged(w)
      BY <1>1 DEF ChildLock, Engaged, Taken, Executing
    <2>2. InFlight /\ UNCHANGED <<rq, hgen>>
      BY <1>1, <2>1, AtWorkOwns DEF ChildLock, ChildLocal, rqVars, horseVars
    <2> QED
      BY <1>0, <2>2 DEF Moves, InFlight
  <1>2. CASE ~ChildLock(w)
    <2>1. /\ rq' = rq /\ runLock' \in {runLock, Release(runLock, w)}
          /\ hgen' \in {hgen, [hgen EXCEPT ![w] = 0]}
      BY <1>2, <1>t DEF Child, ChildOrphanExit, ChildBusy, ChildDest,
         ChildReuse, ChildStage, ChildRender, ChildDone, ChildExit, ChildRaise,
         ChildMark, ChildGone, ChildLocal, Write, rqVars, lockVars, horseVars
    <2> QED
      BY <1>0, <1>t, <2>1 DEF Moves, Release, InFlight
  <1> QED
    BY <1>1, <1>2

\* POST but for its stamp and its enqueue, GET, and the API's faults.
LEMMA ApiMoves ==
    ASSUME TypeOK, NEW t \in Api,
           \/ t \in Posters /\ Post(t) /\ ~PostStamp(t) /\ ~PostEnqueue(t)
           \/ t \in Getters /\ Get(t)
           \/ RedisDown(t) \/ ApiCrash(t)
    PROVE  Moves /\ UNCHANGED <<runLock, hgen, cpc>>
  <1>t. rq \in RqRecord
    BY DEF TypeOK
  <1>0. UNCHANGED <<runLock, hgen, cpc, accepted>>
    BY DEF Post, PostStart, PostStatus, ReadStatus, PostLook, PostCorpse,
       PostAbandon, PostStop, PostCancel, Continue, PostWaited, PostDeadline, PostLock, PostDecide,
       PostDelete, PostCap, PostClear, Get, GetStart,
       GetStatus, GetProbe, GetLock, GetMark, RedisDown, ApiCrash, OnlyReads,
       lockVars, horseVars, childVars, envVars
  <1>1. CASE t \in Posters /\ PostCancel(t)
    <2>1. rq' = rq \/ (rq'.st = "canceled" /\ rq'.gen = rq.gen)
      BY <1>t, <1>1 DEF PostCancel, RqRecord, rqVars
    <2> QED
      BY <1>0, <2>1 DEF Moves, InFlight, INFLIGHT_STATUSES
  <1>2. CASE t \in Posters /\ PostDelete(t)
    BY <1>0, <1>2 DEF PostDelete, Moves, InFlight, INFLIGHT_STATUSES, NoRq
  <1>3. CASE ~(t \in Posters /\ (PostCancel(t) \/ PostDelete(t)))
    <2>1. rq' = rq
      BY <1>3 DEF Post, PostStart, PostStatus, ReadStatus, PostLook,
         PostCorpse, PostAbandon, PostStop, PostWaited, PostDeadline, PostLock,
         PostDecide, PostCap, PostClear, Get, GetStart, GetStatus,
         GetProbe, GetLock, GetMark, RedisDown, ApiCrash, OnlyReads, rqVars
    <2> QED
      BY <1>0, <2>1 DEF Moves, InFlight
  <1> QED
    BY <1>0, <1>1, <1>2, <1>3


-----------------------------------------------------------------------------
(* What a step does to meta.json *)

\* mark_job_failed, by somebody entitled to it: success is not taken back, and
\* a missing file gets the accepted generation, which nobody is ahead of.
Fails ==
    /\ meta'.st = "failed" /\ meta.st # "succeeded"
    /\ meta'.gen = accepted
    /\ meta.st # "none" => meta'.gen = meta.gen
    /\ meta.st = "none" => /\ \A w \in Workers : hgen[w] <= meta'.gen
                           /\ InFlight => rq.gen <= meta'.gen
                           /\ InFlight \/ runLock # None

\* A report of the generation of the hash, or of the child that has .run.lock.
LEMMA ReportFails ==
    ASSUME TypeOK, Orderly, StatusOK, NEW g \in Nat, NEW e,
           meta' = Failed(g, e), meta' # meta,
           \/ InFlight /\ rq.gen = g
           \/ \E u \in Workers : cpc[u] \in Working /\ hgen[u] = g
    PROVE  Fails
  <1>0. HashOK /\ RunOK
    BY DEF Orderly
  <1>1. /\ meta'.st = "failed" /\ ~(docs /\ meta.st = "succeeded")
        /\ meta.st # "none" => meta'.gen = meta.gen
        /\ meta.st = "none" => meta'.gen = g
    BY DEF Failed, TERMINAL_STATUS
  <1>2. InFlight \/ runLock # None
    BY <1>0, Distinct DEF RunOK
  <1>3. meta.st # "succeeded"
    BY <1>1, <1>2 DEF StatusOK, Finished
  <1>4. /\ \A w \in Workers : hgen[w] <= g
        /\ InFlight => rq.gen <= g
    <2>1. CASE InFlight /\ rq.gen = g
      BY <1>0, <2>1 DEF HashOK
    <2>2. CASE \E u \in Workers : cpc[u] \in Working /\ hgen[u] = g
      BY <1>0, <2>2 DEF RunOK
    <2> QED
      BY <2>1, <2>2
  <1>5. g = accepted
    BY DEF StatusOK, Counted
  <1> QED
    BY <1>1, <1>2, <1>3, <1>4, <1>5 DEF StatusOK, Counted, Fails

\* A horse, its worker's handler, RQ: at most a report.
LEMMA HorseReports ==
    ASSUME TypeOK, Orderly, StatusOK, NEW w \in Workers, Horse(w), races' = {}
    PROVE  docs' = docs /\ (meta' = meta \/ Fails)
  <1>0. HorseOK /\ hgen[w] \in Nat /\ rq.gen \in Nat
    BY Numbers DEF Orderly
  <1>1. docs' = docs
    BY DEF Horse, HorsePop, HorseStart, HorseLock, HorseAdmission, HorseSpawn,
       HorseKillChild, HorseFinish, HorseBusy, HorseReturn, HorseSave,
       HorseKilled, OnHorseKilled, WorkerCrash, StopHorse, ChildLocal, diskVars
  <1>2. CASE HorseFinish(w) \/ HorseBusy(w)
    <2>1. hpc[w] = "watch" /\ meta' \in {meta, Failed(hgen[w], "other")}
      BY <1>2 DEF HorseFinish, HorseBusy
    <2>2. InFlight /\ rq.gen = hgen[w]
      BY <1>0, <2>1, AtWorkOwns DEF Engaged, Taken, Executing
    <2> QED
      BY <1>0, <1>1, <2>1, <2>2, ReportFails
  <1>3. CASE OnHorseKilled(w)
    <2>1. /\ OwnHash(w) /\ hpc[w] = "dead"
          /\ meta' \in {meta, Failed(hgen[w], "other")}
      BY <1>3 DEF OnHorseKilled, ForeignHash
    <2>2. InFlight /\ rq.gen = hgen[w]
      BY <1>0, <2>1 DEF OwnHash, HorseOK, InFlight, INFLIGHT_STATUSES
    <2> QED
      BY <1>0, <1>1, <2>1, <2>2, ReportFails
  <1>4. CASE ~(HorseFinish(w) \/ HorseBusy(w) \/ OnHorseKilled(w))
    BY <1>1, <1>4 DEF Horse, HorsePop, HorseStart, HorseLock, HorseAdmission, HorseSpawn,
       HorseKillChild, HorseReturn, HorseSave, HorseKilled, WorkerCrash,
       StopHorse, ChildLocal, diskVars
  <1> QED
    BY <1>2, <1>3, <1>4

\* A child that does not work in the book any more: at most a report.
LEMMA ChildReports ==
    ASSUME TypeOK, Orderly, StatusOK, NEW w \in Workers, Child(w),
           ~(ChildDest(w) \/ ChildStage(w) \/ ChildRender(w) \/ ChildDone(w))
    PROVE  docs' = docs /\ (meta' = meta \/ Fails)
  <1>1. docs' = docs
    BY DEF Child, ChildLock, ChildOrphanExit, ChildBusy, ChildReuse, ChildExit,
       ChildRaise, ChildMark, ChildLocal, diskVars
  <1>2. CASE ChildMark(w)
    <2>1. /\ cpc[w] \in Working /\ hgen[w] \in Nat
          /\ meta' = Failed(hgen[w], "other")
      BY <1>2, Numbers DEF ChildMark, Working
    <2> QED
      BY <1>1, <2>1, ReportFails
  <1>3. CASE ~ChildMark(w)
    BY <1>1, <1>3 DEF Child, ChildLock, ChildOrphanExit, ChildBusy, ChildReuse,
       ChildExit, ChildRaise, ChildLocal, diskVars
  <1> QED
    BY <1>2, <1>3

\* queue_lost.
LEMMA MarkFails ==
    ASSUME Orderly, StatusOK, NEW t \in Getters, GetMark(t)
    PROVE  docs' = docs /\ (meta' = meta \/ Fails)
  <1>1. meta.st # "none" /\ meta.st # "succeeded"
    BY DEF Orderly, StatusOK, GetOK, Marking, GetMark, GetLocked
  <1>2. /\ docs' = docs /\ meta' = Failed(lmeta[t].gen, "queue_lost")
    BY DEF GetMark
  <1> QED
    BY <1>1, <1>2 DEF Failed, Fails, StatusOK, Counted

-----------------------------------------------------------------------------
(* The invariant *)

\* A step that moves hash and slots as Moves says and at most reports keeps
\* what is said of the book.
LEMMA ReportKeeps ==
    ASSUME TypeOK, TypeOK', StatusOK, Moves, docs' = docs,
           meta' = meta \/ Fails, Builds
    PROVE  Finished' /\ Newest' /\ Counted' /\ Built'
  <1>t. /\ rq.gen \in Nat /\ meta.gen \in Nat /\ meta'.gen \in Nat
        /\ rq'.gen \in Nat
        /\ \A w \in Workers : hgen[w] \in Nat /\ hgen'[w] \in Nat
    BY Numbers DEF TypeOK, RqRecord, Meta
  <1>1. Finished'
    BY DEF StatusOK, Finished, Moves, Fails
  <1>2. Newest'
    <2>1. SUFFICES ASSUME meta'.st # "none" PROVE Newest'
      BY DEF Newest
    <2>2. /\ \A w \in Workers : hgen[w] <= meta'.gen
          /\ InFlight => rq.gen <= meta'.gen
      BY <2>1 DEF StatusOK, Newest, Fails
    <2>3. \A w \in Workers : hgen'[w] <= meta'.gen
      BY <1>t, <2>2 DEF Moves
    <2> QED
      BY <2>2, <2>3 DEF Moves, Newest
  <1>3. Built'
    BY DEF StatusOK, Built, Fails, Builds
  <1>4. Counted'
    <2>1. meta'.st # "none" => meta'.gen = accepted
      BY DEF StatusOK, Counted, Fails
    <2>2. InFlight' => rq'.gen = accepted
      BY DEF StatusOK, Counted, Moves
    <2>3. \A w \in Workers : cpc'[w] \in Working => hgen'[w] = accepted
      BY DEF StatusOK, Counted, Builds
    <2> QED
      BY <2>1, <2>2, <2>3 DEF Counted, Moves
  <1> QED
    BY <1>1, <1>2, <1>3, <1>4

\* It also keeps what a thread has found out that it does not touch.
LEMMA ReportAccepting ==
    ASSUME Orderly, Moves, NEW t \in Posters, Accepting(t),
           meta' = meta \/ Fails, apc'[t] = apc[t], lst'[t] = lst[t],
           lmeta'[t] = lmeta[t]
    PROVE  Accepting(t)'
  <1>0. PostOK(t)
    BY DEF Orderly
  <1>1. apc[t] \in {"sweep", "cap", "clear", "stamp"} => ~InFlight /\ runLock = None
    BY <1>0 DEF PostOK, Cleared, PostLocked, InFlight, INFLIGHT_STATUSES
  <1>2. apc[t] \in {"delete", "drop"} => runLock = None
    BY <1>0 DEF PostOK, PostLocked
  <1>3. apc[t] \in {"delete", "drop", "sweep", "cap", "clear", "stamp"} =>
          meta'.gen = meta.gen
    BY <1>1, <1>2 DEF Accepting, Fails
  <1>4. meta'.st # "succeeded" \/ meta' = meta
    BY DEF Fails
  <1>5. meta'.st = "none" => meta' = meta
    BY DEF Fails
  <1> QED
    BY <1>3, <1>4, <1>5 DEF Accepting, Moves

LEMMA ReportMarking ==
    ASSUME NEW t \in Getters, Marking(t), meta' = meta \/ Fails,
           apc'[t] = apc[t]
    PROVE  Marking(t)'
  BY DEF Marking, Fails


\* Together: a step of RQ, a horse or a child that at most reports.
LEMMA OthersKeep ==
    ASSUME TypeOK, TypeOK', Orderly, StatusOK, Moves, docs' = docs,
           meta' = meta \/ Fails, UNCHANGED <<apc, lst, lmeta>>, Builds
    PROVE  StatusOK'
  <1>1. Finished' /\ Newest' /\ Counted' /\ Built'
    BY ReportKeeps
  <1>2. \A t \in Posters : Accepting(t)'
    BY ReportAccepting DEF StatusOK
  <1>3. \A t \in Getters : Marking(t)'
    BY ReportMarking DEF StatusOK
  <1> QED
    BY <1>1, <1>2, <1>3 DEF StatusOK

\* A step of API thread t that at most reports: the others keep what they have
\* found out.
LEMMA ThreadKeeps ==
    ASSUME OnePoster, TypeOK, TypeOK', Orderly, StatusOK, NEW t \in Api, Moves,
           docs' = docs, meta' = meta \/ Fails, UNCHANGED <<hgen, cpc>>,
           \A u \in Api \ {t} : /\ apc'[u] = apc[u] /\ lst'[u] = lst[u]
                                /\ lmeta'[u] = lmeta[u],
           t \in Posters => Accepting(t)', t \in Getters => Marking(t)'
    PROVE  StatusOK'
  <1>1. Finished' /\ Newest' /\ Counted' /\ Built'
    BY ReportKeeps DEF Builds
  <1>2. ASSUME NEW u \in Posters PROVE Accepting(u)'
    <2>1. CASE u = t
      BY <2>1
    <2>2. CASE u # t
      BY <2>2, ReportAccepting, Distinct DEF StatusOK
    <2> QED
      BY <2>1, <2>2
  <1>3. ASSUME NEW u \in Getters PROVE Marking(u)'
    <2>1. CASE u = t
      BY <2>1
    <2>2. CASE u # t
      BY <2>2, ReportMarking, Distinct DEF StatusOK
    <2> QED
      BY <2>1, <2>2
  <1> QED
    BY <1>1, <1>2, <1>3 DEF StatusOK

\* The steps at which a thread has concluded nothing.
LEMMA NothingAccepted ==
    ASSUME NEW t,
           apc'[t] \notin {"decide", "delete", "drop", "sweep", "cap", "clear",
                           "stamp", "enqueue"}
    PROVE  Accepting(t)'
  BY DEF Accepting

\* What a request does to the other threads.
Alone(t) == \A u \in Api \ {t} : /\ apc'[u] = apc[u] /\ lst'[u] = lst[u]
                                 /\ lmeta'[u] = lmeta[u]

LEMMA ApiAlone ==
    ASSUME TypeOK, NEW t \in Api,
           \/ t \in Posters /\ Post(t)
           \/ t \in Getters /\ Get(t)
           \/ RedisDown(t) \/ ApiCrash(t)
    PROVE  Alone(t)
  <1>t. /\ apc \in [Api -> {"idle"} \cup PostPc \cup GetPc]
        /\ lst \in [Api -> RqStatus] /\ lmeta \in [Api -> Meta]
    BY DEF TypeOK
  <1>1. CASE t \in Posters /\ Post(t)
    <2>1. CASE Respond(t) \/ \E pc, m : Continue(t, pc, m)
      BY <1>t, <2>1 DEF Alone, Goto, Continue, Respond
    <2>2. CASE PostStatus(t) \/ PostStop(t)
      BY <1>t, <2>1, <2>2 DEF Alone, PostStatus, PostStop, ReadStatus, Goto
    <2>3. CASE \/ PostLook(t) \/ PostCorpse(t) \/ PostAbandon(t)
               \/ PostWaited(t) \/ PostDeadline(t) \/ PostDecide(t)
      <3>1. Respond(t) \/ \E pc, m : Continue(t, pc, m)
        BY <2>3 DEF PostLook, PostCorpse, PostAbandon, PostWaited,
           PostDeadline, PostDecide, LiveJob
      <3> QED
        BY <2>1, <3>1
    <2>4. CASE \/ PostStart(t) \/ PostCancel(t) \/ PostDelete(t)
               \/ PostClear(t) \/ PostStamp(t)
      BY <1>t, <2>4 DEF Alone, PostStart, PostCancel, PostDelete, PostClear,
         PostStamp, Goto
    <2>5. CASE PostLock(t) \/ PostCap(t) \/ PostEnqueue(t)
      BY <1>t, <2>1, <2>5 DEF Alone, PostLock, PostCap, PostEnqueue, Goto
    <2> QED
      BY <1>1, <2>2, <2>3, <2>4, <2>5 DEF Post
  <1>2. CASE t \in Getters /\ Get(t)
    BY <1>t, <1>2 DEF Alone, Get, GetStart, GetStatus, GetProbe, GetLock,
       GetMark, Goto, Continue, Respond
  <1>3. CASE RedisDown(t) \/ ApiCrash(t)
    BY <1>t, <1>3 DEF Alone, RedisDown, ApiCrash, LiveJob, Continue, Goto,
       Respond
  <1> QED
    BY <1>1, <1>2, <1>3

\* GET, and the API's faults.
LEMMA GetKeeps ==
    ASSUME OnePoster, TypeOK, TypeOK', Orderly, StatusOK, NEW t \in Api,
           (t \in Getters /\ Get(t)) \/ RedisDown(t) \/ ApiCrash(t)
    PROVE  StatusOK' /\ (meta' = meta \/ Fails)
  <1>t. apc \in [Api -> {"idle"} \cup PostPc \cup GetPc]
    BY DEF TypeOK
  <1>0. Moves /\ Alone(t) /\ UNCHANGED <<hgen, cpc>>
    BY ApiMoves, ApiAlone
  <1>1. CASE t \in Getters /\ GetMark(t)
    <2>1. docs' = docs /\ (meta' = meta \/ Fails)
      BY <1>1, MarkFails
    <2>2. apc'[t] = "idle" /\ t \notin Posters
      BY <1>t, <1>1, LifecycleAssumption DEF GetMark, Respond
    <2> QED
      BY <1>0, <1>1, <2>1, <2>2, ThreadKeeps DEF Alone, Marking, GetLocked
  <1>2. CASE t \in Getters /\ Get(t) /\ ~GetMark(t)
    <2>1. UNCHANGED <<meta, docs>>
      BY <1>2 DEF Get, GetStart, GetStatus, GetProbe, GetLock, OnlyReads,
         diskVars
    <2>2. Marking(t)'
      <3>1. \/ apc'[t] \notin GetLocked
            \/ apc[t] \in GetLocked
            \/ meta.st \in {"queued", "running"}
        BY <1>t, <1>2 DEF Get, GetStart, GetStatus, GetProbe, GetLock, Goto,
           Continue, Respond, GetLocked
      <3> QED
        BY <1>2, <2>1, <3>1 DEF Marking, StatusOK
    <2>3. t \notin Posters
      BY <1>2, LifecycleAssumption
    <2> QED
      BY <1>0, <2>1, <2>2, <2>3, ThreadKeeps DEF Alone
  <1>3. CASE RedisDown(t) \/ ApiCrash(t)
    <2>1. UNCHANGED <<meta, docs>> /\ apc'[t] \in {"idle", "stop"}
      BY <1>t, <1>3 DEF RedisDown, ApiCrash, LiveJob, Continue, Goto, Respond,
         diskVars
    <2>2. Accepting(t)' /\ Marking(t)'
      BY <2>1, NothingAccepted DEF Marking, GetLocked
    <2> QED
      BY <1>0, <2>1, <2>2, ThreadKeeps DEF Alone
  <1> QED
    BY <1>1, <1>2, <1>3 DEF Get


\* POST before it clears, stamps and enqueues.
LEMMA PostKeeps ==
    ASSUME OnePoster, TypeOK, TypeOK', Orderly, StatusOK, NEW t \in Posters,
           Post(t), ~(PostClear(t) \/ PostStamp(t) \/ PostEnqueue(t))
    PROVE  StatusOK' /\ meta' = meta
  <1>t. /\ apc \in [Api -> {"idle"} \cup PostPc \cup GetPc] /\ t \in Api
        /\ lst \in [Api -> RqStatus] /\ lmeta \in [Api -> Meta]
    BY Distinct DEF TypeOK
  <1>0. Moves /\ Alone(t) /\ UNCHANGED <<hgen, cpc>> /\ t \notin Getters
    BY <1>t, ApiMoves, ApiAlone, LifecycleAssumption
  <1>1. UNCHANGED <<meta, docs>>
    BY DEF Post, PostStart, PostStatus, ReadStatus, PostLook, PostCorpse,
       PostAbandon, PostStop, PostCancel, Continue, PostWaited, PostDeadline, PostLock, PostDecide,
       PostDelete, PostCap, OnlyReads, diskVars
  <1>2. Accepting(t)'
    <2>0. Accepting(t) /\ PostOK(t)
      BY DEF StatusOK, Orderly
    <2>1. CASE Respond(t)
      BY <1>t, <2>1, NothingAccepted DEF Respond
    <2>2. CASE \E pc \in {"corpse", "abandon", "lock", "waitfail", "stop"} :
               \E m : Continue(t, pc, m)
      BY <1>t, <2>2, NothingAccepted DEF Continue, Goto
    <2>3. CASE PostStatus(t)
      <3>1. CASE ReadStatus(t, "status3", "decide")
        <4>1. /\ apc'[t] = "decide" /\ lst'[t] = rq.st /\ rq' = rq
          BY <1>t, <3>1 DEF ReadStatus, Goto, rqVars
        <4> QED
          BY <4>1 DEF Accepting, InFlight
      <3>2. CASE ~ReadStatus(t, "status3", "decide")
        <4>1. apc'[t] \in {"look", "corpse2", "abandon2"}
          BY <1>t, <2>3, <3>2 DEF PostStatus, ReadStatus, Goto
        <4> QED
          BY <4>1, NothingAccepted
      <3> QED
        BY <3>1, <3>2
    <2>4. CASE \/ PostLook(t) \/ PostCorpse(t) \/ PostAbandon(t)
               \/ PostWaited(t) \/ PostDeadline(t)
      <3>1. \/ Respond(t)
            \/ \E pc \in {"corpse", "abandon", "lock", "waitfail", "stop"} :
               \E m : Continue(t, pc, m)
        BY <2>4 DEF PostLook, PostCorpse, PostAbandon, PostWaited,
           PostDeadline, LiveJob
      <3> QED
        BY <2>1, <2>2, <3>1
    <2>5. CASE PostStart(t) \/ PostStop(t) \/ PostCancel(t) \/ PostLock(t)
      <3>1. apc'[t] \in {"post", "cancel", "waitstop", "status3", "idle"}
        BY <1>t, <2>5 DEF PostStart, PostStop, ReadStatus, Continue, PostCancel,
           PostLock, Goto, Respond
      <3> QED
        BY <3>1, NothingAccepted
    <2>6. CASE PostDecide(t) /\ ~Respond(t)
      <3>1. Continue(t, "delete", meta) /\ rq' = rq
        BY <2>6 DEF PostDecide, OnlyReads, rqVars
      <3>2. meta.st = "none" => lst[t] \notin INFLIGHT_STATUSES
        BY <2>6 DEF PostDecide, queue_lost_corpse, started_without_child,
           recorded_failure_clear, recorded_failure
      <3>3. apc[t] = "decide"
        BY <2>6 DEF PostDecide
      <3>4. apc'[t] = "delete" /\ lmeta'[t] = meta
        BY <1>t, <3>1 DEF Continue, Goto
      <3> QED
        BY <1>1, <2>0, <3>1, <3>2, <3>3, <3>4 DEF Accepting, InFlight
    <2>7. CASE PostDelete(t) \/ (PostCap(t) /\ ~Respond(t))
      <3>1. /\ apc[t] \in {"delete", "drop", "sweep", "cap"} /\ lmeta' = lmeta
            /\ \/ apc'[t] \in {"sweep", "cap", "clear"}
               \/ apc[t] = "delete" /\ apc'[t] = "drop" /\ rq' = rq
        BY <1>t, <2>7 DEF PostDelete, PostCap, Goto
      <3> QED
        BY <1>1, <2>0, <3>1 DEF Accepting, InFlight
    <2> QED
      BY <2>1, <2>3, <2>4, <2>5, <2>6, <2>7 DEF Post
  <1> QED
    BY <1>t, <1>0, <1>1, <1>2, ThreadKeeps DEF Alone

\* clear_downstream_artifacts: no run is left that could miss the documents.
LEMMA ClearKeeps ==
    ASSUME OnePoster, TypeOK, Orderly, StatusOK, NEW t \in Posters,
           PostClear(t)
    PROVE  StatusOK' /\ meta' = meta /\ accepted' = accepted
  <1>t. /\ apc \in [Api -> {"idle"} \cup PostPc \cup GetPc] /\ t \in Api
    BY Distinct DEF TypeOK
  <1>1. /\ apc[t] = "clear" /\ apc'[t] = "stamp" /\ ~docs'
        /\ UNCHANGED <<meta, rq, runLock, hgen, cpc, lst, lmeta, accepted>>
        /\ \A u \in Api \ {t} : apc'[u] = apc[u]
    BY <1>t DEF PostClear, Goto, rqVars, lockVars, horseVars, childVars,
       envVars
  <1>2. ~InFlight /\ runLock = None /\ RunOK
    BY <1>1 DEF Orderly, PostOK, Cleared, PostLocked, InFlight,
       INFLIGHT_STATUSES
  <1>3. \A w \in Workers : cpc[w] \notin Working
    BY <1>2, Distinct DEF RunOK
  <1>4. Finished' /\ Newest' /\ Counted'
    BY <1>1, <1>2 DEF StatusOK, Finished, Newest, Counted, InFlight
  <1>5. Built'
    BY <1>1, <1>3 DEF Built, Working, InPipeline
  <1>6. \A u \in Posters : Accepting(u)'
    BY <1>1 DEF StatusOK, Accepting, OnePoster
  <1>7. \A u \in Getters : Marking(u)'
    BY <1>1, Distinct, LifecycleAssumption DEF StatusOK, Marking
  <1> QED
    BY <1>1, <1>4, <1>5, <1>6, <1>7 DEF StatusOK

\* The stamp: the successor of the generation meta.json has.
LEMMA StampKeeps ==
    ASSUME OnePoster, IInv, Orderly, StatusOK, NEW t \in Posters, PostStamp(t),
           races' = {}
    PROVE  /\ StatusOK'
           /\ meta'.st = "queued" /\ meta'.gen = meta.gen + 1
           /\ accepted' = meta'.gen
  <1>t. /\ apc \in [Api -> {"idle"} \cup PostPc \cup GetPc] /\ t \in Api
        /\ meta.gen \in Nat /\ \A w \in Workers : hgen[w] \in Nat
    BY Distinct, Numbers DEF IInv, TypeOK
  <1>1. /\ apc[t] = "stamp" /\ apc'[t] = "enqueue"
        /\ UNCHANGED <<rq, runLock, hgen, cpc, lst, lmeta>>
        /\ \A u \in Api \ {t} : apc'[u] = apc[u]
        /\ meta'.st = "queued" /\ meta'.gen = lmeta[t].gen + 1
        /\ accepted' = meta'.gen
        /\ \A w \in Workers : ~(hgen[w] > lmeta[t].gen)
    BY <1>t DEF PostStamp, Goto, rqVars, lockVars, horseVars, childVars
  <1>2. ~InFlight /\ runLock = None /\ RunOK
    BY <1>1 DEF Orderly, PostOK, Cleared, PostLocked, InFlight,
       INFLIGHT_STATUSES
  <1>3. \A w \in Workers : cpc[w] \notin Working
    BY <1>2, Distinct DEF RunOK
  <1>4. meta.gen = lmeta[t].gen
    BY <1>1 DEF StatusOK, Accepting
  <1>5. Finished' /\ Newest'
    <2>1. \A w \in Workers : hgen'[w] <= meta'.gen
      BY <1>t, <1>1, <1>4
    <2> QED
      BY <1>1, <1>2, <2>1 DEF Finished, Newest, InFlight
  <1>c. Counted'
    BY <1>1, <1>2, <1>3 DEF Counted, InFlight
  <1>6. Built'
    BY <1>1, <1>3 DEF Built, Working, InPipeline
  <1>7. \A u \in Posters : Accepting(u)'
    BY <1>1 DEF Accepting, OnePoster
  <1>8. \A u \in Getters : Marking(u)'
    BY <1>1 DEF Marking
  <1> QED
    BY <1>1, <1>4, <1>5, <1>c, <1>6, <1>7, <1>8 DEF StatusOK

\* The enqueue: the hash gets the generation POST has stamped.
LEMMA EnqueueKeeps ==
    ASSUME OnePoster, IInv, Orderly, StatusOK, NEW t \in Posters,
           PostEnqueue(t)
    PROVE  StatusOK' /\ meta' = meta /\ accepted' = accepted
  <1>t. /\ apc \in [Api -> {"idle"} \cup PostPc \cup GetPc] /\ t \in Api
        /\ meta.gen \in Nat /\ \A w \in Workers : hgen[w] \in Nat
        /\ lmeta[t].gen \in Nat
    BY Distinct, Numbers DEF IInv, TypeOK
  <1>1. /\ apc[t] = "enqueue" /\ apc'[t] = "idle"
        /\ UNCHANGED <<meta, docs, runLock, hgen, cpc, accepted>>
        /\ Alone(t)
    BY <1>t, ApiAlone DEF IInv, Post, PostEnqueue, Respond, diskVars, horseVars,
       childVars, envVars
  <1>2. /\ rq.st = "none" /\ meta.gen = lmeta[t].gen + 1
        /\ \A w \in Workers : hgen[w] <= lmeta[t].gen
        /\ meta.st # "succeeded"
    BY <1>1 DEF Orderly, PostOK, Cleared, StatusOK, Accepting
  <1>3. rq'.gen = meta.gen
    BY <1>2 DEF PostEnqueue
  <1>4. Finished' /\ Newest'
    <2>1. \A w \in Workers : hgen'[w] <= meta'.gen
      BY <1>t, <1>1, <1>2
    <2> QED
      BY <1>t, <1>1, <1>2, <1>3, <2>1 DEF Finished, Newest
  <1>c. Counted'
    <2>1. meta.st # "none"
      BY <1>t, <1>2 DEF Orderly, HashOK
    <2> QED
      BY <1>1, <1>3, <2>1 DEF StatusOK, Counted
  <1>5. Built'
    BY <1>1 DEF StatusOK, Built
  <1>6. \A u \in Posters : Accepting(u)'
    BY <1>1, NothingAccepted DEF OnePoster
  <1>7. \A u \in Getters : Marking(u)'
    BY <1>1, Distinct, LifecycleAssumption DEF StatusOK, Marking, Alone
  <1> QED
    BY <1>1, <1>4, <1>c, <1>5, <1>6, <1>7 DEF StatusOK


\* While a child is at work in the book no thread has found out anything under
\* dest/.lock and no other child works.
LEMMA AloneInBook ==
    ASSUME IInv, Orderly, StatusOK, NEW w \in Workers,
           \/ cpc[w] \in InPipeline
           \/ cpc[w] = "run" /\ destLock = None,
           apc' = apc
    PROVE  /\ runLock = w /\ runLock # None
           /\ \A v \in Workers \ {w} : cpc[v] \notin Working
           /\ \A t \in Posters : Accepting(t)'
           /\ \A t \in Getters : Marking(t)'
           /\ meta.gen <= hgen[w]
           /\ \A v \in Workers : hgen[v] <= hgen[w]
           /\ InFlight => rq.gen <= hgen[w]
           /\ AtWork /\ hgen[w] = accepted
  <1>1. cpc[w] \in Working
    BY DEF Working
  <1>2. \A t \in Api : apc[t] \notin Locked
    BY Distinct DEF IInv, LockInv
  <1>3. \A t \in Posters : Accepting(t)'
    BY <1>2, NothingAccepted, Distinct DEF Locked, PostLocked
  <1>4. \A t \in Getters : Marking(t)'
    BY <1>2, Distinct DEF Locked, Marking
  <1>5. AtWork /\ hgen[w] = accepted
    BY <1>1 DEF StatusOK, Counted, AtWork
  <1> QED
    BY <1>1, <1>3, <1>4, <1>5, Distinct DEF Orderly, RunOK

\* invalidate_for_run.
LEMMA DestKeeps ==
    ASSUME IInv, Orderly, StatusOK, NEW w \in Workers, ChildDest(w)
    PROVE  /\ StatusOK' /\ accepted' = accepted
           /\ \/ meta' = meta
              \/ /\ AtWork /\ session_stale(meta)
                 /\ meta'.st = "none" /\ meta'.gen = 0
  <1>t. cpc \in [Workers -> ChildPc]
    BY DEF IInv, TypeOK
  <1>0. /\ cpc[w] = "run" /\ destLock = None /\ cpc'[w] = "inv"
        /\ \A v \in Workers \ {w} : cpc'[v] = cpc[v]
        /\ UNCHANGED <<rq, runLock, hgen, apc, accepted>>
    BY <1>t DEF ChildDest, rqVars, horseVars, apiVars, envVars
  <1>1. /\ \A v \in Workers \ {w} : cpc[v] \notin Working
        /\ \A t \in Posters : Accepting(t)'
        /\ \A t \in Getters : Marking(t)'
        /\ AtWork /\ hgen[w] = accepted
    BY <1>0, AloneInBook
  <1>2. \/ meta' = meta /\ docs' = docs
        \/ meta' = NoMeta /\ session_stale(meta)
    BY DEF ChildDest, IInv, TypeOK
  <1>3. Finished' /\ Newest'
    BY <1>0, <1>2 DEF StatusOK, Finished, Newest, InFlight, NoMeta
  <1>c. Counted'
    <2>1. \A v \in Workers : cpc'[v] \in Working => hgen[v] = accepted
      BY <1>0, <1>1
    <2> QED
      BY <1>0, <1>2, <2>1 DEF StatusOK, Counted, InFlight, NoMeta
  <1>4. Built'
    BY <1>0, <1>1 DEF Built, Working, InPipeline
  <1> QED
    BY <1>0, <1>1, <1>2, <1>3, <1>c, <1>4 DEF StatusOK, NoMeta

\* set_stage: the run of the generation meta.json has, or of a missing file.
LEMMA StageKeeps ==
    ASSUME IInv, Orderly, StatusOK, NEW w \in Workers, ChildStage(w)
    PROVE  /\ StatusOK'
           /\ meta.st # "succeeded" /\ meta'.st = "running"
           /\ AtWork /\ meta'.gen = accepted /\ accepted' = accepted
  <1>t. /\ cpc \in [Workers -> ChildPc] /\ meta.gen \in Nat
        /\ hgen[w] \in Nat
    BY Numbers DEF IInv, TypeOK
  <1>0. /\ cpc[w] \in InPipeline /\ cpc'[w] = "build"
        /\ (cpc[w] = "inv" /\ ~docs) \/ cpc[w] = "build"
        /\ \A v \in Workers \ {w} : cpc'[v] = cpc[v]
        /\ UNCHANGED <<docs, rq, runLock, hgen, apc, accepted>>
        /\ meta' = Written(w, "running")
    BY <1>t DEF ChildStage, Write, InPipeline, rqVars, lockVars, horseVars,
       apiVars, envVars
  <1>1. /\ runLock # None
        /\ \A v \in Workers \ {w} : cpc[v] \notin Working
        /\ \A t \in Posters : Accepting(t)'
        /\ \A t \in Getters : Marking(t)'
        /\ meta.gen <= hgen[w]
        /\ \A v \in Workers : hgen[v] <= hgen[w]
        /\ InFlight => rq.gen <= hgen[w]
        /\ AtWork /\ hgen[w] = accepted
    BY <1>0, AloneInBook
  <1>2. meta'.st = "running" /\ meta'.gen = hgen[w]
    <2>1. ~(meta.gen > hgen[w])
      BY <1>t, <1>1
    <2> QED
      BY <1>0, <2>1 DEF Written
  <1>3. meta.st # "succeeded"
    BY <1>0, <1>1 DEF StatusOK, Finished, Built
  <1>4. Counted'
    <2>1. \A v \in Workers : cpc'[v] \in Working => hgen[v] = accepted
      BY <1>0, <1>1
    <2> QED
      BY <1>0, <1>1, <1>2, <2>1 DEF StatusOK, Counted, InFlight
  <1>5. Finished' /\ Newest'
    BY <1>0, <1>1, <1>2 DEF Finished, Newest, InFlight
  <1>6. Built'
    BY <1>0, <1>1, <1>2 DEF Built, Working, InPipeline
  <1> QED
    BY <1>0, <1>1, <1>2, <1>3, <1>4, <1>5, <1>6 DEF StatusOK

\* The last document.
LEMMA RenderKeeps ==
    ASSUME IInv, Orderly, StatusOK, NEW w \in Workers, ChildRender(w)
    PROVE  StatusOK' /\ meta' = meta /\ accepted' = accepted
  <1>t. cpc \in [Workers -> ChildPc]
    BY DEF IInv, TypeOK
  <1>0. /\ cpc[w] = "build" /\ cpc'[w] = "rendered" /\ docs'
        /\ \A v \in Workers \ {w} : cpc'[v] = cpc[v]
        /\ UNCHANGED <<meta, rq, runLock, hgen, apc, accepted>>
    BY <1>t DEF ChildRender, rqVars, lockVars, horseVars, apiVars,
       envVars
  <1>1. /\ \A t \in Posters : Accepting(t)'
        /\ \A t \in Getters : Marking(t)'
    BY <1>0, AloneInBook DEF InPipeline
  <1>2. Finished' /\ Newest' /\ Built'
    BY <1>0 DEF StatusOK, Finished, Newest, Built, InFlight
  <1>3. Counted'
    <2>1. \A v \in Workers : cpc'[v] \in Working => cpc[v] \in Working
      BY <1>0 DEF Working, InPipeline
    <2> QED
      BY <1>0, <2>1 DEF StatusOK, Counted, InFlight
  <1> QED
    BY <1>0, <1>1, <1>2, <1>3 DEF StatusOK

\* The final meta.json.
LEMMA DoneKeeps ==
    ASSUME IInv, Orderly, StatusOK, NEW w \in Workers, ChildDone(w)
    PROVE  /\ StatusOK'
           /\ meta.st \in {"running", "failed"} /\ meta'.st = "succeeded"
           /\ AtWork /\ meta'.gen = accepted /\ accepted' = accepted
  <1>t. /\ cpc \in [Workers -> ChildPc] /\ meta.gen \in Nat
        /\ hgen[w] \in Nat
    BY Numbers DEF IInv, TypeOK
  <1>0. /\ cpc[w] = "rendered" /\ cpc'[w] = "done"
        /\ \A v \in Workers \ {w} : cpc'[v] = cpc[v]
        /\ UNCHANGED <<docs, rq, runLock, hgen, apc, accepted>>
        /\ meta' = Written(w, "succeeded")
    BY <1>t DEF ChildDone, Write, rqVars, lockVars, horseVars, apiVars,
       envVars
  <1>1. /\ \A v \in Workers \ {w} : cpc[v] \notin Working
        /\ \A t \in Posters : Accepting(t)'
        /\ \A t \in Getters : Marking(t)'
        /\ \A v \in Workers : hgen[v] <= hgen[w]
        /\ InFlight => rq.gen <= hgen[w]
        /\ AtWork /\ hgen[w] = accepted
    BY <1>0, AloneInBook DEF InPipeline
  <1>2. docs /\ meta.st \in {"running", "failed"} /\ meta.gen = hgen[w]
    BY <1>0 DEF StatusOK, Built
  <1>3. meta'.st = "succeeded" /\ meta'.gen = hgen[w]
    <2>1. ~(meta.gen > hgen[w])
      BY <1>t, <1>2
    <2> QED
      BY <1>0, <2>1 DEF Written
  <1>4. Finished' /\ Newest'
    BY <1>0, <1>1, <1>2, <1>3 DEF Finished, Newest, InFlight
  <1>c. Counted'
    <2>1. \A v \in Workers : cpc'[v] \in Working => hgen[v] = accepted
      BY <1>0, <1>1
    <2> QED
      BY <1>0, <1>1, <1>3, <2>1 DEF StatusOK, Counted, InFlight
  <1>5. Built'
    BY <1>0, <1>1 DEF Built, Working, InPipeline
  <1> QED
    BY <1>0, <1>1, <1>2, <1>3, <1>4, <1>c, <1>5 DEF StatusOK


\* A horse leaves the children of other slots alone and starts no work itself.
LEMMA HorseBuilds ==
    ASSUME TypeOK, NEW w \in Workers, Horse(w)
    PROVE  Builds
  <1>t. cpc \in [Workers -> ChildPc] /\ hgen \in [Workers -> Nat]
    BY DEF TypeOK
  <1>0. SUFFICES \A v \in Workers : cpc'[v] \in Working =>
                    cpc'[v] = cpc[v] /\ hgen'[v] = hgen[v]
    BY DEF Builds, Working, InPipeline
  <1>1. CASE HorsePop(w)
    BY <1>t, <1>1 DEF HorsePop, childVars, Working, InPipeline
  <1>2. CASE HorseSave(w) \/ WorkerCrash(w)
    <2>1. /\ hgen' = [hgen EXCEPT ![w] = IF cpc[w] = "none" THEN 0 ELSE @]
          /\ cpc' = cpc
      BY <1>2 DEF HorseSave, SaveLost, Save, WorkerCrash, childVars
    <2> QED
      BY <1>t, <2>1 DEF Working, InPipeline
  <1>3. CASE HorseKillChild(w) \/ HorseSpawn(w) \/ HorseFinish(w) \/ HorseBusy(w)
    <2>1. /\ \E pc \in {"killed", "boot", "none"} :
               cpc' = [cpc EXCEPT ![w] = pc]
          /\ hgen' = hgen
      BY <1>3 DEF HorseKillChild, ChildGone, ChildLocal, HorseSpawn,
         HorseFinish, HorseBusy, horseVars
    <2> QED
      BY <1>t, <2>1 DEF Working, InPipeline
  <1>4. CASE \/ HorseStart(w) \/ HorseLock(w) \/ HorseAdmission(w)
             \/ HorseReturn(w) \/ HorseKilled(w) \/ OnHorseKilled(w)
             \/ StopHorse(w)
    <2>1. UNCHANGED <<cpc, hgen>>
      BY <1>4 DEF HorseStart, HorseLock, HorseAdmission, HorseReturn,
         HorseKilled, OnHorseKilled, StopHorse, childVars
    <2> QED
      BY <2>1
  <1> QED
    BY <1>1, <1>2, <1>3, <1>4 DEF Horse

\* A child that does not write its own status starts work only at .run.lock.
LEMMA ChildBuilds ==
    ASSUME TypeOK, HorseOK, NEW w \in Workers, Child(w),
           ~(ChildDest(w) \/ ChildStage(w) \/ ChildRender(w) \/ ChildDone(w))
    PROVE  Builds
  <1>t. cpc \in [Workers -> ChildPc] /\ hgen \in [Workers -> Nat]
    BY DEF TypeOK
  <1>1. /\ \E pc \in {"run", "none", "busy", "exited", "raised"} :
             cpc' = [cpc EXCEPT ![w] = pc]
        /\ \E n : hgen' = [hgen EXCEPT ![w] = n]
    <2>1. \E pc \in {"run", "none", "busy", "exited", "raised"} :
             cpc' = [cpc EXCEPT ![w] = pc]
      BY DEF Child, ChildLock, ChildOrphanExit, ChildBusy, ChildReuse,
         ChildExit, ChildRaise, ChildMark, ChildGone
    <2>2. CASE ChildOrphanExit(w)
      BY <2>1, <2>2 DEF ChildOrphanExit
    <2>3. CASE ~ChildOrphanExit(w)
      <3>1. hgen' = hgen
        BY <2>3 DEF Child, ChildLock, ChildBusy, ChildReuse, ChildExit,
           ChildRaise, ChildMark, ChildLocal, horseVars
      <3>2. hgen = [hgen EXCEPT ![w] = hgen[w]]
        BY <1>t
      <3> QED
        BY <2>1, <3>1, <3>2
    <2> QED
      BY <2>2, <2>3
  <1>2. \A v \in Workers \ {w} : cpc'[v] = cpc[v] /\ hgen'[v] = hgen[v]
    BY <1>t, <1>1
  <1>3. cpc'[w] \notin {"build", "rendered"}
    BY <1>t, <1>1
  <1>4. CASE ChildLock(w)
    <2>1. Engaged(w) /\ hgen' = hgen
      BY <1>4 DEF ChildLock, ChildLocal, horseVars, Engaged, Taken, Executing
    <2>2. InFlight /\ hgen'[w] = rq.gen
      BY <2>1, AtWorkOwns
    <2> QED
      BY <1>2, <1>3, <2>2 DEF Builds
  <1>5. CASE ~ChildLock(w)
    <2>1. cpc'[w] \in Working => cpc[w] \in Working /\ hgen'[w] = hgen[w]
      BY <1>t, <1>5 DEF Child, ChildOrphanExit, ChildBusy, ChildReuse,
         ChildExit, ChildRaise, ChildMark, ChildGone, ChildLocal, horseVars,
         Working, InPipeline
    <2> QED
      BY <1>2, <1>3, <2>1 DEF Builds
  <1> QED
    BY <1>4, <1>5

-----------------------------------------------------------------------------
(* The refinement *)

\* What a step may show a client that polls.
Shown ==
    \/ meta'.st = meta.st /\ meta'.gen = meta.gen /\ accepted' = accepted
    \/ Status!Change

\* A report shows a failure, or nothing new.
LEMMA FailsShown ==
    ASSUME TypeOK, StatusOK, meta' = meta \/ Fails, accepted' = accepted
    PROVE  Shown
  <1>1. CASE meta' = meta
    BY <1>1 DEF Shown
  <1>2. CASE Fails /\ meta.st = "failed"
    BY <1>2 DEF Shown, Fails
  <1>3. CASE Fails /\ meta.st # "failed"
    <2>1. meta.st \in {"none", "queued", "running"}
      BY <1>3 DEF Fails, TypeOK, Meta, MetaStatus
    <2> QED
      BY <1>3, <2>1 DEF Fails, Shown, Status!Change, Status!Fail,
         Status!Belongs
  <1> QED
    BY <1>1, <1>2, <1>3

\* Outside the windows every step keeps the invariant and shows a step of the
\* abstract status.
LEMMA StatusStep ==
    ASSUME OnePoster, IInv, TypeOK', Orderly, StatusOK, Next, races' = {}
    PROVE  StatusOK' /\ Shown
  <1>0. TypeOK /\ Finished /\ HorseOK /\ HashOK
    BY DEF IInv, StatusOK, Orderly
  <1>1. ASSUME NEW t \in Posters, Post(t) PROVE StatusOK' /\ Shown
    <2>1. CASE PostStamp(t)
      BY <1>0, <2>1, StampKeeps DEF Shown, Status!Change, Status!Accept
    <2>2. CASE ~PostStamp(t)
      <3>1. CASE PostClear(t) \/ PostEnqueue(t)
        BY <1>0, <3>1, ClearKeeps, EnqueueKeeps DEF Shown
      <3>2. CASE ~(PostClear(t) \/ PostEnqueue(t))
        <4>1. accepted' = accepted
          BY <1>0, <1>1, <2>2, <3>2, ApiMoves, Distinct DEF Moves
        <4> QED
          BY <1>0, <1>1, <2>2, <3>2, <4>1, PostKeeps DEF Shown
      <3> QED
        BY <3>1, <3>2
    <2> QED
      BY <2>1, <2>2
  <1>2. ASSUME NEW t \in Api,
               (t \in Getters /\ Get(t)) \/ RedisDown(t) \/ ApiCrash(t)
        PROVE  StatusOK' /\ Shown
    <2>1. accepted' = accepted
      BY <1>0, <1>2, ApiMoves DEF Moves
    <2> QED
      BY <1>0, <1>2, <2>1, GetKeeps, FailsShown
  <1>3. ASSUME NEW w \in Workers, Horse(w) PROVE StatusOK' /\ Shown
    <2>1. UNCHANGED <<apc, lst, lmeta>>
      BY <1>3 DEF Horse, HorsePop, HorseStart, HorseLock, HorseAdmission, HorseSpawn,
         HorseKillChild, HorseFinish, HorseBusy, HorseReturn, HorseSave,
         HorseKilled, OnHorseKilled, WorkerCrash, StopHorse, ChildLocal,
         apiVars
    <2>2. Moves /\ docs' = docs /\ (meta' = meta \/ Fails) /\ Builds
      BY <1>0, <1>3, HorseMoves, HorseReports, HorseBuilds
    <2> QED
      BY <1>0, <2>1, <2>2, OthersKeep, FailsShown DEF Moves
  <1>4. ASSUME NEW w \in Workers, Child(w) PROVE StatusOK' /\ Shown
    <2>1. CASE ChildDest(w)
      BY <2>1, DestKeeps DEF Shown, Status!Change, Status!Withdraw
    <2>2. CASE ChildStage(w)
      BY <2>2, StageKeeps DEF Shown, Status!Change, Status!Run, Status!Belongs
    <2>3. CASE ChildRender(w)
      BY <2>3, RenderKeeps DEF Shown
    <2>4. CASE ChildDone(w)
      BY <2>4, DoneKeeps DEF Shown, Status!Change, Status!Succeed,
         Status!Belongs
    <2>5. CASE ~(ChildDest(w) \/ ChildStage(w) \/ ChildRender(w)
                 \/ ChildDone(w))
      <3>1. UNCHANGED <<apc, lst, lmeta>>
        BY <1>4, <2>5 DEF Child, ChildLock, ChildOrphanExit, ChildBusy,
           ChildReuse, ChildExit, ChildRaise, ChildMark, ChildLocal, apiVars
      <3>2. Moves /\ docs' = docs /\ (meta' = meta \/ Fails) /\ Builds
        BY <1>0, <1>4, <2>5, ChildMoves, ChildReports, ChildBuilds
      <3> QED
        BY <1>0, <3>1, <3>2, OthersKeep, FailsShown DEF Moves
    <2> QED
      BY <2>1, <2>2, <2>3, <2>4, <2>5
  <1>5. CASE Rq \/ Deploy
    <2>1. UNCHANGED <<meta, docs, apc, lst, lmeta, cpc, hgen>>
      BY <1>5 DEF Rq, StopIgnored, RqSchedule, RqMaintain, RqExpire, Deploy,
         diskVars, horseVars, childVars, apiVars
    <2>2. Moves /\ Builds
      BY <1>0, <1>5, <2>1, RqMoves DEF Builds, Working, InPipeline
    <2> QED
      BY <1>0, <2>1, <2>2, OthersKeep, FailsShown DEF Moves
  <1> QED
    BY <1>1, <1>2, <1>3, <1>4, <1>5, Distinct DEF Next

\* The inductive invariant of this module holds at the start and is kept.
LEMMA StatusInvariant ==
    ASSUME OnePoster
    PROVE  /\ Init => JobInv /\ StatusInv
           /\ JobInv /\ StatusInv /\ [Next]_vars => JobInv' /\ StatusInv'
  <1>1. Init => StatusInv
    <2> SUFFICES ASSUME Init PROVE StatusOK
      BY DEF StatusInv
    <2>1. Finished /\ Newest /\ Counted /\ Built
      BY DEF Init, NoMeta, NoRq, Finished, Newest, Counted, Built, InFlight,
         INFLIGHT_STATUSES, Working, InPipeline
    <2> QED
      BY <2>1, Distinct DEF Init, StatusOK, Accepting, Marking, GetLocked
  <1>2. JobInv /\ StatusInv /\ [Next]_vars => StatusInv'
    <2> SUFFICES ASSUME JobInv, StatusInv, [Next]_vars, races' = {}
                 PROVE  StatusOK'
      BY DEF StatusInv
    <2>1. races = {} /\ IInv /\ IInv' /\ Orderly /\ StatusOK
      BY JobInvariant, RacesStay DEF JobInv, OInv, StatusInv
    <2>2. CASE Next
      BY <2>1, <2>2, StatusStep DEF IInv
    <2>3. CASE UNCHANGED vars
      <3>1. UNCHANGED <<meta, docs, rq, runLock, hgen, cpc, apc, lst, lmeta>>
        BY <2>3 DEF vars, diskVars, rqVars, lockVars, horseVars, childVars,
           apiVars
      <3>2. Moves /\ Builds
        BY <2>3, <3>1 DEF Moves, Builds, InFlight, vars, envVars
      <3> QED
        BY <2>1, <3>1, <3>2, OthersKeep DEF IInv
    <2> QED
      BY <2>2, <2>3
  <1> QED
    BY <1>1, <1>2, JobInvariant

\* For any number of pollers, slots, deploys, retries and faults, and one POST
\* of the book at a time, JobLifecycle implements JobStatus until one of the
\* four windows of Races is met: whatever is written to meta.json is written for
\* the generation POST accepted last, also after its child has withdrawn the
\* file; a run and its success come from a child at work on that generation;
\* success is taken back by the next POST, or by that child when it is outdated,
\* although mark_job_failed is called by four processes without dest/.lock.
THEOREM StatusShown == OnePoster => (Spec => ShowsStatus)
  <1> SUFFICES ASSUME OnePoster PROVE Spec => ShowsStatus
    OBVIOUS
  <1>1. Init => Status!Init
    BY DEF Init, NoMeta, Status!Init
  <1>2. JobInv /\ StatusInv /\ [Next]_vars =>
          [Status!Next]_<<Status!shown, races # {}>>
    <2> SUFFICES ASSUME JobInv, StatusInv, [Next]_vars
                 PROVE  [Status!Next]_<<Status!shown, races # {}>>
      OBVIOUS
    <2>1. CASE races' # {}
      BY <2>1 DEF Status!Next
    <2>2. CASE UNCHANGED vars
      BY <2>2 DEF vars, diskVars, envVars, Status!shown
    <2>3. CASE Next /\ races' = {}
      <3>1. races = {} /\ IInv /\ IInv' /\ Orderly /\ StatusOK
        BY <2>3, JobInvariant, RacesStay DEF JobInv, OInv, StatusInv
      <3>2. Shown
        BY <2>3, <3>1, StatusStep DEF IInv
      <3> QED
        BY <2>3, <3>1, <3>2 DEF Shown, Status!Next, Status!shown
    <2> QED
      BY <2>1, <2>2, <2>3
  <1> QED
    BY <1>1, <1>2, StatusInvariant, PTL DEF Spec, ShowsStatus, Status!Spec
=============================================================================
