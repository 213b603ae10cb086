------------------------ MODULE JobLifecycle_proofs ------------------------
(***************************************************************************)
(* What TLAPS proves of JobLifecycle, for every set of requests, pollers   *)
(* and worker slots and every value of the bounds.                         *)
(***************************************************************************)
EXTENDS JobLifecycle, TLAPS

\* The API threads' part of TypeOK.
ApiType ==
    /\ apc \in [Api -> {"idle"} \cup PostPc \cup GetPc]
    /\ lst \in [Api -> RqStatus]
    /\ lmeta \in [Api -> Meta]
    /\ rebuild \in [Api -> BOOLEAN]
    /\ destLock \in {None} \cup Api \cup Workers

\* The rest of TypeOK.
JobType ==
    /\ meta \in Meta /\ docs \in BOOLEAN /\ version \in Nat
    /\ rq \in RqRecord /\ listed \in BOOLEAN /\ stopReq \in BOOLEAN
    /\ runLock \in {None} \cup Workers
    /\ horseLock \in {None} \cup Workers
    /\ horseRec \in Nat
    /\ hpc \in [Workers -> HorsePc]
    /\ hgen \in [Workers -> Nat]
    /\ hret \in [Workers -> {"none", "done", "retry", "known", "unknown"}]
    /\ cpc \in [Workers -> ChildPc]
    /\ cver \in [Workers -> Nat]
    /\ faults \in Nat
    /\ races \in SUBSET Races
    /\ accepted \in Nat

\* TypeOK is these two parts.
LEMMA TypeParts ==
    (TypeOK <=> ApiType /\ JobType) /\ (TypeOK' <=> ApiType' /\ JobType')
  BY DEF TypeOK, ApiType, JobType

\* A missing RQ hash has the record's type.
LEMMA NoRqType == NoRq \in RqRecord
  BY DEF NoRq, RqRecord, RqStatus

\* A missing meta.json has meta.json's type.
LEMMA NoMetaType == NoMeta \in Meta /\ NoMeta.gen = 0
  BY DEF NoMeta, Meta, MetaStatus

\* mark_job_failed leaves a meta.json of the right type.
LEMMA FailedType ==
    ASSUME meta \in Meta, NEW g \in Nat, NEW e \in {"queue_lost", "other"}
    PROVE  Failed(g, e) \in Meta
  BY DEF Failed, Meta, MetaStatus

\* _write_meta leaves a meta.json of the right type.
LEMMA WrittenType ==
    ASSUME JobType, NEW w \in Workers, NEW s \in {"running", "succeeded"}
    PROVE  Written(w, s) \in Meta /\ Stamp(w) \in Nat
  BY DEF JobType, Written, Stamp, Meta, MetaStatus

\* A request that ends keeps its thread's types.
LEMMA RespondType ==
    ASSUME ApiType, NEW t \in Api, Respond(t)
    PROVE  ApiType'
  BY NoMetaType DEF ApiType, Respond, Release, RqStatus

\* A request that goes on at a program counter keeps its thread's types.
LEMMA ContinueType ==
    ASSUME ApiType, NEW t \in Api, NEW pc \in PostPc \cup GetPc,
           NEW m \in Meta, Continue(t, pc, m)
    PROVE  ApiType'
  BY DEF ApiType, Continue, Goto, RqStatus

\* The decision on a live job ends or continues the request.
LEMMA LiveJobType ==
    ASSUME ApiType, NEW t \in Api, NEW m \in Meta, LiveJob(t, m)
    PROVE  ApiType'
  <1>1. "stop" \in PostPc \cup GetPc
    BY DEF PostPc
  <1>2. CASE Respond(t)
    BY <1>2, RespondType
  <1>3. CASE Continue(t, "stop", NoMeta)
    BY <1>1, <1>3, NoMetaType, ContinueType
  <1> QED
    BY <1>2, <1>3 DEF LiveJob

\* Steps that only read keep the type of everything but the thread.
LEMMA OnlyReadsType ==
    ASSUME JobType, OnlyReads
    PROVE  JobType'
  BY DEF JobType, OnlyReads, diskVars, rqVars, horseVars, childVars, envVars

\* POST keeps the types.
LEMMA PostType ==
    ASSUME TypeOK, NEW t \in Posters, Post(t)
    PROVE  TypeOK'
  <1> USE DEF Api
  <1>0. ApiType /\ JobType /\ t \in Api /\ NoMeta \in Meta
    BY TypeParts, NoMetaType
  <1> SUFFICES ApiType' /\ JobType'
    BY TypeParts
  <1>p. \A pc \in {"corpse", "abandon", "lock", "waitfail", "delete", "stop"} :
          pc \in PostPc \cup GetPc
    BY DEF PostPc
  <1>m. meta \in Meta /\ lmeta[t] \in Meta
    BY <1>0 DEF ApiType, JobType
  <1>1. CASE PostStart(t)
    BY <1>0, <1>1 DEF PostStart, Goto, ApiType, JobType, PostPc, diskVars,
       rqVars, lockVars, horseVars, childVars, envVars
  <1>2. CASE PostStatus(t)
    BY <1>0, <1>2 DEF PostStatus, ReadStatus, Goto, ApiType, JobType, PostPc,
       RqRecord, diskVars, rqVars, lockVars, horseVars, childVars, envVars
  <1>3. CASE PostLook(t)
    <2>1. OnlyReads
      BY <1>3 DEF PostLook
    <2>2. \/ Continue(t, "corpse", NoMeta) \/ Continue(t, "abandon", meta)
          \/ Continue(t, "lock", NoMeta) \/ Continue(t, "waitfail", meta)
          \/ LiveJob(t, meta)
      BY <1>3 DEF PostLook
    <2> QED
      BY <1>0, <1>p, <1>m, <2>1, <2>2, OnlyReadsType, ContinueType, LiveJobType
  <1>4. CASE PostCorpse(t)
    <2>1. OnlyReads /\ (Continue(t, "lock", NoMeta) \/ Respond(t))
      BY <1>4 DEF PostCorpse
    <2> QED
      BY <1>0, <1>p, <2>1, OnlyReadsType, ContinueType, RespondType
  <1>5. CASE PostAbandon(t)
    <2>1. OnlyReads /\ (Continue(t, "lock", NoMeta) \/ LiveJob(t, lmeta[t]))
      BY <1>5 DEF PostAbandon
    <2> QED
      BY <1>0, <1>p, <1>m, <2>1, OnlyReadsType, ContinueType, LiveJobType
  <1>6. CASE PostStop(t)
    <2>1. \/ ReadStatus(t, "stop", "cancel")
          \/ OnlyReads /\ Continue(t, "waitstop", NoMeta)
      BY <1>6 DEF PostStop
    <2>2. CASE ReadStatus(t, "stop", "cancel")
      BY <1>0, <2>2 DEF ReadStatus, Goto, ApiType, JobType, PostPc, RqRecord,
         diskVars, rqVars, lockVars, horseVars, childVars, envVars
    <2>3. CASE OnlyReads /\ Continue(t, "waitstop", NoMeta)
      <3>1. "waitstop" \in PostPc \cup GetPc
        BY DEF PostPc
      <3> QED
        BY <1>0, <2>3, <3>1, OnlyReadsType, ContinueType
    <2> QED
      BY <2>1, <2>2, <2>3
  <1>16. CASE PostCancel(t)
    <2>1. rq' \in {rq, [rq EXCEPT !.st = "canceled"]}
      BY <1>16 DEF PostCancel, rqVars
    <2>2. rq' \in RqRecord /\ listed' \in BOOLEAN /\ stopReq' \in BOOLEAN
      BY <1>0, <1>16, <2>1 DEF PostCancel, JobType, RqRecord, RqStatus, rqVars
    <2>3. races' \in SUBSET Races
      BY <1>0, <1>16 DEF PostCancel, JobType, Races
    <2>4. JobType'
      BY <1>0, <1>16, <2>2, <2>3 DEF PostCancel, JobType, diskVars, lockVars,
         horseVars, childVars
    <2> QED
      BY <1>0, <1>16, <2>4 DEF PostCancel, Goto, ApiType, PostPc, RqStatus,
         lockVars
  <1>7. CASE PostWaited(t)
    BY <1>0, <1>p, <1>7, OnlyReadsType, ContinueType DEF PostWaited
  <1>8. CASE PostDeadline(t)
    <2>1. OnlyReads /\ (Continue(t, "lock", NoMeta) \/ Respond(t))
      BY <1>8 DEF PostDeadline
    <2> QED
      BY <1>0, <1>p, <2>1, OnlyReadsType, ContinueType, RespondType
  <1>9. CASE PostLock(t)
    <2>1. OnlyReads
      BY <1>9 DEF PostLock
    <2>2. CASE Respond(t)
      BY <1>0, <2>1, <2>2, OnlyReadsType, RespondType
    <2>3. CASE destLock' = t /\ Goto(t, "status3")
               /\ UNCHANGED <<lst, lmeta, rebuild>>
      BY <1>0, <2>1, <2>3, OnlyReadsType DEF ApiType, Goto, PostPc
    <2> QED
      BY <1>9, <2>2, <2>3 DEF PostLock
  <1>10. CASE PostDecide(t)
    <2>1. OnlyReads /\ (Continue(t, "delete", meta) \/ Respond(t))
      BY <1>10 DEF PostDecide
    <2> QED
      BY <1>0, <1>p, <1>m, <2>1, OnlyReadsType, ContinueType, RespondType
  <1>11. CASE PostDelete(t)
    BY <1>0, <1>11, NoRqType DEF PostDelete, Goto, ApiType, JobType, PostPc,
       diskVars, lockVars, horseVars, childVars, envVars
  <1>12. CASE PostCap(t)
    <2>1. OnlyReads
      BY <1>12 DEF PostCap, OnlyReads
    <2>2. CASE Respond(t)
      BY <1>0, <2>1, <2>2, OnlyReadsType, RespondType
    <2>3. CASE Goto(t, "clear") /\ UNCHANGED <<lst, lmeta, rebuild, destLock>>
      BY <1>0, <2>1, <2>3, OnlyReadsType DEF ApiType, Goto, PostPc
    <2> QED
      BY <1>12, <2>2, <2>3 DEF PostCap
  <1>13. CASE PostClear(t)
    BY <1>0, <1>13 DEF PostClear, Goto, ApiType, JobType, PostPc, rqVars,
       lockVars, horseVars, childVars, envVars
  <1>14. CASE PostStamp(t)
    <2>1. meta' \in Meta
      BY <1>m, <1>0, <1>14 DEF PostStamp, Meta, MetaStatus, ApiType,
         stale_from_meta
    <2>2. races' \in SUBSET Races /\ accepted' \in Nat
      BY <1>14, <1>0, <1>m DEF PostStamp, JobType, Races, Meta
    <2> QED
      BY <1>0, <1>14, <2>1, <2>2 DEF PostStamp, Goto, ApiType, JobType,
         PostPc, rqVars, lockVars, horseVars, childVars
  <1>15. CASE PostEnqueue(t)
    <2>1. ApiType'
      BY <1>0, <1>15, RespondType DEF PostEnqueue
    <2>2. rq' \in RqRecord /\ listed' \in BOOLEAN
      <3>1. lmeta[t].gen + 1 \in Nat /\ RetryOnLost \in Nat
        BY <1>m, LifecycleAssumption DEF Meta
      <3>2. [st |-> "queued", gen |-> lmeta[t].gen + 1, left |-> RetryOnLost,
             by |-> None] \in RqRecord
        BY <3>1 DEF RqRecord, RqStatus
      <3> QED
        BY <1>0, <1>15, <3>2 DEF PostEnqueue, JobType
    <2>3. JobType'
      BY <1>0, <1>15, <2>2 DEF PostEnqueue, JobType, diskVars, horseVars,
         childVars, envVars
    <2> QED
      BY <2>1, <2>3
  <1> QED
    BY <1>1, <1>2, <1>3, <1>4, <1>5, <1>6, <1>7, <1>8, <1>9, <1>10, <1>11,
       <1>12, <1>13, <1>14, <1>15, <1>16 DEF Post

\* GET, a Redis outage and an API exit keep the types.
LEMMA GetType ==
    ASSUME TypeOK, NEW t \in Api, Get(t) \/ RedisDown(t) \/ ApiCrash(t)
    PROVE  TypeOK'
  <1>0. ApiType /\ JobType /\ NoMeta \in Meta
    BY TypeParts, NoMetaType
  <1> SUFFICES ApiType' /\ JobType'
    BY TypeParts
  <1>p. \A pc \in {"gprobe", "gstatus2", "gprobe2", "glock", "gprobe3",
                   "gmark"} : pc \in PostPc \cup GetPc
    BY DEF GetPc
  <1>m. meta \in Meta /\ lmeta[t] \in Meta
    BY <1>0 DEF ApiType, JobType
  <1>1. CASE GetStart(t)
    BY <1>0, <1>1 DEF GetStart, Goto, ApiType, JobType, GetPc, diskVars,
       rqVars, lockVars, horseVars, childVars, envVars
  <1>2. CASE GetStatus(t)
    <2>1. OnlyReads
      BY <1>2 DEF GetStatus
    <2>2. \/ Continue(t, "glock", NoMeta) \/ Continue(t, "gprobe", lmeta[t])
          \/ Continue(t, "gprobe2", NoMeta) \/ Continue(t, "gmark", lmeta[t])
          \/ Continue(t, "gprobe3", lmeta[t]) \/ Respond(t)
      BY <1>2 DEF GetStatus
    <2> QED
      BY <1>0, <1>p, <1>m, <2>1, <2>2, OnlyReadsType, ContinueType, RespondType
  <1>3. CASE GetProbe(t)
    <2>1. OnlyReads
      BY <1>3 DEF GetProbe
    <2>2. PICK m \in Meta :
             \/ Continue(t, "gstatus2", NoMeta) \/ Continue(t, "glock", NoMeta)
             \/ Continue(t, "gmark", m) \/ Respond(t)
      BY <1>3, <1>m DEF GetProbe
    <2> QED
      BY <1>0, <1>p, <2>1, <2>2, OnlyReadsType, ContinueType, RespondType
  <1>4. CASE GetLock(t)
    <2>1. OnlyReads
      BY <1>4 DEF GetLock
    <2>2. CASE Respond(t)
      BY <1>0, <2>1, <2>2, OnlyReadsType, RespondType
    <2>3. CASE /\ destLock' = t /\ Goto(t, "gstatus3")
               /\ lmeta' = [lmeta EXCEPT ![t] = meta]
               /\ UNCHANGED <<lst, rebuild>>
      BY <1>0, <1>m, <2>1, <2>3, OnlyReadsType DEF ApiType, Goto, GetPc
    <2> QED
      BY <1>4, <2>2, <2>3 DEF GetLock
  <1>5. CASE GetMark(t)
    <2>1. ApiType'
      BY <1>0, <1>5, RespondType DEF GetMark
    <2>2. meta' \in Meta
      <3>1. lmeta[t].gen \in Nat
        BY <1>m DEF Meta
      <3> QED
        BY <1>5, <1>m, <3>1, FailedType DEF GetMark
    <2> QED
      BY <1>0, <1>5, <2>1, <2>2 DEF GetMark, JobType, rqVars, horseVars,
         childVars, envVars
  <1>6. CASE RedisDown(t)
    <2>1. ApiType'
      BY <1>0, <1>m, <1>6, RespondType, LiveJobType DEF RedisDown
    <2> QED
      BY <1>0, <1>6, <2>1 DEF RedisDown, JobType, diskVars, rqVars, horseVars,
         childVars
  <1>7. CASE ApiCrash(t)
    <2>1. ApiType'
      BY <1>0, <1>7, RespondType DEF ApiCrash
    <2> QED
      BY <1>0, <1>7, <2>1 DEF ApiCrash, JobType, diskVars, rqVars, horseVars,
         childVars
  <1> QED
    BY <1>1, <1>2, <1>3, <1>4, <1>5, <1>6, <1>7 DEF Get

\* What RQ stores when a slot is done has the record's type.
LEMMA SaveType ==
    ASSUME JobType, NEW w \in Workers, NEW st \in RqStatus, NEW n \in Nat,
           Save(w, st, n)
    PROVE  /\ rq' \in RqRecord /\ listed' \in BOOLEAN
           /\ races' \in SUBSET Races
           /\ hpc' \in [Workers -> HorsePc]
           /\ hret' \in [Workers ->
                           {"none", "done", "retry", "known", "unknown"}]
           /\ hgen' \in [Workers -> Nat]
  <1>1. hgen[w] \in Nat
    BY DEF JobType
  <1>2. [st |-> st, gen |-> hgen[w], left |-> n, by |-> None] \in RqRecord
    BY <1>1 DEF RqRecord
  <1> QED
    BY <1>1, <1>2 DEF Save, JobType, Races, HorsePc

\* The horse and its worker keep the types.
LEMMA HorseType ==
    ASSUME TypeOK, NEW w \in Workers, Horse(w)
    PROVE  TypeOK'
  <1>0. ApiType /\ JobType
    BY TypeParts
  <1> SUFFICES ApiType' /\ JobType'
    BY TypeParts
  <1>m. /\ meta \in Meta /\ hgen[w] \in Nat /\ rq \in RqRecord
        /\ rq.st \in RqStatus /\ rq.gen \in Nat /\ rq.left \in Nat
    BY <1>0 DEF JobType, RqRecord
  <1>1. CASE HorsePop(w) \/ HorseStart(w)
    <2>1. rq' \in RqRecord
      BY <1>m, <1>1 DEF HorsePop, HorseStart, RqRecord, RqStatus
    <2>2. races' \in SUBSET Races
      BY <1>0, <1>1 DEF HorsePop, HorseStart, JobType, Races, envVars
    <2>3. /\ listed' \in BOOLEAN /\ hgen' \in [Workers -> Nat]
          /\ hpc' \in [Workers -> HorsePc]
      BY <1>0, <1>m, <1>1 DEF HorsePop, HorseStart, JobType, HorsePc, Taken,
         Executing
    <2> QED
      BY <1>0, <1>1, <2>1, <2>2, <2>3 DEF HorsePop, HorseStart, ApiType,
         JobType, diskVars, lockVars, childVars, apiVars, envVars
  <1>2. CASE HorseLock(w)
    BY <1>0, <1>m, <1>2 DEF HorseLock, ApiType, JobType, HorsePc, Taken, Executing,
       diskVars, rqVars, childVars, apiVars, envVars
  <1>3. CASE HorseAdmission(w)
    BY <1>0, <1>3 DEF HorseAdmission, VoluntaryRetry, ApiType, JobType,
       HorsePc, diskVars, rqVars, childVars, apiVars, envVars
  <1>4. CASE HorseSpawn(w)
    BY <1>0, <1>4 DEF HorseSpawn, ApiType, JobType, HorsePc, Taken, Executing,
       ChildPc, ChildLive, diskVars, rqVars, lockVars, apiVars, envVars
  <1>5. CASE HorseKillChild(w)
    BY <1>0, <1>5 DEF HorseKillChild, ChildGone, ChildLocal, Release, ApiType,
       JobType, ChildPc, diskVars, rqVars, horseVars, apiVars, envVars
  <1>6. CASE HorseFinish(w)
    <2>1. meta' \in Meta
      BY <1>m, <1>6, FailedType DEF HorseFinish
    <2> QED
      BY <1>0, <1>6, <2>1 DEF HorseFinish, ApiType, JobType, HorsePc, Taken,
         Executing, ChildPc, rqVars, lockVars, apiVars, envVars
  <1>7. CASE HorseBusy(w)
    <2>1. meta' \in Meta
      BY <1>m, <1>7, FailedType DEF HorseBusy
    <2> QED
      BY <1>0, <1>7, <2>1 DEF HorseBusy, VoluntaryRetry, ApiType, JobType,
         HorsePc, Taken, Executing, ChildPc, rqVars, apiVars, envVars
  <1>8. CASE HorseReturn(w)
    BY <1>0, <1>8 DEF HorseReturn, ApiType, JobType, HorsePc, diskVars, rqVars,
       childVars, apiVars, envVars
  <1>9. CASE HorseSave(w)
    <2>1. \E st \in RqStatus, n \in Nat : Save(w, st, n)
      BY <1>m, <1>9 DEF HorseSave, SaveLost, RqStatus
    <2> QED
      BY <1>0, <1>9, <2>1, SaveType DEF HorseSave, ApiType, JobType, diskVars,
         lockVars, childVars, apiVars
  <1>10. CASE HorseKilled(w)
    BY <1>0, <1>10 DEF HorseKilled, Release, ApiType, JobType, HorsePc,
       diskVars, rqVars, childVars, apiVars
  <1>11. CASE OnHorseKilled(w)
    <2>1. meta' \in {meta, Failed(hgen[w], "other"), Failed(rq.gen, "other")}
      BY <1>11 DEF OnHorseKilled, ForeignHash
    <2>2. meta' \in Meta
      BY <1>m, <2>1, FailedType
    <2>3. rq' \in {rq, [rq EXCEPT !.left = 0],
                   [st |-> "started", gen |-> hgen[w], left |-> 0, by |-> w]}
      BY <1>11 DEF OnHorseKilled, ForeignHash
    <2>4. rq' \in RqRecord
      BY <1>m, <2>3 DEF RqRecord, RqStatus
    <2>5. races' \in {races, races \cup {"late_save"}}
      BY <1>11 DEF OnHorseKilled, ForeignHash
    <2>6. races' \in SUBSET Races
      BY <1>0, <2>5 DEF ApiType, JobType, Races
    <2> QED
      BY <1>0, <1>11, <2>2, <2>4, <2>6 DEF OnHorseKilled, ApiType, JobType,
         HorsePc, lockVars, childVars, apiVars
  <1>12. CASE WorkerCrash(w)
    BY <1>0, <1>m, <1>12 DEF WorkerCrash, Release, ApiType, JobType, HorsePc,
       diskVars, rqVars, childVars, apiVars
  <1>13. CASE StopHorse(w)
    BY <1>0, <1>13 DEF StopHorse, Release, ApiType, JobType, HorsePc, diskVars,
       childVars, apiVars, envVars
  <1> QED
    BY <1>1, <1>2, <1>3, <1>4, <1>5, <1>6, <1>7, <1>8, <1>9, <1>10, <1>11,
       <1>12, <1>13 DEF Horse

\* The child keeps the types.
LEMMA ChildType ==
    ASSUME TypeOK, NEW w \in Workers, Child(w)
    PROVE  TypeOK'
  <1>0. ApiType /\ JobType
    BY TypeParts
  <1> SUFFICES ApiType' /\ JobType'
    BY TypeParts
  <1>m. meta \in Meta /\ NoMeta \in Meta /\ hgen[w] \in Nat
    BY <1>0, NoMetaType DEF JobType
  <1>1. CASE ChildLock(w)
    BY <1>0, <1>1 DEF ChildLock, ChildLocal, ApiType, JobType, ChildPc,
       ChildLive, diskVars, rqVars, horseVars, apiVars, envVars
  <1>2. CASE ChildOrphanExit(w)
    BY <1>0, <1>m, <1>2 DEF ChildOrphanExit, ChildGone, Release, ApiType,
       JobType, ChildPc, diskVars, rqVars, apiVars, envVars
  <1>3. CASE ChildBusy(w) \/ ChildReuse(w) \/ ChildExit(w)
    <2>1. ChildLocal /\ (ChildGone(w, "busy") \/ ChildGone(w, "exited"))
      BY <1>3 DEF ChildBusy, ChildReuse, ChildExit
    <2> QED
      BY <1>0, <2>1 DEF ChildGone, ChildLocal, Release, ApiType, JobType,
         ChildPc, diskVars, rqVars, horseVars, apiVars, envVars
  <1>4. CASE ChildDest(w)
    <2>1. meta' \in Meta /\ docs' \in BOOLEAN
      BY <1>m, <1>4 DEF ChildDest
    <2> QED
      BY <1>0, <1>4, <2>1 DEF ChildDest, ApiType, JobType, ChildPc, ChildLive,
         rqVars, horseVars, apiVars, envVars
  <1>5. CASE ChildStage(w) \/ ChildDone(w)
    <2>1. Write(w, "running", "build") \/ Write(w, "succeeded", "done")
      BY <1>5 DEF ChildStage, ChildDone
    <2>2. meta' \in Meta /\ Stamp(w) \in Nat
      BY <1>0, <2>1, WrittenType DEF Write
    <2> QED
      BY <1>0, <2>1, <2>2 DEF Write, ApiType, JobType, ChildPc, ChildLive,
         rqVars, lockVars, horseVars, apiVars, envVars
  <1>6. CASE ChildRender(w)
    BY <1>0, <1>6 DEF ChildRender, ApiType, JobType, ChildPc, ChildLive,
       rqVars, lockVars, horseVars, apiVars, envVars
  <1>7. CASE ChildRaise(w)
    BY <1>0, <1>7 DEF ChildRaise, ChildLocal, Release, ApiType, JobType,
       ChildPc, ChildLive, diskVars, rqVars, horseVars, apiVars, envVars
  <1>8. CASE ChildMark(w)
    <2>1. meta' \in Meta
      BY <1>m, <1>8, FailedType DEF ChildMark
    <2> QED
      BY <1>0, <1>8, <2>1 DEF ChildMark, ChildGone, Release, ApiType, JobType,
         ChildPc, rqVars, horseVars, apiVars, envVars
  <1> QED
    BY <1>1, <1>2, <1>3, <1>4, <1>5, <1>6, <1>7, <1>8 DEF Child

\* RQ's own steps and a new version of the code keep the types.
LEMMA RqType ==
    ASSUME TypeOK, Rq \/ Deploy
    PROVE  TypeOK'
  <1>0. ApiType /\ JobType
    BY TypeParts
  <1> SUFFICES ApiType' /\ JobType'
    BY TypeParts
  <1>m. rq \in RqRecord /\ NoRq \in RqRecord
    BY <1>0, NoRqType DEF JobType
  <1>1. CASE StopIgnored
    BY <1>0, <1>1 DEF StopIgnored, ApiType, JobType, diskVars, lockVars,
       horseVars, childVars, apiVars, envVars
  <1>2. CASE RqSchedule \/ RqMaintain \/ RqExpire
    <2>1. RqSchedule => rq' \in RqRecord
      BY <1>m DEF RqSchedule, RqRecord, RqStatus
    <2>2. RqMaintain => rq' \in RqRecord
      <3>1. rq.left \in Nat /\ rq.gen \in Nat
        BY <1>m DEF RqRecord
      <3>2. ASSUME rq.left > 0
            PROVE  [st |-> "queued", gen |-> rq.gen, left |-> rq.left - 1,
                    by |-> None] \in RqRecord
        BY <3>1, <3>2 DEF RqRecord, RqStatus
      <3>3. ASSUME rq' = [rq EXCEPT !.st = "failed", !.by = None]
            PROVE  rq' \in RqRecord
        BY <1>m, <3>3 DEF RqRecord, RqStatus
      <3> QED
        BY <3>2, <3>3 DEF RqMaintain
    <2>3. RqExpire => rq' \in RqRecord
      BY <1>m DEF RqExpire
    <2>4. rq' \in RqRecord
      BY <1>2, <2>1, <2>2, <2>3
    <2> QED
      BY <1>0, <1>2, <2>4 DEF RqSchedule, RqMaintain, RqExpire, ApiType,
         JobType, diskVars, lockVars, horseVars, childVars, apiVars, envVars
  <1>3. CASE Deploy
    BY <1>0, <1>3 DEF Deploy, ApiType, JobType, rqVars, lockVars, horseVars,
       childVars, apiVars, envVars
  <1> QED
    BY <1>1, <1>2, <1>3 DEF Rq

\* The initial state is well typed.
LEMMA InitType == Init => TypeOK
  <1> SUFFICES ASSUME Init PROVE ApiType /\ JobType
    BY TypeParts
  <1>1. ApiType
    BY NoMetaType DEF Init, ApiType, RqStatus
  <1>2. JobType
    BY NoMetaType, NoRqType DEF Init, JobType, HorsePc, ChildPc, Races
  <1> QED
    BY <1>1, <1>2

\* Every reachable state is well typed: the retry counter and the generations
\* stay natural numbers and every lock has one holder or none, whatever
\* requests, horses, children, kills and crashes do.
THEOREM TypeCorrect == Spec => []TypeOK
  <1>1. Init => TypeOK
    BY InitType
  <1>2. TypeOK /\ [Next]_vars => TypeOK'
    <2> SUFFICES ASSUME TypeOK, [Next]_vars PROVE TypeOK'
      OBVIOUS
    <2>1. CASE UNCHANGED vars
      BY <2>1 DEF TypeOK, vars, diskVars, rqVars, lockVars, horseVars,
         childVars, apiVars, envVars
    <2>2. CASE Next
      BY <2>2, PostType, GetType, HorseType, ChildType, RqType DEF Next, Api
    <2> QED
      BY <2>1, <2>2
  <1> QED
    BY <1>1, <1>2, PTL DEF Spec

-----------------------------------------------------------------------------
(***************************************************************************)
(* SucceededStays.  It needs to know who may write while a book is         *)
(* finished: dest/.lock has one holder (LockInv), and what a POST or a     *)
(* child under that lock has found out still holds when it writes          *)
(* (BuildInv), although failure reports write meta.json without the lock.  *)
(***************************************************************************)
Locked == PostLocked \cup GetLocked

LockInv ==
    /\ \A t \in Api : apc[t] \in Locked => destLock = t
    /\ \A w \in Workers : cpc[w] \in InPipeline => destLock = w

BuildInv ==
    /\ \A t \in Posters : apc[t] = "stamp" => ~docs
    /\ \A w \in Workers : cpc[w] = "build" => ~docs
    /\ \A w \in Workers : cpc[w] \in {"build", "rendered"} =>
         meta.gen > hgen[w] \/ meta.st # "succeeded"

IInv == TypeOK /\ LockInv /\ BuildInv

\* A finished, current book is left alone by one step.
Stays ==
    meta.st = "succeeded" /\ docs /\ ~session_stale(meta) => meta' = meta

\* Nobody is an API thread, a worker and the absence of a holder at once.
LEMMA Distinct ==
    /\ \A t \in Api, w \in Workers : t # w
    /\ None \notin Api /\ None \notin Workers
    /\ Posters \subseteq Api /\ Getters \subseteq Api
  BY LifecycleAssumption DEF Api

\* A request that ends keeps both invariants.
LEMMA RespondInv ==
    ASSUME IInv, NEW t \in Api, Respond(t),
           UNCHANGED <<cpc, hgen, docs, meta>>
    PROVE  LockInv' /\ BuildInv'
  <1>1. apc \in [Api -> {"idle"} \cup PostPc \cup GetPc]
    BY DEF IInv, TypeOK
  <1>2. apc' = [apc EXCEPT ![t] = "idle"] /\ destLock' = Release(destLock, t)
    BY DEF Respond
  <1>3. "idle" \notin Locked /\ "idle" # "stamp"
    BY DEF Locked, PostLocked, GetLocked
  <1>4. LockInv'
    BY <1>1, <1>2, <1>3, Distinct DEF IInv, LockInv, Release
  <1>5. BuildInv'
    BY <1>1, <1>2, <1>3, Distinct DEF IInv, BuildInv
  <1> QED
    BY <1>4, <1>5

\* A request that moves on to pc keeps both invariants when pc is a step under
\* dest/.lock only if it came from one, and is not the stamp.
LEMMA GotoInv ==
    ASSUME IInv, NEW t \in Api, NEW pc, Goto(t, pc), pc # "stamp",
           pc \in Locked => destLock = t,
           UNCHANGED <<cpc, hgen, docs, meta, destLock>>
    PROVE  LockInv' /\ BuildInv'
  <1>1. apc \in [Api -> {"idle"} \cup PostPc \cup GetPc]
    BY DEF IInv, TypeOK
  <1>2. LockInv'
    BY <1>1, Distinct DEF IInv, LockInv, Goto
  <1>3. BuildInv'
    BY <1>1, Distinct DEF IInv, BuildInv, Goto
  <1> QED
    BY <1>2, <1>3

\* mark_job_failed, which runs without dest/.lock, keeps what a child under the
\* lock knows of meta.json.
LEMMA FailedInv ==
    ASSUME IInv, NEW g \in Nat, NEW e \in {"queue_lost", "other"},
           meta' = Failed(g, e)
    PROVE  /\ meta' = meta \/ meta'.st = "failed"
           /\ Stays
  BY DEF Failed, Stays, TERMINAL_STATUS

\* POST keeps the invariants and leaves a finished book alone until it has
\* removed the documents itself.
LEMMA PostInv ==
    ASSUME IInv, NEW t \in Posters, Post(t)
    PROVE  LockInv' /\ BuildInv' /\ Stays
  <1>0. t \in Api
    BY Distinct
  <1>l. \A pc \in {"look", "corpse", "corpse2", "abandon", "abandon2", "lock",
                   "waitfail", "waitstop", "stop", "cancel", "post"} :
           pc \notin Locked /\ pc # "stamp"
    BY DEF Locked, PostLocked, GetLocked
  <1>h. \A pc \in {"status3", "decide", "delete", "drop", "sweep", "cap",
                   "clear", "stamp", "enqueue"} : pc \in Locked
    BY DEF Locked, PostLocked
  <1>o. OnlyReads => UNCHANGED <<cpc, hgen, docs, meta>>
    BY DEF OnlyReads, diskVars, horseVars, childVars
  <1>c. ASSUME OnlyReads, NEW pc \in {"corpse", "abandon", "lock", "waitfail",
                                      "stop"}, NEW m, Continue(t, pc, m)
        PROVE  LockInv' /\ BuildInv'
    BY <1>0, <1>l, <1>o, <1>c, GotoInv DEF Continue
  <1>j. ASSUME OnlyReads, NEW m, LiveJob(t, m)
        PROVE  LockInv' /\ BuildInv'
    BY <1>0, <1>o, <1>c, <1>j, RespondInv DEF LiveJob
  <1>1. CASE PostStart(t)
    BY <1>0, <1>1, <1>l, GotoInv DEF PostStart, diskVars, lockVars, horseVars,
       childVars, Stays
  <1>2. CASE PostStatus(t)
    <2>1. PICK from, pc : /\ ReadStatus(t, from, pc)
                          /\ pc # "stamp"
                          /\ pc \in Locked => from \in Locked
      BY <1>2, <1>l, <1>h DEF PostStatus
    <2>2. pc \in Locked => destLock = t
      BY <1>0, <2>1 DEF ReadStatus, IInv, LockInv
    <2> QED
      BY <1>0, <2>1, <2>2, GotoInv DEF ReadStatus, diskVars, lockVars,
         horseVars, childVars, Stays
  <1>3. CASE PostLook(t)
    <2>1. \/ Continue(t, "corpse", NoMeta) \/ Continue(t, "abandon", meta)
          \/ Continue(t, "lock", NoMeta) \/ Continue(t, "waitfail", meta)
          \/ LiveJob(t, meta)
      BY <1>3 DEF PostLook
    <2> QED
      BY <1>3, <1>o, <1>c, <1>j, <2>1 DEF PostLook, Stays
  <1>4. CASE PostCorpse(t) \/ PostDeadline(t)
    <2>1. OnlyReads /\ (Continue(t, "lock", NoMeta) \/ Respond(t))
      BY <1>4 DEF PostCorpse, PostDeadline
    <2> QED
      BY <1>0, <1>o, <1>c, <2>1, RespondInv DEF Stays
  <1>5. CASE PostAbandon(t)
    <2>1. OnlyReads /\ (Continue(t, "lock", NoMeta) \/ LiveJob(t, lmeta[t]))
      BY <1>5 DEF PostAbandon
    <2> QED
      BY <1>o, <1>c, <1>j, <2>1 DEF Stays
  <1>6. CASE PostStop(t)
    BY <1>0, <1>6, <1>l, <1>o, GotoInv DEF PostStop, ReadStatus, Continue,
       diskVars, lockVars, horseVars, childVars, Stays
  <1>8. CASE PostCancel(t)
    BY <1>0, <1>8, <1>l, GotoInv DEF PostCancel, diskVars, lockVars, horseVars,
       childVars, Stays
  <1>7. CASE PostWaited(t)
    BY <1>7, <1>o, <1>c DEF PostWaited, Stays
  <1>9. CASE PostLock(t)
    <2>1. UNCHANGED <<cpc, hgen, docs, meta>>
      BY <1>9, <1>o DEF PostLock
    <2>2. CASE Respond(t)
      BY <1>0, <2>1, <2>2, RespondInv DEF Stays
    <2>3. CASE destLock = None /\ destLock' = t /\ Goto(t, "status3")
      <3>1. apc \in [Api -> {"idle"} \cup PostPc \cup GetPc]
        BY DEF IInv, TypeOK
      <3>2. LockInv' /\ BuildInv'
        BY <1>0, <2>1, <2>3, <3>1, Distinct DEF IInv, LockInv, BuildInv, Goto
      <3> QED
        BY <2>1, <3>2 DEF Stays
    <2> QED
      BY <1>9, <2>2, <2>3 DEF PostLock
  <1>10. CASE PostDecide(t)
    <2>1. OnlyReads /\ (Continue(t, "delete", meta) \/ Respond(t))
      BY <1>10 DEF PostDecide
    <2>2. destLock = t
      BY <1>0, <1>10, <1>h DEF PostDecide, IInv, LockInv
    <2> QED
      BY <1>0, <1>o, <2>1, <2>2, GotoInv, RespondInv DEF Continue, Stays
  <1>11. CASE PostDelete(t)
    <2>1. destLock = t
      BY <1>0, <1>11, <1>h DEF PostDelete, IInv, LockInv
    <2>2. \E pc \in {"drop", "sweep", "cap"} : Goto(t, pc)
      BY <1>11 DEF PostDelete
    <2> QED
      BY <1>0, <1>11, <2>1, <2>2, GotoInv DEF PostDelete, diskVars, lockVars,
         horseVars, childVars, Stays
  <1>12. CASE PostCap(t)
    <2>1. destLock = t
      BY <1>0, <1>12, <1>h DEF PostCap, IInv, LockInv
    <2> QED
      BY <1>0, <1>12, <2>1, GotoInv, RespondInv DEF PostCap, diskVars,
         horseVars, childVars, Stays
  <1>13. CASE PostClear(t)
    <2>1. apc \in [Api -> {"idle"} \cup PostPc \cup GetPc] /\ destLock = t
      BY <1>0, <1>13, <1>h DEF PostClear, IInv, LockInv, TypeOK
    <2>2. LockInv'
      BY <1>0, <1>13, <2>1, Distinct DEF PostClear, Goto, IInv, LockInv,
         lockVars, childVars
    <2>3. BuildInv'
      BY <1>13 DEF PostClear, IInv, BuildInv, childVars, horseVars
    <2> QED
      BY <1>13, <2>2, <2>3 DEF PostClear, Stays
  <1>14. CASE PostStamp(t)
    <2>1. apc \in [Api -> {"idle"} \cup PostPc \cup GetPc] /\ destLock = t
      BY <1>0, <1>14, <1>h DEF PostStamp, IInv, LockInv, TypeOK
    <2>2. ~docs
      BY <1>14 DEF PostStamp, IInv, BuildInv
    <2>3. LockInv'
      BY <1>0, <1>14, <2>1, Distinct DEF PostStamp, Goto, IInv, LockInv,
         lockVars, childVars
    <2>4. \A w \in Workers : cpc[w] \notin InPipeline
      BY <1>0, <2>1, Distinct DEF IInv, LockInv
    <2>5. BuildInv'
      BY <1>0, <1>14, <2>1, <2>2, <2>4 DEF PostStamp, Goto, BuildInv,
         InPipeline, childVars
    <2> QED
      BY <2>2, <2>3, <2>5 DEF Stays
  <1>15. CASE PostEnqueue(t)
    BY <1>0, <1>15, RespondInv DEF PostEnqueue, diskVars, horseVars, childVars,
       Stays
  <1> QED
    BY <1>1, <1>2, <1>3, <1>4, <1>5, <1>6, <1>7, <1>8, <1>9, <1>10, <1>11,
       <1>12, <1>13, <1>14, <1>15 DEF Post

\* GET, a Redis outage and an API exit keep the invariants; the lost mark of
\* GET leaves a finished book alone.
LEMMA GetInv ==
    ASSUME IInv, NEW t \in Api, Get(t) \/ RedisDown(t) \/ ApiCrash(t)
    PROVE  LockInv' /\ BuildInv' /\ Stays
  <1>l. \A pc \in {"gstatus", "gprobe", "gstatus2", "gprobe2", "glock",
                   "stop"} : pc \notin Locked /\ pc # "stamp"
    BY DEF Locked, PostLocked, GetLocked
  <1>h. \A pc \in {"gstatus3", "gprobe3", "gmark"} :
           pc \in Locked /\ pc # "stamp"
    BY DEF Locked, GetLocked
  <1>o. OnlyReads => UNCHANGED <<cpc, hgen, docs, meta>>
    BY DEF OnlyReads, diskVars, horseVars, childVars
  <1>1. CASE GetStart(t)
    BY <1>1, <1>l, GotoInv DEF GetStart, diskVars, lockVars, horseVars,
       childVars, Stays
  <1>2. CASE GetStatus(t)
    <2>1. OnlyReads
      BY <1>2 DEF GetStatus
    <2>2. \/ Respond(t)
          \/ \E pc \in {"glock", "gprobe", "gprobe2"} : \E m : Continue(t, pc, m)
          \/ /\ apc[t] = "gstatus3"
             /\ \E pc \in {"gmark", "gprobe3"} : \E m : Continue(t, pc, m)
      BY <1>2 DEF GetStatus
    <2>3. apc[t] = "gstatus3" => destLock = t
      BY <1>h DEF IInv, LockInv
    <2> QED
      BY <1>l, <1>h, <1>o, <2>1, <2>2, <2>3, GotoInv, RespondInv
         DEF Continue, Stays
  <1>3. CASE GetProbe(t)
    <2>1. OnlyReads
      BY <1>3 DEF GetProbe
    <2>2. \/ Respond(t)
          \/ \E pc \in {"gstatus2", "glock"} : \E m : Continue(t, pc, m)
          \/ apc[t] = "gprobe3" /\ \E m : Continue(t, "gmark", m)
      BY <1>3 DEF GetProbe
    <2>3. apc[t] = "gprobe3" => destLock = t
      BY <1>h DEF IInv, LockInv
    <2> QED
      BY <1>l, <1>h, <1>o, <2>1, <2>2, <2>3, GotoInv, RespondInv
         DEF Continue, Stays
  <1>4. CASE GetLock(t)
    <2>1. UNCHANGED <<cpc, hgen, docs, meta>>
      BY <1>4, <1>o DEF GetLock
    <2>2. CASE Respond(t)
      BY <2>1, <2>2, RespondInv DEF Stays
    <2>3. CASE destLock = None /\ destLock' = t /\ Goto(t, "gstatus3")
      <3>1. apc \in [Api -> {"idle"} \cup PostPc \cup GetPc]
        BY DEF IInv, TypeOK
      <3>2. LockInv' /\ BuildInv'
        BY <2>1, <2>3, <3>1, Distinct DEF IInv, LockInv, BuildInv, Goto
      <3> QED
        BY <2>1, <3>2 DEF Stays
    <2> QED
      BY <1>4, <2>2, <2>3 DEF GetLock
  <1>5. CASE GetMark(t)
    <2>1. /\ apc \in [Api -> {"idle"} \cup PostPc \cup GetPc]
          /\ destLock = t /\ lmeta[t].gen \in Nat
      BY <1>5, <1>h DEF GetMark, IInv, LockInv, TypeOK, Meta
    <2>2. \A w \in Workers : cpc[w] \notin InPipeline
      BY <2>1, Distinct DEF IInv, LockInv
    <2>3. Stays
      BY <1>5, <2>1, FailedInv DEF GetMark
    <2>4. "idle" \notin Locked /\ "idle" # "stamp"
      BY DEF Locked, PostLocked, GetLocked
    <2>5. LockInv'
      BY <1>5, <2>1, <2>2, <2>4, Distinct DEF GetMark, Respond, Release, IInv,
         LockInv, childVars
    <2>6. BuildInv'
      BY <1>5, <2>1, <2>2, <2>4 DEF GetMark, Respond, IInv, BuildInv,
         InPipeline, childVars
    <2> QED
      BY <2>3, <2>5, <2>6
  <1>6. CASE RedisDown(t)
    <2>1. UNCHANGED <<cpc, hgen, docs, meta>>
      BY <1>6 DEF RedisDown, diskVars, horseVars, childVars
    <2>2. Respond(t) \/ \E m : Continue(t, "stop", m)
      BY <1>6 DEF RedisDown, LiveJob
    <2> QED
      BY <1>l, <2>1, <2>2, GotoInv, RespondInv DEF Continue, Stays
  <1>7. CASE ApiCrash(t)
    BY <1>7, RespondInv DEF ApiCrash, diskVars, horseVars, childVars, Stays
  <1> QED
    BY <1>1, <1>2, <1>3, <1>4, <1>5, <1>6, <1>7 DEF Get

\* A step of slot w that publishes nothing, frees at most its own dest/.lock
\* and at most reports a failure keeps both invariants, if its child stays
\* where it is or ends up outside Pipeline.run.
LEMMA SlotInv ==
    ASSUME IInv, NEW w \in Workers, UNCHANGED <<apc, docs>>,
           meta' = meta \/ meta'.st = "failed",
           \A v \in Workers \ {w} : cpc'[v] = cpc[v] /\ hgen'[v] = hgen[v],
           \/ cpc'[w] = cpc[w] /\ hgen'[w] = hgen[w] /\ destLock' = destLock
           \/ cpc'[w] \notin InPipeline /\ destLock' = destLock
           \/ cpc'[w] \notin InPipeline /\ destLock' = Release(destLock, w)
    PROVE  LockInv' /\ BuildInv'
  <1>1. LockInv'
    BY Distinct DEF IInv, LockInv, Release
  <1>2. \A v \in Workers : cpc'[v] \in InPipeline =>
          cpc'[v] = cpc[v] /\ hgen'[v] = hgen[v]
    OBVIOUS
  <1>3. BuildInv'
    BY <1>2 DEF IInv, BuildInv, InPipeline
  <1> QED
    BY <1>1, <1>3

\* The horse and its worker keep the invariants; their failure reports leave a
\* finished book alone.
LEMMA HorseInv ==
    ASSUME IInv, NEW w \in Workers, Horse(w)
    PROVE  LockInv' /\ BuildInv' /\ Stays
  <1>t. /\ cpc \in [Workers -> ChildPc] /\ hgen \in [Workers -> Nat]
        /\ hgen[w] \in Nat /\ rq.gen \in Nat
    BY DEF IInv, TypeOK, RqRecord
  <1>p. \A pc \in {"none", "boot", "killed"} : pc \notin InPipeline
    BY DEF InPipeline
  <1>k. UNCHANGED <<meta, docs>> => Stays
    BY DEF Stays
  <1>1. CASE HorsePop(w) \/ HorseStart(w)
    BY <1>1, <1>t, <1>p, <1>k, SlotInv DEF HorsePop, HorseStart, diskVars,
       lockVars, childVars, apiVars
  <1>2. CASE HorseLock(w) \/ HorseAdmission(w)
    BY <1>2, <1>t, <1>k, SlotInv DEF HorseLock, HorseAdmission, diskVars,
       childVars, apiVars
  <1>3. CASE HorseSpawn(w)
    BY <1>3, <1>t, <1>p, <1>k, SlotInv DEF HorseSpawn, diskVars, lockVars,
       apiVars
  <1>4. CASE HorseKillChild(w)
    BY <1>4, <1>t, <1>p, <1>k, SlotInv DEF HorseKillChild, ChildGone,
       ChildLocal, diskVars, horseVars, apiVars
  <1>5. CASE HorseFinish(w) \/ HorseBusy(w)
    <2>1. (meta' = meta \/ meta'.st = "failed") /\ Stays
      BY <1>5, <1>t, FailedInv DEF HorseFinish, HorseBusy, Stays
    <2> QED
      BY <1>5, <1>t, <1>p, <2>1, SlotInv DEF HorseFinish, HorseBusy,
         lockVars, apiVars
  <1>6. CASE HorseReturn(w) \/ HorseKilled(w) \/ StopHorse(w)
    BY <1>6, <1>t, <1>k, SlotInv DEF HorseReturn, HorseKilled, StopHorse,
       diskVars, childVars, apiVars
  <1>7. CASE HorseSave(w)
    <2>1. hgen' = [hgen EXCEPT ![w] = IF cpc[w] = "none" THEN 0 ELSE @]
      BY <1>7 DEF HorseSave, SaveLost, Save
    <2> QED
      BY <1>7, <1>t, <1>p, <1>k, <2>1, SlotInv DEF HorseSave, diskVars,
         lockVars, childVars, apiVars
  <1>8. CASE OnHorseKilled(w)
    <2>0. meta' \in {meta, Failed(hgen[w], "other"), Failed(rq.gen, "other")}
      BY <1>8 DEF OnHorseKilled, ForeignHash
    <2>1. (meta' = meta \/ meta'.st = "failed") /\ Stays
      BY <1>t, <2>0, FailedInv DEF Stays
    <2> QED
      BY <1>8, <1>t, <2>1, SlotInv DEF OnHorseKilled, lockVars, childVars,
         apiVars
  <1>9. CASE WorkerCrash(w)
    BY <1>9, <1>t, <1>p, <1>k, SlotInv DEF WorkerCrash, diskVars, childVars,
       apiVars
  <1> QED
    BY <1>1, <1>2, <1>3, <1>4, <1>5, <1>6, <1>7, <1>8, <1>9 DEF Horse

\* The child keeps the invariants, and its writes leave a finished book alone:
\* it does not build one that is there, and the stamp of a child that is too
\* old is dropped.
LEMMA ChildInv ==
    ASSUME IInv, NEW w \in Workers, Child(w)
    PROVE  LockInv' /\ BuildInv' /\ Stays
  <1>t. /\ cpc \in [Workers -> ChildPc] /\ hgen \in [Workers -> Nat]
        /\ hgen[w] \in Nat /\ meta \in Meta /\ meta.gen \in Nat
    BY DEF IInv, TypeOK, Meta
  <1>p. \A pc \in {"none", "busy", "exited", "raised", "run"} :
          pc \notin InPipeline
    BY DEF InPipeline
  <1>k. UNCHANGED <<meta, docs>> => Stays
    BY DEF Stays
  <1>d. ASSUME cpc[w] \in InPipeline
        PROVE  /\ destLock = w
               /\ \A t \in Api : apc[t] \notin Locked
               /\ \A v \in Workers \ {w} : cpc[v] \notin InPipeline
    BY <1>d, Distinct DEF IInv, LockInv
  <1>1. CASE ChildLock(w)
    BY <1>1, <1>t, <1>p, <1>k, SlotInv DEF ChildLock, ChildLocal, diskVars,
       horseVars, apiVars
  <1>2. CASE ChildOrphanExit(w)
    BY <1>2, <1>t, <1>p, <1>k, SlotInv DEF ChildOrphanExit, ChildGone,
       diskVars, apiVars
  <1>3. CASE ChildBusy(w) \/ ChildReuse(w) \/ ChildExit(w)
    <2>1. ChildLocal /\ (ChildGone(w, "busy") \/ ChildGone(w, "exited"))
      BY <1>3 DEF ChildBusy, ChildReuse, ChildExit
    <2> QED
      BY <1>t, <1>p, <1>k, <2>1, SlotInv DEF ChildGone, ChildLocal, diskVars,
         horseVars, apiVars
  <1>4. CASE ChildDest(w)
    <2>1. \A v \in Workers : cpc[v] \notin InPipeline
      BY <1>4, Distinct DEF ChildDest, IInv, LockInv
    <2>2. \A t \in Api : apc[t] \notin Locked
      BY <1>4, Distinct DEF ChildDest, IInv, LockInv
    <2>3. "inv" \notin {"build", "rendered"} /\ "stamp" \in Locked
      BY DEF Locked, PostLocked
    <2>4. LockInv'
      BY <1>4, <1>t, <2>1, <2>2 DEF ChildDest, LockInv, apiVars
    <2>5. BuildInv'
      BY <1>4, <1>t, <2>1, <2>2, <2>3, Distinct DEF ChildDest, BuildInv,
         InPipeline, horseVars, apiVars
    <2>6. Stays
      BY <1>4 DEF ChildDest, Stays
    <2> QED
      BY <2>4, <2>5, <2>6
  <1>5. CASE ChildStage(w)
    <2>1. cpc[w] \in InPipeline /\ ~docs
      BY <1>5 DEF ChildStage, InPipeline, IInv, BuildInv
    <2>2. Write(w, "running", "build")
      BY <1>5 DEF ChildStage
    <2>3. meta'.gen > hgen[w] \/ meta'.st # "succeeded"
      BY <1>t, <2>2 DEF Write, Written, Meta
    <2>4. LockInv'
      BY <1>t, <1>d, <2>1, <2>2 DEF Write, LockInv, lockVars, apiVars
    <2>5. BuildInv'
      BY <1>t, <1>d, <2>1, <2>2, <2>3 DEF Write, BuildInv, InPipeline,
         horseVars, apiVars
    <2> QED
      BY <2>1, <2>4, <2>5 DEF Stays
  <1>6. CASE ChildRender(w)
    <2>1. cpc[w] \in InPipeline /\ "stamp" \in Locked
      BY <1>6 DEF ChildRender, InPipeline, Locked, PostLocked
    <2>2. LockInv'
      BY <1>6, <1>t, <1>d, <2>1 DEF ChildRender, LockInv, lockVars, apiVars
    <2>3. BuildInv'
      BY <1>6, <1>t, <1>d, <2>1, Distinct DEF ChildRender, IInv, BuildInv,
         InPipeline, horseVars, apiVars
    <2> QED
      BY <1>6, <2>2, <2>3 DEF ChildRender, Stays
  <1>7. CASE ChildDone(w)
    <2>1. /\ cpc[w] \in InPipeline
          /\ meta.gen > hgen[w] \/ meta.st # "succeeded"
      BY <1>7 DEF ChildDone, InPipeline, IInv, BuildInv
    <2>2. Write(w, "succeeded", "done")
      BY <1>7 DEF ChildDone
    <2>3. Stays
      BY <2>1, <2>2 DEF Write, Written, Stays
    <2>4. LockInv'
      BY <1>t, <1>d, <2>1, <2>2 DEF Write, LockInv, lockVars, apiVars
    <2>5. BuildInv'
      BY <1>t, <1>d, <2>1, <2>2 DEF Write, IInv, BuildInv, InPipeline,
         horseVars, apiVars
    <2> QED
      BY <2>3, <2>4, <2>5
  <1>8. CASE ChildRaise(w)
    BY <1>8, <1>t, <1>p, <1>k, SlotInv DEF ChildRaise, ChildLocal, diskVars,
       horseVars, apiVars
  <1>9. CASE ChildMark(w)
    <2>1. (meta' = meta \/ meta'.st = "failed") /\ Stays
      BY <1>9, <1>t, FailedInv DEF ChildMark
    <2> QED
      BY <1>9, <1>t, <1>p, <2>1, SlotInv DEF ChildMark, ChildGone, horseVars,
         apiVars
  <1> QED
    BY <1>1, <1>2, <1>3, <1>4, <1>5, <1>6, <1>7, <1>8, <1>9 DEF Child

\* The invariant is inductive, and every step from it leaves a finished book
\* alone.
LEMMA StepInv ==
    ASSUME IInv, [Next]_vars
    PROVE  IInv' /\ Stays
  <1>1. CASE UNCHANGED vars
    BY <1>1 DEF vars, diskVars, rqVars, lockVars, horseVars, childVars,
       apiVars, envVars, IInv, TypeOK, LockInv, BuildInv, Stays
  <1>2. CASE Rq \/ Deploy
    <2>1. TypeOK'
      BY <1>2, RqType DEF IInv
    <2>2. UNCHANGED <<meta, docs, lockVars, horseVars, childVars, apiVars>>
      BY <1>2 DEF Rq, StopIgnored, RqSchedule, RqMaintain, RqExpire, Deploy,
         diskVars
    <2> QED
      BY <2>1, <2>2 DEF IInv, LockInv, BuildInv, Stays, lockVars, horseVars,
         childVars, apiVars
  <1>3. CASE \E t \in Posters : Post(t)
    BY <1>3, PostType, PostInv DEF IInv
  <1>4. CASE \E t \in Api : Get(t) \/ RedisDown(t) \/ ApiCrash(t)
    BY <1>4, GetType, GetInv DEF IInv
  <1>5. CASE \E w \in Workers : Horse(w) \/ Child(w)
    BY <1>5, HorseType, HorseInv, ChildType, ChildInv DEF IInv
  <1> QED
    BY <1>1, <1>2, <1>3, <1>4, <1>5, Distinct DEF Next

\* A book that succeeded and is current is never unpublished by the machinery
\* around it - a late mark_job_failed of a horse, a worker or a GET, an orphan
\* child, a retry of work that was already done: meta.json does not change
\* until a POST has removed the documents or the code on disk has changed.
THEOREM FinishedStaysFinished == Spec => SucceededStays
  <1>1. Init => IInv
    <2>1. Init => TypeOK
      BY InitType
    <2>2. Init => LockInv /\ BuildInv
      BY Distinct DEF Init, LockInv, BuildInv, Locked, PostLocked, GetLocked,
         InPipeline
    <2> QED
      BY <2>1, <2>2 DEF IInv
  <1>2. IInv /\ [Next]_vars => IInv'
    BY StepInv
  <1>3. IInv /\ [Next]_vars =>
          [ meta.st = "succeeded" /\ docs /\ ~session_stale(meta)
            => meta' = meta ]_vars
    BY StepInv DEF Stays
  <1> QED
    BY <1>1, <1>2, <1>3, PTL DEF Spec, SucceededStays
=============================================================================
