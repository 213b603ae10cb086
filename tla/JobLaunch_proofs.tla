-------------------------- MODULE JobLaunch_proofs --------------------------
(***************************************************************************)
(* Why the file protocol of JobLifecycle keeps a book to one run, for any  *)
(* number of pollers, worker slots, deploys and faults and one POST of the *)
(* book at a time (two of them violate it: each trusts its own reads).     *)
(*                                                                         *)
(* The argument.  Nobody asks a horse whether it lives: POST and GET infer *)
(* it from .horse.json, .horse.lock and the RQ status, read one after the  *)
(* other.  As long as none of the windows of Races has been met, a horse   *)
(* at work owns the RQ hash (HorseOK), generations in files, hash          *)
(* and slots are ordered (HashOK), who holds .run.lock is of the newest    *)
(* generation (RunOK), and what a thread has concluded from its reads is   *)
(* still true when it acts on it (PostOK, GetOK): once a book is dead no   *)
(* step of RQ, a worker or a child brings it back to life.                 *)
(***************************************************************************)
EXTENDS JobLifecycle_proofs

\* One POST of the book at a time.
OnePoster == \A p, q \in Posters : p = q

InFlight == rq.st \in INFLIGHT_STATUSES

\* The horse of slot w has popped the id, is inside execute_job or on its way
\* to a retry.
Engaged(w) == hpc[w] \in Taken \/ hret[w] = "retry"

\* The horse of slot w has .horse.lock.
Holding == {"locked", "watch", "finish"}

\* The child of slot w is between taking .run.lock and its end.
Working == {"run", "raised"} \cup InPipeline

\* No horse works on the book and none will: if RQ starts it again it meets
\* the "stale_record" window.
Dead == InFlight => horseRec = rq.gen /\ \A w \in Workers : ~Engaged(w)

\* A record of the generation g in .horse.json speaks of the hash.
Names(g) == InFlight => horseRec \in {0, rq.gen} \/ g = rq.gen

HorseOK ==
    \A w \in Workers :
        /\ Engaged(w) =>
             /\ rq.by = w
             /\ rq.st = IF hpc[w] = "popped" THEN "queued" ELSE "started"
        /\ rq.by = w /\ hpc[w] # "idle" => rq.gen = hgen[w]
        /\ hret[w] = "retry" => hpc[w] = "saving" /\ horseRec = 0
        /\ hpc[w] \in {"popped", "start"} => horseRec # hgen[w]
        /\ horseLock = w <=> hpc[w] \in Holding
        /\ hpc[w] \in Holding => horseRec = hgen[w]

HashOK ==
    /\ listed => rq.st = "queued"
    /\ rq.by # None => rq.st \in {"queued", "started"} /\ ~listed
    /\ InFlight => /\ rq.gen > 0 /\ meta.gen <= rq.gen
                   /\ \A w \in Workers : hgen[w] <= rq.gen
    /\ Names(meta.gen)
    /\ meta.st = "none" => meta.gen = 0

RunOK ==
    \A u \in Workers :
        /\ runLock = u <=> cpc[u] \in Working
        /\ cpc[u] \in Working =>
             /\ meta.gen <= hgen[u] /\ horseRec \in {0, hgen[u]}
             /\ InFlight => rq.gen <= hgen[u]
             /\ \A v \in Workers : hgen[v] <= hgen[u]

\* The steps of POST after the hash is gone.
Cleared == {"sweep", "cap", "clear", "stamp", "enqueue"}

PostOK(t) ==
    /\ apc[t] \in {"look", "waitfail"} /\ lst[t] \notin INFLIGHT_STATUSES =>
         ~InFlight
    /\ apc[t] = "waitfail" => Names(lmeta[t].gen)
    /\ apc[t] \in {"lock", "status3", "decide", "delete", "drop"} => Dead
    /\ apc[t] \in PostLocked => runLock = None
    /\ apc[t] \in Cleared => rq.st = "none"
    /\ apc[t] \in {"decide", "delete"} /\ lst[t] = "none" => rq.st = "none"
    /\ apc[t] = "enqueue" => /\ meta.gen = lmeta[t].gen + 1
                             /\ \A w \in Workers : hgen[w] <= lmeta[t].gen

GetOK(t) ==
    /\ apc[t] \in GetLocked => meta.st # "none"
    /\ apc[t] \in {"gstatus3", "gprobe3"} => Names(lmeta[t].gen)
    /\ apc[t] = "gmark" => Dead

\* What holds outside the windows of Races.
Orderly ==
    /\ HorseOK /\ HashOK /\ RunOK
    /\ \A t \in Posters : PostOK(t)
    /\ \A t \in Getters : GetOK(t)

OInv == races = {} => Orderly

-----------------------------------------------------------------------------
(* Facts about a state *)

\* The types the arithmetic below needs.
LEMMA Numbers ==
    ASSUME TypeOK
    PROVE  /\ rq.gen \in Nat /\ meta.gen \in Nat /\ horseRec \in Nat
           /\ \A w \in Workers : hgen[w] \in Nat
           /\ \A t \in Api : lmeta[t].gen \in Nat
  BY DEF TypeOK, RqRecord, Meta

\* At most one horse is at work, and its hash is in flight and its own.
LEMMA AtWorkOwns ==
    ASSUME HorseOK, NEW w \in Workers, Engaged(w)
    PROVE  /\ InFlight /\ rq.by = w
           /\ rq.st = IF hpc[w] = "popped" THEN "queued" ELSE "started"
           /\ \A v \in Workers : Engaged(v) => v = w
           /\ hpc[w] # "idle" /\ rq.gen = hgen[w]
  <1>1. /\ rq.by = w
        /\ rq.st = IF hpc[w] = "popped" THEN "queued" ELSE "started"
        /\ \A v \in Workers : Engaged(v) => v = w
    BY DEF HorseOK
  <1>2. hpc[w] # "idle"
    BY DEF HorseOK, Engaged, Taken, Executing
  <1>3. rq.gen = hgen[w]
    BY <1>1, <1>2 DEF HorseOK
  <1> QED
    BY <1>1, <1>2, <1>3 DEF InFlight, INFLIGHT_STATUSES

\* "The horse of generation g is dead", concluded from .horse.json and
\* .horse.lock, is true of a g that speaks of the hash.
LEMMA ProbedDead ==
    ASSUME HorseOK, NEW t, NEW g, Names(g), "dead" \in HorseAlive(t, g)
    PROVE  Dead
  <1>1. horseRec # 0 /\ horseRec = g /\ horseLock = None
    BY DEF HorseAlive
  <1>2. InFlight => horseRec = rq.gen
    BY <1>1 DEF Names
  <1>3. ASSUME InFlight, NEW w \in Workers, Engaged(w) PROVE FALSE
    <2>1. rq.gen = hgen[w]
      BY <1>3, AtWorkOwns
    <2>2. hpc[w] \notin {"popped", "start"} /\ hret[w] # "retry"
      BY <1>1, <1>2, <1>3, <2>1 DEF HorseOK
    <2>3. hpc[w] \notin Holding
      BY <1>1, Distinct DEF HorseOK
    <2> QED
      BY <1>3, <2>2, <2>3 DEF Engaged, Taken, Executing, Holding
  <1> QED
    BY <1>2, <1>3 DEF Dead

\* A book whose hash is not in flight is dead.
LEMMA NotInFlightDead ==
    ASSUME ~InFlight
    PROVE  Dead
  BY DEF Dead

\* The child that holds .run.lock is of the generation of the hash.
LEMMA RunIsHash ==
    ASSUME TypeOK, HashOK, RunOK, NEW u \in Workers, cpc[u] \in Working,
           InFlight
    PROVE  rq.gen = hgen[u]
  BY Numbers DEF HashOK, RunOK

-----------------------------------------------------------------------------
(* Two kinds of step *)

\* A step of API thread t that changes nothing but the thread and dest/.lock,
\* or takes the id out of RQ's list.
Private(t) ==
    /\ UNCHANGED <<meta, rq, runLock, horseLock, horseRec, hpc, hgen, hret, cpc>>
    /\ listed' => listed
    /\ \A u \in Api \ {t} : /\ apc'[u] = apc[u] /\ lst'[u] = lst[u]
                            /\ lmeta'[u] = lmeta[u]

\* The state a private step leaves to the others is the same.
LEMMA SharedSame ==
    ASSUME UNCHANGED <<meta, rq, runLock, horseLock, horseRec, hpc, hgen, hret,
                       cpc>>, listed' => listed
    PROVE  /\ HorseOK' <=> HorseOK
           /\ HashOK => HashOK'
           /\ RunOK' <=> RunOK
           /\ InFlight' <=> InFlight
           /\ Dead' <=> Dead
           /\ \A g : Names(g)' <=> Names(g)
  BY DEF HorseOK, HashOK, RunOK, InFlight, Dead, Names, Engaged

\* A private step has only the conclusions of its own thread to keep.
LEMMA PrivateStep ==
    ASSUME Orderly, NEW t \in Api, Private(t),
           t \in Posters => PostOK(t)', t \in Getters => GetOK(t)'
    PROVE  Orderly'
  <1>1. /\ UNCHANGED <<meta, rq, runLock, horseLock, horseRec, hpc, hgen, hret,
                       cpc>>
        /\ listed' => listed
    BY DEF Private
  <1>2. HorseOK' /\ HashOK' /\ RunOK'
    BY <1>1, SharedSame DEF Orderly
  <1>3. \A u \in Posters \ {t} : PostOK(u)'
    <2> SUFFICES ASSUME NEW u \in Posters \ {t} PROVE PostOK(u)'
      OBVIOUS
    <2>1. apc'[u] = apc[u] /\ lst'[u] = lst[u] /\ lmeta'[u] = lmeta[u]
      BY Distinct DEF Private
    <2>2. PostOK(u)
      BY DEF Orderly
    <2> QED
      BY <1>1, <2>1, <2>2 DEF PostOK, InFlight, Dead, Names, Engaged
  <1>4. \A u \in Getters \ {t} : GetOK(u)'
    <2> SUFFICES ASSUME NEW u \in Getters \ {t} PROVE GetOK(u)'
      OBVIOUS
    <2>1. apc'[u] = apc[u] /\ lmeta'[u] = lmeta[u]
      BY Distinct DEF Private
    <2>2. GetOK(u)
      BY DEF Orderly
    <2> QED
      BY <1>1, <2>1, <2>2 DEF GetOK, InFlight, Dead, Names, Engaged
  <1> QED
    BY <1>2, <1>3, <1>4 DEF Orderly

\* What a step of RQ, a horse or a child may do to a conclusion of an API
\* thread: nothing.
Calm ==
    /\ InFlight' => InFlight
    /\ rq.st = "none" => rq'.st = "none"
    /\ Dead => Dead'
    /\ \A g \in Nat : Names(g) => Names(g)'
    /\ Dead /\ runLock = None => runLock' = None
    /\ \A g \in Nat :
         /\ rq.st = "none" /\ runLock = None /\ destLock # None
         /\ meta.gen = g + 1 /\ \A w \in Workers : hgen[w] <= g
         => meta'.gen = g + 1 /\ \A w \in Workers : hgen'[w] <= g
    /\ meta'.st = "none" => meta.st = "none" \/ destLock = None

\* A calm step keeps the conclusions of a POST.
LEMMA CalmPost ==
    ASSUME IInv, Calm, NEW t \in Posters, PostOK(t),
           apc'[t] = apc[t], lst'[t] = lst[t], lmeta'[t] = lmeta[t]
    PROVE  PostOK(t)'
  <1>1. t \in Api /\ lmeta[t].gen \in Nat
    BY Distinct, Numbers DEF IInv
  <1>2. Names(lmeta[t].gen) => Names(lmeta[t].gen)'
    BY <1>1 DEF Calm, Names
  <1>3. apc[t] \in Cleared => Dead
    BY DEF PostOK, Dead, InFlight, INFLIGHT_STATUSES
  <1>4. apc[t] \in PostLocked => Dead /\ destLock = t
    BY <1>1, <1>3 DEF PostOK, Cleared, PostLocked, IInv, LockInv, Locked
  <1>5. apc[t] \in PostLocked => runLock' = None
    BY <1>4 DEF PostOK, Calm
  <1>6. apc[t] = "enqueue" => /\ meta'.gen = lmeta[t].gen + 1
                              /\ \A w \in Workers : hgen'[w] <= lmeta[t].gen
    <2>1. SUFFICES ASSUME apc[t] = "enqueue"
                   PROVE  /\ meta'.gen = lmeta[t].gen + 1
                          /\ \A w \in Workers : hgen'[w] <= lmeta[t].gen
      OBVIOUS
    <2>2. apc[t] \in PostLocked /\ apc[t] \in Cleared
      BY <2>1 DEF PostLocked, Cleared
    <2>3. /\ rq.st = "none" /\ runLock = None /\ destLock # None
          /\ meta.gen = lmeta[t].gen + 1
          /\ \A w \in Workers : hgen[w] <= lmeta[t].gen
      BY <1>1, <1>4, <2>1, <2>2, Distinct DEF PostOK
    <2> QED
      BY <1>1, <2>3 DEF Calm
  <1> QED
    BY <1>2, <1>5, <1>6 DEF PostOK, Calm

\* A calm step keeps the conclusions of a GET.
LEMMA CalmGet ==
    ASSUME IInv, Calm, NEW t \in Getters, GetOK(t),
           apc'[t] = apc[t], lmeta'[t] = lmeta[t]
    PROVE  GetOK(t)'
  <1>1. t \in Api /\ lmeta[t].gen \in Nat
    BY Distinct, Numbers DEF IInv
  <1>2. Names(lmeta[t].gen) => Names(lmeta[t].gen)'
    BY <1>1 DEF Calm, Names
  <1>3. apc[t] \in GetLocked => destLock # None
    BY <1>1, Distinct DEF IInv, LockInv, Locked
  <1> QED
    BY <1>2, <1>3 DEF GetOK, Calm

\* A calm step of RQ, a horse or a child keeps every conclusion.
LEMMA CalmStep ==
    ASSUME IInv, Orderly, Calm, HorseOK', HashOK', RunOK',
           UNCHANGED <<apc, lst, lmeta>>
    PROVE  Orderly'
  <1>1. \A t \in Posters : PostOK(t)'
    BY CalmPost DEF Orderly
  <1>2. \A t \in Getters : GetOK(t)'
    BY CalmGet DEF Orderly
  <1> QED
    BY <1>1, <1>2 DEF Orderly

-----------------------------------------------------------------------------
(* API threads *)

\* Steps at which a thread has concluded nothing yet.
Unsure == {"idle", "post", "corpse", "corpse2", "abandon", "abandon2", "stop",
           "cancel", "waitstop", "gstatus", "gprobe", "gstatus2", "gprobe2", "glock"}

\* A thread that has concluded nothing cannot be wrong.
LEMMA UnsureStep ==
    ASSUME Orderly, NEW t \in Api, Private(t), apc'[t] \in Unsure
    PROVE  Orderly'
  <1>1. PostOK(t)' /\ GetOK(t)'
    BY DEF PostOK, GetOK, Unsure, PostLocked, GetLocked, Cleared
  <1> QED
    BY <1>1, PrivateStep

\* A thread that takes a dead book to dest/.lock is right.
LEMMA ToLock ==
    ASSUME Orderly, NEW t \in Posters, Private(t), apc'[t] = "lock", Dead
    PROVE  Orderly'
  <1>1. Dead'
    BY SharedSame DEF Private
  <1>2. PostOK(t)'
    BY <1>1 DEF PostOK, PostLocked, Cleared
  <1> QED
    BY <1>2, PrivateStep, LifecycleAssumption DEF Api

\* The end of a request is a private step.
LEMMA RespondPrivate ==
    ASSUME TypeOK, NEW t \in Api, Respond(t),
           UNCHANGED <<meta, rq, listed, runLock, horseLock, horseRec, hpc,
                       hgen, hret, cpc>>
    PROVE  Private(t) /\ apc'[t] \in Unsure
  BY DEF TypeOK, Respond, Private, Unsure

\* Going on at pc is a private step.
LEMMA ContinuePrivate ==
    ASSUME TypeOK, NEW t \in Api, NEW pc, NEW m, Continue(t, pc, m),
           UNCHANGED <<meta, rq, listed, runLock, horseLock, horseRec, hpc,
                       hgen, hret, cpc>>
    PROVE  /\ Private(t) /\ apc'[t] = pc /\ lmeta'[t] = m
           /\ pc \in {"waitfail", "delete"} => lst'[t] = lst[t]
  <1>1. \A u \in Api \ {t} : lst'[u] = lst[u]
    BY DEF TypeOK, Continue
  <1>2. \A u \in Api \ {t} : apc'[u] = apc[u] /\ lmeta'[u] = lmeta[u]
    BY DEF TypeOK, Continue, Goto
  <1>3. apc'[t] = pc /\ lmeta'[t] = m
    BY DEF TypeOK, Continue, Goto
  <1>4. pc \in {"waitfail", "delete"} => lst'[t] = lst[t]
    BY DEF TypeOK, Continue
  <1> QED
    BY <1>1, <1>2, <1>3, <1>4 DEF Private

\* A status read is a private step.
LEMMA ReadPrivate ==
    ASSUME TypeOK, NEW t \in Api, NEW from, NEW pc, ReadStatus(t, from, pc)
    PROVE  Private(t) /\ apc'[t] = pc /\ lst'[t] = rq.st /\ apc[t] = from
  BY DEF TypeOK, ReadStatus, Goto, Private, diskVars, rqVars, lockVars,
     horseVars, childVars

\* The decision on a live job concludes nothing.
LEMMA LiveJobStep ==
    ASSUME TypeOK, Orderly, NEW t \in Api, NEW m, LiveJob(t, m),
           UNCHANGED <<meta, rq, listed, runLock, horseLock, horseRec, hpc,
                       hgen, hret, cpc>>
    PROVE  Orderly'
  <1>1. CASE Respond(t)
    BY <1>1, RespondPrivate, UnsureStep
  <1>2. CASE Continue(t, "stop", NoMeta)
    <2>1. Private(t) /\ apc'[t] = "stop"
      BY <1>2, ContinuePrivate
    <2> QED
      BY <2>1, UnsureStep DEF Unsure
  <1> QED
    BY <1>1, <1>2 DEF LiveJob

\* The looks of POST before dest/.lock.
LEMMA PostLooks ==
    ASSUME IInv, Orderly, NEW t \in Posters,
           PostLook(t) \/ PostCorpse(t) \/ PostAbandon(t)
    PROVE  Orderly'
  <1>0. /\ TypeOK /\ t \in Api /\ PostOK(t) /\ HorseOK /\ Names(meta.gen)
        /\ t \notin Getters
    BY Distinct, LifecycleAssumption DEF IInv, Orderly, HashOK
  <1>1. UNCHANGED <<meta, rq, listed, runLock, horseLock, horseRec, hpc, hgen,
                    hret, cpc>>
    BY DEF PostLook, PostCorpse, PostAbandon, OnlyReads, diskVars, rqVars,
       horseVars, childVars
  <1>2. \/ Respond(t)
        \/ Continue(t, "corpse", NoMeta)
        \/ Continue(t, "abandon", meta)
        \/ Continue(t, "lock", NoMeta) /\ Dead
        \/ Continue(t, "waitfail", meta) /\ apc[t] = "look"
        \/ \E m : LiveJob(t, m)
    <2>1. "dead" \in HorseAlive(t, meta.gen) => Dead
      BY <1>0, ProbedDead
    <2>2. ASSUME apc[t] = "look", lst[t] \notin INFLIGHT_STATUSES PROVE Dead
      BY <1>0, <2>2, NotInFlightDead DEF PostOK
    <2>3. CASE PostLook(t)
      BY <2>2, <2>3 DEF PostLook
    <2>4. CASE PostCorpse(t)
      BY <2>1, <2>4 DEF PostCorpse, queue_lost_corpse
    <2>5. CASE PostAbandon(t)
      BY <2>1, <2>5 DEF PostAbandon
    <2> QED
      BY <2>3, <2>4, <2>5
  <1>3. CASE Respond(t)
    BY <1>0, <1>1, <1>3, RespondPrivate, UnsureStep
  <1>4. CASE Continue(t, "corpse", NoMeta)
    <2>1. Private(t) /\ apc'[t] = "corpse"
      BY <1>0, <1>1, <1>4, ContinuePrivate
    <2> QED
      BY <1>0, <2>1, UnsureStep DEF Unsure
  <1>5. CASE Continue(t, "abandon", meta)
    <2>1. Private(t) /\ apc'[t] = "abandon"
      BY <1>0, <1>1, <1>5, ContinuePrivate
    <2> QED
      BY <1>0, <2>1, UnsureStep DEF Unsure
  <1>6. CASE Continue(t, "lock", NoMeta) /\ Dead
    BY <1>0, <1>1, <1>6, ContinuePrivate, ToLock
  <1>7. CASE Continue(t, "waitfail", meta) /\ apc[t] = "look"
    <2>1. /\ Private(t) /\ apc'[t] = "waitfail" /\ lmeta'[t] = meta
          /\ lst'[t] = lst[t]
      BY <1>0, <1>1, <1>7, ContinuePrivate
    <2>2. lst[t] \notin INFLIGHT_STATUSES => ~InFlight'
      BY <1>0, <1>1, <1>7, SharedSame DEF PostOK
    <2>3. Names(meta.gen)'
      BY <1>0, <1>1 DEF Names, InFlight
    <2>4. PostOK(t)'
      <3>1. (lmeta[t].gen)' = (meta.gen)'
        BY <1>1, <2>1
      <3> QED
        BY <2>1, <2>2, <2>3, <3>1 DEF PostOK, PostLocked, Cleared, Names
    <2> QED
      BY <1>0, <2>1, <2>4, PrivateStep
  <1>8. CASE \E m : LiveJob(t, m)
    BY <1>0, <1>1, <1>8, LiveJobStep
  <1> QED
    BY <1>2, <1>3, <1>4, <1>5, <1>6, <1>7, <1>8

\* POST's status reads.
LEMMA PostReads ==
    ASSUME IInv, Orderly, NEW t \in Posters, PostStart(t) \/ PostStatus(t)
    PROVE  Orderly'
  <1>0. TypeOK /\ t \in Api /\ PostOK(t) /\ t \notin Getters
    BY Distinct, LifecycleAssumption DEF IInv, Orderly
  <1>1. CASE PostStart(t)
    <2>1. Private(t) /\ apc'[t] = "post"
      BY <1>0, <1>1 DEF TypeOK, PostStart, Goto, Private, diskVars, rqVars,
         lockVars, horseVars, childVars
    <2> QED
      BY <1>0, <2>1, UnsureStep DEF Unsure
  <1>2. CASE ReadStatus(t, "corpse", "corpse2")
             \/ ReadStatus(t, "abandon", "abandon2")
    <2>1. Private(t) /\ apc'[t] \in {"corpse2", "abandon2"}
      BY <1>0, <1>2, ReadPrivate
    <2> QED
      BY <1>0, <2>1, UnsureStep DEF Unsure
  <1>3. CASE ReadStatus(t, "post", "look")
    <2>1. Private(t) /\ apc'[t] = "look" /\ lst'[t] = rq.st /\ rq' = rq
      BY <1>0, <1>3, ReadPrivate DEF Private
    <2>2. PostOK(t)'
      BY <2>1 DEF PostOK, PostLocked, Cleared, InFlight
    <2> QED
      BY <1>0, <2>1, <2>2, PrivateStep
  <1>4. CASE ReadStatus(t, "status3", "decide")
    <2>1. /\ Private(t) /\ apc'[t] = "decide" /\ lst'[t] = rq.st
          /\ apc[t] = "status3"
      BY <1>0, <1>4, ReadPrivate
    <2>2. Dead /\ runLock = None
      BY <1>0, <2>1 DEF PostOK, PostLocked
    <2>3. Dead' /\ runLock' = None /\ rq' = rq
      BY <2>1, <2>2, SharedSame DEF Private
    <2>4. PostOK(t)'
      BY <2>1, <2>3 DEF PostOK, Cleared
    <2> QED
      BY <1>0, <2>1, <2>4, PrivateStep
  <1> QED
    BY <1>1, <1>2, <1>3, <1>4 DEF PostStatus

\* _wait_until_clear: the hash has left the inflight states, or the deadline
\* is over and the horse of the recorded failure is gone.
LEMMA PostWaits ==
    ASSUME IInv, Orderly, NEW t \in Posters, PostWaited(t) \/ PostDeadline(t)
    PROVE  Orderly'
  <1>0. TypeOK /\ t \in Api /\ PostOK(t) /\ HorseOK
    BY Distinct DEF IInv, Orderly
  <1>1. UNCHANGED <<meta, rq, listed, runLock, horseLock, horseRec, hpc, hgen,
                    hret, cpc>>
    BY DEF PostWaited, PostDeadline, OnlyReads, diskVars, rqVars, horseVars,
       childVars
  <1>2. Respond(t) \/ (Continue(t, "lock", NoMeta) /\ Dead)
    <2>1. CASE PostWaited(t)
      BY <2>1, NotInFlightDead DEF PostWaited, InFlight
    <2>2. CASE PostDeadline(t)
      <3>1. ASSUME apc[t] = "waitfail",
                   NEW busy, NEW alive \in HorseAlive(t, lmeta[t].gen),
                   recorded_failure_clear(lmeta[t], lst[t], busy, alive)
            PROVE  Dead
        <4>1. CASE lst[t] \in INFLIGHT_STATUSES
          <5>1. "dead" \in HorseAlive(t, lmeta[t].gen)
            BY <3>1, <4>1 DEF recorded_failure_clear
          <5>2. Names(lmeta[t].gen)
            BY <1>0, <3>1 DEF PostOK
          <5> QED
            BY <1>0, <5>1, <5>2, ProbedDead
        <4>2. CASE lst[t] \notin INFLIGHT_STATUSES
          BY <1>0, <3>1, <4>2, NotInFlightDead DEF PostOK
        <4> QED
          BY <4>1, <4>2
      <3> QED
        BY <2>2, <3>1 DEF PostDeadline
    <2> QED
      BY <2>1, <2>2
  <1>3. CASE Respond(t)
    BY <1>0, <1>1, <1>3, RespondPrivate, UnsureStep
  <1>4. CASE Continue(t, "lock", NoMeta) /\ Dead
    BY <1>0, <1>1, <1>4, ContinuePrivate, ToLock
  <1> QED
    BY <1>2, <1>3, <1>4

\* POST's steps under dest/.lock that only read, and the removal of the
\* documents.
LEMMA PostUnderLock ==
    ASSUME IInv, Orderly, NEW t \in Posters,
           PostLock(t) \/ PostDecide(t) \/ PostCap(t) \/ PostClear(t)
    PROVE  Orderly'
  <1>0. TypeOK /\ t \in Api /\ PostOK(t) /\ t \notin Getters
    BY Distinct, LifecycleAssumption DEF IInv, Orderly
  <1>1. UNCHANGED <<meta, rq, listed, runLock, horseLock, horseRec, hpc, hgen,
                    hret, cpc>>
    BY DEF PostLock, PostDecide, PostCap, PostClear, OnlyReads, diskVars,
       rqVars, lockVars, horseVars, childVars
  <1>2. CASE Respond(t)
    BY <1>0, <1>1, <1>2, RespondPrivate, UnsureStep
  <1>3. CASE PostLock(t) /\ ~Respond(t)
    <2>1. apc[t] = "lock" /\ FALSE \in RunBusy(t)
      BY <1>3 DEF PostLock
    <2>2. Private(t) /\ apc'[t] = "status3"
      BY <1>0, <1>1, <1>3 DEF TypeOK, PostLock, Goto, Private
    <2>3. runLock' = None /\ Dead'
      BY <1>0, <1>1, <2>1, SharedSame DEF RunBusy, PostOK
    <2>4. PostOK(t)'
      BY <2>2, <2>3 DEF PostOK, Cleared
    <2> QED
      BY <1>0, <2>2, <2>4, PrivateStep
  <1>4. CASE PostDecide(t) /\ ~Respond(t)
    <2>1. apc[t] = "decide" /\ Continue(t, "delete", meta)
      BY <1>4 DEF PostDecide
    <2>2. Private(t) /\ apc'[t] = "delete" /\ lst'[t] = lst[t]
      BY <1>0, <1>1, <2>1, ContinuePrivate
    <2>3. /\ Dead' /\ runLock' = None
          /\ lst[t] = "none" => rq'.st = "none"
      BY <1>0, <1>1, <2>1, SharedSame DEF PostOK, PostLocked
    <2>4. PostOK(t)'
      BY <2>2, <2>3 DEF PostOK, Cleared
    <2> QED
      BY <1>0, <2>2, <2>4, PrivateStep
  <1>5. CASE (PostCap(t) /\ ~Respond(t)) \/ PostClear(t)
    <2>1. /\ apc[t] \in {"cap", "clear"}
          /\ \/ Goto(t, "clear") /\ UNCHANGED <<lst, lmeta>>
             \/ Goto(t, "stamp") /\ UNCHANGED <<lst, lmeta>>
      BY <1>5 DEF PostCap, PostClear
    <2>2. Private(t) /\ apc'[t] \in {"clear", "stamp"}
      BY <1>0, <1>1, <2>1 DEF TypeOK, Goto, Private
    <2>3. runLock' = None /\ rq'.st = "none"
      BY <1>0, <1>1, <2>1 DEF PostOK, PostLocked, Cleared
    <2>4. PostOK(t)'
      BY <2>2, <2>3 DEF PostOK
    <2> QED
      BY <1>0, <2>2, <2>4, PrivateStep
  <1> QED
    BY <1>2, <1>3, <1>4, <1>5

\* A hash that leaves the inflight states while no horse is at work.
LEMMA HashGone ==
    ASSUME HorseOK, HashOK, RunOK, \A w \in Workers : ~Engaged(w),
           rq'.st \notin INFLIGHT_STATUSES, rq'.by = None, ~listed',
           UNCHANGED <<meta, runLock, horseLock, horseRec, hpc, hgen, hret,
                       cpc>>
    PROVE  HorseOK' /\ HashOK' /\ RunOK' /\ Dead' /\ \A g : Names(g)'
  <1>1. ~InFlight'
    BY DEF InFlight
  <1>2. rq'.st # "started"
    BY DEF INFLIGHT_STATUSES
  <1>3. \A w \in Workers : ~Engaged(w)'
    BY DEF Engaged
  <1>4. HorseOK'
    BY <1>2, <1>3, Distinct DEF HorseOK
  <1>5. HashOK'
    BY <1>1 DEF HashOK, Names
  <1>6. RunOK'
    BY <1>1 DEF RunOK
  <1> QED
    BY <1>1, <1>4, <1>5, <1>6 DEF Dead, Names

\* No horse is at work on a dead book, nor on one whose hash no slot has.
LEMMA NobodyWorks ==
    ASSUME HorseOK, Dead \/ ~InFlight \/ rq.by = None
    PROVE  \A w \in Workers : ~Engaged(w)
  BY AtWorkOwns, Distinct DEF Dead

\* While a POST holds dest/.lock no GET does.
LEMMA PostAlone ==
    ASSUME IInv, NEW t \in Posters, apc[t] \in PostLocked
    PROVE  /\ destLock = t
           /\ \A u \in Getters : apc[u] \notin GetLocked
  BY Distinct, LifecycleAssumption DEF IInv, LockInv, Locked

\* request_stop reads the status.
LEMMA PostStopOK ==
    ASSUME IInv, Orderly, NEW t \in Posters, PostStop(t)
    PROVE  Orderly'
  <1>0. TypeOK /\ t \in Api
    BY Distinct DEF IInv
  <1>1. CASE ReadStatus(t, "stop", "cancel")
    <2>1. Private(t) /\ apc'[t] = "cancel"
      BY <1>0, <1>1, ReadPrivate
    <2> QED
      BY <1>0, <2>1, UnsureStep DEF Unsure
  <1>2. CASE OnlyReads /\ Continue(t, "waitstop", NoMeta)
    <2>1. UNCHANGED <<meta, rq, listed, runLock, horseLock, horseRec, hpc,
                      hgen, hret, cpc>>
      BY <1>2 DEF OnlyReads, diskVars, rqVars, horseVars, childVars
    <2>2. Private(t) /\ apc'[t] = "waitstop"
      BY <1>0, <1>2, <2>1, ContinuePrivate
    <2> QED
      BY <1>0, <2>2, UnsureStep DEF Unsure
  <1> QED
    BY <1>1, <1>2 DEF PostStop

\* A step of POST after which the hash is out of flight while no horse is at
\* work.
LEMMA PostHashGone ==
    ASSUME OnePoster, IInv, Orderly, NEW t \in Posters,
           \A w \in Workers : ~Engaged(w),
           rq'.st \notin INFLIGHT_STATUSES, rq'.by = None, ~listed',
           \A u \in Api \ {t} : apc'[u] = apc[u],
           UNCHANGED <<lmeta, meta, runLock, horseLock, horseRec, hpc, hgen,
                       hret, cpc>>,
           PostOK(t)'
    PROVE  Orderly'
  <1>0. HorseOK /\ HashOK /\ RunOK
    BY DEF Orderly
  <1>1. HorseOK' /\ HashOK' /\ RunOK' /\ Dead' /\ \A g : Names(g)'
    BY <1>0, HashGone
  <1>2. ASSUME NEW u \in Getters PROVE GetOK(u)'
    <2>1. GetOK(u) /\ apc'[u] = apc[u] /\ lmeta'[u] = lmeta[u]
      BY Distinct, LifecycleAssumption DEF Orderly
    <2> QED
      BY <1>1, <2>1 DEF GetOK, Names
  <1> QED
    BY <1>1, <1>2 DEF Orderly, OnePoster

\* request_stop cancels, or sends the stop command; outside the "late_cancel"
\* window no slot has the job that is canceled.
LEMMA PostCancelOK ==
    ASSUME OnePoster, IInv, Orderly, NEW t \in Posters, PostCancel(t),
           races' = {}
    PROVE  Orderly'
  <1>0. TypeOK /\ t \in Api /\ HorseOK
    BY Distinct DEF IInv, Orderly
  <1>1. /\ apc'[t] = "waitstop"
        /\ \A u \in Api \ {t} : apc'[u] = apc[u] /\ lst'[u] = lst[u]
        /\ UNCHANGED <<lmeta, meta, runLock, horseLock, horseRec, hpc, hgen,
                       hret, cpc>>
    BY <1>0 DEF PostCancel, Goto, TypeOK, diskVars, lockVars, horseVars,
       childVars
  <1>2. CASE UNCHANGED <<rq, listed>>
    <2>1. Private(t)
      BY <1>1, <1>2 DEF Private
    <2> QED
      BY <1>0, <1>1, <2>1, UnsureStep DEF Unsure
  <1>3. CASE /\ rq' = [rq EXCEPT !.st = "canceled"] /\ listed' = FALSE
             /\ rq.by = None
    <2>1. rq'.st = "canceled" /\ rq'.by = None
      BY <1>0, <1>3 DEF TypeOK, RqRecord
    <2>2. rq'.st \notin INFLIGHT_STATUSES
      BY <2>1 DEF INFLIGHT_STATUSES
    <2>3. PostOK(t)'
      BY <1>1 DEF PostOK, PostLocked, Cleared
    <2> QED
      BY <1>0, <1>1, <1>3, <2>1, <2>2, <2>3, NobodyWorks, PostHashGone
  <1> QED
    BY <1>2, <1>3 DEF PostCancel, rqVars

\* queue.delete.
LEMMA PostDeleteOK ==
    ASSUME OnePoster, IInv, Orderly, NEW t \in Posters, PostDelete(t)
    PROVE  Orderly'
  <1>0. /\ TypeOK /\ t \in Api /\ t \notin Getters
        /\ HorseOK /\ HashOK /\ PostOK(t)
    BY Distinct, LifecycleAssumption DEF IInv, Orderly
  <1>1. /\ \A u \in Api \ {t} : apc'[u] = apc[u]
        /\ UNCHANGED <<lst, lmeta, meta, runLock, horseLock, horseRec, hpc,
                       hgen, hret, cpc>>
    BY <1>0 DEF PostDelete, Goto, TypeOK, diskVars, lockVars, horseVars,
       childVars
  <1>2. /\ apc[t] \in {"delete", "drop", "sweep"}
        /\ runLock = None /\ runLock' = None
    BY <1>0, <1>1 DEF PostDelete, PostOK, PostLocked
  <1>3. CASE apc[t] = "drop"
    <2>1. Dead
      BY <1>0, <1>3 DEF PostOK
    <2>2. apc'[t] \in {"sweep", "cap"} /\ rq' = NoRq /\ ~listed'
      BY <1>0, <1>3 DEF PostDelete, Goto, TypeOK, HashOK
    <2>3. rq'.st = "none" /\ rq'.by = None
      BY <2>2 DEF NoRq
    <2>4. PostOK(t)'
      BY <1>2, <2>2, <2>3 DEF PostOK
    <2> QED
      BY <1>0, <1>1, <2>1, <2>2, <2>3, <2>4, NobodyWorks, PostHashGone
         DEF INFLIGHT_STATUSES
  <1>4. CASE apc[t] # "drop"
    <2>1. rq' = rq /\ (listed' => listed)
      BY <1>2, <1>4 DEF PostDelete
    <2>2. Private(t)
      BY <1>1, <2>1 DEF Private
    <2>3. CASE apc[t] = "delete" /\ lst[t] # "none"
      <3>1. apc'[t] = "drop"
        BY <1>0, <2>3 DEF PostDelete, Goto, TypeOK
      <3>2. Dead'
        BY <1>0, <1>1, <2>1, <2>3, SharedSame DEF PostOK
      <3>3. PostOK(t)'
        BY <1>2, <3>1, <3>2 DEF PostOK, Cleared
      <3> QED
        BY <1>0, <2>2, <3>3, PrivateStep
    <2>4. CASE apc[t] = "sweep" \/ (apc[t] = "delete" /\ lst[t] = "none")
      <3>1. apc'[t] = "cap"
        BY <1>0, <2>4 DEF PostDelete, Goto, TypeOK
      <3>2. rq'.st = "none"
        BY <1>0, <2>1, <2>4 DEF PostOK, Cleared
      <3>3. PostOK(t)'
        BY <1>2, <3>1, <3>2 DEF PostOK
      <3> QED
        BY <1>0, <2>2, <3>3, PrivateStep
    <2> QED
      BY <1>2, <1>4, <2>3, <2>4
  <1> QED
    BY <1>3, <1>4

\* The stamp: outside the "reused_gen" window the new generation is newer than
\* every horse and child there is.
LEMMA PostStampOK ==
    ASSUME OnePoster, IInv, Orderly, NEW t \in Posters, PostStamp(t),
           races' = {}
    PROVE  Orderly'
  <1>0. /\ TypeOK /\ t \in Api /\ t \notin Getters
        /\ HorseOK /\ HashOK /\ RunOK /\ PostOK(t)
    BY Distinct, LifecycleAssumption DEF IInv, Orderly
  <1>1. /\ apc[t] = "stamp" /\ apc'[t] = "enqueue"
        /\ \A u \in Api \ {t} : apc'[u] = apc[u]
        /\ UNCHANGED <<lst, lmeta>>
        /\ UNCHANGED <<rq, listed, runLock, horseLock, horseRec, hpc, hgen,
                       hret, cpc>>
    BY <1>0 DEF PostStamp, Goto, TypeOK, rqVars, lockVars, horseVars, childVars
  <1>2. rq.st = "none" /\ runLock = None
    BY <1>0, <1>1 DEF PostOK, Cleared, PostLocked
  <1>3. ~InFlight'
    BY <1>1, <1>2 DEF InFlight, INFLIGHT_STATUSES
  <1>4. meta'.gen = lmeta[t].gen + 1 /\ meta'.st = "queued"
    BY DEF PostStamp
  <1>5. \A w \in Workers : hgen[w] <= lmeta[t].gen
    <2>1. \A w \in Workers : ~(hgen[w] > lmeta[t].gen)
      BY DEF PostStamp
    <2> QED
      BY <1>0, <2>1, Numbers
  <1>6. HorseOK'
    BY <1>0, <1>1 DEF HorseOK, Engaged
  <1>7. HashOK'
    BY <1>0, <1>1, <1>2, <1>3, <1>4 DEF HashOK, Names
  <1>8. RunOK'
    BY <1>0, <1>1, <1>2, Distinct DEF RunOK
  <1>9. PostOK(t)'
    BY <1>1, <1>2, <1>4, <1>5 DEF PostOK
  <1>10. ASSUME NEW u \in Getters PROVE GetOK(u)'
    <2>1. apc'[u] = apc[u] /\ apc[u] \notin GetLocked
      BY <1>0, <1>1, PostAlone, Distinct DEF PostLocked
    <2> QED
      BY <2>1 DEF GetOK, GetLocked
  <1> QED
    BY <1>6, <1>7, <1>8, <1>9, <1>10 DEF Orderly, OnePoster

\* queue.enqueue.
LEMMA PostEnqueueOK ==
    ASSUME OnePoster, IInv, Orderly, NEW t \in Posters, PostEnqueue(t)
    PROVE  Orderly'
  <1>0. /\ TypeOK /\ t \in Api /\ t \notin Getters
        /\ HorseOK /\ HashOK /\ RunOK /\ PostOK(t) /\ lmeta[t].gen \in Nat
    BY Distinct, Numbers, LifecycleAssumption DEF IInv, Orderly
  <1>1. /\ apc[t] = "enqueue" /\ apc'[t] = "idle"
        /\ \A u \in Api \ {t} : apc'[u] = apc[u]
        /\ UNCHANGED <<meta, runLock, horseLock, horseRec, hpc, hgen, hret,
                       cpc>>
    BY <1>0 DEF PostEnqueue, Respond, TypeOK, diskVars, horseVars, childVars
  <1>2. /\ rq.st = "none" /\ runLock = None
        /\ meta.gen = lmeta[t].gen + 1
        /\ \A w \in Workers : hgen[w] <= lmeta[t].gen
    BY <1>0, <1>1 DEF PostOK, Cleared, PostLocked
  <1>3. rq'.st = "queued" /\ rq'.gen = lmeta[t].gen + 1 /\ rq'.by = None
    BY <1>2 DEF PostEnqueue
  <1>4. \A w \in Workers : ~Engaged(w)
    BY <1>0, <1>2, NobodyWorks DEF InFlight, INFLIGHT_STATUSES
  <1>5. HorseOK'
    BY <1>0, <1>1, <1>3, <1>4, Distinct DEF HorseOK, Engaged
  <1>6. HashOK'
    <2>1. rq'.gen > 0 /\ meta'.gen <= rq'.gen
      BY <1>0, <1>1, <1>2, <1>3
    <2>2. \A w \in Workers : hgen'[w] <= rq'.gen
      BY <1>0, <1>1, <1>2, <1>3, Numbers
    <2>3. Names(meta.gen)'
      BY <1>1, <1>2, <1>3 DEF Names
    <2> QED
      BY <1>0, <1>1, <1>3, <2>1, <2>2, <2>3 DEF HashOK
  <1>7. RunOK'
    BY <1>0, <1>1, <1>2, Distinct DEF RunOK
  <1>8. PostOK(t)'
    BY <1>1 DEF PostOK, PostLocked, Cleared
  <1>9. ASSUME NEW u \in Getters PROVE GetOK(u)'
    <2>1. apc'[u] = apc[u] /\ apc[u] \notin GetLocked
      BY <1>0, <1>1, PostAlone, Distinct DEF PostLocked
    <2> QED
      BY <2>1 DEF GetOK, GetLocked
  <1> QED
    BY <1>5, <1>6, <1>7, <1>8, <1>9 DEF Orderly, OnePoster

\* mark_job_failed: the generation in meta.json stays, or the file was missing.
LEMMA FailedGen ==
    ASSUME NEW g, NEW e, meta' = Failed(g, e)
    PROVE  /\ meta'.st # "none"
           /\ meta.st # "none" => meta'.gen = meta.gen
           /\ meta.st = "none" => meta'.gen = g
  BY DEF Failed, TERMINAL_STATUS

\* A write of meta.json under the generation it has.
LEMMA SameGen ==
    ASSUME HorseOK, HashOK, RunOK, meta'.gen = meta.gen,
           meta'.st = "none" => meta.st = "none",
           UNCHANGED <<rq, listed, runLock, horseLock, horseRec, hpc, hgen,
                       hret, cpc>>
    PROVE  HorseOK' /\ HashOK' /\ RunOK' /\ Calm
  <1>1. HorseOK'
    BY DEF HorseOK, Engaged
  <1>2. HashOK'
    BY DEF HashOK, Names, InFlight
  <1>3. RunOK'
    BY DEF RunOK, InFlight
  <1>4. Calm
    BY DEF Calm, Dead, Names, InFlight, Engaged
  <1> QED
    BY <1>1, <1>2, <1>3, <1>4

\* GET's steps before the mark.
LEMMA GetReads ==
    ASSUME IInv, Orderly, NEW t \in Getters,
           GetStart(t) \/ GetStatus(t) \/ GetProbe(t) \/ GetLock(t)
    PROVE  Orderly'
  <1>0. /\ TypeOK /\ t \in Api /\ t \notin Posters /\ GetOK(t)
        /\ HorseOK /\ Names(meta.gen)
    BY Distinct, LifecycleAssumption DEF IInv, Orderly, HashOK
  <1>1. UNCHANGED <<meta, rq, listed, runLock, horseLock, horseRec, hpc, hgen,
                    hret, cpc>>
    BY DEF GetStart, GetStatus, GetProbe, GetLock, OnlyReads, diskVars,
       rqVars, lockVars, horseVars, childVars
  <1>2. CASE Respond(t)
    BY <1>0, <1>1, <1>2, RespondPrivate, UnsureStep
  <1>3. CASE GetStart(t)
    <2>1. Private(t) /\ apc'[t] = "gstatus"
      BY <1>0, <1>1, <1>3 DEF TypeOK, GetStart, Goto, Private
    <2> QED
      BY <1>0, <2>1, UnsureStep DEF Unsure
  <1>4. CASE \E pc \in {"glock", "gprobe", "gprobe2", "gstatus2"} : \E m :
               Continue(t, pc, m)
    <2>1. Private(t) /\ apc'[t] \in {"glock", "gprobe", "gprobe2", "gstatus2"}
      BY <1>0, <1>1, <1>4, ContinuePrivate
    <2> QED
      BY <1>0, <2>1, UnsureStep DEF Unsure
  <1>5. CASE /\ apc[t] = "gstatus3" /\ rq.st = "started"
             /\ Continue(t, "gprobe3", lmeta[t])
    <2>1. Private(t) /\ apc'[t] = "gprobe3" /\ lmeta'[t] = lmeta[t]
      BY <1>0, <1>1, <1>5, ContinuePrivate
    <2>2. Names(lmeta[t].gen) /\ meta.st # "none"
      BY <1>0, <1>5 DEF GetOK, GetLocked
    <2>3. GetOK(t)'
      BY <1>1, <2>1, <2>2 DEF GetOK, Names, InFlight
    <2> QED
      BY <1>0, <2>1, <2>3, PrivateStep
  <1>6. CASE /\ apc[t] \in {"gstatus3", "gprobe3"} /\ Dead
             /\ \E m : Continue(t, "gmark", m)
    <2>1. Private(t) /\ apc'[t] = "gmark"
      BY <1>0, <1>1, <1>6, ContinuePrivate
    <2>2. Dead' /\ meta'.st # "none"
      BY <1>0, <1>1, <1>6, SharedSame DEF GetOK, GetLocked
    <2>3. GetOK(t)'
      BY <2>1, <2>2 DEF GetOK
    <2> QED
      BY <1>0, <2>1, <2>3, PrivateStep
  <1>7. CASE GetStatus(t) /\ ~Respond(t)
    <2>1. rq.st \in LOST_STATUSES => Dead
      BY NotInFlightDead DEF LOST_STATUSES, InFlight, INFLIGHT_STATUSES
    <2> QED
      BY <1>4, <1>5, <1>6, <1>7, <2>1 DEF GetStatus
  <1>8. CASE GetProbe(t) /\ ~Respond(t)
    <2>1. apc[t] = "gprobe3" /\ "dead" \in HorseAlive(t, lmeta[t].gen) => Dead
      BY <1>0, ProbedDead DEF GetOK
    <2> QED
      BY <1>4, <1>6, <1>8, <2>1 DEF GetProbe
  <1>9. CASE GetLock(t) /\ ~Respond(t)
    <2>1. /\ Private(t) /\ apc'[t] = "gstatus3" /\ lmeta'[t] = meta
          /\ meta.st # "none"
      BY <1>0, <1>1, <1>9 DEF TypeOK, GetLock, Goto, Private
    <2>2. (lmeta[t].gen)' = meta.gen
      BY <2>1
    <2>3. GetOK(t)'
      BY <1>0, <1>1, <2>1, <2>2 DEF GetOK, Names, InFlight
    <2> QED
      BY <1>0, <2>1, <2>3, PrivateStep
  <1> QED
    BY <1>2, <1>3, <1>7, <1>8, <1>9

\* The lost mark.
LEMMA GetMarkOK ==
    ASSUME IInv, Orderly, NEW t \in Getters, GetMark(t)
    PROVE  Orderly'
  <1>0. /\ TypeOK /\ t \in Api /\ t \notin Posters /\ GetOK(t)
        /\ HorseOK /\ HashOK /\ RunOK
    BY Distinct, LifecycleAssumption DEF IInv, Orderly
  <1>1. /\ apc[t] = "gmark" /\ apc'[t] = "idle"
        /\ \A u \in Api \ {t} : /\ apc'[u] = apc[u] /\ lst'[u] = lst[u]
                                /\ lmeta'[u] = lmeta[u]
        /\ UNCHANGED <<rq, listed, runLock, horseLock, horseRec, hpc, hgen,
                       hret, cpc>>
    BY <1>0 DEF GetMark, Respond, TypeOK, rqVars, horseVars, childVars
  <1>2. meta'.gen = meta.gen /\ meta'.st # "none"
    BY <1>0, <1>1, FailedGen DEF GetMark, GetOK, GetLocked
  <1>3. HorseOK' /\ HashOK' /\ RunOK' /\ Calm
    BY <1>0, <1>1, <1>2, SameGen
  <1>4. \A u \in Posters : PostOK(u)'
    BY <1>0, <1>1, <1>3, CalmPost, Distinct DEF Orderly
  <1>5. GetOK(t)'
    BY <1>1 DEF GetOK, GetLocked
  <1>6. \A u \in Getters \ {t} : GetOK(u)'
    BY <1>1, <1>3, CalmGet, Distinct DEF Orderly
  <1> QED
    BY <1>3, <1>4, <1>5, <1>6 DEF Orderly

\* An outage of Redis and an exit of the API.
LEMMA ApiFaultOK ==
    ASSUME IInv, Orderly, NEW t \in Api, RedisDown(t) \/ ApiCrash(t)
    PROVE  Orderly'
  <1>0. TypeOK
    BY DEF IInv
  <1>1. UNCHANGED <<meta, rq, listed, runLock, horseLock, horseRec, hpc, hgen,
                    hret, cpc>>
    BY DEF RedisDown, ApiCrash, diskVars, rqVars, horseVars, childVars
  <1>2. CASE Respond(t)
    BY <1>0, <1>1, <1>2, RespondPrivate, UnsureStep
  <1>3. CASE LiveJob(t, lmeta[t])
    BY <1>0, <1>1, <1>3, LiveJobStep
  <1> QED
    BY <1>2, <1>3 DEF RedisDown, ApiCrash

-----------------------------------------------------------------------------
(* RQ and the horses *)

\* Steps that leave the hash, the files and .run.lock alone and at most let
\* idle slots forget their generation.
LEMMA SlotsForget ==
    ASSUME TypeOK, HashOK, RunOK,
           \A v \in Workers : \/ hgen'[v] = hgen[v]
                              \/ hgen'[v] = 0 /\ cpc[v] = "none",
           UNCHANGED <<meta, rq, listed, runLock, horseRec, cpc>>
    PROVE  HashOK' /\ RunOK'
  <1>1. \A v \in Workers : hgen[v] \in Nat /\ hgen'[v] \in Nat
                           /\ hgen'[v] <= hgen[v]
    BY Numbers
  <1>2. \A v \in Workers : cpc[v] \in Working => hgen'[v] = hgen[v]
    BY DEF Working, InPipeline
  <1>3. InFlight' <=> InFlight
    BY DEF InFlight
  <1>4. HashOK'
    <2>1. InFlight => \A v \in Workers : hgen'[v] <= rq.gen
      BY <1>1, Numbers DEF HashOK
    <2> QED
      BY <1>3, <2>1 DEF HashOK, Names
  <1>5. RunOK'
    <2> SUFFICES ASSUME NEW u \in Workers, cpc[u] \in Working
                 PROVE  /\ meta.gen <= hgen'[u] /\ horseRec \in {0, hgen'[u]}
                        /\ InFlight => rq.gen <= hgen'[u]
                        /\ \A v \in Workers : hgen'[v] <= hgen'[u]
      BY <1>3 DEF RunOK
    <2>1. \A v \in Workers : hgen[v] <= hgen[u]
      BY DEF RunOK
    <2>2. \A v \in Workers : hgen'[v] <= hgen[u]
      BY <1>1, <2>1
    <2> QED
      BY <1>2, <2>2 DEF RunOK
  <1> QED
    BY <1>4, <1>5

\* Such a step is calm if it engages no horse.
LEMMA ForgetCalm ==
    ASSUME TypeOK,
           \A v \in Workers : hgen'[v] = hgen[v] \/ hgen'[v] = 0,
           \A v \in Workers : Engaged(v)' => Engaged(v),
           UNCHANGED <<meta, rq, horseRec>>,
           runLock = None => runLock' = None
    PROVE  Calm
  <1>1. \A g \in Nat : (\A w \in Workers : hgen[w] <= g)
                       => \A w \in Workers : hgen'[w] <= g
    <2> SUFFICES ASSUME NEW g \in Nat, \A w \in Workers : hgen[w] <= g,
                        NEW w \in Workers
                 PROVE  hgen'[w] <= g
      OBVIOUS
    <2>1. hgen[w] <= g /\ (hgen'[w] = hgen[w] \/ hgen'[w] = 0)
      OBVIOUS
    <2> QED
      BY <2>1
  <1>2. (Dead => Dead') /\ \A g \in Nat : Names(g) => Names(g)'
    BY DEF Dead, Names, InFlight
  <1>3. InFlight' <=> InFlight
    BY DEF InFlight
  <1> QED
    BY <1>1, <1>2, <1>3 DEF Calm

\* A horse that leaves execute_job without a retry, however it ends.
LEMMA HorseLeaves ==
    ASSUME IInv, Orderly, NEW w \in Workers,
           HorseReturn(w) \/ HorseKilled(w) \/ WorkerCrash(w) \/ StopHorse(w)
    PROVE  Orderly'
  <1>0. TypeOK /\ HorseOK /\ HashOK /\ RunOK
    BY DEF IInv, Orderly
  <1>1. UNCHANGED <<meta, rq, listed, runLock, horseRec, cpc, apc, lst, lmeta>>
    BY DEF HorseReturn, HorseKilled, WorkerCrash, StopHorse, diskVars, rqVars,
       childVars, apiVars
  <1>2. /\ hpc'[w] \notin Taken /\ hret'[w] # "retry"
        /\ \A v \in Workers \ {w} : hpc'[v] = hpc[v] /\ hret'[v] = hret[v]
    <2>1. /\ hpc \in [Workers -> HorsePc]
          /\ hret \in [Workers ->
                         {"none", "done", "retry", "known", "unknown"}]
      BY <1>0 DEF TypeOK
    <2>2. CASE HorseReturn(w)
      BY <2>1, <2>2 DEF HorseReturn, Taken, Executing
    <2>3. CASE HorseKilled(w)
      BY <2>1, <2>3 DEF HorseKilled, Taken, Executing
    <2>4. CASE WorkerCrash(w)
      BY <2>1, <2>4 DEF WorkerCrash, Taken, Executing
    <2>5. CASE StopHorse(w)
      <3>1. hret[w] # "retry"
        BY <1>0, <2>5 DEF StopHorse, HorseOK, Taken, Executing
      <3> QED
        BY <2>1, <2>5, <3>1 DEF StopHorse, Taken, Executing, horseVars
    <2> QED
      BY <2>2, <2>3, <2>4, <2>5
  <1>3. /\ \A v \in Workers \ {w} : hgen'[v] = hgen[v]
        /\ \/ hgen'[w] = hgen[w]
           \/ hgen'[w] = 0 /\ cpc[w] = "none" /\ hpc'[w] = "idle"
    <2>1. hgen \in [Workers -> Nat] /\ hpc \in [Workers -> HorsePc]
      BY <1>0 DEF TypeOK
    <2>2. CASE WorkerCrash(w)
      BY <2>1, <2>2 DEF WorkerCrash
    <2>3. CASE UNCHANGED hgen
      BY <2>3
    <2> QED
      BY <2>2, <2>3 DEF HorseReturn, HorseKilled, StopHorse
  <1>4. horseLock' = Release(horseLock, w)
    <2>1. CASE HorseReturn(w)
      BY <1>0, <2>1 DEF HorseReturn, HorseOK, Holding, Release
    <2> QED
      BY <2>1 DEF HorseKilled, WorkerCrash, StopHorse
  <1>5. \A v \in Workers : Engaged(v)' => Engaged(v) /\ v # w
    BY <1>2 DEF Engaged
  <1>6. HashOK' /\ RunOK'
    BY <1>0, <1>1, <1>3, SlotsForget
  <1>7. Calm
    BY <1>0, <1>1, <1>3, <1>5, ForgetCalm
  <1>8. HorseOK'
    <2> SUFFICES ASSUME NEW v \in Workers
                 PROVE  /\ Engaged(v)' =>
                             /\ rq.by = v
                             /\ rq.st = IF hpc'[v] = "popped" THEN "queued"
                                           ELSE "started"
                        /\ rq.by = v /\ hpc'[v] # "idle" => rq.gen = hgen'[v]
                        /\ hret'[v] = "retry" =>
                             hpc'[v] = "saving" /\ horseRec = 0
                        /\ hpc'[v] \in {"popped", "start"} => horseRec # hgen'[v]
                        /\ horseLock' = v <=> hpc'[v] \in Holding
                        /\ hpc'[v] \in Holding => horseRec = hgen'[v]
      BY <1>1 DEF HorseOK
    <2>1. CASE v = w
      <3>1. hpc'[w] \notin Holding /\ hpc'[w] \notin {"popped", "start"}
        BY <1>2 DEF Taken, Executing, Holding
      <3>2. horseLock' # w
        BY <1>4, Distinct DEF Release
      <3>3. rq.by = w /\ hpc'[w] # "idle" => rq.gen = hgen'[w]
        <4>1. hpc'[w] # "idle" => hpc[w] # "idle"
          BY <1>0 DEF HorseReturn, HorseKilled, WorkerCrash, StopHorse,
             Taken, Executing
        <4> QED
          BY <1>0, <1>3, <4>1 DEF HorseOK
      <3> QED
        BY <1>2, <1>5, <2>1, <3>1, <3>2, <3>3
    <2>2. CASE v # w
      <3>1. hpc'[v] = hpc[v] /\ hret'[v] = hret[v] /\ hgen'[v] = hgen[v]
        BY <1>2, <1>3, <2>2
      <3>2. horseLock' = v <=> horseLock = v
        BY <1>4, <2>2, Distinct DEF Release
      <3> QED
        BY <1>0, <1>5, <3>1, <3>2 DEF HorseOK
    <2> QED
      BY <2>1, <2>2
  <1> QED
    BY <1>1, <1>6, <1>7, <1>8, CalmStep

\* A slot pops the book.
LEMMA HorsePopOK ==
    ASSUME IInv, Orderly, NEW w \in Workers, HorsePop(w), races' = {}
    PROVE  Orderly'
  <1>0. TypeOK /\ HorseOK /\ HashOK /\ RunOK
    BY DEF IInv, Orderly
  <1>1. /\ hpc[w] = "idle" /\ cpc[w] = "none" /\ rq.st = "queued"
        /\ rq.by = None /\ horseRec # rq.gen /\ ~listed'
        /\ UNCHANGED <<meta, runLock, horseLock, horseRec, hret, cpc, apc, lst,
                       lmeta>>
    <2>1. listed /\ rq.st = "queued"
      BY <1>0 DEF HorsePop, HashOK
    <2>2. rq.by = None
      BY <1>0, <2>1 DEF HashOK
    <2>3. horseRec # rq.gen
      <3>1. horseRec = rq.gen => races' = races \cup {"stale_record"}
        BY DEF HorsePop
      <3> QED
        BY <3>1
    <2> QED
      BY <2>1, <2>2, <2>3 DEF HorsePop, diskVars, lockVars, childVars, apiVars
  <1>2. rq'.st = "queued" /\ rq'.by = w /\ rq'.gen = rq.gen
    BY <1>0, <1>1 DEF HorsePop, TypeOK, RqRecord
  <1>3. /\ hpc'[w] = "popped" /\ hgen'[w] = rq.gen
        /\ \A v \in Workers \ {w} : hpc'[v] = hpc[v] /\ hgen'[v] = hgen[v]
    BY <1>0 DEF HorsePop, TypeOK
  <1>4. InFlight /\ InFlight'
    BY <1>1, <1>2 DEF InFlight, INFLIGHT_STATUSES
  <1>5. \A v \in Workers : ~Engaged(v)
    BY <1>0, <1>1, NobodyWorks
  <1>6. HorseOK'
    <2> SUFFICES ASSUME NEW v \in Workers
                 PROVE  /\ Engaged(v)' =>
                             /\ rq'.by = v
                             /\ rq'.st = IF hpc'[v] = "popped" THEN "queued"
                                           ELSE "started"
                        /\ rq'.by = v /\ hpc'[v] # "idle" => rq'.gen = hgen'[v]
                        /\ hret'[v] = "retry" =>
                             hpc'[v] = "saving" /\ horseRec' = 0
                        /\ hpc'[v] \in {"popped", "start"} => horseRec' # hgen'[v]
                        /\ horseLock' = v <=> hpc'[v] \in Holding
                        /\ hpc'[v] \in Holding => horseRec' = hgen'[v]
      BY DEF HorseOK
    <2>1. CASE v = w
      BY <1>0, <1>1, <1>2, <1>3, <1>5, <2>1 DEF HorseOK, Engaged, Holding
    <2>2. CASE v # w
      BY <1>0, <1>1, <1>2, <1>3, <1>5, <2>2 DEF HorseOK, Engaged
    <2> QED
      BY <2>1, <2>2
  <1>7. \A v \in Workers : hgen'[v] <= rq.gen
    BY <1>0, <1>3, <1>4, Numbers DEF HashOK
  <1>8. HashOK'
    BY <1>0, <1>1, <1>2, <1>4, <1>7 DEF HashOK, Names
  <1>9. RunOK'
    <2> SUFFICES ASSUME NEW u \in Workers, cpc[u] \in Working
                 PROVE  /\ meta.gen <= hgen'[u] /\ horseRec \in {0, hgen'[u]}
                        /\ rq.gen <= hgen'[u]
                        /\ \A v \in Workers : hgen'[v] <= hgen'[u]
      BY <1>0, <1>1, <1>2, <1>4 DEF RunOK
    <2>1. u # w
      BY <1>1 DEF Working, InPipeline
    <2>2. hgen'[u] = hgen[u] /\ rq.gen = hgen[u]
      BY <1>0, <1>3, <1>4, <2>1, RunIsHash
    <2> QED
      BY <1>0, <1>7, <2>2, Numbers DEF RunOK
  <1>10. Calm
    <2>1. ~Dead
      BY <1>1, <1>4 DEF Dead
    <2>2. \A g \in Nat : Names(g) => Names(g)'
      BY <1>1, <1>2, <1>4 DEF Names
    <2> QED
      BY <1>1, <1>4, <2>1, <2>2 DEF Calm
  <1> QED
    BY <1>1, <1>6, <1>8, <1>9, <1>10, CalmStep

\* The horse of a slot marks the hash started.
LEMMA HorseStartOK ==
    ASSUME IInv, Orderly, NEW w \in Workers, HorseStart(w)
    PROVE  Orderly'
  <1>0. TypeOK /\ HorseOK /\ HashOK /\ RunOK
    BY DEF IInv, Orderly
  <1>1. /\ hpc[w] = "popped"
        /\ UNCHANGED <<meta, listed, runLock, horseLock, horseRec, hgen, hret,
                       cpc, apc, lst, lmeta>>
    BY DEF HorseStart, diskVars, lockVars, childVars, apiVars
  <1>2. rq'.st = "started" /\ rq'.by = w /\ rq'.gen = rq.gen
    BY <1>0 DEF HorseStart, TypeOK, RqRecord
  <1>3. hpc'[w] = "start" /\ \A v \in Workers \ {w} : hpc'[v] = hpc[v]
    BY <1>0 DEF HorseStart, TypeOK
  <1>4. Engaged(w)
    BY <1>1 DEF Engaged, Taken
  <1>5. /\ InFlight /\ rq.gen = hgen[w] /\ rq.by = w
        /\ \A v \in Workers : Engaged(v) => v = w
    BY <1>0, <1>4, AtWorkOwns
  <1>6. InFlight' /\ InFlight
    BY <1>2, <1>5 DEF InFlight, INFLIGHT_STATUSES
  <1>7. HorseOK'
    <2> SUFFICES ASSUME NEW v \in Workers
                 PROVE  /\ Engaged(v)' =>
                             /\ rq'.by = v
                             /\ rq'.st = IF hpc'[v] = "popped" THEN "queued"
                                         ELSE "started"
                        /\ rq'.by = v /\ hpc'[v] # "idle" => rq'.gen = hgen'[v]
                        /\ hret'[v] = "retry" =>
                             hpc'[v] = "saving" /\ horseRec' = 0
                        /\ hpc'[v] \in {"popped", "start"} =>
                             horseRec' # hgen'[v]
                        /\ horseLock' = v <=> hpc'[v] \in Holding
                        /\ hpc'[v] \in Holding => horseRec' = hgen'[v]
      BY DEF HorseOK
    <2>1. CASE v = w
      BY <1>0, <1>1, <1>2, <1>3, <1>5, <2>1 DEF HorseOK, Holding
    <2>2. CASE v # w
      BY <1>0, <1>1, <1>2, <1>3, <1>5, <2>2 DEF HorseOK, Engaged
    <2> QED
      BY <2>1, <2>2
  <1>8. HashOK'
    BY <1>0, <1>1, <1>2, <1>5, <1>6, Distinct DEF HashOK, Names
  <1>9. RunOK'
    BY <1>0, <1>1, <1>2, <1>6 DEF RunOK
  <1>10. Calm
    <2>1. ~Dead
      BY <1>4, <1>6 DEF Dead
    <2>2. \A g \in Nat : Names(g) => Names(g)'
      BY <1>1, <1>2, <1>6 DEF Names
    <2> QED
      BY <1>1, <1>6, <2>1, <2>2 DEF Calm, InFlight, INFLIGHT_STATUSES
  <1> QED
    BY <1>1, <1>7, <1>8, <1>9, <1>10, CalmStep

\* hold_horse_lock and write_horse_owner.
LEMMA HorseLockOK ==
    ASSUME IInv, Orderly, NEW w \in Workers, HorseLock(w)
    PROVE  Orderly'
  <1>0. TypeOK /\ HorseOK /\ HashOK /\ RunOK
    BY DEF IInv, Orderly
  <1>1. /\ hpc[w] = "start" /\ horseLock = None /\ horseLock' = w
        /\ horseRec' = hgen[w]
        /\ UNCHANGED <<meta, rq, listed, runLock, hgen, hret, cpc, apc, lst,
                       lmeta>>
    BY DEF HorseLock, diskVars, rqVars, childVars, apiVars
  <1>2. /\ hpc'[w] = "locked"
        /\ \A v \in Workers \ {w} : hpc'[v] = hpc[v]
    BY <1>0 DEF HorseLock, TypeOK
  <1>3. Engaged(w)
    BY <1>1 DEF Engaged, Taken, Executing
  <1>4. /\ InFlight /\ rq.gen = hgen[w]
        /\ \A v \in Workers : Engaged(v) => v = w
    BY <1>0, <1>3, AtWorkOwns
  <1>5. InFlight'
    BY <1>1, <1>4 DEF InFlight
  <1>6. HorseOK'
    <2> SUFFICES ASSUME NEW v \in Workers
                 PROVE  /\ Engaged(v)' =>
                             /\ rq.by = v
                             /\ rq.st = IF hpc'[v] = "popped" THEN "queued"
                                           ELSE "started"
                        /\ rq.by = v /\ hpc'[v] # "idle" => rq.gen = hgen[v]
                        /\ hret[v] = "retry" =>
                             hpc'[v] = "saving" /\ horseRec' = 0
                        /\ hpc'[v] \in {"popped", "start"} => horseRec' # hgen[v]
                        /\ horseLock' = v <=> hpc'[v] \in Holding
                        /\ hpc'[v] \in Holding => horseRec' = hgen[v]
      BY <1>1 DEF HorseOK
    <2>1. CASE v = w
      BY <1>0, <1>1, <1>2, <1>3, <2>1 DEF HorseOK, Holding
    <2>2. CASE v # w
      <3>1. ~Engaged(v) /\ hpc'[v] = hpc[v]
        BY <1>2, <1>4, <2>2
      <3> QED
        BY <1>0, <1>1, <2>2, <3>1 DEF HorseOK, Engaged, Taken, Executing, Holding
    <2> QED
      BY <2>1, <2>2
  <1>7. HashOK'
    BY <1>0, <1>1, <1>4, <1>5 DEF HashOK, Names
  <1>8. RunOK'
    <2>1. \A u \in Workers : cpc[u] \in Working => hgen[u] = hgen[w]
      BY <1>0, <1>4, RunIsHash
    <2> QED
      BY <1>0, <1>1, <1>4, <1>5, <2>1 DEF RunOK
  <1>9. Calm
    <2>1. ~Dead
      BY <1>3, <1>4 DEF Dead
    <2>2. \A g \in Nat : Names(g)'
      BY <1>1, <1>4, <1>5 DEF Names
    <2> QED
      BY <1>1, <1>4, <2>1, <2>2 DEF Calm
  <1> QED
    BY <1>1, <1>6, <1>7, <1>8, <1>9, CalmStep

\* A horse that asks RQ for a retry: .horse.json goes, then .horse.lock.
LEMMA RetryOK ==
    ASSUME IInv, Orderly, NEW w \in Workers, hpc[w] \in Holding,
           VoluntaryRetry(w), cpc' = cpc \/ cpc' = [cpc EXCEPT ![w] = "none"],
           cpc[w] \notin Working,
           UNCHANGED <<meta, rq, listed, runLock, hgen, apc, lst, lmeta>>
    PROVE  Orderly'
  <1>0. TypeOK /\ HorseOK /\ HashOK /\ RunOK
    BY DEF IInv, Orderly
  <1>1. /\ hpc'[w] = "saving" /\ hret'[w] = "retry"
        /\ horseRec' = 0 /\ horseLock' = None
        /\ \A v \in Workers \ {w} : hpc'[v] = hpc[v] /\ hret'[v] = hret[v]
    BY <1>0 DEF VoluntaryRetry, TypeOK
  <1>2. Engaged(w)
    BY DEF Engaged, Taken, Executing, Holding
  <1>3. /\ InFlight /\ rq.st = "started" /\ rq.by = w /\ rq.gen = hgen[w]
        /\ \A v \in Workers : Engaged(v) => v = w
    BY <1>0, <1>2, AtWorkOwns DEF Holding
  <1>4. InFlight' /\ \A u \in Workers : cpc'[u] \in Working <=> cpc[u] \in Working
    <2>1. cpc \in [Workers -> ChildPc]
      BY <1>0 DEF TypeOK
    <2>2. "none" \notin Working
      BY DEF Working, InPipeline
    <2> QED
      BY <1>3, <2>1, <2>2 DEF InFlight
  <1>5. HorseOK'
    <2> SUFFICES ASSUME NEW v \in Workers
                 PROVE  /\ Engaged(v)' =>
                             /\ rq.by = v
                             /\ rq.st = IF hpc'[v] = "popped" THEN "queued"
                                           ELSE "started"
                        /\ rq.by = v /\ hpc'[v] # "idle" => rq.gen = hgen[v]
                        /\ hret'[v] = "retry" =>
                             hpc'[v] = "saving" /\ horseRec' = 0
                        /\ hpc'[v] \in {"popped", "start"} => horseRec' # hgen[v]
                        /\ horseLock' = v <=> hpc'[v] \in Holding
                        /\ hpc'[v] \in Holding => horseRec' = hgen[v]
      BY DEF HorseOK
    <2>1. CASE v = w
      BY <1>1, <1>3, <2>1, Distinct DEF Holding
    <2>2. CASE v # w
      <3>1. ~Engaged(v) /\ hpc'[v] = hpc[v] /\ hret'[v] = hret[v]
        BY <1>1, <1>3, <2>2
      <3> QED
        BY <1>0, <1>1, <1>3, <2>2, <3>1, Distinct
           DEF HorseOK, Engaged, Taken, Executing, Holding
    <2> QED
      BY <2>1, <2>2
  <1>6. HashOK'
    BY <1>0, <1>1, <1>3, <1>4 DEF HashOK, Names
  <1>7. RunOK'
    BY <1>0, <1>1, <1>3, <1>4 DEF RunOK
  <1>8. Calm
    <2>1. ~Dead
      BY <1>2, <1>3 DEF Dead
    <2>2. \A g \in Nat : Names(g)'
      BY <1>1 DEF Names
    <2> QED
      BY <1>3, <2>1, <2>2 DEF Calm
  <1> QED
    BY <1>5, <1>6, <1>7, <1>8, CalmStep

\* A horse that has not spawned its child yet has none.
SpawnOK == \A w \in Workers : hpc[w] \in {"popped", "start", "locked"} => cpc[w] = "none"

\* Every step keeps it.
LEMMA SpawnStep ==
    ASSUME TypeOK, SpawnOK, [Next]_vars
    PROVE  SpawnOK'
  <1>t. hpc \in [Workers -> HorsePc] /\ cpc \in [Workers -> ChildPc]
    BY DEF TypeOK
  <1>1. CASE UNCHANGED <<hpc, cpc>>
    BY <1>1 DEF SpawnOK
  <1>2. ASSUME NEW w \in Workers,
               \A v \in Workers \ {w} : hpc'[v] = hpc[v] /\ cpc'[v] = cpc[v],
               hpc'[w] \in {"popped", "start", "locked"} => cpc'[w] = "none"
        PROVE  SpawnOK'
    BY <1>2 DEF SpawnOK
  <1>3. ASSUME NEW w \in Workers, Horse(w) PROVE SpawnOK'
    <2>1. \A v \in Workers \ {w} : hpc'[v] = hpc[v] /\ cpc'[v] = cpc[v]
      BY <1>t, <1>3 DEF Horse, HorsePop, HorseStart, HorseLock, HorseAdmission,
         HorseSpawn, HorseKillChild, HorseFinish, HorseBusy, HorseReturn,
         HorseSave, HorseKilled, OnHorseKilled, WorkerCrash, StopHorse,
         VoluntaryRetry, SaveLost, Save, ChildGone, ChildLocal, horseVars,
         childVars
    <2>2. hpc'[w] \in {"popped", "start", "locked"} => cpc'[w] = "none"
      <3>1. CASE HorsePop(w) \/ HorseStart(w) \/ HorseLock(w)
        BY <1>t, <3>1 DEF HorsePop, HorseStart, HorseLock, SpawnOK, childVars
      <3>2. CASE HorseKillChild(w)
        BY <1>t, <3>2 DEF HorseKillChild, ChildLocal, horseVars
      <3>3. CASE HorseSave(w)
        <4>1. hpc' = [hpc EXCEPT ![w] = "idle"]
          BY <3>3 DEF HorseSave, SaveLost, Save
        <4> QED
          BY <1>t, <4>1
      <3>4. CASE HorseAdmission(w) \/ HorseSpawn(w) \/ HorseFinish(w)
                 \/ HorseBusy(w)
        BY <1>t, <3>4 DEF HorseAdmission, HorseSpawn, HorseFinish, HorseBusy,
           VoluntaryRetry
      <3>5. CASE HorseReturn(w) \/ HorseKilled(w) \/ OnHorseKilled(w)
                 \/ WorkerCrash(w) \/ StopHorse(w)
        BY <1>t, <3>5 DEF HorseReturn, HorseKilled, OnHorseKilled, WorkerCrash,
           StopHorse
      <3> QED
        BY <1>3, <3>1, <3>2, <3>3, <3>4, <3>5 DEF Horse
    <2> QED
      BY <1>2, <2>1, <2>2
  <1>4. ASSUME NEW w \in Workers, Child(w) PROVE SpawnOK'
    <2>1. hpc' = hpc
      BY <1>4 DEF Child, ChildLock, ChildOrphanExit, ChildBusy, ChildDest,
         ChildReuse, ChildStage, ChildRender, ChildDone, ChildExit, ChildRaise,
         ChildMark, ChildLocal, Write, horseVars
    <2>2. \E pc : cpc' = [cpc EXCEPT ![w] = pc]
      BY <1>4 DEF Child, ChildLock, ChildOrphanExit, ChildBusy, ChildDest,
         ChildReuse, ChildStage, ChildRender, ChildDone, ChildExit, ChildRaise,
         ChildMark, ChildGone, Write
    <2>3. cpc'[w] = "none" \/ cpc[w] # "none"
      <3>1. CASE ChildOrphanExit(w)
        BY <1>t, <3>1 DEF ChildOrphanExit, ChildGone
      <3> QED
        BY <1>4, <3>1 DEF Child, ChildLock, ChildBusy, ChildDest, ChildReuse,
           ChildStage, ChildRender, ChildDone, ChildExit, ChildRaise,
           ChildMark, InPipeline
    <2> QED
      BY <1>t, <1>2, <2>1, <2>2, <2>3 DEF SpawnOK
  <1>5. ASSUME NEW t \in Posters, Post(t) PROVE UNCHANGED <<hpc, cpc>>
    BY <1>5 DEF Post, PostStart, PostStatus, ReadStatus, PostLook, PostCorpse,
       PostAbandon, PostStop, PostCancel, Continue, PostWaited, PostDeadline, PostLock, PostDecide,
       PostDelete, PostCap, PostClear, PostStamp, PostEnqueue, OnlyReads,
       horseVars, childVars
  <1>6. ASSUME NEW t \in Api, Get(t) \/ RedisDown(t) \/ ApiCrash(t)
        PROVE  UNCHANGED <<hpc, cpc>>
    BY <1>6 DEF Get, GetStart, GetStatus, GetProbe, GetLock, GetMark,
       RedisDown, ApiCrash, OnlyReads, horseVars, childVars
  <1>7. CASE Rq \/ Deploy \/ UNCHANGED vars
    BY <1>1, <1>7 DEF Rq, StopIgnored, RqSchedule, RqMaintain, RqExpire,
       Deploy, vars, horseVars, childVars
  <1> QED
    BY <1>1, <1>3, <1>4, <1>5, <1>6, <1>7, Distinct DEF Next

\* A report of slot w to meta.json leaves its generation, or names the slot's
\* own when the file is missing: in order in both cases.
LEMMA Reported ==
    ASSUME TypeOK, HashOK, RunOK, NEW w \in Workers,
           meta' = meta \/ meta' = Failed(hgen[w], "other"),
           rq'.st = rq.st, rq'.gen = rq.gen, rq'.by = rq.by,
           UNCHANGED <<listed, horseRec, hgen>>
    PROVE  /\ HashOK'
           /\ \A u \in Workers : cpc[u] \in Working => meta'.gen <= hgen[u]
           /\ \A g \in Nat : meta.gen = g + 1 => meta'.gen = g + 1
           /\ meta'.st = "none" => meta.st = "none"
  <1>t. /\ rq.gen \in Nat /\ meta.gen \in Nat /\ horseRec \in Nat
        /\ \A v \in Workers : hgen[v] \in Nat
    BY Numbers
  <1>1. InFlight' <=> InFlight
    BY DEF InFlight
  <1>2. CASE meta' = meta \/ meta.st # "none"
    <2>1. meta'.gen = meta.gen /\ (meta'.st = "none" => meta.st = "none")
      BY <1>2, FailedGen
    <2>2. HashOK'
      BY <1>1, <2>1 DEF HashOK, Names
    <2> QED
      BY <2>1, <2>2 DEF RunOK
  <1>3. CASE meta.st = "none" /\ meta' # meta
    <2>1. meta'.gen = hgen[w] /\ meta'.st # "none" /\ meta.gen = 0
      BY <1>3, FailedGen DEF HashOK
    <2>2. InFlight => horseRec \in {0, rq.gen}
      BY <1>t, <2>1 DEF HashOK, Names
    <2>3. HashOK'
      BY <1>1, <2>1, <2>2 DEF HashOK, Names
    <2>4. \A g \in Nat : meta.gen # g + 1
      BY <2>1
    <2> QED
      BY <2>1, <2>3, <2>4 DEF RunOK
  <1> QED
    BY <1>2, <1>3

\* A horse that goes on inside execute_job, a worker's handler, or a child that
\* ends or fails, with at most a report to meta.json.
LEMMA ReportStep ==
    ASSUME IInv, Orderly, NEW w \in Workers,
           meta' = meta \/ meta' = Failed(hgen[w], "other"),
           rq'.st = rq.st, rq'.gen = rq.gen, rq'.by = rq.by,
           UNCHANGED <<listed, horseLock, horseRec, hgen, hret, apc, lst,
                       lmeta>>,
           \A v \in Workers \ {w} : hpc'[v] = hpc[v],
           \/ hpc'[w] = hpc[w]
           \/ hpc[w] \in Holding /\ hpc'[w] \in Holding
           \/ hpc[w] = "dead" /\ hpc'[w] = "lost",
           \A v \in Workers : cpc'[v] \in Working => cpc[v] \in Working,
           \A v \in Workers : runLock' = v <=> cpc'[v] \in Working,
           runLock = None => runLock' = None
    PROVE  Orderly'
  <1>0. TypeOK /\ HorseOK /\ HashOK /\ RunOK
    BY DEF IInv, Orderly
  <1>1. /\ HashOK'
        /\ \A u \in Workers : cpc[u] \in Working => meta'.gen <= hgen[u]
        /\ \A g \in Nat : meta.gen = g + 1 => meta'.gen = g + 1
        /\ meta'.st = "none" => meta.st = "none"
    BY <1>0, Reported
  <1>2. InFlight' <=> InFlight
    BY DEF InFlight
  <1>3. \A v \in Workers : Engaged(v)' <=> Engaged(v)
    BY DEF Engaged, Taken, Executing, Holding
  <1>4. HorseOK'
    <2> SUFFICES ASSUME NEW v \in Workers
                 PROVE  /\ Engaged(v)' =>
                             /\ rq'.by = v
                             /\ rq'.st = IF hpc'[v] = "popped" THEN "queued"
                                           ELSE "started"
                        /\ rq'.by = v /\ hpc'[v] # "idle" => rq'.gen = hgen'[v]
                        /\ hret'[v] = "retry" =>
                             hpc'[v] = "saving" /\ horseRec' = 0
                        /\ hpc'[v] \in {"popped", "start"} => horseRec' # hgen'[v]
                        /\ horseLock' = v <=> hpc'[v] \in Holding
                        /\ hpc'[v] \in Holding => horseRec' = hgen'[v]
      BY DEF HorseOK
    <2>1. CASE hpc'[v] = hpc[v]
      BY <1>0, <1>3, <2>1 DEF HorseOK
    <2>2. CASE v = w /\ hpc[w] \in Holding /\ hpc'[w] \in Holding
      BY <1>0, <1>3, <2>2 DEF HorseOK, Holding
    <2>3. CASE v = w /\ hpc[w] = "dead" /\ hpc'[w] = "lost"
      BY <1>0, <1>3, <2>3 DEF HorseOK, Holding
    <2> QED
      BY <2>1, <2>2, <2>3
  <1>5. RunOK'
    BY <1>0, <1>1, <1>2 DEF RunOK
  <1>6. Calm
    <2>1. (Dead => Dead') /\ \A g \in Nat : Names(g) => Names(g)'
      BY <1>2, <1>3 DEF Dead, Names
    <2> QED
      BY <1>1, <1>2, <2>1 DEF Calm
  <1> QED
    BY <1>1, <1>4, <1>5, <1>6, CalmStep

\* A book that RQ queues again, or ends, while no horse is at work on it.
LEMMA Requeued ==
    ASSUME TypeOK, HorseOK, HashOK, RunOK, InFlight, rq'.gen = rq.gen,
           rq'.by = None, listed' => rq'.st = "queued",
           \A v \in Workers : ~Engaged(v)' /\ hpc[v] \notin Holding,
           \A v \in Workers : \/ hgen'[v] = hgen[v]
                              \/ hgen'[v] = 0 /\ cpc[v] = "none",
           UNCHANGED <<meta, runLock, horseLock, horseRec, cpc>>
    PROVE  HorseOK' /\ HashOK' /\ RunOK' /\ Calm
  <1>1. \A v \in Workers : /\ hpc'[v] \notin Holding \cup {"popped", "start"}
                           /\ hret'[v] # "retry" /\ horseLock # v
    BY DEF Engaged, Taken, Executing, Holding, HorseOK
  <1>2. HorseOK'
    BY <1>1, Distinct DEF HorseOK
  <1>3. \A v \in Workers : /\ hgen[v] \in Nat /\ hgen'[v] \in Nat
                           /\ hgen'[v] <= hgen[v]
    BY Numbers
  <1>4. HashOK'
    <2>1. \A v \in Workers : hgen'[v] <= rq.gen
      BY <1>3, Numbers DEF HashOK
    <2> QED
      BY <2>1 DEF HashOK, Names
  <1>5. RunOK'
    <2> SUFFICES ASSUME NEW u \in Workers, cpc[u] \in Working
                 PROVE  /\ meta.gen <= hgen'[u] /\ horseRec \in {0, hgen'[u]}
                        /\ rq.gen <= hgen'[u]
                        /\ \A v \in Workers : hgen'[v] <= hgen'[u]
      BY DEF RunOK
    <2>1. hgen'[u] = hgen[u]
      BY DEF Working, InPipeline
    <2>2. \A v \in Workers : hgen[v] <= hgen[u]
      BY DEF RunOK
    <2>3. \A v \in Workers : hgen'[v] <= hgen[u]
      BY <1>3, <2>2
    <2> QED
      BY <2>1, <2>3 DEF RunOK
  <1>6. Calm
    <2>1. (Dead => Dead') /\ \A g \in Nat : Names(g) => Names(g)'
      BY DEF Dead, Names
    <2>2. rq.st # "none"
      BY DEF InFlight, INFLIGHT_STATUSES
    <2> QED
      BY <2>1, <2>2 DEF Calm
  <1> QED
    BY <1>2, <1>4, <1>5, <1>6

\* RQ stores the outcome of a slot; outside the "late_save" window the hash is
\* still the slot's own.
LEMMA HorseSaveOK ==
    ASSUME IInv, Orderly, NEW w \in Workers, HorseSave(w), races' = {}
    PROVE  Orderly'
  <1>0. TypeOK /\ HorseOK /\ HashOK /\ RunOK
    BY DEF IInv, Orderly
  <1>1. /\ hpc[w] \in {"saving", "lost", "stopped"}
        /\ UNCHANGED <<meta, runLock, horseLock, horseRec, cpc, apc, lst,
                       lmeta>>
    BY DEF HorseSave, diskVars, lockVars, childVars, apiVars
  <1>2. PICK st \in {"finished", "scheduled", "queued", "failed", "stopped"},
             n \in Nat : Save(w, st, n)
    <2>1. rq.left \in Nat
      BY <1>0 DEF TypeOK, RqRecord
    <2> QED
      BY <2>1 DEF HorseSave, SaveLost
  <1>3. rq.st \in {"queued", "started"} /\ rq.by = w
    BY <1>2 DEF Save, OwnHash
  <1>4. rq.gen = hgen[w] /\ InFlight /\ ~listed
    BY <1>0, <1>1, <1>3, Distinct
       DEF HorseOK, HashOK, InFlight, INFLIGHT_STATUSES
  <1>5. /\ rq'.gen = rq.gen /\ rq'.by = None
        /\ listed' => rq'.st = "queued"
    BY <1>2, <1>4 DEF Save
  <1>6. /\ hpc'[w] = "idle" /\ hret'[w] = "none"
        /\ \A v \in Workers \ {w} : hpc'[v] = hpc[v] /\ hret'[v] = hret[v]
        /\ \A v \in Workers : \/ hgen'[v] = hgen[v]
                              \/ hgen'[v] = 0 /\ cpc[v] = "none"
    BY <1>0, <1>2 DEF Save, TypeOK
  <1>7. \A v \in Workers : Engaged(v) => v = w
    BY <1>0, <1>3 DEF HorseOK
  <1>8. \A v \in Workers : ~Engaged(v)' /\ hpc[v] \notin Holding
    BY <1>1, <1>6, <1>7 DEF Engaged, Taken, Executing, Holding
  <1>9. HorseOK' /\ HashOK' /\ RunOK' /\ Calm
    BY <1>0, <1>1, <1>4, <1>5, <1>6, <1>8, Requeued
  <1> QED
    BY <1>1, <1>9, CalmStep

\* RQ's own steps, and new code on disk.
LEMMA RqOK ==
    ASSUME IInv, Orderly, Rq \/ Deploy
    PROVE  Orderly'
  <1>0. TypeOK /\ HorseOK /\ HashOK /\ RunOK
    BY DEF IInv, Orderly
  <1>1. UNCHANGED <<meta, runLock, horseLock, horseRec, hpc, hgen, hret, cpc,
                    apc, lst, lmeta>>
    BY DEF Rq, StopIgnored, RqSchedule, RqMaintain, RqExpire, Deploy,
       diskVars, lockVars, horseVars, childVars, apiVars
  <1>2. CASE StopIgnored \/ Deploy
    <2>1. UNCHANGED <<rq, listed>>
      BY <1>2 DEF StopIgnored, Deploy, rqVars
    <2> QED
      BY <1>0, <1>1, <2>1, SameGen, CalmStep
  <1>3. CASE RqSchedule \/ RqMaintain
    <2>1. InFlight
      BY <1>3 DEF RqSchedule, RqMaintain, InFlight, INFLIGHT_STATUSES
    <2>2. /\ rq'.gen = rq.gen /\ rq'.by = None
          /\ listed' => rq'.st = "queued"
      <3>1. rq \in RqRecord
        BY <1>0 DEF TypeOK
      <3>2. CASE RqSchedule
        BY <1>0, <3>1, <3>2 DEF RqSchedule, RqRecord, RqStatus, HashOK
      <3>3. CASE RqMaintain
        <4>1. ~listed
          BY <1>0, <3>3 DEF RqMaintain, HashOK
        <4>2. CASE rq.left > 0
          <5>1. /\ rq' = [st |-> "queued", gen |-> rq.gen,
                          left |-> rq.left - 1, by |-> None]
                /\ listed' = TRUE
            BY <3>3, <4>2 DEF RqMaintain
          <5> QED
            BY <5>1
        <4>3. CASE ~(rq.left > 0)
          <5>1. /\ rq' = [rq EXCEPT !.st = "failed", !.by = None]
                /\ listed' = listed
            BY <3>3, <4>3 DEF RqMaintain
          <5>2. rq'.gen = rq.gen /\ rq'.by = None
            BY <3>1, <5>1 DEF RqRecord
          <5> QED
            BY <4>1, <5>1, <5>2
        <4> QED
          BY <4>2, <4>3
      <3> QED
        BY <1>3, <3>2, <3>3
    <2>3. \A v \in Workers : ~Engaged(v)
      <3>1. CASE RqSchedule
        BY <1>0, <3>1, NobodyWorks DEF RqSchedule, HashOK
      <3>2. CASE RqMaintain
        BY <1>0, <3>2 DEF RqMaintain, HorseOK, Engaged, Taken, Executing
      <3> QED
        BY <1>3, <3>1, <3>2
    <2>4. \A v \in Workers : ~Engaged(v)' /\ hpc[v] \notin Holding
      BY <1>1, <2>3 DEF Engaged, Taken, Executing, Holding
    <2> QED
      BY <1>0, <1>1, <2>1, <2>2, <2>4, Requeued, CalmStep
  <1>4. CASE RqExpire
    <2>1. ~InFlight /\ rq'.st = "none" /\ rq'.by = None /\ ~listed'
      BY <1>4 DEF RqExpire, NoRq, InFlight, INFLIGHT_STATUSES
    <2>2. \A v \in Workers : ~Engaged(v)
      BY <1>0, <2>1, NobodyWorks
    <2>3. HorseOK' /\ HashOK' /\ RunOK' /\ Dead' /\ \A g : Names(g)'
      BY <1>0, <1>1, <2>1, <2>2, HashGone DEF INFLIGHT_STATUSES
    <2>4. Calm
      BY <1>1, <2>1, <2>3 DEF Calm, InFlight, INFLIGHT_STATUSES
    <2> QED
      BY <1>1, <2>3, <2>4, CalmStep
  <1> QED
    BY <1>2, <1>3, <1>4 DEF Rq

\* The steps of a horse inside execute_job, and the worker's handler while the
\* hash is the slot's own.
LEMMA HorseGoesOn ==
    ASSUME IInv, SpawnOK, Orderly, NEW w \in Workers, races' = {},
           \/ HorseAdmission(w) \/ HorseSpawn(w) \/ HorseKillChild(w)
           \/ HorseFinish(w) \/ HorseBusy(w) \/ OnHorseKilled(w)
    PROVE  Orderly'
  <1>0. TypeOK /\ HorseOK /\ HashOK /\ RunOK
    BY DEF IInv, Orderly
  <1>t. /\ hpc \in [Workers -> HorsePc] /\ cpc \in [Workers -> ChildPc]
        /\ rq \in RqRecord /\ runLock \in {None} \cup Workers
    BY <1>0 DEF TypeOK
  <1>p. \A pc \in {"none", "boot", "busy", "killed", "exited"} :
          pc \notin Working
    BY DEF Working, InPipeline
  <1>r. \A v \in Workers : runLock = v <=> cpc[v] \in Working
    BY <1>0 DEF RunOK
  <1>1. CASE HorseAdmission(w)
    <2>1. cpc[w] = "none"
      BY <1>1 DEF HorseAdmission, SpawnOK
    <2> QED
      BY <1>p, <1>1, <2>1, RetryOK DEF HorseAdmission, Holding, diskVars,
         rqVars, childVars, apiVars
  <1>2. CASE HorseSpawn(w)
    <2>1. /\ cpc[w] = "none" /\ cpc'[w] = "boot"
          /\ hpc[w] \in Holding /\ hpc'[w] \in Holding
          /\ \A v \in Workers \ {w} : cpc'[v] = cpc[v] /\ hpc'[v] = hpc[v]
      BY <1>t, <1>2 DEF HorseSpawn, SpawnOK, Holding
    <2>2. UNCHANGED <<meta, rq, listed, runLock, horseLock, horseRec, hgen,
                      hret, apc, lst, lmeta>>
      BY <1>2 DEF HorseSpawn, diskVars, rqVars, lockVars, apiVars
    <2>3. /\ \A v \in Workers : cpc'[v] \in Working => cpc[v] \in Working
          /\ \A v \in Workers : runLock' = v <=> cpc'[v] \in Working
      BY <1>p, <1>r, <2>1, <2>2
    <2> QED
      BY <2>1, <2>2, <2>3, ReportStep
  <1>3. CASE HorseKillChild(w)
    <2>1. /\ cpc'[w] = "killed" /\ runLock' = Release(runLock, w)
          /\ \A v \in Workers \ {w} : cpc'[v] = cpc[v]
      BY <1>t, <1>3 DEF HorseKillChild, ChildGone
    <2>2. UNCHANGED <<meta, rq, listed, horseLock, horseRec, hpc, hgen, hret,
                      apc, lst, lmeta>>
      BY <1>3 DEF HorseKillChild, ChildLocal, diskVars, rqVars, horseVars,
         apiVars
    <2>3. /\ \A v \in Workers : cpc'[v] \in Working => cpc[v] \in Working
          /\ \A v \in Workers : runLock' = v <=> cpc'[v] \in Working
          /\ runLock = None => runLock' = None
      BY <1>p, <1>r, <2>1, Distinct DEF Release
    <2> QED
      BY <2>2, <2>3, ReportStep
  <1>4. CASE HorseFinish(w) \/ (HorseBusy(w) /\ ~VoluntaryRetry(w))
    <2>1. /\ cpc[w] \in {"exited", "killed", "busy"} /\ cpc'[w] = "none"
          /\ hpc[w] \in Holding /\ hpc'[w] \in Holding
          /\ \A v \in Workers \ {w} : cpc'[v] = cpc[v] /\ hpc'[v] = hpc[v]
      BY <1>t, <1>4 DEF HorseFinish, HorseBusy, Holding
    <2>2. /\ meta' = meta \/ meta' = Failed(hgen[w], "other")
          /\ UNCHANGED <<rq, listed, runLock, horseLock, horseRec, hgen, hret,
                         apc, lst, lmeta>>
      BY <1>4 DEF HorseFinish, HorseBusy, rqVars, lockVars, apiVars
    <2>3. /\ \A v \in Workers : cpc'[v] \in Working => cpc[v] \in Working
          /\ \A v \in Workers : runLock' = v <=> cpc'[v] \in Working
      BY <1>p, <1>r, <2>1, <2>2
    <2> QED
      BY <2>1, <2>2, <2>3, ReportStep
  <1>5. CASE HorseBusy(w) /\ VoluntaryRetry(w)
    <2>1. /\ cpc[w] = "busy" /\ hpc[w] \in Holding
          /\ cpc' = [cpc EXCEPT ![w] = "none"]
          /\ UNCHANGED <<rq, listed, runLock, hgen, apc, lst, lmeta>>
      BY <1>5 DEF HorseBusy, Holding, rqVars, apiVars
    <2>2. meta' = meta
      <3>1. hpc'[w] = "saving"
        BY <1>5, <1>t DEF VoluntaryRetry
      <3> QED
        BY <1>5, <1>t, <3>1 DEF HorseBusy
    <2> QED
      BY <1>p, <1>5, <2>1, <2>2, RetryOK
  <1>6. CASE OnHorseKilled(w)
    <2>1. /\ hpc[w] = "dead" /\ hpc'[w] = "lost"
          /\ \A v \in Workers \ {w} : hpc'[v] = hpc[v]
          /\ rq'.st = rq.st /\ rq'.gen = rq.gen /\ rq'.by = rq.by
          /\ meta' = meta \/ meta' = Failed(hgen[w], "other")
      BY <1>t, <1>6 DEF OnHorseKilled, ForeignHash, RqRecord
    <2>2. UNCHANGED <<listed, runLock, horseLock, horseRec, hgen, hret, cpc,
                      apc, lst, lmeta>>
      BY <1>6 DEF OnHorseKilled, lockVars, childVars, apiVars
    <2> QED
      BY <1>r, <2>1, <2>2, ReportStep
  <1> QED
    BY <1>1, <1>2, <1>3, <1>4, <1>5, <1>6

-----------------------------------------------------------------------------
(* The child *)

\* Steps that end the child of slot w, or free dest/.lock after a failure.
LEMMA ChildEnds ==
    ASSUME IInv, Orderly, NEW w \in Workers,
           \/ ChildBusy(w) \/ ChildReuse(w) \/ ChildExit(w) \/ ChildRaise(w)
           \/ ChildMark(w) \/ ChildRender(w)
    PROVE  Orderly'
  <1>0. TypeOK /\ RunOK
    BY DEF IInv, Orderly
  <1>t. cpc \in [Workers -> ChildPc] /\ runLock \in {None} \cup Workers
    BY <1>0 DEF TypeOK
  <1>p. /\ "busy" \notin Working /\ "exited" \notin Working
        /\ "raised" \in Working /\ "rendered" \in Working
        /\ InPipeline \subseteq Working /\ "build" \in Working
    BY DEF Working, InPipeline
  <1>r. \A v \in Workers : runLock = v <=> cpc[v] \in Working
    BY <1>0 DEF RunOK
  <1>1. /\ meta' = meta \/ meta' = Failed(hgen[w], "other")
        /\ UNCHANGED <<rq, listed, horseLock, horseRec, hpc, hgen, hret, apc,
                       lst, lmeta>>
    BY DEF ChildBusy, ChildReuse, ChildExit, ChildRaise, ChildMark,
       ChildRender, ChildLocal, diskVars, rqVars, lockVars, horseVars, apiVars
  <1>2. /\ \A v \in Workers \ {w} : cpc'[v] = cpc[v]
        /\ \/ /\ cpc'[w] \in {"busy", "exited"}
              /\ runLock' = Release(runLock, w)
           \/ /\ cpc[w] \in Working /\ cpc'[w] \in {"raised", "rendered"}
              /\ runLock' = runLock
    <2>1. CASE ChildBusy(w) \/ ChildReuse(w) \/ ChildExit(w) \/ ChildMark(w)
      BY <1>t, <2>1 DEF ChildBusy, ChildReuse, ChildExit, ChildMark, ChildGone
    <2>2. CASE ChildRaise(w) \/ ChildRender(w)
      BY <1>t, <1>p, <2>2 DEF ChildRaise, ChildRender, lockVars
    <2> QED
      BY <2>1, <2>2
  <1>3. /\ \A v \in Workers : cpc'[v] \in Working => cpc[v] \in Working
        /\ \A v \in Workers : runLock' = v <=> cpc'[v] \in Working
        /\ runLock = None => runLock' = None
    BY <1>p, <1>r, <1>2, Distinct DEF Release
  <1> QED
    BY <1>1, <1>3, ReportStep

\* The child takes .run.lock while its horse watches it.
LEMMA ChildLockOK ==
    ASSUME IInv, Orderly, NEW w \in Workers, ChildLock(w)
    PROVE  Orderly'
  <1>0. TypeOK /\ HorseOK /\ HashOK /\ RunOK
    BY DEF IInv, Orderly
  <1>1. /\ hpc[w] = "watch" /\ runLock = None /\ runLock' = w
        /\ UNCHANGED <<meta, rq, listed, horseLock, horseRec, hpc, hgen, hret,
                       apc, lst, lmeta>>
    BY DEF ChildLock, ChildLocal, diskVars, rqVars, horseVars, apiVars
  <1>2. /\ cpc'[w] = "run" /\ cpc'[w] \in Working
        /\ \A v \in Workers \ {w} : cpc'[v] = cpc[v]
    BY <1>0 DEF ChildLock, TypeOK, Working
  <1>3. Engaged(w) /\ hpc[w] \in Holding
    BY <1>1 DEF Engaged, Taken, Executing, Holding
  <1>4. InFlight /\ rq.gen = hgen[w] /\ horseRec = hgen[w]
    BY <1>0, <1>3, AtWorkOwns DEF HorseOK
  <1>5. \A v \in Workers : cpc[v] \notin Working
    BY <1>0, <1>1, Distinct DEF RunOK
  <1>6. HorseOK' /\ HashOK' /\ InFlight'
    BY <1>0, <1>1, <1>4 DEF HorseOK, HashOK, Names, InFlight, Engaged
  <1>7. RunOK'
    <2>1. \A u \in Workers : cpc'[u] \in Working <=> u = w
      BY <1>2, <1>5
    <2>2. /\ meta.gen <= hgen[w] /\ rq.gen <= hgen[w]
          /\ \A v \in Workers : hgen[v] <= hgen[w]
      BY <1>0, <1>4, Numbers DEF HashOK
    <2> QED
      BY <1>1, <1>4, <2>1, <2>2 DEF RunOK
  <1>8. Calm
    <2>1. ~Dead
      BY <1>3, <1>4 DEF Dead
    <2>2. \A g \in Nat : Names(g) => Names(g)'
      BY <1>1 DEF Names, InFlight
    <2> QED
      BY <1>1, <1>4, <2>1, <2>2 DEF Calm
  <1> QED
    BY <1>1, <1>6, <1>7, <1>8, CalmStep

\* An orphaned child leaves, and an idle slot forgets its generation.
LEMMA ChildOrphanOK ==
    ASSUME IInv, Orderly, NEW w \in Workers, ChildOrphanExit(w)
    PROVE  Orderly'
  <1>0. TypeOK /\ HorseOK /\ HashOK /\ RunOK
    BY DEF IInv, Orderly
  <1>1. /\ cpc'[w] = "none" /\ runLock' = Release(runLock, w)
        /\ \A v \in Workers \ {w} : cpc'[v] = cpc[v] /\ hgen'[v] = hgen[v]
        /\ hgen'[w] = hgen[w] \/ (hgen'[w] = 0 /\ hpc[w] = "idle")
    BY <1>0 DEF ChildOrphanExit, ChildGone, TypeOK
  <1>2. UNCHANGED <<meta, rq, listed, horseLock, horseRec, hpc, hret, apc, lst,
                    lmeta>>
    BY DEF ChildOrphanExit, diskVars, rqVars, apiVars
  <1>3. \A v \in Workers : Engaged(v)' <=> Engaged(v)
    BY <1>2 DEF Engaged
  <1>4. \A v \in Workers : hgen'[v] = hgen[v] \/ hgen'[v] = 0
    BY <1>1
  <1>5. HorseOK'
    <2>1. \A v \in Workers : hpc[v] # "idle" => hgen'[v] = hgen[v]
      BY <1>1
    <2>2. \A v \in Workers : hpc[v] \in Holding \cup {"popped", "start"} =>
                               hpc[v] # "idle"
      BY DEF Holding
    <2> QED
      BY <1>0, <1>2, <1>3, <2>1, <2>2 DEF HorseOK
  <1>6. HashOK'
    <2>1. InFlight => \A v \in Workers : hgen'[v] <= rq.gen
      BY <1>0, <1>4, Numbers DEF HashOK
    <2> QED
      BY <1>0, <1>2, <2>1 DEF HashOK, Names, InFlight
  <1>7. RunOK'
    <2>1. cpc'[w] \notin Working /\ runLock' # w
      BY <1>1, Distinct DEF Working, InPipeline, Release
    <2> SUFFICES ASSUME NEW u \in Workers
                 PROVE  /\ runLock' = u <=> cpc'[u] \in Working
                        /\ cpc'[u] \in Working =>
                             /\ meta.gen <= hgen'[u]
                             /\ horseRec \in {0, hgen'[u]}
                             /\ InFlight => rq.gen <= hgen'[u]
                             /\ \A v \in Workers : hgen'[v] <= hgen'[u]
      BY <1>2 DEF RunOK, InFlight
    <2>2. CASE u = w
      BY <2>1, <2>2
    <2>3. CASE u # w
      <3>1. /\ cpc'[u] = cpc[u] /\ hgen'[u] = hgen[u]
            /\ runLock' = u <=> runLock = u
        BY <1>1, <2>3, Distinct DEF Release
      <3>2. cpc[u] \in Working => \A v \in Workers : hgen'[v] <= hgen[u]
        BY <1>0, <1>4, Numbers DEF RunOK
      <3> QED
        BY <1>0, <3>1, <3>2 DEF RunOK
    <2> QED
      BY <2>2, <2>3
  <1>8. Calm
    <2>1. runLock = None => runLock' = None
      BY <1>1 DEF Release
    <2> QED
      BY <1>0, <1>2, <1>3, <1>4, <2>1, ForgetCalm
  <1> QED
    BY <1>2, <1>5, <1>6, <1>7, <1>8, CalmStep

\* The child takes dest/.lock; a stale session loses its meta.json.
LEMMA ChildDestOK ==
    ASSUME IInv, Orderly, NEW w \in Workers, ChildDest(w)
    PROVE  Orderly'
  <1>0. TypeOK /\ HorseOK /\ HashOK /\ RunOK
    BY DEF IInv, Orderly
  <1>1. /\ cpc[w] \in Working /\ destLock = None
        /\ UNCHANGED <<rq, listed, runLock, horseLock, horseRec, hpc, hgen,
                       hret, apc, lst, lmeta>>
    BY DEF ChildDest, Working, rqVars, horseVars, apiVars
  <1>2. \A v \in Workers : cpc'[v] \in Working <=> cpc[v] \in Working
    BY <1>0, <1>1 DEF ChildDest, TypeOK, Working, InPipeline
  <1>3. meta' = meta \/ (meta'.st = "none" /\ meta'.gen = 0)
    BY DEF ChildDest, NoMeta
  <1>4. HorseOK'
    BY <1>0, <1>1 DEF HorseOK, Engaged
  <1>5. InFlight' <=> InFlight
    BY <1>1 DEF InFlight
  <1>6. InFlight => horseRec \in {0, rq.gen}
    BY <1>0, <1>1, RunIsHash DEF RunOK
  <1>7. HashOK'
    <2>1. InFlight => meta'.gen <= rq.gen
      BY <1>0, <1>3, Numbers DEF HashOK
    <2> QED
      BY <1>0, <1>1, <1>3, <1>5, <1>6, <2>1 DEF HashOK, Names
  <1>8. RunOK'
    <2>1. \A u \in Workers : cpc[u] \in Working => meta'.gen <= hgen[u]
      BY <1>0, <1>3, Numbers DEF RunOK
    <2> QED
      BY <1>0, <1>1, <1>2, <1>5, <2>1 DEF RunOK
  <1>9. Calm
    <2>1. (Dead => Dead') /\ \A g \in Nat : Names(g) => Names(g)'
      BY <1>1, <1>5 DEF Dead, Names, Engaged
    <2> QED
      BY <1>1, <1>5, <2>1 DEF Calm
  <1> QED
    BY <1>1, <1>4, <1>7, <1>8, <1>9, CalmStep

\* The child writes meta.json under its own generation, the newest there is.
LEMMA ChildWriteOK ==
    ASSUME IInv, Orderly, NEW w \in Workers, ChildStage(w) \/ ChildDone(w)
    PROVE  Orderly'
  <1>0. TypeOK /\ HorseOK /\ HashOK /\ RunOK
    BY DEF IInv, Orderly
  <1>1. PICK s \in {"running", "succeeded"}, pc \in {"build", "done"} :
          Write(w, s, pc)
    BY DEF ChildStage, ChildDone
  <1>2. /\ cpc[w] \in Working
        /\ UNCHANGED <<rq, listed, runLock, horseLock, horseRec, hpc, hgen,
                       hret, apc, lst, lmeta>>
    BY <1>1 DEF ChildStage, ChildDone, Write, Working, InPipeline, rqVars,
       lockVars, horseVars, apiVars
  <1>3. \A v \in Workers : cpc'[v] \in Working <=> cpc[v] \in Working
    BY <1>0, <1>1, <1>2 DEF Write, TypeOK, Working, InPipeline
  <1>4. meta'.gen = hgen[w] /\ meta'.st # "none"
    <2>1. ~(meta.gen > hgen[w])
      BY <1>0, <1>2, Numbers DEF RunOK
    <2> QED
      BY <1>1, <2>1 DEF Write, Written
  <1>5. runLock = w /\ runLock # None
    BY <1>0, <1>2, Distinct DEF RunOK
  <1>6. HorseOK'
    BY <1>0, <1>2 DEF HorseOK, Engaged
  <1>7. InFlight' <=> InFlight
    BY <1>2 DEF InFlight
  <1>8. HashOK'
    <2>1. InFlight => rq.gen = hgen[w]
      BY <1>0, <1>2, RunIsHash
    <2>2. InFlight => meta'.gen <= rq.gen
      BY <1>0, <1>4, <2>1, Numbers
    <2> QED
      BY <1>0, <1>2, <1>4, <1>7, <2>1, <2>2 DEF HashOK, Names
  <1>9. RunOK'
    <2>1. \A u \in Workers : cpc[u] \in Working => u = w
      BY <1>0, <1>5 DEF RunOK
    <2>2. meta'.gen <= hgen[w]
      BY <1>0, <1>4, Numbers
    <2> QED
      BY <1>0, <1>2, <1>3, <1>7, <2>1, <2>2 DEF RunOK
  <1>10. Calm
    <2>1. (Dead => Dead') /\ \A g \in Nat : Names(g) => Names(g)'
      BY <1>2, <1>7 DEF Dead, Names, Engaged
    <2> QED
      BY <1>2, <1>4, <1>5, <1>7, <2>1 DEF Calm
  <1> QED
    BY <1>2, <1>6, <1>8, <1>9, <1>10, CalmStep

-----------------------------------------------------------------------------
(* The theorems *)

\* A window that has been met stays in the history.
LEMMA RacesStay ==
    ASSUME [Next]_vars
    PROVE  races \subseteq races'
  <1>1. ASSUME NEW w \in Workers, Horse(w) PROVE races \subseteq races'
    BY <1>1 DEF Horse, HorsePop, HorseStart, HorseLock, HorseAdmission, HorseSpawn,
       HorseKillChild, HorseFinish, HorseBusy, HorseReturn, HorseSave,
       SaveLost, Save, HorseKilled, OnHorseKilled, ForeignHash, WorkerCrash,
       StopHorse, ChildLocal, envVars
  <1>2. ASSUME NEW w \in Workers, Child(w) PROVE races \subseteq races'
    BY <1>2 DEF Child, ChildLock, ChildOrphanExit, ChildBusy, ChildDest,
       ChildReuse, ChildStage, ChildRender, ChildDone, ChildExit, ChildRaise,
       ChildMark, ChildLocal, Write, envVars
  <1>3. ASSUME NEW t \in Posters, Post(t) PROVE races \subseteq races'
    BY <1>3 DEF Post, PostStart, PostStatus, ReadStatus, PostLook, PostCorpse,
       PostAbandon, PostStop, PostCancel, Continue, PostWaited, PostDeadline, PostLock, PostDecide,
       PostDelete, PostCap, PostClear, PostStamp, PostEnqueue, OnlyReads,
       envVars
  <1>4. ASSUME NEW t \in Api, Get(t) \/ RedisDown(t) \/ ApiCrash(t)
        PROVE  races \subseteq races'
    BY <1>4 DEF Get, GetStart, GetStatus, GetProbe, GetLock, GetMark,
       RedisDown, ApiCrash, OnlyReads, envVars
  <1>5. CASE Rq \/ Deploy \/ UNCHANGED vars
    BY <1>5 DEF Rq, StopIgnored, RqSchedule, RqMaintain, RqExpire, Deploy,
       vars, envVars
  <1> QED
    BY <1>1, <1>2, <1>3, <1>4, <1>5, Distinct DEF Next

\* With one POST at a time, what holds outside the windows of Races goes on to
\* hold outside them.
LEMMA OrderlyStep ==
    ASSUME OnePoster, IInv, SpawnOK, OInv, [Next]_vars
    PROVE  OInv'
  <1> SUFFICES ASSUME races' = {} PROVE Orderly'
    BY DEF OInv
  <1>0. Orderly
    BY RacesStay DEF OInv
  <1>1. CASE UNCHANGED vars
    <2>1. UNCHANGED <<meta, rq, listed, runLock, horseLock, horseRec, hpc,
                      hgen, hret, cpc, apc, lst, lmeta>>
      BY <1>1 DEF vars, diskVars, rqVars, lockVars, horseVars, childVars,
         apiVars
    <2> QED
      BY <1>0, <2>1, SameGen, CalmStep DEF Orderly
  <1>2. ASSUME NEW t \in Posters, Post(t) PROVE Orderly'
    BY <1>0, <1>2, PostReads, PostLooks, PostStopOK, PostCancelOK, PostWaits, PostUnderLock,
       PostDeleteOK, PostStampOK, PostEnqueueOK DEF Post
  <1>3. ASSUME NEW t \in Getters, Get(t) PROVE Orderly'
    BY <1>0, <1>3, GetReads, GetMarkOK DEF Get
  <1>4. ASSUME NEW t \in Api, RedisDown(t) \/ ApiCrash(t) PROVE Orderly'
    BY <1>0, <1>4, ApiFaultOK
  <1>5. ASSUME NEW w \in Workers, Horse(w) PROVE Orderly'
    BY <1>0, <1>5, HorsePopOK, HorseStartOK, HorseLockOK, HorseGoesOn, HorseLeaves,
       HorseSaveOK DEF Horse
  <1>6. ASSUME NEW w \in Workers, Child(w) PROVE Orderly'
    BY <1>0, <1>6, ChildLockOK, ChildOrphanOK, ChildDestOK, ChildWriteOK,
       ChildEnds DEF Child
  <1>7. CASE Rq \/ Deploy
    BY <1>0, <1>7, RqOK
  <1> QED
    BY <1>1, <1>2, <1>3, <1>4, <1>5, <1>6, <1>7 DEF Next

\* The inductive invariant of this module.
JobInv == IInv /\ SpawnOK /\ OInv

\* It holds at the start and is kept by every step.
LEMMA JobInvariant ==
    ASSUME OnePoster
    PROVE  (Init => JobInv) /\ (JobInv /\ [Next]_vars => JobInv')
  <1>1. Init => JobInv
    <2> SUFFICES ASSUME Init PROVE JobInv
      OBVIOUS
    <2>1. TypeOK
      BY InitType
    <2>2. LockInv /\ BuildInv
      BY Distinct DEF Init, LockInv, BuildInv, Locked, PostLocked, GetLocked,
         InPipeline
    <2>3. SpawnOK
      BY DEF Init, SpawnOK
    <2>4. ~InFlight /\ \A w \in Workers : ~Engaged(w)
      BY DEF Init, InFlight, NoRq, INFLIGHT_STATUSES, Engaged, Taken, Executing
    <2>5. HorseOK
      BY <2>4, Distinct DEF Init, HorseOK, NoRq, Holding
    <2>6. HashOK
      BY <2>4 DEF Init, HashOK, Names, NoMeta, NoRq
    <2>7. RunOK
      BY Distinct DEF Init, RunOK, Working, InPipeline
    <2>8. /\ \A t \in Posters : PostOK(t)
          /\ \A t \in Getters : GetOK(t)
      BY Distinct DEF Init, PostOK, GetOK, PostLocked, GetLocked, Cleared
    <2> QED
      BY <2>1, <2>2, <2>3, <2>5, <2>6, <2>7, <2>8 DEF JobInv, IInv, OInv,
         Orderly
  <1>2. JobInv /\ [Next]_vars => JobInv'
    BY StepInv, SpawnStep, OrderlyStep DEF JobInv, IInv
  <1> QED
    BY <1>1, <1>2

\* For any number of pollers, slots, deploys, retries and faults, and one POST
\* of the book at a time, until one of the four windows of Races is met: a run
\* that POST has replaced never works on the book, because a child takes
\* .run.lock only under its live horse (getppid is asked again after the flock)
\* and POST does not launch over a live horse.  One of the windows is met when
\* a worker pops the job between request_stop's status read and its cancel.
THEOREM ReplacedRunsLeave == OnePoster => (Spec => []NoStaleRun)
  <1> SUFFICES ASSUME OnePoster PROVE Spec => []NoStaleRun
    OBVIOUS
  <1>1. JobInv => NoStaleRun
    BY DEF JobInv, OInv, Orderly, RunOK, NoStaleRun, Working
  <1> QED
    BY <1>1, JobInvariant, PTL DEF Spec

\* For the same instances, until one of the four windows is met: POST enqueues a
\* book only when no slot has popped its job or is inside execute_job for it,
\* although its status reads, its lock probes, its cancel, the steps of its
\* delete and its enqueue are separate steps.
THEOREM LaunchesWhenIdle == OnePoster => (Spec => LaunchWhenIdle)
  <1> SUFFICES ASSUME OnePoster PROVE Spec => LaunchWhenIdle
    OBVIOUS
  <1>1. JobInv /\ [Next]_vars =>
          [ races = {} /\ rq.st = "none" /\ rq'.st = "queued"
            => \A w \in Workers : hpc[w] \notin Taken ]_vars
    <2>1. JobInv /\ races = {} /\ rq.st = "none" =>
            \A w \in Workers : hpc[w] \notin Taken
      BY NobodyWorks DEF JobInv, OInv, Orderly, Engaged, InFlight,
         INFLIGHT_STATUSES
    <2> QED
      BY <2>1
  <1> QED
    BY <1>1, JobInvariant, PTL DEF Spec, LaunchWhenIdle

\* queue_lost is written by GET's mark and by nothing else.
LEMMA OnlyGetMarks ==
    ASSUME Next, meta.err # "queue_lost", meta'.err = "queue_lost"
    PROVE  \E t \in Getters : GetMark(t)
  <1>0. meta' # meta
    OBVIOUS
  <1>f. \A g : Failed(g, "other").err # "queue_lost"
    BY DEF Failed
  <1>1. ASSUME NEW w \in Workers, Horse(w) PROVE FALSE
    <2>1. \/ meta' = meta \/ meta' = Failed(hgen[w], "other")
          \/ meta' = Failed(rq.gen, "other")
      BY <1>1 DEF Horse, HorsePop, HorseStart, HorseLock, HorseAdmission, HorseSpawn,
         HorseKillChild, HorseFinish, HorseBusy, HorseReturn, HorseSave,
         HorseKilled, OnHorseKilled, ForeignHash, WorkerCrash, StopHorse,
         ChildLocal, diskVars
    <2> QED
      BY <1>0, <1>f, <2>1
  <1>2. ASSUME NEW w \in Workers, Child(w) PROVE FALSE
    <2>1. \/ meta' = meta \/ meta' = Failed(hgen[w], "other")
          \/ meta' = NoMeta \/ \E s : meta' = Written(w, s)
      BY <1>2 DEF Child, ChildLock, ChildOrphanExit, ChildBusy, ChildDest,
         ChildReuse, ChildStage, ChildRender, ChildDone, ChildExit,
         ChildRaise, ChildMark, ChildLocal, Write, diskVars
    <2>2. \A s : Written(w, s).err # "queue_lost"
      BY DEF Written
    <2>3. NoMeta.err # "queue_lost"
      BY DEF NoMeta
    <2> QED
      BY <1>0, <1>f, <2>1, <2>2, <2>3
  <1>3. ASSUME NEW t \in Posters, Post(t) PROVE FALSE
    <2>1. PostStamp(t) => meta'.err = "none"
      BY DEF PostStamp
    <2>2. ~PostStamp(t) => meta' = meta
      BY <1>3 DEF Post, PostStart, PostStatus, ReadStatus, PostLook,
         PostCorpse, PostAbandon, PostStop, PostCancel, Continue, PostWaited, PostDeadline, PostLock,
         PostDecide, PostDelete, PostCap, PostClear, PostEnqueue, OnlyReads,
         diskVars
    <2> QED
      BY <1>0, <2>1, <2>2
  <1>4. ASSUME NEW t \in Getters, Get(t) PROVE GetMark(t)
    BY <1>0, <1>4 DEF Get, GetStart, GetStatus, GetProbe, GetLock, OnlyReads,
       diskVars
  <1>5. ASSUME NEW t \in Api, RedisDown(t) \/ ApiCrash(t) PROVE FALSE
    BY <1>0, <1>5 DEF RedisDown, ApiCrash, diskVars
  <1>6. ~(Rq \/ Deploy)
    BY <1>0 DEF Rq, StopIgnored, RqSchedule, RqMaintain, RqExpire, Deploy,
       diskVars
  <1> QED
    BY <1>1, <1>2, <1>3, <1>4, <1>5, <1>6 DEF Next

\* For the same instances, until one of the four windows is met: GET reports a
\* job as lost only when no horse of that generation is at work or on its way
\* to a retry, although the job's RQ status, .horse.json and .horse.lock are
\* read one after the other.
THEOREM OnlyTheDeadAreLost == OnePoster => (Spec => MarkLostOnlyIfDead)
  <1> SUFFICES ASSUME OnePoster PROVE Spec => MarkLostOnlyIfDead
    OBVIOUS
  <1>1. JobInv /\ [Next]_vars =>
          [ races = {} /\ meta.err # "queue_lost" /\ meta'.err = "queue_lost"
            => \A w \in Workers : ~NotOver(w, meta'.gen) ]_vars
    <2> SUFFICES ASSUME JobInv, Next, races = {}, meta.err # "queue_lost",
                        meta'.err = "queue_lost"
                 PROVE  \A w \in Workers : ~NotOver(w, meta'.gen)
      OBVIOUS
    <2>1. PICK t \in Getters : GetMark(t)
      BY OnlyGetMarks
    <2>2. Dead /\ HorseOK
      BY <2>1 DEF JobInv, OInv, Orderly, GetOK, GetMark
    <2> QED
      BY <2>2, NobodyWorks DEF NotOver, Engaged
  <1> QED
    BY <1>1, JobInvariant, PTL DEF Spec, MarkLostOnlyIfDead
=============================================================================
