------------------------ MODULE ProgressStream_proofs ------------------------
(***************************************************************************)
(* For any number of clients, runs, crashes and Redis errors, and any      *)
(* length of the stream: the types, the gate's count, what a terminal      *)
(* event says of meta.json, and what a resumed client receives.            *)
(***************************************************************************)
EXTENDS ProgressStream, SequenceTheorems, FiniteSetTheorems, TLAPS

\* The part of the type invariant the run changes.
RunType ==
    /\ meta \in Jobs
    /\ job \in {"none", "queued", "run", "over", "retry", "lost"}
    /\ post \in BOOLEAN /\ open \in 0 .. Stages
    /\ cpc \in {"none", "run", "export", "stamp", "exit"}
    /\ crashes \in 0 .. MaxCrashes /\ errors \in 0 .. MaxErrors

\* A child belongs to a run, and has stored its verdict before it exports.
RunInv ==
    /\ cpc # "none" => job = "run"
    /\ cpc \in {"export", "stamp"} => meta.st = "succeeded"

\* What an event says of its generation has been stored, or is out of date.
Recorded(e) ==
    /\ e.gen <= meta.gen
    /\ e.st = "succeeded" => meta.gen > e.gen \/ meta.st = "succeeded"

Sound == {e \in Events : Recorded(e)}

\* This holds of the events on their way as well as of those in the stream.
EventInv ==
    /\ pub \in [Procs -> Publishers(Sound)]
    /\ \A k \in DOMAIN stream : Recorded(stream[k])

\* The stream is a block of consecutive ids that ends with the last one given out.
StreamInv == \A k \in DOMAIN stream : stream[k].id = top - Len(stream) + k

Open(r) == Streaming(r) \/ rpc[r] = "open"

LastSeen(r) == IF seen[r] = <<>> THEN 0 ELSE seen[r][Len(seen[r])]

\* An open connection's cursor is the last id its client has; the rows it holds
\* are consecutive, and nothing still in the stream lies before them.
ReaderOK(r) ==
    /\ Open(r) => cur[r] = LastSeen(r)
    /\ rpc[r] = "block" /\ cur[r] # 0 => from[r] = cur[r]
    /\ rpc[r] = "rows" =>
        /\ \A i \in DOMAIN rows[r] : rows[r][i].id = rows[r][1].id + i - 1
        /\ cur[r] # 0 =>
            /\ cur[r] < rows[r][1].id
            /\ \A k \in DOMAIN stream : ~(cur[r] < stream[k].id /\ stream[k].id < rows[r][1].id)

\* NoGap of one client.
GapFree(r) ==
    /\ \A i, j \in DOMAIN seen[r] : i < j => seen[r][i] < seen[r][j]
    /\ \A k \in DOMAIN stream :
        seen[r] # <<>> /\ seen[r][1] < stream[k].id /\ stream[k].id < seen[r][Len(seen[r])]
            => \E i \in DOMAIN seen[r] : seen[r][i] = stream[k].id

ReaderInv == \A r \in Readers : ReaderOK(r) /\ GapFree(r)

IInv == TypeOK /\ RunInv /\ EventInv /\ StreamInv /\ ReaderInv /\ GateExact

(***************************************************************************)
(* The run and its publishers.                                             *)
(***************************************************************************)

\* Events of a larger set make more publishers.
LEMMA PublishersGrow ==
    ASSUME NEW S, NEW T, S \subseteq T
    PROVE  Publishers(S) \subseteq Publishers(T)
  <1>1. ASSUME NEW q \in Seq(S) PROVE q \in Seq(T)
    BY SeqMonotonic
  <1> QED
    BY <1>1 DEF Publishers

\* One event, and two, are a sequence of events.
LEMMA ShortSeqs ==
    ASSUME NEW S, NEW d \in S, NEW e \in S
    PROVE  <<e>> \in Seq(S) /\ <<d, e>> \in Seq(S)
  OBVIOUS

\* emit puts the events into the publisher's own queue.
LEMMA EmitIn ==
    ASSUME NEW S, NEW p \in Publishers(S), NEW es \in Seq(S)
    PROVE  Emit(p, es) \in Publishers(S)
  <1>1. p.pending \o es \in Seq(S)
    BY ConcatProperties DEF Publishers
  <1> QED
    BY <1>1 DEF Emit, Publishers

\* A new publisher, and a forked one, hold no event of their own.
LEMMA FreshIn ==
    ASSUME NEW S
    PROVE  /\ NewPublisher \in Publishers(S)
           /\ \A p \in Publishers(S) : Forked(p) \in Publishers(S)
  <1>1. <<>> \in Seq(S)
    BY EmptySeq
  <1> QED
    BY <1>1 DEF NewPublisher, Forked, Publishers

\* An event of this generation is sound unless it announces a success too early.
LEMMA EventSound ==
    ASSUME RunType, NEW ev \in Kinds, NEW st \in Statuses,
           st = "succeeded" => meta.st = "succeeded"
    PROVE  Event(ev, st) \in Sound
  BY StreamAssumption DEF RunType, Jobs, Event, Sound, Events, Recorded

\* meta.json starts a new generation, or keeps a success.
Grows ==
    \/ meta'.gen > meta.gen
    \/ meta'.gen = meta.gen /\ (meta.st = "succeeded" => meta'.st = "succeeded")

\* Then what was recorded stays recorded.
LEMMA SoundGrows ==
    ASSUME RunType, RunType', Grows
    PROVE  /\ \A e : e.gen \in Nat /\ Recorded(e) => Recorded(e)'
           /\ Sound \subseteq Sound'
  <1>1. meta.gen \in Nat /\ meta'.gen \in Nat
    BY StreamAssumption DEF RunType, Jobs
  <1>2. ASSUME NEW e, e.gen \in Nat, Recorded(e) PROVE Recorded(e)'
    BY <1>1, <1>2 DEF Grows, Recorded
  <1> QED
    BY <1>2, StreamAssumption DEF Sound, Events

\* A step of the run keeps the invariant if it keeps its own part of it and emits
\* sound events.
LEMMA RunStep ==
    ASSUME IInv, UNCHANGED <<streamVars, sseVars>>, RunType', RunInv', Grows,
           pub' \in [Procs -> Publishers(Sound)]
    PROVE  IInv'
  <1>0. TypeOK /\ RunType
    BY DEF IInv, TypeOK, RunType
  <1>1. Sound \subseteq Sound' /\ Sound' \subseteq Events
    BY <1>0, SoundGrows DEF Sound, Events
  <1>2. pub' \in [Procs -> Publishers(Sound')] /\ pub' \in [Procs -> Publishers(Events)]
    <2>1. Publishers(Sound) \subseteq Publishers(Sound')
      BY <1>1, PublishersGrow
    <2>2. Publishers(Sound) \subseteq Publishers(Events)
      BY <1>1, PublishersGrow
    <2> QED
      BY <2>1, <2>2
  <1>3. UNCHANGED <<stream, top, ttl, gate, rpc, snap, cur, from, rows, seen, conns>>
    BY DEF streamVars, sseVars
  <1>4. TypeOK'
    BY <1>0, <1>2, <1>3 DEF TypeOK, RunType, Entries
  <1>5. ASSUME NEW k \in DOMAIN stream PROVE Recorded(stream[k])'
    <2>1. stream[k] \in Entries
      BY <1>0, ElementOfSeq, LenProperties DEF TypeOK
    <2>2. stream[k].gen \in Nat
      BY <2>1, StreamAssumption DEF Entries
    <2>3. Recorded(stream[k])
      BY DEF IInv, EventInv
    <2> QED
      BY <2>2, <2>3, <1>0, <1>3, SoundGrows DEF Recorded
  <1>6. EventInv'
    BY <1>2, <1>3, <1>5 DEF EventInv
  <1>7. StreamInv' /\ ReaderInv' /\ GateExact'
    BY <1>3 DEF IInv, StreamInv, ReaderInv, ReaderOK, GapFree, LastSeen, Open, Streaming, GateExact
  <1> QED
    BY <1>4, <1>6, <1>7 DEF IInv

\* Replacing publishers by publishers of sound events.
LEMMA PubSet ==
    ASSUME NEW S, NEW f \in [Procs -> S], NEW p \in Procs, NEW x \in S
    PROVE  [f EXCEPT ![p] = x] \in [Procs -> S]
  OBVIOUS

\* emit of a sound event, and a process that ends, keep the publishers sound.
LEMMA PubEmit ==
    ASSUME EventInv, NEW p \in Procs, NEW es \in Seq(Sound)
    PROVE  /\ [pub EXCEPT ![p] = Emit(@, es)] \in [Procs -> Publishers(Sound)]
           /\ Ended(p) \in [Procs -> Publishers(Sound)]
  <1>1. pub \in [Procs -> Publishers(Sound)] /\ pub[p] \in Publishers(Sound)
    BY DEF EventInv
  <1>2. Emit(pub[p], es) \in Publishers(Sound) /\ NewPublisher \in Publishers(Sound)
    BY <1>1, EmitIn, FreshIn
  <1> QED
    BY <1>1, <1>2 DEF Ended

\* mark_job_failed keeps a success, and its event announces none.
LEMMA MarkedGrows ==
    ASSUME RunType
    PROVE  /\ Marked \in Jobs /\ Marked.gen = meta.gen
           /\ meta.st = "succeeded" => Marked.st = "succeeded"
           /\ \A ev \in Kinds : <<Event(ev, "failed")>> \in Seq(Sound)
  <1>1. \A ev \in Kinds : Event(ev, "failed") \in Sound
    BY EventSound DEF Statuses
  <1>2. \A ev \in Kinds : <<Event(ev, "failed")>> \in Seq(Sound)
    BY <1>1, ShortSeqs
  <1> QED
    BY <1>2 DEF RunType, Jobs, Statuses, Marked

\* Every step of the run keeps the invariant.
LEMMA RunKeeps ==
    ASSUME IInv, Run
    PROVE  IInv'
  <1>0. /\ RunType /\ RunInv /\ EventInv
        /\ pub \in [Procs -> Publishers(Sound)]
        /\ "api" \in Procs /\ "worker" \in Procs /\ "horse" \in Procs /\ "child" \in Procs
    BY DEF IInv, TypeOK, RunType, EventInv, Procs
  <1>e. \A ev \in {"running", "stage_start", "stage_done", "queued", "retry"} :
          \A st \in {"running", "queued"} : Event(ev, st) \in Sound
    BY <1>0, EventSound DEF Kinds, TERMINAL_EVENTS, Statuses
  <1>s. \A ev \in {"running", "stage_start", "stage_done", "queued", "retry"} :
          \A st \in {"running", "queued"} : <<Event(ev, st)>> \in Seq(Sound)
    BY <1>e, ShortSeqs
  <1>t. "failed" \in Kinds /\ "queue_lost" \in Kinds
    BY DEF Kinds, TERMINAL_EVENTS
  <1>m. /\ Marked \in Jobs /\ Marked.gen = meta.gen
        /\ meta.st = "succeeded" => Marked.st = "succeeded"
        /\ \A ev \in Kinds : <<Event(ev, "failed")>> \in Seq(Sound)
    BY <1>0, MarkedGrows
  <1> USE StreamAssumption DEF streamVars, sseVars, faults
  <1>1. CASE PostEnqueue
    <2>1. RunType' /\ RunInv' /\ Grows
      BY <1>0, <1>1 DEF PostEnqueue, RunType, RunInv, Grows, Jobs, Statuses
    <2> QED
      BY <2>1, <1>0, <1>1, RunStep DEF PostEnqueue
  <1>2. CASE PostEmit
    <2>1. RunType' /\ RunInv' /\ Grows
      BY <1>0, <1>2 DEF PostEmit, RunType, RunInv, Grows
    <2>2. pub' \in [Procs -> Publishers(Sound)]
      BY <1>0, <1>2, <1>s, PubEmit DEF PostEmit
    <2> QED
      BY <2>1, <2>2, <1>2, RunStep DEF PostEmit
  <1>3. CASE HorseStart
    <2>1. RunType' /\ RunInv' /\ Grows
      BY <1>0, <1>3 DEF HorseStart, RunType, RunInv, Grows
    <2>2. Emit(Forked(pub["worker"]), <<Event("running", "running")>>) \in Publishers(Sound)
      BY <1>0, <1>s, EmitIn, FreshIn
    <2>3. pub' \in [Procs -> Publishers(Sound)]
      BY <1>0, <1>3, <2>2, PubSet DEF HorseStart
    <2> QED
      BY <2>1, <2>3, <1>3, RunStep DEF HorseStart
  <1>4. CASE HorseBusy
    <2>0. crashes' \in 0 .. MaxCrashes /\ errors' = errors
      BY <1>0, <1>4 DEF HorseBusy, Crash, RunType
    <2>1. CASE /\ job' = "retry"
               /\ pub' = [pub EXCEPT !["horse"] = Emit(@, <<Event("retry", "queued")>>)]
               /\ UNCHANGED meta
      <3>1. RunType' /\ RunInv' /\ Grows
        BY <2>0, <2>1, <1>0, <1>4 DEF HorseBusy, RunType, RunInv, Grows
      <3>2. pub' \in [Procs -> Publishers(Sound)]
        BY <1>0, <2>1, <1>s, PubEmit
      <3> QED
        BY <3>1, <3>2, <1>4, RunStep DEF HorseBusy
    <2>2. CASE job' = "over" /\ MarkJobFailed("horse", "failed")
      <3>1. RunType' /\ RunInv' /\ Grows
        BY <2>0, <2>2, <1>0, <1>4, <1>m DEF HorseBusy, RunType, RunInv, Grows, MarkJobFailed
      <3>2. pub' \in [Procs -> Publishers(Sound)]
        BY <1>0, <2>2, <1>t, <1>m, PubEmit DEF MarkJobFailed
      <3> QED
        BY <3>1, <3>2, <1>4, RunStep DEF HorseBusy
    <2> QED
      BY <2>1, <2>2, <1>4 DEF HorseBusy
  <1>5. CASE HorseExit
    <2>1. RunType' /\ RunInv' /\ Grows
      BY <1>0, <1>5 DEF HorseExit, RunType, RunInv, Grows
    <2>2. pub' \in [Procs -> Publishers(Sound)]
      BY <1>0, <1>5, <1>s, PubEmit DEF HorseExit
    <2> QED
      BY <2>1, <2>2, <1>5, RunStep DEF HorseExit
  <1>6. CASE HorseKilled
    <2> DEFINE left == [Ended("horse") EXCEPT !["child"] = NewPublisher]
    <2>0. left \in [Procs -> Publishers(Sound)] /\ crashes' \in 0 .. MaxCrashes /\ errors' = errors
      <3>1. Ended("horse") \in [Procs -> Publishers(Sound)] /\ NewPublisher \in Publishers(Sound)
        BY <1>0, <1>s, PubEmit, FreshIn
      <3> QED
        BY <3>1, <1>0, <1>6 DEF HorseKilled, Crash, RunType
    <2>1. CASE job' = "queued" /\ pub' = left /\ UNCHANGED meta
      <3>1. RunType' /\ RunInv' /\ Grows
        BY <2>0, <2>1, <1>0, <1>6 DEF HorseKilled, RunType, RunInv, Grows
      <3> QED
        BY <2>0, <2>1, <3>1, <1>6, RunStep DEF HorseKilled
    <2>2. CASE /\ job' = "none" /\ meta' = Marked
               /\ pub' = [left EXCEPT !["worker"] = Emit(@, <<Event("failed", "failed")>>)]
      <3>1. RunType' /\ RunInv' /\ Grows
        BY <2>0, <2>2, <1>0, <1>6, <1>m DEF HorseKilled, RunType, RunInv, Grows
      <3>2. left["worker"] \in Publishers(Sound)
        BY <1>0, <2>0
      <3>3. Emit(left["worker"], <<Event("failed", "failed")>>) \in Publishers(Sound)
        BY <3>2, <1>t, <1>m, EmitIn
      <3>4. pub' \in [Procs -> Publishers(Sound)]
        BY <1>0, <2>0, <2>2, <3>3, PubSet
      <3> QED
        BY <3>1, <3>4, <1>6, RunStep DEF HorseKilled
    <2> QED
      BY <2>1, <2>2, <1>6 DEF HorseKilled
  <1>7. CASE WorkerCrash
    <2>1. RunType' /\ RunInv' /\ Grows
      BY <1>0, <1>7 DEF WorkerCrash, Crash, RunType, RunInv, Grows
    <2>2. pub' \in [Procs -> Publishers(Sound)]
      BY <1>0, <1>7, FreshIn DEF WorkerCrash
    <2> QED
      BY <2>1, <2>2, <1>7, RunStep DEF WorkerCrash
  <1>8. CASE GetQueueLost
    <2>1. RunType' /\ RunInv' /\ Grows
      BY <1>0, <1>8, <1>m DEF GetQueueLost, MarkJobFailed, RunType, RunInv, Grows
    <2>2. pub' \in [Procs -> Publishers(Sound)]
      BY <1>0, <1>8, <1>t, <1>m, PubEmit DEF GetQueueLost, MarkJobFailed
    <2> QED
      BY <2>1, <2>2, <1>8, RunStep DEF GetQueueLost
  <1>9. CASE ChildParse
    <2>1. RunType' /\ RunInv' /\ Grows
      BY <1>0, <1>9 DEF ChildParse, RunType, RunInv, Grows, Jobs, Statuses
    <2>2. Emit(NewPublisher, <<Event("running", "running")>>) \in Publishers(Sound)
      BY <1>s, EmitIn, FreshIn
    <2>3. pub' \in [Procs -> Publishers(Sound)]
      BY <1>0, <1>9, <2>2, PubSet DEF ChildParse
    <2> QED
      BY <2>1, <2>3, <1>9, RunStep DEF ChildParse
  <1>10. CASE ChildStage
    <2>1. RunType' /\ RunInv' /\ Grows
      BY <1>0, <1>10 DEF ChildStage, RunType, RunInv, Grows
    <2> DEFINE first == IF open = 0 THEN <<>> ELSE <<Event("stage_done", "running")>>
    <2>2. first \in Seq(Sound) /\ <<Event("stage_start", "running")>> \in Seq(Sound)
      BY <1>s, EmptySeq
    <2>3. first \o <<Event("stage_start", "running")>> \in Seq(Sound)
      BY <2>2, ConcatProperties
    <2>4. pub' \in [Procs -> Publishers(Sound)]
      BY <1>0, <1>10, <2>3, PubEmit DEF ChildStage
    <2> QED
      BY <2>1, <2>4, <1>10, RunStep DEF ChildStage
  <1>11. CASE ChildPublish
    <2>1. RunType' /\ RunInv' /\ Grows
      BY <1>0, <1>11 DEF ChildPublish, RunType, RunInv, Grows, Jobs, Statuses
    <2> QED
      BY <2>1, <1>0, <1>11, RunStep DEF ChildPublish
  <1>12. CASE ChildSucceeded
    <2>1. RunType' /\ RunInv' /\ Grows /\ meta.st = "succeeded"
      BY <1>0, <1>12 DEF ChildSucceeded, RunType, RunInv, Grows
    <2>2. Event("stage_done", "succeeded") \in Sound /\ Event("succeeded", "succeeded") \in Sound
      BY <1>0, <2>1, EventSound DEF Kinds, TERMINAL_EVENTS, Statuses
    <2>3. <<Event("stage_done", "succeeded"), Event("succeeded", "succeeded")>> \in Seq(Sound)
      BY <2>2, ShortSeqs
    <2>4. pub' \in [Procs -> Publishers(Sound)]
      BY <1>0, <1>12, <2>3, PubEmit DEF ChildSucceeded
    <2> QED
      BY <2>1, <2>4, <1>12, RunStep DEF ChildSucceeded
  <1>13. CASE ChildExit
    <2>1. RunType' /\ RunInv' /\ Grows
      BY <1>0, <1>13 DEF ChildExit, ChildOver, RunType, RunInv, Grows
    <2>2. pub' \in [Procs -> Publishers(Sound)]
      BY <1>0, <1>13, <1>s, PubEmit DEF ChildExit
    <2> QED
      BY <2>1, <2>2, <1>13, RunStep DEF ChildExit, ChildOver
  <1>14. CASE ChildReuse
    <2>1. RunType' /\ RunInv' /\ Grows
      BY <1>0, <1>14 DEF ChildReuse, ChildOver, RunType, RunInv, Grows
    <2> QED
      BY <2>1, <1>0, <1>14, RunStep DEF ChildReuse, ChildOver
  <1>15. CASE ChildRaise
    <2>1. RunType' /\ RunInv' /\ Grows
      BY <1>0, <1>15, <1>m DEF ChildRaise, MarkJobFailed, RunType, RunInv, Grows
    <2>2. pub' \in [Procs -> Publishers(Sound)]
      BY <1>0, <1>15, <1>t, <1>m, PubEmit DEF ChildRaise, MarkJobFailed
    <2> QED
      BY <2>1, <2>2, <1>15, RunStep DEF ChildRaise
  <1>16. ASSUME NEW killed \in BOOLEAN, HorseFinish(killed) PROVE IInv'
    <2>0. /\ crashes' \in 0 .. MaxCrashes /\ errors' = errors
          /\ Ended("child") \in [Procs -> Publishers(Sound)]
      <3>1. Ended("child") \in [Procs -> Publishers(Sound)]
        BY <1>0, <1>s, PubEmit
      <3> QED
        BY <3>1, <1>0, <1>16 DEF HorseFinish, Crash, RunType
    <2>1. CASE meta' = Marked /\ pub' = [Ended("child") EXCEPT !["horse"] =
                                            Emit(@, <<Event("failed", "failed")>>)]
      <3>1. RunType' /\ RunInv' /\ Grows
        BY <2>0, <2>1, <1>0, <1>16, <1>m DEF HorseFinish, ChildOver, RunType, RunInv, Grows
      <3>2. Ended("child")["horse"] \in Publishers(Sound)
        BY <1>0, <2>0
      <3>3. Emit(Ended("child")["horse"], <<Event("failed", "failed")>>) \in Publishers(Sound)
        BY <3>2, <1>t, <1>m, EmitIn
      <3>4. pub' \in [Procs -> Publishers(Sound)]
        BY <1>0, <2>0, <2>1, <3>3, PubSet
      <3> QED
        BY <3>1, <3>4, <1>16, RunStep DEF HorseFinish, ChildOver
    <2>2. CASE pub' = Ended("child") /\ UNCHANGED meta
      <3>1. RunType' /\ RunInv' /\ Grows
        BY <2>0, <2>2, <1>0, <1>16 DEF HorseFinish, ChildOver, RunType, RunInv, Grows
      <3> QED
        BY <2>0, <2>2, <3>1, <1>16, RunStep DEF HorseFinish, ChildOver
    <2> QED
      BY <2>1, <2>2, <1>16 DEF HorseFinish
  <1> QED
    BY <1>1, <1>2, <1>3, <1>4, <1>5, <1>6, <1>7, <1>8, <1>9, <1>10, <1>11, <1>12, <1>13,
       <1>14, <1>15, <1>16 DEF Run, ChildStep

(***************************************************************************)
(* The stream.                                                             *)
(***************************************************************************)

\* The stream loses entries, or gains one with a new id.
Follows ==
    /\ top' \in Nat /\ top' >= top
    /\ stream' \in Seq(Entries')
    /\ \A k \in DOMAIN stream' :
        (\E j \in DOMAIN stream : stream'[k] = stream[j]) \/ stream'[k].id > top

\* Types that depend on the last id grow with it.
LEMMA TopGrows ==
    ASSUME TypeOK, top' \in Nat, top' >= top
    PROVE  /\ Seq(Entries) \subseteq Seq(Entries') /\ Seq(1 .. top) \subseteq Seq(1 .. top')
           /\ 0 .. top \subseteq 0 .. top'
  <1>1. top \in Nat
    BY DEF TypeOK
  <1>2. 1 .. top \subseteq 1 .. top' /\ 0 .. top \subseteq 0 .. top'
    BY <1>1
  <1>3. Entries \subseteq Entries'
    BY <1>2 DEF Entries
  <1> QED
    BY <1>2, <1>3, SeqMonotonic

\* Ids the clients have are not ahead of the stream.
LEMMA KnownIds ==
    ASSUME TypeOK, NEW r \in Readers
    PROVE  /\ \A i \in DOMAIN seen[r] : seen[r][i] \in 1 .. top
           /\ DOMAIN seen[r] = 1 .. Len(seen[r]) /\ Len(seen[r]) \in Nat
           /\ \A i \in DOMAIN rows[r] : rows[r][i] \in Entries /\ rows[r][i].id \in 1 .. top
           /\ DOMAIN rows[r] = 1 .. Len(rows[r]) /\ Len(rows[r]) \in Nat
           /\ seen[r] # <<>> => Len(seen[r]) \in DOMAIN seen[r] /\ 1 \in DOMAIN seen[r]
           /\ rows[r] # <<>> => 1 \in DOMAIN rows[r]
           /\ cur[r] \in 0 .. top /\ from[r] \in 0 .. top
  <1>1. seen[r] \in Seq(1 .. top) /\ rows[r] \in Seq(Entries)
    BY DEF TypeOK
  <1>2. /\ DOMAIN seen[r] = 1 .. Len(seen[r]) /\ Len(seen[r]) \in Nat
        /\ DOMAIN rows[r] = 1 .. Len(rows[r]) /\ Len(rows[r]) \in Nat
    BY <1>1, LenProperties
  <1>3. \A i \in DOMAIN seen[r] : seen[r][i] \in 1 .. top
    BY <1>1, <1>2, ElementOfSeq
  <1>4. \A i \in DOMAIN rows[r] : rows[r][i] \in Entries /\ rows[r][i].id \in 1 .. top
    <2>1. \A i \in DOMAIN rows[r] : rows[r][i] \in Entries
      BY <1>1, <1>2, ElementOfSeq
    <2> QED
      BY <2>1 DEF Entries
  <1>5. /\ seen[r] # <<>> => Len(seen[r]) \in Nat \ {0}
        /\ rows[r] # <<>> => Len(rows[r]) \in Nat \ {0}
    BY <1>1, EmptySeq
  <1>6. cur[r] \in 0 .. top /\ from[r] \in 0 .. top
    BY DEF TypeOK
  <1> QED
    BY <1>2, <1>3, <1>4, <1>5, <1>6

\* The entries of the stream, in the same way.
LEMMA KnownEntries ==
    ASSUME TypeOK
    PROVE  /\ DOMAIN stream = 1 .. Len(stream) /\ Len(stream) \in Nat
           /\ \A k \in DOMAIN stream : stream[k] \in Entries /\ stream[k].id \in 1 .. top
  <1>1. stream \in Seq(Entries)
    BY DEF TypeOK
  <1>2. DOMAIN stream = 1 .. Len(stream) /\ Len(stream) \in Nat
    BY <1>1, LenProperties
  <1>3. \A k \in DOMAIN stream : stream[k] \in Entries
    BY <1>1, <1>2, ElementOfSeq
  <1> QED
    BY <1>2, <1>3 DEF Entries

\* What a client has got and holds stays without a gap whatever the stream loses
\* or gains.
LEMMA ReadersFollow ==
    ASSUME TypeOK, ReaderInv, Follows, UNCHANGED sseVars
    PROVE  ReaderInv'
  <1>1. SUFFICES ASSUME NEW r \in Readers PROVE ReaderOK(r)' /\ GapFree(r)'
    BY DEF ReaderInv
  <1>2. UNCHANGED <<rpc, cur, from, rows, seen>> /\ top \in Nat
    BY DEF sseVars, TypeOK
  <1>3. ReaderOK(r) /\ GapFree(r)
    BY DEF ReaderInv
  <1>4. ReaderOK(r)'
    <2>1. /\ Open(r)' => cur'[r] = LastSeen(r)'
          /\ rpc'[r] = "block" /\ cur'[r] # 0 => from'[r] = cur'[r]
      BY <1>2, <1>3 DEF ReaderOK, Open, Streaming, LastSeen
    <2>2. ASSUME rpc'[r] = "rows"
          PROVE  /\ \A i \in DOMAIN rows'[r] : rows'[r][i].id = rows'[r][1].id + i - 1
                 /\ cur'[r] # 0 => cur'[r] < rows'[r][1].id
      BY <1>2, <1>3, <2>2 DEF ReaderOK
    <2>3. ASSUME rpc'[r] = "rows", cur'[r] # 0, NEW k \in DOMAIN stream',
                 cur'[r] < stream'[k].id, stream'[k].id < rows'[r][1].id
          PROVE  FALSE
      <3>1. rows[r][1].id \in 1 .. top
        BY <1>2, <2>3, KnownIds DEF TypeOK
      <3>2. CASE \E j \in DOMAIN stream : stream'[k] = stream[j]
        BY <1>2, <1>3, <2>3, <3>2 DEF ReaderOK
      <3>3. CASE stream'[k].id > top
        <4>1. stream'[k] \in Entries' /\ top' \in Nat
          BY <2>3, ElementOfSeq, LenProperties DEF Follows
        <4>2. stream'[k].id \in Nat
          BY <4>1 DEF Entries
        <4> QED
          BY <1>2, <2>3, <3>1, <3>3, <4>2
      <3> QED
        BY <3>2, <3>3, <2>3 DEF Follows
    <2> QED
      BY <2>1, <2>2, <2>3 DEF ReaderOK
  <1>5. GapFree(r)'
    <2>1. ASSUME NEW k \in DOMAIN stream', seen[r] # <<>>, seen[r][1] < stream'[k].id,
                 stream'[k].id < seen[r][Len(seen[r])]
          PROVE  \E i \in DOMAIN seen[r] : seen[r][i] = stream'[k].id
      <3>1. seen[r][Len(seen[r])] \in 1 .. top
        BY <2>1, KnownIds
      <3>2. CASE \E j \in DOMAIN stream : stream'[k] = stream[j]
        BY <1>3, <2>1, <3>2 DEF GapFree
      <3>3. CASE stream'[k].id > top
        <4>1. stream'[k] \in Entries' /\ top' \in Nat
          BY <2>1, ElementOfSeq, LenProperties DEF Follows
        <4>2. stream'[k].id \in Nat
          BY <4>1 DEF Entries
        <4> QED
          BY <1>2, <2>1, <3>1, <3>3, <4>2
      <3> QED
        BY <3>2, <3>3, <2>1 DEF Follows
    <2> QED
      BY <1>2, <1>3, <2>1 DEF GapFree
  <1> QED
    BY <1>4, <1>5

\* A step that only changes the stream and the publishers.
LEMMA StreamStep ==
    ASSUME IInv, Follows, UNCHANGED <<jobVars, sseVars, crashes>>,
           ttl' \in BOOLEAN, errors' \in 0 .. MaxErrors,
           pub' \in [Procs -> Publishers(Sound)],
           StreamInv', \A k \in DOMAIN stream' : Recorded(stream'[k])
    PROVE  IInv'
  <1>0. TypeOK /\ UNCHANGED <<meta, job, post, cpc, open, gate, rpc, snap, cur, from, rows, seen, conns>>
    BY DEF IInv, jobVars, sseVars
  <1>1. Publishers(Sound) \subseteq Publishers(Events)
    BY PublishersGrow DEF Sound
  <1>2. /\ Seq(Entries) \subseteq Seq(Entries') /\ Seq(1 .. top) \subseteq Seq(1 .. top')
        /\ 0 .. top \subseteq 0 .. top'
    BY <1>0, TopGrows DEF Follows
  <1>3. TypeOK'
    <2>1. pub' \in [Procs -> Publishers(Events)]
      BY <1>1
    <2>2. /\ cur' \in [Readers -> 0 .. top'] /\ from' \in [Readers -> 0 .. top']
          /\ rows' \in [Readers -> Seq(Entries')] /\ seen' \in [Readers -> Seq(1 .. top')]
      <3>1. /\ cur \in [Readers -> 0 .. top] /\ from \in [Readers -> 0 .. top]
            /\ rows \in [Readers -> Seq(Entries)] /\ seen \in [Readers -> Seq(1 .. top)]
        BY <1>0 DEF TypeOK
      <3> QED
        BY <1>0, <1>2, <3>1
    <2> QED
      BY <1>0, <2>1, <2>2 DEF TypeOK, Follows
  <1>4. ReaderInv'
    BY <1>0, ReadersFollow DEF IInv
  <1>5. EventInv' /\ RunInv' /\ GateExact'
    <2>1. Sound' = Sound /\ \A e : Recorded(e)' <=> Recorded(e)
      BY <1>0 DEF Sound, Recorded
    <2>2. EventInv'
      BY <2>1 DEF EventInv, Recorded
    <2> QED
      BY <1>0, <2>2 DEF IInv, RunInv, GateExact, Streaming
  <1> QED
    BY <1>3, <1>4, <1>5 DEF IInv

\* XADD appends the next id and trims from the front.
LEMMA XaddFollows ==
    ASSUME TypeOK, StreamInv, EventInv, NEW e \in Sound, Xadd(e), UNCHANGED meta
    PROVE  Follows /\ StreamInv' /\ \A k \in DOMAIN stream' : Recorded(stream'[k])
  <1> DEFINE x == [id |-> top + 1, ev |-> e.ev, st |-> e.st, gen |-> e.gen]
             s == Append(stream, x)
             n == Len(stream)
  <1>0. top \in Nat /\ top' = top + 1 /\ n \in Nat /\ MaxLen \in Nat
    BY StreamAssumption, KnownEntries DEF TypeOK, Xadd
  <1>1. x \in Entries'
    BY <1>0 DEF Sound, Events, Entries
  <1>2. stream \in Seq(Entries')
    BY <1>0, TopGrows DEF TypeOK
  <1>3. /\ s \in Seq(Entries') /\ Len(s) = n + 1 /\ s[n + 1] = x
        /\ \A i \in 1 .. n : s[i] = stream[i]
    BY <1>0, <1>1, <1>2, AppendProperties
  <1>4. PICK k \in 1 .. IF Len(s) > MaxLen THEN Len(s) - MaxLen + 1 ELSE 1 :
           stream' = SubSeq(s, k, Len(s))
    BY DEF Xadd, Trimmed
  <1>5. k \in 1 .. n + 1
    BY <1>0, <1>3, <1>4, StreamAssumption
  <1>6. \A i \in k .. n + 1 : s[i] \in Entries'
    BY <1>0, <1>3, <1>5, ElementOfSeq
  <1> HIDE DEF x, s
  <1>7. /\ stream' \in Seq(Entries') /\ Len(stream') = n + 2 - k
        /\ \A i \in 1 .. n + 2 - k : stream'[i] = s[k + i - 1]
    <2>1. /\ SubSeq(s, k, n + 1) \in Seq(Entries') /\ Len(SubSeq(s, k, n + 1)) = n + 1 - k + 1
          /\ \A i \in 1 .. n + 1 - k + 1 : SubSeq(s, k, n + 1)[i] = s[k + i - 1]
      BY <1>0, <1>5, <1>6, SubSeqProperties
    <2>2. stream' = SubSeq(s, k, n + 1)
      BY <1>3, <1>4
    <2>3. n + 1 - k + 1 = n + 2 - k
      BY <1>0, <1>5
    <2> QED
      BY <2>1, <2>2, <2>3
  <1>8. DOMAIN stream' = 1 .. n + 2 - k /\ DOMAIN stream = 1 .. n
    BY <1>7, LenProperties, KnownEntries
  <1>9. ASSUME NEW i \in DOMAIN stream'
        PROVE  \/ k + i - 1 \in DOMAIN stream /\ stream'[i] = stream[k + i - 1]
               \/ k + i - 1 = n + 1 /\ stream'[i] = x
    <2>1. i \in 1 .. n + 2 - k /\ stream'[i] = s[k + i - 1]
      BY <1>7, <1>8
    <2>2. CASE i = n + 2 - k
      <3>1. k + i - 1 = n + 1
        BY <1>0, <1>5, <2>2
      <3> QED
        BY <1>3, <2>1, <3>1
    <2>3. CASE i # n + 2 - k
      <3>1. k + i - 1 \in 1 .. n
        BY <1>0, <1>5, <2>1, <2>3
      <3> QED
        BY <1>3, <1>8, <2>1, <3>1
    <2> QED
      BY <2>2, <2>3
  <1>10. Follows
    BY <1>0, <1>7, <1>9 DEF Follows, x
  <1>11. StreamInv'
    <2>1. ASSUME NEW i \in DOMAIN stream' PROVE stream'[i].id = top' - Len(stream') + i
      <3>1. i \in Nat /\ top' - Len(stream') + i = top + 1 - (n + 2 - k) + i
        <4>1. i \in 1 .. n + 2 - k /\ Len(stream') = n + 2 - k
          BY <1>7, <1>8
        <4>2. n \in Nat /\ k \in Nat /\ top \in Nat /\ top' = top + 1
          BY <1>0, <1>5
        <4> HIDE DEF n
        <4> QED
          BY <4>1, <4>2
      <3>2. CASE k + i - 1 \in DOMAIN stream /\ stream'[i] = stream[k + i - 1]
        <4>1. stream'[i].id = top - n + (k + i - 1)
          BY <3>2 DEF StreamInv
        <4> QED
          BY <1>0, <1>5, <3>1, <4>1
      <3>3. CASE k + i - 1 = n + 1 /\ stream'[i] = x
        BY <1>0, <1>5, <3>1, <3>3 DEF x
      <3> QED
        BY <1>9, <3>2, <3>3
    <2> QED
      BY <2>1 DEF StreamInv
  <1>12. Recorded(x)
    BY DEF Sound, Recorded, x
  <1> QED
    BY <1>9, <1>10, <1>11, <1>12 DEF EventInv

\* A sender thread's step keeps the invariant: a sent event was sound in the queue.
LEMMA SendKeeps ==
    ASSUME IInv, NEW p \in Procs, Send(p)
    PROVE  IInv'
  <1> DEFINE e == Head(pub[p].pending)
             rest == [pub[p] EXCEPT !.pending = Tail(pub[p].pending)]
  <1>0. /\ TypeOK /\ StreamInv /\ EventInv /\ pub \in [Procs -> Publishers(Sound)]
        /\ pub[p] \in Publishers(Sound)
    BY DEF IInv, EventInv
  <1>1. e \in Sound /\ Tail(pub[p].pending) \in Seq(Sound)
    BY <1>0, HeadTailProperties DEF Send, Publishers
  <1>2. rest \in Publishers(Sound) /\ [rest EXCEPT !.warned = TRUE] \in Publishers(Sound)
    BY <1>0, <1>1 DEF Publishers
  <1>3. pub' = [pub EXCEPT ![p] = rest] \/ pub' = [pub EXCEPT ![p] = [rest EXCEPT !.warned = TRUE]]
    BY DEF Send
  <1>4. pub' \in [Procs -> Publishers(Sound)]
    BY <1>0, <1>2, <1>3, PubSet
  <1>5. /\ UNCHANGED <<jobVars, sseVars, crashes, meta>>
        /\ ttl' \in BOOLEAN /\ errors' \in 0 .. MaxErrors
    <2>1. UNCHANGED <<jobVars, sseVars>>
      BY DEF Send
    <2>2. ttl' \in BOOLEAN
      BY <1>0 DEF Send, TypeOK, streamVars
    <2>3. UNCHANGED faults \/ RedisError
      BY DEF Send
    <2>4. UNCHANGED crashes /\ errors' \in 0 .. MaxErrors
      BY <1>0, <2>3, StreamAssumption DEF TypeOK, faults, RedisError
    <2> QED
      BY <2>1, <2>2, <2>4 DEF jobVars
  <1>6. Xadd(e) \/ UNCHANGED <<stream, top>>
    BY DEF Send, streamVars
  <1>7. CASE Xadd(e)
    <2>1. Follows /\ StreamInv' /\ \A k \in DOMAIN stream' : Recorded(stream'[k])
      BY <1>0, <1>1, <1>5, <1>7, XaddFollows
    <2> QED
      BY <2>1, <1>4, <1>5, StreamStep
  <1>8. CASE UNCHANGED <<stream, top>>
    <2>1. Follows
      BY <1>0, <1>8 DEF Follows, TypeOK, Entries
    <2>2. StreamInv' /\ \A k \in DOMAIN stream' : Recorded(stream'[k])
      BY <1>0, <1>8 DEF StreamInv, EventInv
    <2> QED
      BY <2>1, <2>2, <1>4, <1>5, StreamStep
  <1> QED
    BY <1>6, <1>7, <1>8

\* A stream that expires keeps it: the ids go on from the last one.
LEMMA ExpireKeeps ==
    ASSUME IInv, StreamExpire
    PROVE  IInv'
  <1>0. TypeOK /\ EventInv
    BY DEF IInv
  <1>1. stream' = <<>> /\ DOMAIN stream' = {} /\ top' = top /\ top \in Nat
    BY <1>0 DEF StreamExpire, TypeOK
  <1>2. Follows /\ StreamInv'
    BY <1>1, EmptySeq DEF Follows, StreamInv
  <1>3. UNCHANGED <<jobVars, sseVars, crashes>> /\ ttl' \in BOOLEAN /\ errors' \in 0 .. MaxErrors
    BY <1>0 DEF StreamExpire, TypeOK, faults
  <1>4. pub' \in [Procs -> Publishers(Sound)]
    BY <1>0 DEF StreamExpire, EventInv
  <1> QED
    BY <1>1, <1>2, <1>3, <1>4, StreamStep

(***************************************************************************)
(* The clients.                                                            *)
(***************************************************************************)

\* The part of the type invariant the clients change.
SseType ==
    /\ gate \in 0 .. Limit
    /\ rpc \in [Readers -> {"idle", "meta", "open", "loop", "block", "rows"}]
    /\ snap \in [Readers -> Jobs]
    /\ cur \in [Readers -> 0 .. top] /\ from \in [Readers -> 0 .. top]
    /\ rows \in [Readers -> Seq(Entries)] /\ seen \in [Readers -> Seq(1 .. top)]
    /\ conns \in [Readers -> 0 .. MaxReconnects]
    /\ \A r \in Readers : rpc[r] = "rows" => rows[r] # <<>>

\* Only the connection of client r moves.
Alone(r) ==
    \A q \in Readers \ {r} :
        /\ rpc'[q] = rpc[q] /\ cur'[q] = cur[q] /\ from'[q] = from[q]
        /\ rows'[q] = rows[q] /\ seen'[q] = seen[q]

\* A response that is open has been counted.
LEMMA OpenCounted ==
    ASSUME TypeOK, GateExact
    PROVE  /\ IsFiniteSet({q \in Readers : Open(q)})
           /\ gate = Cardinality({q \in Readers : Open(q)})
           /\ \A r \in Readers : Open(r) => gate > 0
  <1> DEFINE O == {q \in Readers : Open(q)}
  <1>1. IsFiniteSet(O)
    BY FS_Subset, StreamAssumption
  <1>2. gate = Cardinality(O) /\ gate \in Nat
    BY StreamAssumption DEF GateExact, Open, TypeOK
  <1>3. O # {} => gate # 0
    BY <1>1, <1>2, FS_EmptySet
  <1> QED
    BY <1>1, <1>2, <1>3

\* A step of one client keeps the invariant if it keeps that client's part of it and
\* moves the gate with the response.
LEMMA ReaderStep ==
    ASSUME IInv, NEW r \in Readers, UNCHANGED <<jobVars, pub, streamVars, crashes>>,
           errors' \in 0 .. MaxErrors, SseType', Alone(r), ReaderOK(r)', GapFree(r)',
           gate' = IF Open(r)' THEN IF Open(r) THEN gate ELSE gate + 1
                   ELSE IF Open(r) THEN gate - 1 ELSE gate
    PROVE  IInv'
  <1>0. /\ TypeOK /\ GateExact
        /\ UNCHANGED <<meta, job, post, cpc, open, pub, stream, top, ttl, crashes>>
    BY DEF IInv, jobVars, streamVars
  <1>1. TypeOK'
    BY <1>0 DEF TypeOK, SseType, Entries
  <1>2. RunInv' /\ EventInv' /\ StreamInv'
    BY <1>0 DEF IInv, RunInv, EventInv, Sound, Recorded, StreamInv
  <1>3. ReaderInv'
    <2>1. ASSUME NEW q \in Readers, q # r PROVE ReaderOK(q)' /\ GapFree(q)'
      <3>1. ReaderOK(q) /\ GapFree(q)
        BY DEF IInv, ReaderInv
      <3>2. /\ rpc'[q] = rpc[q] /\ cur'[q] = cur[q] /\ from'[q] = from[q]
            /\ rows'[q] = rows[q] /\ seen'[q] = seen[q] /\ stream' = stream
        BY <1>0, <2>1 DEF Alone
      <3> QED
        BY <3>1, <3>2 DEF ReaderOK, GapFree, LastSeen, Open, Streaming
    <2> QED
      BY <2>1 DEF ReaderInv
  <1>4. GateExact'
    <2> DEFINE O == {q \in Readers : Open(q)}
               N == {q \in Readers : Open(q)'}
    <2>1. IsFiniteSet(O) /\ gate = Cardinality(O) /\ gate \in Nat
      BY <1>0, OpenCounted, StreamAssumption DEF TypeOK
    <2>2. \A q \in Readers \ {r} : Open(q)' <=> Open(q)
      BY DEF Alone, Open, Streaming
    <2>3. gate' = Cardinality(N)
      <3>1. CASE Open(r)'
        <4>1. N = O \cup {r}
          BY <2>2, <3>1
        <4> QED
          BY <2>1, <3>1, <4>1, FS_AddElement
      <3>2. CASE ~Open(r)'
        <4>1. N = O \ {r}
          BY <2>2, <3>2
        <4> QED
          BY <2>1, <3>2, <4>1, FS_RemoveElement
      <3> QED
        BY <3>1, <3>2
    <2> QED
      BY <2>3 DEF GateExact, Open, Streaming
  <1> QED
    BY <1>1, <1>2, <1>3, <1>4 DEF IInv

\* What the reader steps start from.
LEMMA ReaderFacts ==
    ASSUME IInv
    PROVE  /\ TypeOK /\ SseType /\ StreamInv /\ GateExact
           /\ errors \in 0 .. MaxErrors /\ top \in Nat
           /\ \A r \in Readers : ReaderOK(r) /\ GapFree(r)
  BY DEF IInv, TypeOK, SseType, ReaderInv

\* XREAD finds the entries after an id as a suffix of the stream.
LEMMA UpToSplits ==
    ASSUME TypeOK, StreamInv, NEW id \in 0 .. top
    PROVE  /\ UpTo(id) \in 0 .. Len(stream)
           /\ \A k \in DOMAIN stream : k <= UpTo(id) <=> stream[k].id <= id
  <1> DEFINE b == top - Len(stream)
             n == IF id <= b THEN 0 ELSE id - b
  <1>0. top \in Nat /\ Len(stream) \in Nat /\ DOMAIN stream = 1 .. Len(stream)
    BY KnownEntries DEF TypeOK
  <1>1. n \in 0 .. Len(stream)
    BY <1>0
  <1>2. ASSUME NEW k \in DOMAIN stream PROVE k <= n <=> stream[k].id <= id
    <2>1. stream[k].id = b + k /\ k \in 1 .. Len(stream)
      BY <1>0 DEF StreamInv
    <2> QED
      BY <1>0, <2>1
  <1>3. \E m \in 0 .. Len(stream) : \A k \in DOMAIN stream : k <= m <=> stream[k].id <= id
    BY <1>1, <1>2
  <1> QED
    BY <1>3 DEF UpTo

\* A response that ends gives its slot back and forgets its cursor.
LEMMA CloseKeeps ==
    ASSUME IInv, NEW r \in Readers, Forget(r),
           IF Open(r) THEN Release ELSE UNCHANGED gate,
           UNCHANGED <<jobVars, pub, streamVars, conns, crashes>>, errors' \in 0 .. MaxErrors,
           seen' \in [Readers -> Seq(1 .. top)], \A q \in Readers \ {r} : seen'[q] = seen[q],
           GapFree(r)'
    PROVE  IInv'
  <1>0. TypeOK /\ SseType /\ GateExact /\ top \in Nat /\ top' = top
    BY ReaderFacts DEF streamVars
  <1>1. /\ rpc' = [rpc EXCEPT ![r] = "idle"] /\ snap' = [snap EXCEPT ![r] = NoJob]
        /\ cur' = [cur EXCEPT ![r] = 0] /\ from' = [from EXCEPT ![r] = 0]
        /\ rows' = [rows EXCEPT ![r] = <<>>]
    BY DEF Forget
  <1>2. NoJob \in Jobs /\ <<>> \in Seq(Entries) /\ Entries' = Entries
    BY <1>0, StreamAssumption, EmptySeq DEF NoJob, Jobs, Statuses, Entries
  <1>3. gate' \in 0 .. Limit /\ gate' = IF Open(r) THEN gate - 1 ELSE gate
    BY <1>0, OpenCounted, StreamAssumption DEF Release, SseType
  <1>4. SseType'
    <2>1. /\ rpc' \in [Readers -> {"idle", "meta", "open", "loop", "block", "rows"}]
          /\ snap' \in [Readers -> Jobs]
          /\ cur' \in [Readers -> 0 .. top] /\ from' \in [Readers -> 0 .. top]
          /\ rows' \in [Readers -> Seq(Entries)]
      BY <1>0, <1>1, <1>2 DEF SseType
    <2>2. \A q \in Readers : rpc'[q] = "rows" => rows'[q] # <<>>
      BY <1>0, <1>1 DEF SseType
    <2> QED
      BY <1>0, <1>2, <1>3, <2>1, <2>2 DEF SseType
  <1>5. Alone(r) /\ rpc'[r] = "idle"
    BY <1>0, <1>1 DEF Alone, SseType
  <1>6. ~Open(r)' /\ ReaderOK(r)'
    BY <1>5 DEF Open, Streaming, ReaderOK
  <1> QED
    BY <1>3, <1>4, <1>5, <1>6, ReaderStep

\* job_events reads meta.json.
LEMMA ConnectKeeps ==
    ASSUME IInv, NEW r \in Readers, Connect(r)
    PROVE  IInv'
  <1>0. /\ TypeOK /\ SseType /\ GateExact /\ errors \in 0 .. MaxErrors
        /\ ReaderOK(r) /\ GapFree(r) /\ meta \in Jobs
    BY ReaderFacts DEF TypeOK
  <1>1. UNCHANGED <<gate, cur, from, rows, seen, stream, top>>
    BY DEF Connect, streamVars
  <1>2. SseType'
    <2>1. /\ conns' = [conns EXCEPT ![r] = @ + 1] /\ conns[r] < MaxReconnects
          /\ rpc' = [rpc EXCEPT ![r] = "meta"] /\ snap' = [snap EXCEPT ![r] = meta]
      BY DEF Connect
    <2>2. conns' \in [Readers -> 0 .. MaxReconnects]
      BY <1>0, <2>1, StreamAssumption DEF SseType
    <2>3. /\ rpc' \in [Readers -> {"idle", "meta", "open", "loop", "block", "rows"}]
          /\ snap' \in [Readers -> Jobs]
      BY <1>0, <2>1 DEF SseType
    <2>4. \A q \in Readers : rpc'[q] = "rows" => rows'[q] # <<>>
      BY <1>0, <1>1, <2>1 DEF SseType
    <2> QED
      BY <1>0, <1>1, <2>2, <2>3, <2>4 DEF SseType, Entries
  <1>3. Alone(r) /\ rpc'[r] = "meta"
    BY <1>0, <1>1 DEF Alone, SseType, Connect
  <1>4. ~Open(r) /\ ~Open(r)' /\ ReaderOK(r)' /\ GapFree(r)'
    BY <1>0, <1>1, <1>3 DEF Open, Streaming, ReaderOK, GapFree, Connect
  <1> QED
    BY <1>0, <1>1, <1>2, <1>3, <1>4, ReaderStep DEF Connect, faults

\* 503, before the gate.
LEMMA RefuseKeeps ==
    ASSUME IInv, NEW r \in Readers, Refuse(r)
    PROVE  IInv'
  <1>0. SseType /\ errors \in 0 .. MaxErrors /\ GapFree(r)
    BY ReaderFacts
  <1>1. /\ Forget(r) /\ ~Open(r)
        /\ UNCHANGED <<jobVars, pub, streamVars, gate, seen, conns>>
    BY DEF Refuse, Open, Streaming
  <1>2. UNCHANGED crashes /\ errors' \in 0 .. MaxErrors
    BY <1>0, StreamAssumption DEF Refuse, RedisError, faults
  <1>3. GapFree(r)' /\ seen' \in [Readers -> Seq(1 .. top)]
    BY <1>0, <1>1 DEF GapFree, streamVars, SseType
  <1> QED
    BY <1>1, <1>2, <1>3, CloseKeeps

\* The gate lets a client in, who resumes or starts over.
LEMMA AdmitKeeps ==
    ASSUME IInv, NEW r \in Readers, Admit(r)
    PROVE  IInv'
  <1>0. /\ TypeOK /\ SseType /\ GateExact /\ errors \in 0 .. MaxErrors /\ top \in Nat
        /\ ReaderOK(r) /\ GapFree(r)
    BY ReaderFacts
  <1>1. /\ UNCHANGED <<snap, from, rows, conns, stream, top, jobVars, pub, streamVars, faults>>
        /\ rpc' = [rpc EXCEPT ![r] = "open"] /\ gate' = gate + 1 /\ gate < Limit
    BY DEF Admit, streamVars, HasRoom
  <1>2. ASSUME NEW c \in 0 .. top, cur' = [cur EXCEPT ![r] = c], c = LastSeen(r)',
               NEW h \in Seq(1 .. top), seen' = [seen EXCEPT ![r] = h], GapFree(r)'
        PROVE  IInv'
    <2>1. SseType'
      <3>1. /\ cur' \in [Readers -> 0 .. top] /\ seen' \in [Readers -> Seq(1 .. top)]
            /\ rpc' \in [Readers -> {"idle", "meta", "open", "loop", "block", "rows"}]
        BY <1>0, <1>1, <1>2 DEF SseType
      <3>2. gate' \in 0 .. Limit
        BY <1>0, <1>1, StreamAssumption DEF SseType
      <3>3. \A q \in Readers : rpc'[q] = "rows" => rows'[q] # <<>>
        BY <1>0, <1>1 DEF SseType
      <3> QED
        BY <1>0, <1>1, <3>1, <3>2, <3>3 DEF SseType, Entries
    <2>2. Alone(r) /\ rpc'[r] = "open" /\ cur'[r] = c
      BY <1>0, <1>1, <1>2 DEF Alone, SseType
    <2>3. ~Open(r) /\ Open(r)' /\ ReaderOK(r)'
      BY <2>2, <1>2 DEF Open, Streaming, ReaderOK, Admit
    <2> QED
      BY <1>0, <1>1, <1>2, <2>1, <2>2, <2>3, ReaderStep DEF faults
  <1>3. CASE seen[r] # <<>> /\ cur' = [cur EXCEPT ![r] = seen[r][Len(seen[r])]] /\ UNCHANGED seen
    <2>1. seen[r][Len(seen[r])] \in 0 .. top /\ seen[r] \in Seq(1 .. top)
      BY <1>0, <1>3, KnownIds DEF SseType
    <2>2. GapFree(r)' /\ LastSeen(r)' = seen[r][Len(seen[r])]
      BY <1>0, <1>1, <1>3 DEF GapFree, LastSeen
    <2>3. seen' = [seen EXCEPT ![r] = seen[r]]
      BY <1>0, <1>3 DEF SseType
    <2> QED
      BY <1>2, <1>3, <2>1, <2>2, <2>3
  <1>4. CASE cur' = [cur EXCEPT ![r] = 0] /\ seen' = [seen EXCEPT ![r] = <<>>]
    <2>1. <<>> \in Seq(1 .. top) /\ 0 \in 0 .. top /\ seen'[r] = <<>> /\ DOMAIN seen'[r] = {}
      BY <1>0, <1>4, EmptySeq DEF SseType
    <2>2. GapFree(r)' /\ LastSeen(r)' = 0
      BY <2>1 DEF GapFree, LastSeen
    <2> QED
      BY <1>2, <1>4, <2>1, <2>2
  <1> QED
    BY <1>3, <1>4 DEF Admit

\* A step that leaves the gate, the cursor and what the client has seen.
LEMMA QuietReader ==
    ASSUME IInv, NEW r \in Readers, Open(r),
           UNCHANGED <<jobVars, pub, streamVars, crashes, gate, snap, cur, seen, conns>>,
           errors' \in 0 .. MaxErrors,
           NEW c \in {"loop", "block", "rows"}, rpc' = [rpc EXCEPT ![r] = c],
           NEW f \in 0 .. top, from' = [from EXCEPT ![r] = f],
           NEW w \in Seq(Entries), rows' = [rows EXCEPT ![r] = w],
           c = "rows" => w # <<>>,
           c = "block" /\ cur[r] # 0 => f = cur[r],
           c = "rows" =>
             /\ \A i \in DOMAIN w : w[i].id = w[1].id + i - 1
             /\ cur[r] # 0 =>
                  /\ cur[r] < w[1].id
                  /\ \A k \in DOMAIN stream : ~(cur[r] < stream[k].id /\ stream[k].id < w[1].id)
    PROVE  IInv'
  <1>0. TypeOK /\ SseType /\ ReaderOK(r) /\ GapFree(r) /\ UNCHANGED <<stream, top>>
    BY ReaderFacts DEF streamVars
  <1>1. /\ rpc' \in [Readers -> {"idle", "meta", "open", "loop", "block", "rows"}]
        /\ from' \in [Readers -> 0 .. top] /\ rows' \in [Readers -> Seq(Entries)]
        /\ rpc'[r] = c /\ from'[r] = f /\ rows'[r] = w
        /\ \A q \in Readers \ {r} : rpc'[q] = rpc[q] /\ from'[q] = from[q] /\ rows'[q] = rows[q]
    BY <1>0 DEF SseType
  <1>2. SseType'
    <2>1. \A q \in Readers : rpc'[q] = "rows" => rows'[q] # <<>>
      BY <1>0, <1>1 DEF SseType
    <2> QED
      BY <1>0, <1>1, <2>1 DEF SseType, Entries
  <1>3. Alone(r)
    BY <1>1 DEF Alone
  <1>4. Open(r)' /\ GapFree(r)' /\ ReaderOK(r)'
    BY <1>0, <1>1 DEF Open, Streaming, GapFree, ReaderOK, LastSeen
  <1> QED
    BY <1>2, <1>3, <1>4, ReaderStep

\* The snapshot frame: the response goes on, or ends and frees its slot.
LEMMA SnapshotKeeps ==
    ASSUME IInv, NEW r \in Readers, Snapshot(r)
    PROVE  IInv'
  <1>0. TypeOK /\ SseType /\ errors \in 0 .. MaxErrors /\ GapFree(r) /\ Open(r)
    BY ReaderFacts DEF Snapshot, Open
  <1>1. UNCHANGED <<jobVars, pub, streamVars, seen, conns, faults, crashes, errors, stream, top>>
    BY DEF Snapshot, faults, streamVars
  <1>2. CASE Close(r)
    <2>1. GapFree(r)' /\ seen' \in [Readers -> Seq(1 .. top)]
      BY <1>0, <1>1 DEF GapFree, SseType
    <2> QED
      BY <1>0, <1>1, <1>2, <2>1, CloseKeeps DEF Close
  <1>3. CASE rpc' = [rpc EXCEPT ![r] = "loop"] /\ UNCHANGED <<gate, snap, cur, from, rows>>
    <2>1. /\ from' = [from EXCEPT ![r] = from[r]] /\ from[r] \in 0 .. top
          /\ rows' = [rows EXCEPT ![r] = rows[r]] /\ rows[r] \in Seq(Entries)
      BY <1>0, <1>3 DEF SseType
    <2> QED
      BY <1>0, <1>1, <1>3, <2>1, QuietReader
  <1> QED
    BY <1>2, <1>3 DEF Snapshot

\* XREAD begins at the cursor, or at the end of the stream.
LEMMA ReadBeginKeeps ==
    ASSUME IInv, NEW r \in Readers, ReadBegin(r)
    PROVE  IInv'
  <1>0. TypeOK /\ SseType /\ errors \in 0 .. MaxErrors /\ top \in Nat /\ Open(r)
    BY ReaderFacts DEF ReadBegin, Open, Streaming
  <1>1. UNCHANGED <<jobVars, pub, streamVars, gate, snap, cur, rows, seen, conns, crashes, errors>>
    BY DEF ReadBegin, faults
  <1> DEFINE f == IF cur[r] = 0 THEN top ELSE cur[r]
  <1>2. f \in 0 .. top /\ rows' = [rows EXCEPT ![r] = rows[r]] /\ rows[r] \in Seq(Entries)
    BY <1>0, <1>1 DEF SseType
  <1>3. rpc' = [rpc EXCEPT ![r] = "block"] /\ from' = [from EXCEPT ![r] = f]
    BY DEF ReadBegin
  <1> QED
    BY <1>0, <1>1, <1>2, <1>3, QuietReader

\* XREAD returns the first entries after the id, and skips none.
LEMMA ReadRowsKeeps ==
    ASSUME IInv, NEW r \in Readers, ReadRows(r)
    PROVE  IInv'
  <1> DEFINE id == from[r]
             n == UpTo(id)
             found == After(id)
             m == IF Len(found) > Count THEN Count ELSE Len(found)
             w == SubSeq(found, 1, m)
             z == Len(stream)
  <1>0. /\ TypeOK /\ SseType /\ StreamInv /\ errors \in 0 .. MaxErrors /\ top \in Nat /\ Open(r)
        /\ ReaderOK(r) /\ rpc[r] = "block" /\ id \in 0 .. top
    BY ReaderFacts DEF ReadRows, Open, Streaming, SseType
  <1>1. /\ UNCHANGED <<jobVars, pub, streamVars, gate, snap, cur, seen, conns, crashes, errors>>
        /\ rpc' = [rpc EXCEPT ![r] = "rows"] /\ from' = [from EXCEPT ![r] = 0]
        /\ found # <<>> /\ rows' = [rows EXCEPT ![r] = w]
    BY DEF ReadRows, faults
  <1>2. /\ n \in 0 .. z /\ z \in Nat /\ DOMAIN stream = 1 .. z
        /\ \A k \in DOMAIN stream : k <= n <=> stream[k].id <= id
        /\ \A k \in DOMAIN stream : stream[k] \in Entries /\ stream[k].id \in 1 .. top
    BY <1>0, UpToSplits, KnownEntries
  <1>3. found = SubSeq(stream, n + 1, z)
    BY DEF After
  <1> HIDE DEF n, found
  <1>4. /\ found \in Seq(Entries) /\ Len(found) = z - n
        /\ \A i \in 1 .. z - n : found[i] = stream[n + i]
    <2>1. \A i \in n + 1 .. z : stream[i] \in Entries
      BY <1>2
    <2>2. /\ SubSeq(stream, n + 1, z) \in Seq(Entries)
          /\ Len(SubSeq(stream, n + 1, z)) = IF n + 1 <= z THEN z - (n + 1) + 1 ELSE 0
          /\ \A i \in 1 .. z - (n + 1) + 1 : SubSeq(stream, n + 1, z)[i] = stream[n + 1 + i - 1]
      BY <1>2, <2>1, SubSeqProperties
    <2>3. z - (n + 1) + 1 = z - n /\ \A i \in 1 .. z - n : n + 1 + i - 1 = n + i
      BY <1>2
    <2>4. Len(found) = z - n
      <3>1. Len(found) = IF n + 1 <= z THEN z - (n + 1) + 1 ELSE 0
        BY <1>3, <2>2
      <3>2. n \in Nat /\ z \in Nat /\ n <= z
        BY <1>2
      <3> HIDE DEF z
      <3> QED
        BY <3>1, <3>2
    <2> QED
      BY <1>3, <2>2, <2>3, <2>4
  <1>5. z - n \in Nat \ {0} /\ m \in 1 .. z - n
    <2>1. Len(found) \in Nat \ {0}
      BY <1>1, <1>4, EmptySeq
    <2> QED
      BY <2>1, <1>4, StreamAssumption
  <1> HIDE DEF m
  <1>6. w \in Seq(Entries) /\ Len(w) = m /\ \A i \in 1 .. m : w[i] = found[i]
    <2>1. \A i \in 1 .. m : found[i] \in Entries
      BY <1>4, <1>5, ElementOfSeq
    <2>2. /\ SubSeq(found, 1, m) \in Seq(Entries) /\ Len(SubSeq(found, 1, m)) = m - 1 + 1
          /\ \A i \in 1 .. m - 1 + 1 : SubSeq(found, 1, m)[i] = found[1 + i - 1]
      BY <1>5, <2>1, SubSeqProperties
    <2>3. m - 1 + 1 = m /\ \A i \in 1 .. m : 1 + i - 1 = i
      BY <1>5
    <2> QED
      BY <2>2, <2>3
  <1> HIDE DEF w
  <1>7. ASSUME NEW i \in 1 .. m
        PROVE  n + i \in DOMAIN stream /\ w[i] = stream[n + i] /\ w[i].id = top - z + (n + i)
    <2>1. i \in 1 .. z - n /\ w[i] = stream[n + i]
      BY <1>4, <1>5, <1>6
    <2>2. n + i \in 1 .. z
      BY <1>2, <2>1
    <2> QED
      BY <1>0, <1>2, <2>1, <2>2 DEF StreamInv
  <1>8. /\ 1 \in 1 .. m /\ w # <<>> /\ DOMAIN w = 1 .. m
        /\ n + 1 \in DOMAIN stream /\ w[1] = stream[n + 1] /\ w[1].id = top - z + (n + 1)
    <2>1. 1 \in 1 .. m /\ w # <<>> /\ DOMAIN w = 1 .. m
      BY <1>5, <1>6, LenProperties, EmptySeq
    <2> QED
      BY <2>1, <1>7
  <1>9. \A i \in DOMAIN w : w[i].id = w[1].id + i - 1
    <2>1. ASSUME NEW i \in 1 .. m PROVE w[i].id = w[1].id + i - 1
      <3>1. w[i].id = top - z + (n + i)
        BY <1>7
      <3>2. n \in Nat /\ z \in Nat
        BY <1>2
      <3>3. i \in Nat
        BY <1>5
      <3> HIDE DEF z
      <3> QED
        BY <1>0, <1>8, <3>1, <3>2, <3>3
    <2> QED
      BY <1>8, <2>1
  <1>10. ASSUME cur[r] # 0
         PROVE  /\ cur[r] < w[1].id
                /\ \A k \in DOMAIN stream : ~(cur[r] < stream[k].id /\ stream[k].id < w[1].id)
    <2>1. id = cur[r]
      BY <1>0, <1>10 DEF ReaderOK
    <2>2. id < stream[n + 1].id
      BY <1>0, <1>2, <1>8
    <2>3. ASSUME NEW k \in DOMAIN stream, cur[r] < stream[k].id, stream[k].id < w[1].id
          PROVE  FALSE
      <3>1. k > n /\ k \in 1 .. z
        BY <1>0, <1>2, <2>1, <2>3
      <3>2. stream[k].id = top - z + k
        BY <1>0 DEF StreamInv
      <3>3. stream[k].id >= w[1].id
        BY <1>0, <1>2, <1>8, <3>1, <3>2
      <3> QED
        BY <1>2, <1>8, <2>3, <3>3
    <2> QED
      BY <1>8, <2>1, <2>2, <2>3
  <1>11. 0 \in 0 .. top
    BY <1>0
  <1>12. ASSUME NEW c \in {"loop", "block", "rows"}, c = "rows" PROVE IInv'
    <2>1. rpc' = [rpc EXCEPT ![r] = c]
      BY <1>1, <1>12
    <2>2. c = "block" /\ cur[r] # 0 => 0 = cur[r]
      BY <1>12
    <2> QED
      BY <1>0, <1>1, <1>6, <1>8, <1>9, <1>10, <1>11, <2>1, <2>2, QuietReader
  <1> QED
    BY <1>12

\* An empty read.
LEMMA ReadEmptyKeeps ==
    ASSUME IInv, NEW r \in Readers, ReadEmpty(r)
    PROVE  IInv'
  <1>0. TypeOK /\ SseType /\ errors \in 0 .. MaxErrors /\ top \in Nat /\ Open(r)
    BY ReaderFacts DEF ReadEmpty, Open, Streaming
  <1>1. UNCHANGED <<jobVars, pub, streamVars, gate, snap, cur, rows, seen, conns>>
    BY DEF ReadEmpty
  <1>2. UNCHANGED crashes /\ errors' \in 0 .. MaxErrors
    BY <1>0, StreamAssumption DEF ReadEmpty, RedisError, faults
  <1>3. /\ 0 \in 0 .. top /\ rows' = [rows EXCEPT ![r] = rows[r]] /\ rows[r] \in Seq(Entries)
        /\ rpc' = [rpc EXCEPT ![r] = "loop"] /\ from' = [from EXCEPT ![r] = 0]
    BY <1>0, <1>1 DEF SseType, ReadEmpty
  <1> QED
    BY <1>0, <1>1, <1>2, <1>3, QuietReader

\* One more frame leaves no gap: it is the first entry after the cursor that is still
\* in the stream.
LEMMA FrameGapFree ==
    ASSUME IInv, NEW r \in Readers, rpc[r] = "rows", UNCHANGED streamVars,
           seen' = [seen EXCEPT ![r] = Append(@, Head(rows[r]).id)]
    PROVE  /\ GapFree(r)' /\ seen' \in [Readers -> Seq(1 .. top)]
           /\ seen'[r] # <<>> /\ LastSeen(r)' = rows[r][1].id
           /\ \A q \in Readers \ {r} : seen'[q] = seen[q]
  <1> DEFINE id == rows[r][1].id
             old == seen[r]
             n == Len(old)
             new == seen'[r]
  <1>0. TypeOK /\ SseType /\ ReaderOK(r) /\ GapFree(r) /\ Open(r) /\ top \in Nat /\ stream' = stream
    BY ReaderFacts DEF Open, Streaming, streamVars
  <1>1. /\ id \in 1 .. top /\ n \in Nat /\ DOMAIN old = 1 .. n /\ old \in Seq(1 .. top)
        /\ \A i \in DOMAIN old : old[i] \in 1 .. top
        /\ old # <<>> => n \in DOMAIN old /\ 1 \in DOMAIN old
    BY <1>0, KnownIds DEF SseType
  <1>2. seen' = [seen EXCEPT ![r] = Append(old, id)]
    BY <1>0 DEF SseType
  <1>3. seen' \in [Readers -> Seq(1 .. top)] /\ new = Append(old, id)
    BY <1>0, <1>1, <1>2 DEF SseType
  <1>4. /\ Len(new) = n + 1 /\ new[n + 1] = id /\ DOMAIN new = 1 .. n + 1
        /\ \A i \in 1 .. n : new[i] = old[i]
    BY <1>1, <1>3, AppendProperties, LenProperties
  <1>5. cur[r] = LastSeen(r)
    BY <1>0 DEF ReaderOK
  <1>6. ASSUME old # <<>> PROVE cur[r] = old[n] /\ cur[r] # 0 /\ cur[r] < id
    <2>1. cur[r] = old[n] /\ old[n] \in 1 .. top
      BY <1>1, <1>5, <1>6 DEF LastSeen
    <2> QED
      BY <1>0, <2>1 DEF ReaderOK
  <1> HIDE DEF id, new, n
  <1>7. ASSUME NEW i \in 1 .. n PROVE old[i] < id
    <2>1. old # <<>> /\ n \in DOMAIN old
      BY <1>1, <1>7
    <2>2. old[i] <= old[n]
      <3>1. CASE i = n
        BY <1>1, <3>1
      <3>2. CASE i # n
        <4>1. i < n
          BY <1>1, <3>2
        <4>2. old[i] < old[n]
          BY <1>0, <1>1, <2>1, <4>1 DEF GapFree
        <4>3. old[i] \in Nat /\ old[n] \in Nat
          BY <1>1, <2>1
        <4> QED
          BY <4>2, <4>3
      <3> QED
        BY <3>1, <3>2
    <2>3. old[i] \in Nat /\ old[n] \in Nat /\ id \in Nat
      BY <1>1, <2>1
    <2> QED
      BY <1>6, <2>1, <2>2, <2>3
  <1>8. ASSUME NEW i \in 1 .. n + 1, NEW j \in 1 .. n + 1, i < j PROVE new[i] < new[j]
    <2>1. i \in 1 .. n /\ new[i] = old[i]
      BY <1>1, <1>4, <1>8
    <2>2. CASE j = n + 1
      BY <1>4, <1>7, <2>1, <2>2
    <2>3. CASE j # n + 1
      <3>1. j \in 1 .. n /\ new[j] = old[j]
        BY <1>1, <1>4, <2>3
      <3> QED
        BY <1>0, <1>1, <1>8, <2>1, <3>1 DEF GapFree
    <2> QED
      BY <2>2, <2>3
  <1>9. ASSUME NEW k \in DOMAIN stream, new[1] < stream[k].id, stream[k].id < new[n + 1]
        PROVE  \E i \in 1 .. n + 1 : new[i] = stream[k].id
    <2>0. stream[k].id \in Nat
      BY <1>0, KnownEntries
    <2>1. old # <<>>
      <3>1. ASSUME old = <<>> PROVE FALSE
        <4>1. n = 0
          BY <3>1, EmptySeq DEF n
        <4>2. new[1] = id /\ new[n + 1] = id /\ id \in Nat
          BY <1>1, <1>4, <4>1
        <4> QED
          BY <1>9, <2>0, <4>2
      <3> QED
        BY <3>1
    <2>2. n \in 1 .. n /\ 1 \in 1 .. n /\ new[1] = old[1] /\ old[n] \in Nat
      BY <1>1, <1>4, <2>1
    <2>3. CASE stream[k].id < old[n]
      <3>1. \E i \in DOMAIN old : old[i] = stream[k].id
        BY <1>0, <1>9, <2>1, <2>2, <2>3 DEF GapFree, n
      <3>2. 1 .. n \subseteq 1 .. n + 1
        BY <1>1
      <3> QED
        BY <1>1, <1>4, <3>1, <3>2
    <2>4. CASE stream[k].id = old[n]
      <3>1. n \in 1 .. n + 1 /\ new[n] = old[n]
        BY <1>1, <1>4, <2>2
      <3> QED
        BY <2>4, <3>1
    <2>5. CASE stream[k].id > old[n]
      <3>1. cur[r] < stream[k].id /\ stream[k].id < id /\ cur[r] # 0
        BY <1>4, <1>6, <1>9, <2>1, <2>5
      <3> QED
        BY <1>0, <3>1 DEF ReaderOK, id
    <2> QED
      BY <2>0, <2>2, <2>3, <2>4, <2>5
  <1>10. new # <<>> /\ LastSeen(r)' = id
    <2>1. new # <<>>
      BY <1>1, <1>4, EmptySeq
    <2> QED
      BY <1>4, <2>1 DEF LastSeen, new
  <1>11. GapFree(r)'
    BY <1>0, <1>4, <1>8, <1>9 DEF GapFree, new
  <1> QED
    BY <1>0, <1>2, <1>3, <1>10, <1>11 DEF id, new, SseType

\* Sending a frame keeps the invariant, whether or not it ends the response.
LEMMA DeliverKeeps ==
    ASSUME IInv, NEW r \in Readers, Deliver(r)
    PROVE  IInv'
  <1> DEFINE w == rows[r]
             id == w[1].id
  <1>0. /\ TypeOK /\ SseType /\ ReaderOK(r) /\ errors \in 0 .. MaxErrors /\ top \in Nat
        /\ rpc[r] = "rows" /\ Open(r)
    BY ReaderFacts DEF Deliver, Frame, Open, Streaming
  <1>1. /\ UNCHANGED <<jobVars, pub, streamVars, conns, crashes, errors, stream, top>>
        /\ seen' = [seen EXCEPT ![r] = Append(@, Head(rows[r]).id)]
    BY DEF Deliver, Frame, faults, streamVars
  <1>2. /\ GapFree(r)' /\ seen' \in [Readers -> Seq(1 .. top)]
        /\ seen'[r] # <<>> /\ LastSeen(r)' = id
        /\ \A q \in Readers \ {r} : seen'[q] = seen[q]
    BY <1>0, <1>1, FrameGapFree
  <1>3. CASE Close(r)
    BY <1>0, <1>1, <1>2, <1>3, CloseKeeps DEF Close
  <1>4. CASE /\ cur' = [cur EXCEPT ![r] = Head(w).id]
             /\ rows' = [rows EXCEPT ![r] = Tail(@)]
             /\ rpc' = [rpc EXCEPT ![r] = IF Len(w) = 1 THEN "loop" ELSE "rows"]
             /\ UNCHANGED <<gate, snap, from>>
    <2>1. /\ w \in Seq(Entries) /\ w # <<>> /\ id \in 1 .. top /\ DOMAIN w = 1 .. Len(w)
          /\ Len(w) \in Nat \ {0}
      BY <1>0, KnownIds, EmptySeq DEF SseType
    <2>2. /\ Head(w) = w[1] /\ Tail(w) \in Seq(Entries) /\ Len(Tail(w)) = Len(w) - 1
          /\ \A i \in 1 .. Len(w) - 1 : Tail(w)[i] = w[i + 1]
          /\ DOMAIN Tail(w) = 1 .. Len(w) - 1
      BY <2>1, HeadTailProperties, LenProperties
    <2>n. PICK n \in Nat \ {0} : n = Len(w)
      BY <2>1
    <2>3. Len(w) # 1 => Tail(w) # <<>>
      <3>1. n # 1 => Len(Tail(w)) # 0
        BY <2>2, <2>n
      <3> QED
        BY <2>n, <3>1, EmptySeq
    <2>4. /\ cur' \in [Readers -> 0 .. top] /\ rows' \in [Readers -> Seq(Entries)]
          /\ rpc' \in [Readers -> {"idle", "meta", "open", "loop", "block", "rows"}]
          /\ cur'[r] = id /\ rows'[r] = Tail(w) /\ rpc'[r] = IF Len(w) = 1 THEN "loop" ELSE "rows"
      <3>1. Head(w).id \in 0 .. top /\ rows' = [rows EXCEPT ![r] = Tail(w)]
        BY <1>0, <1>4, <2>1, <2>2 DEF SseType
      <3> QED
        BY <1>0, <1>4, <2>2, <3>1 DEF SseType
    <2>5. SseType'
      <3>1. \A q \in Readers : rpc'[q] = "rows" => rows'[q] # <<>>
        BY <1>0, <1>4, <2>3, <2>4 DEF SseType
      <3> QED
        BY <1>0, <1>1, <1>2, <1>4, <2>4, <3>1 DEF SseType, Entries
    <2>6. Alone(r)
      BY <1>0, <1>2, <1>4 DEF Alone, SseType
    <2>7. Open(r)'
      BY <2>4 DEF Open, Streaming
    <2>8. ReaderOK(r)'
      <3>1. /\ Open(r)' => cur'[r] = LastSeen(r)'
            /\ rpc'[r] # "block"
        BY <1>2, <2>4
      <3>2. ASSUME rpc'[r] = "rows"
            PROVE  /\ \A i \in DOMAIN Tail(w) : Tail(w)[i].id = Tail(w)[1].id + i - 1
                   /\ cur'[r] < Tail(w)[1].id
                   /\ \A k \in DOMAIN stream : ~(cur'[r] < stream[k].id /\ stream[k].id < Tail(w)[1].id)
        <4>1. 1 \in 1 .. Len(w) - 1 /\ 2 \in DOMAIN w
          <5>1. n # 1
            BY <2>4, <2>n, <3>2
          <5>2. 1 \in 1 .. n - 1 /\ 2 \in 1 .. n
            BY <5>1
          <5> QED
            BY <2>1, <2>n, <5>2
        <4>2. \A i \in DOMAIN w : w[i].id = id + i - 1
          BY <1>0 DEF ReaderOK
        <4>3. Tail(w)[1].id = id + 1
          <5>1. Tail(w)[1] = w[1 + 1]
            BY <2>2, <4>1
          <5>2. w[2].id = id + 2 - 1
            BY <4>1, <4>2
          <5>3. id \in Nat /\ 1 + 1 = 2
            BY <2>1
          <5> HIDE DEF id
          <5>4. id + 2 - 1 = id + 1
            BY <5>3
          <5> QED
            BY <5>1, <5>2, <5>3, <5>4
        <4>4. ASSUME NEW i \in 1 .. Len(w) - 1 PROVE Tail(w)[i].id = Tail(w)[1].id + i - 1
          <5>1. i + 1 \in DOMAIN w /\ Tail(w)[i] = w[i + 1]
            BY <2>1, <2>2
          <5>2. Tail(w)[i].id = id + (i + 1) - 1
            BY <4>2, <5>1
          <5>3. i \in Nat /\ id \in Nat
            BY <2>1
          <5> HIDE DEF id
          <5> QED
            BY <4>3, <5>2, <5>3
        <4>5. ASSUME NEW k \in DOMAIN stream PROVE ~(id < stream[k].id /\ stream[k].id < id + 1)
          <5>1. stream[k].id \in Nat /\ id \in Nat
            BY <1>0, <2>1, KnownEntries
          <5> QED
            BY <5>1
        <4>6. id < id + 1
          BY <2>1
        <4> QED
          BY <2>2, <2>4, <4>3, <4>4, <4>5, <4>6
      <3> QED
        BY <1>1, <2>4, <3>1, <3>2 DEF ReaderOK
    <2> QED
      BY <1>0, <1>1, <1>2, <1>4, <2>5, <2>6, <2>7, <2>8, ReaderStep
  <1> QED
    BY <1>3, <1>4 DEF Deliver, Frame

\* A client that goes away.
LEMMA DisconnectKeeps ==
    ASSUME IInv, NEW r \in Readers, Disconnect(r)
    PROVE  IInv'
  <1>0. SseType /\ errors \in 0 .. MaxErrors /\ GapFree(r) /\ Open(r)
    BY ReaderFacts DEF Disconnect, Open
  <1>1. UNCHANGED <<jobVars, pub, streamVars, seen, conns, crashes, errors>> /\ Forget(r) /\ Release
    BY DEF Disconnect, faults, Close
  <1>2. GapFree(r)' /\ seen' \in [Readers -> Seq(1 .. top)]
    BY <1>0, <1>1 DEF GapFree, SseType, streamVars
  <1> QED
    BY <1>0, <1>1, <1>2, CloseKeeps

(***************************************************************************)
(* The theorems.                                                           *)
(***************************************************************************)

\* Nothing has been posted, sent or read.
LEMMA InitInv == Init => IInv
  <1> SUFFICES ASSUME Init PROVE IInv
    OBVIOUS
  <1>0. \A S : <<>> \in Seq(S)
    BY EmptySeq
  <1>1. NoJob \in Jobs
    BY StreamAssumption DEF NoJob, Jobs, Statuses
  <1>2. \A S : [p \in Procs |-> NewPublisher] \in [Procs -> Publishers(S)]
    BY FreshIn
  <1>3. TypeOK
    <2>1. /\ meta \in Jobs /\ job \in {"none", "queued", "run", "over", "retry", "lost"}
          /\ post \in BOOLEAN /\ open \in 0 .. Stages /\ cpc \in {"none", "run", "export", "stamp", "exit"}
          /\ crashes \in 0 .. MaxCrashes /\ errors \in 0 .. MaxErrors
          /\ top \in Nat /\ ttl \in BOOLEAN /\ gate \in 0 .. Limit
      <3>1. meta \in Jobs /\ post \in BOOLEAN /\ ttl \in BOOLEAN
        BY <1>1 DEF Init
      <3>2. /\ open \in 0 .. Stages /\ crashes \in 0 .. MaxCrashes /\ errors \in 0 .. MaxErrors
            /\ top \in Nat /\ gate \in 0 .. Limit
        BY StreamAssumption DEF Init
      <3> QED
        BY <3>1, <3>2 DEF Init
    <2>2. pub \in [Procs -> Publishers(Events)] /\ stream \in Seq(Entries)
      BY <1>0, <1>2 DEF Init
    <2>3. /\ rpc \in [Readers -> {"idle", "meta", "open", "loop", "block", "rows"}]
          /\ snap \in [Readers -> Jobs] /\ \A r \in Readers : rpc[r] # "rows"
      BY <1>1 DEF Init
    <2>4. /\ cur \in [Readers -> 0 .. top] /\ from \in [Readers -> 0 .. top]
          /\ conns \in [Readers -> 0 .. MaxReconnects]
      BY StreamAssumption DEF Init
    <2>5. rows \in [Readers -> Seq(Entries)] /\ seen \in [Readers -> Seq(1 .. top)]
      BY <1>0 DEF Init
    <2> QED
      BY <2>1, <2>2, <2>3, <2>4, <2>5 DEF TypeOK
  <1>4. RunInv /\ EventInv /\ StreamInv
    BY <1>2 DEF Init, RunInv, EventInv, StreamInv
  <1>5. ReaderInv
    BY DEF Init, ReaderInv, ReaderOK, GapFree, Open, Streaming
  <1>6. GateExact
    <2>1. {r \in Readers : Streaming(r) \/ rpc[r] = "open"} = {}
      BY DEF Init, Streaming
    <2> QED
      BY <2>1, FS_EmptySet DEF Init, GateExact
  <1> QED
    BY <1>3, <1>4, <1>5, <1>6 DEF IInv

\* Every step keeps the invariant.
LEMMA NextInv == IInv /\ [Next]_vars => IInv'
  <1> SUFFICES ASSUME IInv, [Next]_vars PROVE IInv'
    OBVIOUS
  <1>1. CASE UNCHANGED vars
    <2>1. UNCHANGED <<meta, job, post, cpc, open, pub, stream, top, ttl, gate, rpc, snap, cur,
                      from, rows, seen, conns, crashes, errors>>
      BY <1>1 DEF vars, jobVars, streamVars, sseVars, faults
    <2>2. TypeOK'
      BY <2>1 DEF IInv, TypeOK, Entries
    <2>3. RunInv' /\ EventInv' /\ StreamInv'
      BY <2>1 DEF IInv, RunInv, EventInv, Sound, Recorded, StreamInv
    <2>4. ReaderInv' /\ GateExact'
      BY <2>1 DEF IInv, ReaderInv, ReaderOK, GapFree, LastSeen, Open, Streaming, GateExact
    <2> QED
      BY <2>2, <2>3, <2>4 DEF IInv
  <1>2. CASE Next
    BY <1>2, RunKeeps, SendKeeps, ExpireKeeps, ConnectKeeps, RefuseKeeps, AdmitKeeps,
       SnapshotKeeps, ReadBeginKeeps, ReadRowsKeeps, ReadEmptyKeeps, DeliverKeeps,
       DisconnectKeeps DEF Next, Sse
  <1> QED
    BY <1>1, <1>2

\* The invariant holds of every behaviour.
LEMMA Invariant == Spec => []IInv
  BY InitInv, NextInv, PTL DEF Spec

\* Every variable keeps its type, for any number of clients and any length of the
\* stream: no cursor and no frame is ahead of it, and the gate stays within its limit.
THEOREM TypeCorrect == Spec => []TypeOK
  <1>1. IInv => TypeOK
    BY DEF IInv
  <1> QED
    BY <1>1, Invariant, PTL

\* _StreamGate counts exactly the responses that are open: no way a response can end
\* leaks its slot or frees one twice.
THEOREM GateAlwaysExact == Spec => []GateExact
  <1>1. IInv => GateExact
    BY DEF IInv
  <1> QED
    BY <1>1, Invariant, PTL

\* A success in the stream has been stored in meta.json, or a newer generation has
\* replaced it: _run_loaded writes meta.json before it emits.
THEOREM SuccessAlwaysRecorded == Spec => []SuccessIsRecorded
  <1>1. IInv => SuccessIsRecorded
    BY DEF IInv, EventInv, Recorded, SuccessIsRecorded
  <1> QED
    BY <1>1, Invariant, PTL

\* A client that reconnects with Last-Event-ID receives every entry once and in order,
\* and skips none that is still in the stream.
THEOREM NeverAGap == Spec => []NoGap
  <1>1. IInv => NoGap
    BY DEF IInv, ReaderInv, GapFree, NoGap
  <1> QED
    BY <1>1, Invariant, PTL

====
